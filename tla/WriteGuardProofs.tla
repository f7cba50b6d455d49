-------------------------- MODULE WriteGuardProofs --------------------------
(***************************************************************************)
(* Proofs about the write guard, for any keys, runs, calls and bounds.     *)
(***************************************************************************)
EXTENDS WriteGuard, TLAPS

\* What a failed attempt does to its run keeps the types.
LEMMA AttemptFailedType ==
  ASSUME TypeOK, NEW r \in Run, NEW f \in BOOLEAN, AttemptFailed(r, f)
  PROVE  /\ phase' \in [Run -> Phase]
         /\ attempt' \in [Run -> 0..(MaxAttempts - 1)]
         /\ cur' \in [Run -> Call \cup {None}]
         /\ alarmed' \subseteq Run
<1>1. attempt[r] + 1 < MaxAttempts => attempt[r] + 1 \in 0..(MaxAttempts - 1)
  BY ConstantsAssumption DEF TypeOK
<1> QED BY <1>1 DEF AttemptFailed, TypeOK, Phase

\* A call that ends, whatever the reason, keeps the types.
LEMMA FinishType ==
  ASSUME TypeOK, NEW c \in Call, Finish(c)
  PROVE  /\ pc' \in [Call -> Pc]
         /\ job' \in [Call -> Job]
         /\ gen' \in [Call -> Gen \cup {0}]
         /\ err' \in [Call -> Err]
<1>1. job[c].run \in Run
  BY DEF TypeOK, Job
<1> QED BY <1>1 DEF Finish, TypeOK, Pc, Job, Op, Err

\* A step of a run, of an operator or of Temporal's scheduling keeps the types.
LEMMA RunStepType ==
  ASSUME TypeOK, NEW r \in Run, RunStep(r) \/ Retry(r)
  PROVE  TypeOK'
<1> USE DEF targetVars, callVars, runVars, TypeOK
<1>1. CASE PrepareDuplicate(r)
  BY <1>1 DEF PrepareDuplicate, Phase
<1>2. CASE PrepareOk(r)
  BY <1>2 DEF PrepareOk, Phase
<1>3. CASE PrepareFails(r)
  BY <1>3 DEF PrepareFails, Phase
<1>4. CASE LaterStepsSucceed(r)
  BY <1>4 DEF LaterStepsSucceed, Phase
<1>5. CASE LaterStepFails(r)
  <2>1. phase' \in [Run -> Phase] /\ doc' \in [Run -> Gen \cup {0}]
    BY <1>5 DEF LaterStepFails, Phase
  <2>2. attempt' \in [Run -> 0..(MaxAttempts - 1)]
    BY <1>5, ConstantsAssumption DEF LaterStepFails
  <2> QED BY <1>5, <2>1, <2>2 DEF LaterStepFails
<1>6. CASE \E c \in Call : StartCall(r, c)
  BY <1>6 DEF StartCall, Pc, Job, Op
<1>7. CASE Retry(r)
  BY <1>7, ConstantsAssumption DEF Retry, Phase
<1> QED BY <1>1, <1>2, <1>3, <1>4, <1>5, <1>6, <1>7 DEF RunStep

\* Every step of a guard call keeps the types.
LEMMA CallStepType ==
  ASSUME TypeOK, NEW c \in Call, CallStep(c) \/ Crash(c) \/ AttemptTimesOut(c)
  PROVE  TypeOK'
<1> USE DEF targetVars, callVars, runVars, TypeOK
<1>0. job[c] \in Job /\ job[c].run \in Run
  BY DEF Job
<1>1. CASE Generation(c)
  BY <1>1 DEF Generation, Pc
<1>2. CASE GenerationFails(c)
  BY <1>2 DEF GenerationFails, Answer, Leave, Pc, Err
<1>3. CASE Begin(c)
  BY <1>3 DEF Begin, Goto, Answer, Leave, Pc, Err, Status
<1>4. CASE BeginDuplicate(c)
  BY <1>4 DEF BeginDuplicate, Answer, Leave, Pc, Err
<1>5. CASE BeginFails(c)
  BY <1>5 DEF BeginFails, Answer, Leave, Pc, Err
<1>6. CASE Decide(c)
  BY <1>6 DEF Decide, Goto, FailAndAbort, Leave, Pc, Err
<1>7. CASE Send(c)
  BY <1>7, <1>0 DEF Send, TargetEffect, Goto, Pc
<1>8. CASE SendFails(c)
  BY <1>8, <1>0 DEF SendFails, TargetEffect, FailAndAbort, Leave, Pc, Err
<1>9. CASE RecordCommitted(c)
  BY <1>9 DEF RecordCommitted, Goto, FailAndAbort, Leave, Pc, Err
<1>10. CASE Complete(c)
  BY <1>10 DEF Complete, Goto, Pc, Status
<1>11. CASE CompleteFails(c)
  BY <1>11 DEF CompleteFails, Leave, Pc, Err, Status
<1>12. CASE Confirm(c)
  BY <1>12 DEF Confirm, Answer, Leave, Pc, Err
<1>13. CASE Abort(c)
  BY <1>13 DEF Abort, AbortRow, Goto, Pc, Status
<1>14. CASE Reply(c)
  <2>1. Finish(c) /\ UNCHANGED <<store, targetVars>>
    BY <1>14 DEF Reply
  <2>2. CASE cur[job[c].run] # c
    <3>1. UNCHANGED runVars
      BY <1>14, <2>2 DEF Reply
    <3> QED BY <2>1, <3>1, FinishType
  <2>3. CASE cur[job[c].run] = c /\ err[c] # "none"
    <3>1. AttemptFailed(job[c].run, err[c] = "final") /\ UNCHANGED <<doc, retries>>
      BY <1>14, <2>3 DEF Reply
    <3> QED BY <1>0, <2>1, <3>1, FinishType, AttemptFailedType
  <2>4. CASE cur[job[c].run] = c /\ err[c] = "none"
    <3>1. /\ phase' \in [Run -> Phase]
          /\ doc' \in [Run -> Gen \cup {0}]
          /\ cur' \in [Run -> Call \cup {None}]
          /\ UNCHANGED <<attempt, retries, alarmed>>
      BY <1>14, <1>0, <2>4 DEF Reply, Phase, Job, Op
    <3> QED BY <2>1, <3>1, FinishType
  <2> QED BY <2>2, <2>3, <2>4
<1>15. CASE Crash(c)
  <2>1. Finish(c) /\ UNCHANGED <<store, targetVars, doc, retries>>
    BY <1>15 DEF Crash
  <2>2. CASE cur[job[c].run] = c
    <3>1. AttemptFailed(job[c].run, FALSE)
      BY <1>15, <2>2 DEF Crash
    <3> QED BY <1>0, <2>1, <3>1, FinishType, AttemptFailedType
  <2>3. CASE cur[job[c].run] # c
    <3>1. UNCHANGED <<phase, attempt, cur, alarmed>>
      BY <1>15, <2>3 DEF Crash
    <3> QED BY <2>1, <3>1, FinishType
  <2> QED BY <2>2, <2>3
<1>16. CASE AttemptTimesOut(c)
  BY <1>16, <1>0, AttemptFailedType DEF AttemptTimesOut
<1> QED
  BY <1>1, <1>2, <1>3, <1>4, <1>5, <1>6, <1>7, <1>8, <1>9, <1>10, <1>11,
     <1>12, <1>13, <1>14, <1>15, <1>16 DEF CallStep

\* Every variable starts with its type.
LEMMA InitType == Init => TypeOK
<1> SUFFICES ASSUME Init PROVE TypeOK
  OBVIOUS
<1>1. 0 \in 0..(MaxAttempts - 1) /\ 0 \in 0..MaxRetries
  BY ConstantsAssumption
<1> QED
  BY <1>1 DEF Init, TypeOK, Status, Pc, Job, Op, Err, Phase

\* Every step of a run or of a guard call keeps the types: generations stay
\* within maxGenerations, attempts within activityRetry.MaximumAttempts.
LEMMA NextType == TypeOK /\ [Next]_vars => TypeOK'
<1> SUFFICES ASSUME TypeOK, [Next]_vars PROVE TypeOK'
  OBVIOUS
<1>1. CASE \E r \in Run : RunStep(r) \/ Retry(r)
  BY <1>1, RunStepType
<1>2. CASE \E c \in Call : CallStep(c) \/ Crash(c) \/ AttemptTimesOut(c)
  BY <1>2, CallStepType
<1>3. CASE \E s \in Slot : LeaseExpires(s)
  BY <1>3 DEF LeaseExpires, TypeOK, Status, targetVars, callVars, runVars
<1>4. CASE UNCHANGED vars
  BY <1>4 DEF vars, TypeOK, targetVars, callVars, runVars
<1> QED BY <1>1, <1>2, <1>3, <1>4 DEF Next

\* The store's rows, the target's documents, the calls and the runs keep
\* their types in every behaviour of the guard.
THEOREM TypeCorrect == Spec => []TypeOK
  BY InitType, NextType, PTL DEF Spec

-----------------------------------------------------------------------------
(***************************************************************************)
(* The claim is a lock.  SingleSender alone is not inductive: a Begin could *)
(* take a slot from the call that works on it unless that slot's row still *)
(* says so, which Owned states.  Aborting (pc "abort") may find the row    *)
(* done, after a Complete that reported an error.                          *)
(***************************************************************************)
Owned ==
  \A c \in Call :
    pc[c] \in Claimed => /\ SlotOf(c) \in Slot
                         /\ store[SlotOf(c)] \in {"inflight", "done"}

Known == \A c \in Call : pc[c] \in {"begin", "confirm"} => gen[c] \in Gen

Exclusion ==
  \A c, d \in Call :
    pc[c] \in Claimed /\ pc[d] \in Claimed /\ SlotOf(c) = SlotOf(d) => c = d

LockInv == Owned /\ Known /\ Exclusion

\* A call that knows its generation works on a row of the store.
LEMMA SlotType ==
  ASSUME TypeOK, NEW c \in Call, gen[c] \in Gen
  PROVE  SlotOf(c) \in Slot
  BY ConstantsAssumption DEF TypeOK, SlotOf, KeyOf, Slot, Job

\* A step of one call that leaves the store alone, and holds a claim after it
\* only on the slot it held before.
LEMMA QuietStepLock ==
  ASSUME TypeOK, LockInv, NEW c \in Call, NEW p \in Pc,
         store' = store, pc' = [pc EXCEPT ![c] = p],
         \A d \in Call : d # c => job'[d] = job[d] /\ gen'[d] = gen[d],
         p \in Claimed =>
           pc[c] \in Claimed /\ job'[c] = job[c] /\ gen'[c] = gen[c],
         p = "confirm" => gen'[c] \in Gen,
         p = "begin" => gen'[c] \in Gen
  PROVE  LockInv'
<1>1. \A d \in Call : pc'[d] \in Claimed =>
        pc[d] \in Claimed /\ SlotOf(d)' = SlotOf(d)
  BY DEF TypeOK, SlotOf, KeyOf
<1>2. Owned'
  BY <1>1 DEF LockInv, Owned
<1>3. Known'
  BY DEF LockInv, Known, TypeOK
<1>4. Exclusion'
  BY <1>1 DEF LockInv, Exclusion
<1> QED BY <1>2, <1>3, <1>4 DEF LockInv

\* No call holds a claim initially.
LEMMA InitLock == Init => LockInv
  BY DEF Init, LockInv, Owned, Known, Exclusion, Claimed

\* A step of one call claims, completes or aborts its own row only.
LEMMA CallStepLock ==
  ASSUME TypeOK, LockInv, NEW c \in Call,
         CallStep(c) \/ Crash(c) \/ AttemptTimesOut(c)
  PROVE  LockInv'
<1> USE DEF targetVars, callVars, runVars
<1>1. CASE Generation(c)
  <2>1. PICK g \in Gen : gen' = [gen EXCEPT ![c] = g]
    BY <1>1 DEF Generation
  <2>2. store' = store /\ job' = job /\ pc' = [pc EXCEPT ![c] = "begin"]
    BY <1>1 DEF Generation
  <2> QED BY <2>1, <2>2, QuietStepLock DEF TypeOK, Pc, Claimed
<1>2. CASE GenerationFails(c) \/ BeginDuplicate(c) \/ BeginFails(c) \/ Confirm(c)
  <2>1. /\ store' = store /\ pc' = [pc EXCEPT ![c] = "reply"]
        /\ job' = job /\ gen' = gen
    BY <1>2 DEF GenerationFails, BeginDuplicate, BeginFails, Confirm, Answer, Leave
  <2> QED BY <2>1, QuietStepLock DEF Pc, Claimed
<1>3. CASE Begin(c)
  <2>1. gen[c] \in Gen /\ SlotOf(c) \in Slot
    BY <1>3, SlotType DEF Begin, LockInv, Known
  <2>2. /\ store[SlotOf(c)] \in {"free", "stale"}
        /\ store' = [store EXCEPT ![SlotOf(c)] = "inflight"]
        /\ job' = job /\ gen' = gen
        /\ pc' = [pc EXCEPT ![c] = "decide"] \/ pc' = [pc EXCEPT ![c] = "send"]
             \/ pc' = [pc EXCEPT ![c] = "reply"]
    BY <1>3 DEF Begin, Goto, Answer, Leave
  <2>3. \A d \in Call : SlotOf(d)' = SlotOf(d)
    BY <2>2 DEF SlotOf, KeyOf
  <2>4. \A d \in Call : d # c => pc'[d] = pc[d]
    BY <2>2 DEF TypeOK
  <2>5. \A d \in Call : d # c /\ pc[d] \in Claimed => SlotOf(d) # SlotOf(c)
    BY <2>2 DEF LockInv, Owned
  <2>6. Owned'
    BY <2>1, <2>2, <2>3, <2>4, <2>5 DEF LockInv, Owned, TypeOK
  <2>7. Known'
    BY <2>2 DEF LockInv, Known, TypeOK
  <2>8. Exclusion'
    BY <2>3, <2>4, <2>5 DEF LockInv, Exclusion
  <2> QED BY <2>6, <2>7, <2>8 DEF LockInv
<1>4. CASE Decide(c) \/ RecordCommitted(c) \/ Send(c) \/ SendFails(c)
  <2>1. /\ store' = store /\ job' = job /\ gen' = gen /\ pc[c] \in Claimed
        /\ \E p \in Claimed : pc' = [pc EXCEPT ![c] = p]
    BY <1>4 DEF Decide, RecordCommitted, Send, SendFails, Goto, FailAndAbort,
                Leave, Claimed
  <2> QED BY <2>1, QuietStepLock DEF Pc, Claimed
<1>5. CASE Complete(c) \/ CompleteFails(c)
  <2>1. /\ job' = job /\ gen' = gen /\ pc[c] = "complete"
        /\ store' = store \/ store' = [store EXCEPT ![SlotOf(c)] = "done"]
        /\ \E p \in {"confirm", "reply", "abort"} : pc' = [pc EXCEPT ![c] = p]
    BY <1>5 DEF Complete, CompleteFails, Goto, Leave
  <2>2. \A d \in Call : SlotOf(d)' = SlotOf(d) /\ (d # c => pc'[d] = pc[d])
    BY <2>1 DEF SlotOf, KeyOf, TypeOK
  <2>3. pc[c] \in Claimed /\ SlotOf(c) \in Slot
    BY <2>1 DEF LockInv, Owned, Claimed
  <2>4. gen[c] \in Gen
    BY <2>3 DEF SlotOf, Slot
  <2>5. Owned'
    BY <2>1, <2>2, <2>3 DEF LockInv, Owned, TypeOK
  <2>6. Known'
    BY <2>1, <2>4 DEF LockInv, Known, TypeOK
  <2>7. Exclusion'
    BY <2>2, <2>3 DEF LockInv, Exclusion
  <2> QED BY <2>5, <2>6, <2>7 DEF LockInv
<1>6. CASE Abort(c)
  <2>1. /\ job' = job /\ gen' = gen /\ pc[c] = "abort"
        /\ pc' = [pc EXCEPT ![c] = "reply"]
        /\ store' = store \/ store' = [store EXCEPT ![SlotOf(c)] = "free"]
    BY <1>6 DEF Abort, AbortRow, Goto
  <2>2. \A d \in Call : SlotOf(d)' = SlotOf(d) /\ (d # c => pc'[d] = pc[d])
    BY <2>1 DEF SlotOf, KeyOf, TypeOK
  <2>3. pc'[c] = "reply" /\ pc'[c] \notin Claimed /\ pc[c] \in Claimed
    BY <2>1 DEF TypeOK, Claimed
  <2>4. Owned'
    BY <2>1, <2>2, <2>3 DEF LockInv, Owned, Exclusion, TypeOK
  <2>5. Known'
    BY <2>1, <2>2, <2>3 DEF LockInv, Known
  <2>6. Exclusion'
    BY <2>2, <2>3 DEF LockInv, Exclusion
  <2> QED BY <2>4, <2>5, <2>6 DEF LockInv
<1>7. CASE Reply(c) \/ Crash(c)
  <2>1. /\ store' = store /\ pc' = [pc EXCEPT ![c] = "idle"]
        /\ \A d \in Call : d # c => job'[d] = job[d] /\ gen'[d] = gen[d]
    BY <1>7 DEF Reply, Crash, Finish, TypeOK
  <2> QED BY <2>1, QuietStepLock DEF Pc, Claimed
<1>8. CASE AttemptTimesOut(c)
  <2>1. UNCHANGED <<store, pc, job, gen>>
    BY <1>8 DEF AttemptTimesOut
  <2> QED BY <2>1 DEF LockInv, Owned, Known, Exclusion, SlotOf, KeyOf
<1> QED
  BY <1>1, <1>2, <1>3, <1>4, <1>5, <1>6, <1>7, <1>8 DEF CallStep

\* The ownership of rows is inductive over all steps.
LEMMA NextLock == TypeOK /\ LockInv /\ [Next]_vars => LockInv'
<1> SUFFICES ASSUME TypeOK, LockInv, [Next]_vars PROVE LockInv'
  OBVIOUS
<1> USE DEF targetVars, callVars, runVars
<1>1. CASE \E r \in Run : RunStep(r) \/ Retry(r)
  <2> PICK r \in Run : RunStep(r) \/ Retry(r) BY <1>1
  <2>1. CASE \E c \in Call : StartCall(r, c)
    <3> PICK c \in Call : StartCall(r, c) BY <2>1
    <3>1. /\ store' = store /\ pc' = [pc EXCEPT ![c] = "generation"]
          /\ gen' = gen /\ \A d \in Call : d # c => job'[d] = job[d]
      BY DEF StartCall, TypeOK
    <3> QED BY <3>1, QuietStepLock DEF Pc, Claimed
  <2>2. CASE ~\E c \in Call : StartCall(r, c)
    <3>1. UNCHANGED <<store, pc, job, gen>>
      BY <2>2 DEF RunStep, Retry, PrepareDuplicate, PrepareOk, PrepareFails,
                  LaterStepsSucceed, LaterStepFails
    <3> QED BY <3>1 DEF LockInv, Owned, Known, Exclusion, SlotOf, KeyOf
  <2> QED BY <2>1, <2>2
<1>2. CASE \E c \in Call : CallStep(c) \/ Crash(c) \/ AttemptTimesOut(c)
  BY <1>2, CallStepLock
<1>3. CASE \E s \in Slot : LeaseExpires(s)
  <2> PICK s \in Slot : LeaseExpires(s) BY <1>3
  <2>1. /\ UNCHANGED <<pc, job, gen>>
        /\ store' = [store EXCEPT ![s] = "stale"]
        /\ \A c \in Call : pc[c] \in Claimed => SlotOf(c) # s
    BY DEF LeaseExpires
  <2>2. \A c \in Call : SlotOf(c)' = SlotOf(c)
    BY <2>1 DEF SlotOf, KeyOf
  <2>3. Owned'
    BY <2>1, <2>2 DEF LockInv, Owned, TypeOK
  <2>4. Known' /\ Exclusion'
    BY <2>1, <2>2 DEF LockInv, Known, Exclusion
  <2> QED BY <2>3, <2>4 DEF LockInv
<1>4. CASE UNCHANGED vars
  BY <1>4 DEF vars, LockInv, Owned, Known, Exclusion, SlotOf, KeyOf
<1> QED BY <1>1, <1>2, <1>3, <1>4 DEF Next

\* No two calls work on one key of the store at the same time, however many
\* runs share it and however many late attempts are still running.
THEOREM OneSenderPerKey == Spec => []SingleSender
<1>1. TypeOK /\ LockInv => SingleSender
  BY DEF LockInv, Exclusion, SingleSender, Holds
<1> QED BY <1>1, InitType, NextType, InitLock, NextLock, PTL DEF Spec

-----------------------------------------------------------------------------
(* A completed row stays, and a new generation follows completed undos. *)

\* A completed row stays completed: Begin does not take it over, Abort
\* removes only claims, leases expire only on claims.
LEMMA DoneStays ==
  ASSUME TypeOK, [Next]_vars, NEW s \in Slot, store[s] = "done"
  PROVE  store'[s] = "done"
<1> USE DEF targetVars, callVars, runVars
<1>1. CASE \E r \in Run : RunStep(r) \/ Retry(r)
  BY <1>1 DEF RunStep, Retry, PrepareDuplicate, PrepareOk, PrepareFails,
              LaterStepsSucceed, LaterStepFails, StartCall
<1>2. CASE \E c \in Call : CallStep(c) \/ Crash(c) \/ AttemptTimesOut(c)
  <2> PICK c \in Call : CallStep(c) \/ Crash(c) \/ AttemptTimesOut(c) BY <1>2
  <2>1. CASE Begin(c)
    BY <2>1 DEF Begin, TypeOK
  <2>2. CASE Complete(c) \/ CompleteFails(c)
    BY <2>2 DEF Complete, CompleteFails, TypeOK
  <2>3. CASE Abort(c)
    BY <2>3 DEF Abort, AbortRow, TypeOK
  <2>4. CASE ~(Begin(c) \/ Complete(c) \/ CompleteFails(c) \/ Abort(c))
    BY <2>4 DEF CallStep, Generation, GenerationFails, BeginDuplicate,
                BeginFails, Decide, Send, SendFails, RecordCommitted, Confirm,
                Reply, Crash, AttemptTimesOut
  <2> QED BY <2>1, <2>2, <2>3, <2>4
<1>3. CASE \E t \in Slot : LeaseExpires(t)
  BY <1>3 DEF LeaseExpires, TypeOK
<1>4. CASE UNCHANGED vars
  BY <1>4 DEF vars
<1> QED BY <1>1, <1>2, <1>3, <1>4 DEF Next

\* No step of any call, run or lease erases a completed outcome.
THEOREM OutcomesAreKept == Spec => DoneIsForever
<1>1. TypeOK /\ [Next]_vars =>
        [\A s \in Slot : store[s] = "done" => store'[s] = "done"]_vars
  BY DoneStays
<1> QED BY <1>1, InitType, NextType, PTL DEF Spec, DoneIsForever

(***************************************************************************)
(* A generation is read some steps before it is used.  What it was read    *)
(* for still holds then, because completed undos stay: every generation    *)
(* below the one a call, a payload or a run names is undone.               *)
(***************************************************************************)
Below(k, g) == \A h \in Gen : h < g => Undone(k, h)

ChainInv ==
  /\ \A c \in Call : pc[c] = "idle" => gen[c] = 0
  /\ \A c \in Call : Below(KeyOf(c), gen[c]) /\ Below(KeyOf(c), job[c].doc)
  /\ \A r \in Run : Below(RunKey[r], doc[r])

Touched(k, g) ==
  docs[<<k, g>>] # "absent" \/ \E o \in Op : store[<<k, g, o>>] # "free"

OrderInv == \A k \in Key, g \in Gen : Touched(k, g) => Below(k, g)

\* An undone generation stays undone.
LEMMA BelowStays ==
  ASSUME TypeOK, [Next]_vars, NEW k \in Key, NEW g \in Gen \cup {0}, Below(k, g)
  PROVE  Below(k, g)'
<1>1. \A h \in Gen : <<k, h, "undo">> \in Slot
  BY DEF Slot, Op
<1> QED BY <1>1, DoneStays DEF Below, Undone

\* generation() answers with a generation below which all were undone.
LEMMA IsGenerationBelow ==
  ASSUME NEW k, NEW g \in Gen, IsGeneration(k, g)
  PROVE  Below(k, g)
<1>1. CASE g = 1
  BY <1>1 DEF Below, Gen
<1>2. CASE k \in Compensable
  BY <1>2 DEF IsGeneration, Below
<1> QED BY <1>1, <1>2 DEF IsGeneration

\* Nothing has a generation initially.
LEMMA InitChain == Init => ChainInv /\ OrderInv
<1> SUFFICES ASSUME Init PROVE ChainInv /\ OrderInv
  OBVIOUS
<1>1. \A k : Below(k, 0)
  BY DEF Below, Gen
<1>2. ChainInv
  BY <1>1 DEF Init, ChainInv
<1>3. \A k \in Key, g \in Gen : ~Touched(k, g)
  BY DEF Init, Touched, Slot
<1> QED BY <1>2, <1>3 DEF OrderInv

\* Whatever a call or run takes for the current generation, the ones below
\* it were undone, and stay so.
LEMMA NextChain ==
  ASSUME TypeOK, ChainInv, [Next]_vars
  PROVE  ChainInv'
<1> USE DEF targetVars, callVars, runVars
<1>0. \A k : Below(k, 0)'
  BY DEF Below, Gen
<1>a. \A r \in Run : Below(RunKey[r], doc[r])'
      \/ doc'[r] # doc[r]
  <2> SUFFICES ASSUME NEW r \in Run, doc'[r] = doc[r]
               PROVE  Below(RunKey[r], doc[r])'
    OBVIOUS
  <2>1. RunKey[r] \in Key /\ doc[r] \in Gen \cup {0} /\ Below(RunKey[r], doc[r])
    BY ConstantsAssumption DEF TypeOK, ChainInv
  <2> QED BY <2>1, BelowStays DEF Below, Undone
<1>b. ASSUME NEW c \in Call, job'[c] = job[c]
      PROVE  /\ Below(KeyOf(c), job[c].doc)'
             /\ gen'[c] = gen[c] => Below(KeyOf(c), gen[c])'
  <2>1. /\ KeyOf(c) \in Key /\ KeyOf(c)' = KeyOf(c)
        /\ job[c].doc \in Gen \cup {0} /\ gen[c] \in Gen \cup {0}
    BY <1>b, ConstantsAssumption DEF TypeOK, Job, KeyOf
  <2>2. Below(KeyOf(c), job[c].doc) /\ Below(KeyOf(c), gen[c])
    BY DEF ChainInv
  <2>3. \A h \in Gen : h < job[c].doc => Undone(KeyOf(c), h)'
    BY <2>1, <2>2, BelowStays DEF Below, Undone
  <2>4. \A h \in Gen : h < gen[c] => Undone(KeyOf(c), h)'
    BY <2>1, <2>2, BelowStays DEF Below, Undone
  <2> QED BY <1>b, <2>1, <2>3, <2>4 DEF Below, Undone
<1>1. CASE \E r \in Run : RunStep(r) \/ Retry(r)
  <2> PICK r \in Run : RunStep(r) \/ Retry(r) BY <1>1
  <2>1. CASE \E c \in Call : StartCall(r, c)
    <3> PICK c \in Call : StartCall(r, c) BY <2>1
    <3>1. /\ UNCHANGED <<doc, gen>> /\ pc[c] = "idle" /\ pc'[c] = "generation"
          /\ \A d \in Call : d # c => job'[d] = job[d] /\ pc'[d] = pc[d]
          /\ job'[c].run = r /\ job'[c].doc = doc[r]
      BY DEF StartCall, TypeOK
    <3>2. KeyOf(c)' = RunKey[r] /\ gen'[c] = 0
      BY <3>1 DEF KeyOf, ChainInv
    <3>3. Below(KeyOf(c), gen[c])' /\ Below(KeyOf(c), job[c].doc)'
      BY <1>0, <1>a, <3>1, <3>2 DEF Below, Undone
    <3> QED BY <1>a, <1>b, <3>1, <3>3 DEF ChainInv
  <2>2. CASE PrepareDuplicate(r)
    <3>1. /\ UNCHANGED <<store, pc, job, gen>>
          /\ \A q \in Run : q # r => doc'[q] = doc[q]
          /\ doc'[r] \in Gen /\ IsGeneration(RunKey[r], doc'[r])
      BY <2>2 DEF PrepareDuplicate, TypeOK
    <3>2. Below(RunKey[r], doc[r])'
      BY <3>1, IsGenerationBelow DEF Below, Undone
    <3> QED BY <1>a, <1>b, <3>1, <3>2 DEF ChainInv
  <2>3. CASE ~PrepareDuplicate(r) /\ ~\E c \in Call : StartCall(r, c)
    <3>1. /\ UNCHANGED <<pc, job, gen>>
          /\ \A q \in Run : doc'[q] = doc[q] \/ doc'[q] = 0
      BY <2>3 DEF RunStep, Retry, PrepareOk, PrepareFails, LaterStepsSucceed,
                  LaterStepFails, TypeOK
    <3>2. \A q \in Run : Below(RunKey[q], doc[q])'
      BY <1>0, <1>a, <3>1 DEF Below, Undone
    <3> QED BY <1>b, <3>1, <3>2 DEF ChainInv
  <2> QED BY <2>1, <2>2, <2>3
<1>2. CASE \E c \in Call : CallStep(c) \/ Crash(c) \/ AttemptTimesOut(c)
  <2> PICK c \in Call : CallStep(c) \/ Crash(c) \/ AttemptTimesOut(c) BY <1>2
  <2>1. CASE Generation(c)
    <3>1. /\ UNCHANGED <<store, job, doc>> /\ pc'[c] = "begin"
          /\ \A d \in Call : d # c => pc'[d] = pc[d] /\ gen'[d] = gen[d]
          /\ gen'[c] \in Gen /\ IsGeneration(KeyOf(c), gen'[c])
      BY <2>1 DEF Generation, TypeOK
    <3>2. Below(KeyOf(c), gen[c])'
      BY <3>1, IsGenerationBelow DEF Below, Undone, KeyOf
    <3> QED BY <1>a, <1>b, <3>1, <3>2 DEF ChainInv
  <2>2. CASE Reply(c) \/ Crash(c)
    <3>0. Finish(c)
      BY <2>2 DEF Reply, Crash
    <3>1. /\ \A d \in Call : d # c => /\ pc'[d] = pc[d] /\ gen'[d] = gen[d]
                                      /\ job'[d] = job[d]
          /\ gen'[c] = 0 /\ job'[c].doc = 0
      BY <3>0 DEF Finish, TypeOK
    <3>2. PICK r \in Run, g \in Gen \cup {0} : r = job[c].run /\ g = gen[c]
      BY DEF TypeOK, Job
    <3>3. \A q \in Run : doc'[q] = doc[q] \/ (q = r /\ doc'[q] = g)
      BY <2>2, <3>2 DEF Reply, Crash, TypeOK
    <3>4. Below(RunKey[r], g) /\ RunKey[r] \in Key
      BY <3>2, ConstantsAssumption DEF ChainInv, KeyOf
    <3>5. \A h \in Gen : h < g => Undone(RunKey[r], h)'
      BY <3>4, BelowStays DEF Below, Undone
    <3>6. \A q \in Run : Below(RunKey[q], doc[q])'
      BY <1>a, <3>3, <3>5 DEF Below, Undone
    <3>7. Below(KeyOf(c), gen[c])' /\ Below(KeyOf(c), job[c].doc)'
      BY <1>0, <3>1 DEF Below, Undone
    <3> QED BY <1>b, <3>1, <3>6, <3>7 DEF ChainInv
  <2>3. CASE ~(Generation(c) \/ Reply(c) \/ Crash(c))
    <3>1. UNCHANGED <<job, gen, doc>>
      BY <2>3 DEF CallStep, GenerationFails, Begin, BeginDuplicate, BeginFails,
                  Decide, Send, SendFails, RecordCommitted, Complete,
                  CompleteFails, Confirm, Abort, AttemptTimesOut, Goto, Answer,
                  FailAndAbort, Leave
    <3>2. \A d \in Call : pc'[d] = "idle" => pc[d] = "idle"
      BY <2>3 DEF CallStep, GenerationFails, Begin, BeginDuplicate, BeginFails,
                  Decide, Send, SendFails, RecordCommitted, Complete,
                  CompleteFails, Confirm, Abort, AttemptTimesOut, Goto, Answer,
                  FailAndAbort, Leave, TypeOK
    <3> QED BY <1>a, <1>b, <3>1, <3>2 DEF ChainInv
  <2> QED BY <2>1, <2>2, <2>3
<1>3. CASE (\E s \in Slot : LeaseExpires(s)) \/ UNCHANGED vars
  <2>1. UNCHANGED <<pc, job, gen, doc>>
    BY <1>3 DEF LeaseExpires, vars
  <2> QED BY <1>a, <1>b, <2>1 DEF ChainInv
<1> QED BY <1>1, <1>2, <1>3 DEF Next

\* A row or a document appears only where some call works or points.
LEMMA NewlyTouched ==
  ASSUME TypeOK, [Next]_vars, NEW k \in Key, NEW g \in Gen, Touched(k, g)'
  PROVE  \/ Touched(k, g)
         \/ \E c \in Call : KeyOf(c) = k /\ (gen[c] = g \/ job[c].doc = g)
<1> USE DEF targetVars, callVars, runVars
<1>0. /\ \A o \in Op : <<k, g, o>> \in Slot
      /\ <<k, g>> \in Key \X Gen
  BY DEF Slot
<1>1. CASE \E c \in Call : CallStep(c)
  <2> PICK c \in Call : CallStep(c) BY <1>1
  <2>1. \A o \in Op : store'[<<k, g, o>>] = store[<<k, g, o>>]
          \/ store'[<<k, g, o>>] = "free" \/ SlotOf(c) = <<k, g, o>>
    <3>1. CASE Begin(c) \/ Complete(c) \/ CompleteFails(c) \/ Abort(c)
      BY <1>0, <3>1
      DEF Begin, Complete, CompleteFails, Abort, AbortRow, TypeOK
    <3>2. CASE ~(Begin(c) \/ Complete(c) \/ CompleteFails(c) \/ Abort(c))
      BY <3>2 DEF CallStep, Generation, GenerationFails, BeginDuplicate,
                  BeginFails, Decide, Send, SendFails, RecordCommitted,
                  Confirm, Reply
    <3> QED BY <3>1, <3>2
  <2>2. \/ docs'[<<k, g>>] = docs[<<k, g>>]
        \/ <<KeyOf(c), gen[c]>> = <<k, g>>
        \/ <<KeyOf(c), job[c].doc>> = <<k, g>>
    <3>1. CASE Send(c) \/ SendFails(c)
      <4>1. TargetEffect(c) \/ UNCHANGED docs
        BY <3>1 DEF Send, SendFails
      <4> QED BY <1>0, <4>1 DEF TargetEffect, TypeOK
    <3>2. CASE ~(Send(c) \/ SendFails(c))
      BY <3>2 DEF CallStep, Generation, GenerationFails, Begin, BeginDuplicate,
                  BeginFails, Decide, RecordCommitted, Complete, CompleteFails,
                  Confirm, Abort, Reply
    <3> QED BY <3>1, <3>2
  <2>3. \A o \in Op : SlotOf(c) = <<k, g, o>> => KeyOf(c) = k /\ gen[c] = g
    BY DEF SlotOf
  <2> QED BY <2>1, <2>2, <2>3 DEF Touched
<1>2. CASE \E s \in Slot : LeaseExpires(s)
  BY <1>0, <1>2 DEF LeaseExpires, Touched, TypeOK
<1>3. CASE ~(\E c \in Call : CallStep(c)) /\ ~(\E s \in Slot : LeaseExpires(s))
  <2>1. UNCHANGED <<store, docs>>
    BY <1>3 DEF Next, vars, RunStep, Retry, PrepareDuplicate, PrepareOk,
                PrepareFails, LaterStepsSucceed, LaterStepFails, StartCall,
                Crash, AttemptTimesOut
  <2> QED BY <2>1 DEF Touched
<1> QED BY <1>1, <1>2, <1>3

\* Rows and documents appear only in generations whose predecessors were
\* undone.
LEMMA NextOrder ==
  ASSUME TypeOK, ChainInv, OrderInv, [Next]_vars
  PROVE  OrderInv'
<1> SUFFICES ASSUME NEW k \in Key, NEW g \in Gen, Touched(k, g)'
             PROVE  Below(k, g)'
  BY DEF OrderInv
<1>1. Below(k, g)
  BY NewlyTouched DEF OrderInv, ChainInv
<1> QED BY <1>1, BelowStays

\* Nothing exists for a generation of a key, in the store or at the target,
\* before the undo of every earlier generation is recorded as committed.
THEOREM GenerationsFollowUndos == Spec => []GenerationsInOrder
<1>1. TypeOK /\ OrderInv => GenerationsInOrder
  BY DEF OrderInv, GenerationsInOrder, Touched, Below
<1>2. TypeOK /\ ChainInv /\ OrderInv /\ [Next]_vars => ChainInv' /\ OrderInv'
  BY NextChain, NextOrder
<1> QED BY <1>1, <1>2, InitType, NextType, InitChain, PTL DEF Spec

-----------------------------------------------------------------------------
(* A completed write has its document. *)

\* Between the target's answer and Complete the document exists.
Answered ==
  \A c \in Call : pc[c] \in {"audit", "complete"} /\ job[c].op = "write"
    => docs[<<KeyOf(c), gen[c]>>] # "absent"

RealInv == Answered /\ DoneIsReal

\* External: a target never forgets a document, it only marks it undone.
LEMMA DocumentsStay ==
  ASSUME TypeOK, [Next]_vars, NEW d \in Key \X Gen, docs[d] # "absent"
  PROVE  docs'[d] # "absent"
<1> USE DEF targetVars, callVars, runVars
<1>1. CASE \E c \in Call : Send(c) \/ SendFails(c)
  BY <1>1 DEF Send, SendFails, TargetEffect, TypeOK
<1>2. CASE ~\E c \in Call : Send(c) \/ SendFails(c)
  BY <1>2 DEF Next, vars, RunStep, Retry, PrepareDuplicate, PrepareOk,
              PrepareFails, LaterStepsSucceed, LaterStepFails, StartCall,
              Crash, AttemptTimesOut, LeaseExpires, CallStep, Generation,
              GenerationFails, Begin, BeginDuplicate, BeginFails, Decide,
              RecordCommitted, Complete, CompleteFails, Confirm, Abort, Reply
<1> QED BY <1>1, <1>2

\* No row is done initially.
LEMMA InitReal == Init => RealInv
  BY DEF Init, RealInv, Answered, DoneIsReal, Slot, Op

\* A row becomes done only after the target has answered its call.
LEMMA NextReal ==
  ASSUME TypeOK, LockInv, RealInv, [Next]_vars
  PROVE  RealInv'
<1> USE DEF targetVars, callVars, runVars
<1>0. ASSUME NEW c \in Call, pc[c] \in Claimed
      PROVE  /\ <<KeyOf(c), gen[c]>> \in Key \X Gen
             /\ SlotOf(c) = <<KeyOf(c), gen[c], job[c].op>>
  BY <1>0 DEF LockInv, Owned, SlotOf, Slot
<1>1. Answered'
  <2> SUFFICES ASSUME NEW c \in Call, pc'[c] \in {"audit", "complete"},
                      job'[c].op = "write"
               PROVE  docs'[<<KeyOf(c)', gen'[c]>>] # "absent"
    BY DEF Answered
  <2>1. \/ Send(c)
        \/ /\ pc[c] \in {"audit", "complete"} /\ job'[c] = job[c]
           /\ gen'[c] = gen[c]
    <3>1. CASE \E d \in Call : CallStep(d) \/ Crash(d) \/ AttemptTimesOut(d)
      <4> PICK d \in Call : CallStep(d) \/ Crash(d) \/ AttemptTimesOut(d)
        BY <3>1
      <4>1. CASE d = c
        BY <4>1 DEF TypeOK, AttemptTimesOut, CallStep, Generation,
              GenerationFails, Begin, BeginDuplicate, BeginFails, Decide,
              SendFails, RecordCommitted, Complete, CompleteFails, Confirm,
              Abort, Reply, Crash, Goto, Answer, FailAndAbort, Leave, Finish
      <4>2. CASE d # c
        BY <4>2 DEF TypeOK, AttemptTimesOut, CallStep, Generation,
              GenerationFails, Begin, BeginDuplicate, BeginFails, Decide, Send,
              SendFails, RecordCommitted, Complete, CompleteFails, Confirm,
              Abort, Reply, Crash, Goto, Answer, FailAndAbort, Leave, Finish
      <4> QED BY <4>1, <4>2
    <3>2. CASE ~\E d \in Call : CallStep(d) \/ Crash(d) \/ AttemptTimesOut(d)
      BY <3>2 DEF Next, vars, RunStep, Retry, PrepareDuplicate, PrepareOk,
              PrepareFails, LaterStepsSucceed, LaterStepFails, StartCall,
              LeaseExpires, TypeOK
    <3> QED BY <3>1, <3>2
  <2>2. CASE Send(c)
    <3>1. TargetEffect(c) /\ job' = job /\ gen' = gen /\ pc[c] \in Claimed
      BY <2>2 DEF Send, Goto, Claimed
    <3> QED BY <1>0, <3>1 DEF TargetEffect, TypeOK, KeyOf
  <2>3. CASE /\ pc[c] \in {"audit", "complete"} /\ job'[c] = job[c]
             /\ gen'[c] = gen[c]
    <3>1. docs[<<KeyOf(c), gen[c]>>] # "absent" /\ <<KeyOf(c), gen[c]>> \in Key \X Gen
      BY <1>0, <2>3 DEF RealInv, Answered, Claimed
    <3> QED BY <2>3, <3>1, DocumentsStay DEF KeyOf
  <2> QED BY <2>1, <2>2, <2>3
<1>2. DoneIsReal'
  <2> SUFFICES ASSUME NEW k \in Key, NEW g \in Gen,
                      store'[<<k, g, "write">>] = "done"
               PROVE  docs'[<<k, g>>] # "absent"
    BY DEF DoneIsReal
  <2>0. <<k, g, "write">> \in Slot /\ <<k, g>> \in Key \X Gen
    BY DEF Slot, Op
  <2>1. CASE store[<<k, g, "write">>] = "done"
    BY <2>0, <2>1, DocumentsStay DEF RealInv, DoneIsReal
  <2>2. CASE store[<<k, g, "write">>] # "done"
    <3>1. PICK c \in Call : /\ Complete(c) \/ CompleteFails(c)
                            /\ SlotOf(c) = <<k, g, "write">>
      <4>1. store' # store
        BY <2>2
      <4>2. \/ \E c \in Call : \/ Begin(c) \/ BeginFails(c) \/ Abort(c)
                               \/ Complete(c) \/ CompleteFails(c)
            \/ \E s \in Slot : LeaseExpires(s)
        BY <4>1
        DEF Next, vars, RunStep, Retry, PrepareDuplicate, PrepareOk,
            PrepareFails, LaterStepsSucceed, LaterStepFails, StartCall,
            Crash, AttemptTimesOut, CallStep, Generation, GenerationFails,
            BeginDuplicate, Decide, Send, SendFails, RecordCommitted, Confirm, Reply
      <4>3. \A c \in Call : ~(Begin(c) \/ BeginFails(c) \/ Abort(c))
        BY <2>0, <2>2 DEF Begin, BeginFails, Abort, AbortRow, TypeOK
      <4>4. \A s \in Slot : ~LeaseExpires(s)
        BY <2>0, <2>2 DEF LeaseExpires, TypeOK
      <4> QED BY <2>0, <2>2, <4>2, <4>3, <4>4 DEF Complete, CompleteFails, TypeOK
    <3>2. pc[c] = "complete" /\ KeyOf(c) = k /\ gen[c] = g /\ job[c].op = "write"
      BY <3>1 DEF Complete, CompleteFails, SlotOf
    <3>3. docs[<<k, g>>] # "absent"
      BY <3>2 DEF RealInv, Answered
    <3> QED BY <2>0, <3>3, DocumentsStay
  <2> QED BY <2>1, <2>2
<1> QED BY <1>1, <1>2 DEF RealInv

\* What the store answers a duplicate with is a document the target made.
THEOREM DuplicatesAreReal == Spec => []DoneIsReal
<1>1. TypeOK /\ LockInv /\ RealInv /\ [Next]_vars => RealInv'
  BY NextReal
<1>2. RealInv => DoneIsReal
  BY DEF RealInv
<1> QED
  BY <1>1, <1>2, InitType, NextType, InitLock, NextLock, InitReal, PTL DEF Spec
=============================================================================
