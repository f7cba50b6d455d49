----------------------- MODULE WriteGuardRefinesProofs -----------------------
(***************************************************************************)
(* When no two runs share a key, every step of the write guard is a step   *)
(* of WriteOnce or leaves what it sees alone, and a run that succeeds has  *)
(* its document.  To the invariant of WriteGuardExclusiveProofs, which     *)
(* keeps a key's live documents apart, KeptInv adds that documents do not  *)
(* go missing.                                                             *)
(***************************************************************************)
EXTENDS WriteGuardRefines, WriteGuardExclusiveProofs

\* A call that answers success has its outcome in the store.
Recorded ==
  \A c \in Call :
    pc[c] = "confirm" \/ (pc[c] = "reply" /\ err[c] = "none")
    => SlotOf(c) \in Slot /\ store[SlotOf(c)] = "done"

\* A document is gone only if its undo is recorded, its run is still at
\* undoing it, or somebody was told that a compensation failed.
Excused ==
  \A r \in Run, g \in Gen :
    docs[<<RunKey[r], g>>] = "undone"
    => Undone(RunKey[r], g) \/ r \in alarmed \/ phase[r] = "undo"

\* A run that has written, or found its write done, has a live document.
Held ==
  \A r \in Run :
    phase[r] \in {"reused", "later", "succeeded"} /\ r \notin alarmed
    => doc[r] \in Gen /\ docs[<<RunKey[r], doc[r]>>] = "live"

\* An undo works in its document's generation, or in a later one when an
\* attempt before it recorded the undo and its answer was lost.
Ahead ==
  \A c \in Call : job[c].op = "undo" /\ gen[c] # 0 => gen[c] >= job[c].doc

KeptInv == Recorded /\ Ahead /\ Excused /\ Held

FullInv == Inv /\ RealInv /\ KeptInv

\* Nothing was written initially.
LEMMA InitKept == Init => KeptInv
  BY ConstantsAssumption
  DEF Init, KeptInv, Recorded, Ahead, Excused, Held

\* Only a completed or found outcome leads to a successful answer.
LEMMA NextRecorded ==
  ASSUME Inv, Recorded, [Next]_vars
  PROVE  Recorded'
<1> USE DEF Inv, targetVars, callVars, runVars
<1> SUFFICES ASSUME NEW c \in Call,
                    pc'[c] = "confirm" \/ (pc'[c] = "reply" /\ err'[c] = "none")
             PROVE  SlotOf(c)' \in Slot /\ store'[SlotOf(c)'] = "done"
  BY DEF Recorded
<1>1. \/ /\ pc[c] = "confirm" \/ (pc[c] = "reply" /\ err[c] = "none")
         /\ job'[c] = job[c] /\ gen'[c] = gen[c]
      \/ BeginDuplicate(c) \/ Complete(c)
      \/ Abort(c) \/ CompleteFails(c)
  <2>1. CASE \E d \in Call : CallStep(d) \/ Crash(d) \/ AttemptTimesOut(d)
    <3> PICK d \in Call : CallStep(d) \/ Crash(d) \/ AttemptTimesOut(d)
      BY <2>1
    <3>1. CASE d = c
      BY <3>1 DEF TypeOK, AttemptTimesOut, CallStep, Generation,
            GenerationFails, Begin, BeginFails, Decide, Send,
            SendFails, RecordCommitted, Confirm,
            Reply, Crash, Goto, Answer, FailAndAbort, Leave, Finish
    <3>2. CASE d # c
      BY <3>2 DEF TypeOK, AttemptTimesOut, CallStep, Generation,
            GenerationFails, Begin, BeginDuplicate, BeginFails, Decide, Send,
            SendFails, RecordCommitted, Complete, CompleteFails, Confirm,
            Abort, Reply, Crash, Goto, Answer, FailAndAbort, Leave, Finish
    <3> QED BY <3>1, <3>2
  <2>2. CASE ~\E d \in Call : CallStep(d) \/ Crash(d) \/ AttemptTimesOut(d)
    BY <2>2 DEF Next, vars, RunStep, Retry, PrepareDuplicate, PrepareOk,
            PrepareFails, LaterStepsSucceed, LaterStepFails, StartCall,
            LeaseExpires, TypeOK
  <2> QED BY <2>1, <2>2
<1>2. CASE /\ pc[c] = "confirm" \/ (pc[c] = "reply" /\ err[c] = "none")
           /\ job'[c] = job[c] /\ gen'[c] = gen[c]
  <2>1. SlotOf(c)' = SlotOf(c) /\ SlotOf(c) \in Slot /\ store[SlotOf(c)] = "done"
    BY <1>2 DEF Recorded, SlotOf, KeyOf
  <2> QED BY <2>1, DoneStays
<1>3. CASE BeginDuplicate(c)
  <2>1. SlotOf(c)' = SlotOf(c) /\ store' = store /\ store[SlotOf(c)] = "done"
    BY <1>3 DEF BeginDuplicate, Answer, Leave, SlotOf, KeyOf
  <2>2. SlotOf(c) \in Slot
    BY <1>3, SlotType DEF BeginDuplicate, LockInv, Known
  <2> QED BY <2>1, <2>2
<1>4. CASE Complete(c)
  <2>1. SlotOf(c) \in Slot
    BY <1>4 DEF Complete, LockInv, Owned, Claimed
  <2>2. SlotOf(c)' = SlotOf(c) /\ store' = [store EXCEPT ![SlotOf(c)] = "done"]
    BY <1>4 DEF Complete, Goto, SlotOf, KeyOf
  <2> QED BY <2>1, <2>2 DEF TypeOK
<1>5. CASE Abort(c) \/ CompleteFails(c)
  <2>1. err'[c] # "none" /\ pc'[c] # "confirm"
    BY <1>5 DEF Abort, CompleteFails, Goto, Leave, ExclInv, Effective, TypeOK
  <2> QED BY <2>1
<1> QED BY <1>1, <1>2, <1>3, <1>4, <1>5

-----------------------------------------------------------------------------
(* What a step can do to documents and to runs. *)

\* Call c creates the document of the generation it works in ...
Creates(c) ==
  /\ job[c].op = "write" /\ docs[<<KeyOf(c), gen[c]>>] = "absent"
  /\ docs' = [docs EXCEPT ![<<KeyOf(c), gen[c]>>] = "live"]

\* ... or takes the one back that its payload names.
Removes(c) ==
  /\ job[c].op = "undo"
  /\ docs' = [docs EXCEPT ![<<KeyOf(c), job[c].doc>>] = "undone"]

\* Run r moves on; c is the call whose answer it got, if it got one.
Moves(r) ==
  \/ /\ phase[r] = "prepare" /\ phase'[r] = "reused" /\ alarmed' = alarmed
     /\ \E g \in Gen : /\ IsGeneration(RunKey[r], g) /\ doc'[r] = g
                       /\ store[<<RunKey[r], g, "write">>] = "done"
  \/ phase[r] = "prepare" /\ phase'[r] = "commit" /\ alarmed' = alarmed
  \/ /\ phase[r] \in {"prepare", "commit", "reused"} /\ phase'[r] = "failed"
     /\ alarmed' = alarmed
  \/ /\ phase[r] \in {"reused", "later"} /\ phase'[r] = "succeeded"
     /\ doc'[r] = doc[r] /\ alarmed' = alarmed
  \/ /\ phase[r] = "later" /\ phase'[r] = "undo" /\ doc'[r] = doc[r]
     /\ alarmed' = alarmed
  \/ /\ phase[r] \in {"failed", "compensationFailed"} /\ phase'[r] = "prepare"
     /\ alarmed' = alarmed
  \/ /\ phase[r] = "commit" /\ phase'[r] = "later" /\ alarmed' = alarmed
     /\ \E c \in Call : /\ job[c].run = r /\ job[c].op = "write"
                        /\ pc[c] = "reply" /\ err[c] = "none"
                        /\ doc'[r] = gen[c]
  \/ /\ phase[r] = "undo" /\ phase'[r] = "failed" /\ alarmed' = alarmed
     /\ \E c \in Call : /\ job[c].run = r /\ job[c].op = "undo"
                        /\ pc[c] = "reply" /\ err[c] = "none"
  \/ /\ phase[r] = "undo" /\ phase'[r] = "compensationFailed"
     /\ alarmed' = alarmed \cup {r}

\* A step moves one document, or one run, or neither.
LEMMA OneMoves ==
  ASSUME OwnKeys, Inv, [Next]_vars
  PROVE  \/ UNCHANGED <<docs, phase, doc, alarmed>>
         \/ /\ UNCHANGED <<store, phase, doc, alarmed>>
            /\ \E c \in Call : pc[c] = "send" /\ (Creates(c) \/ Removes(c))
         \/ /\ UNCHANGED <<store, docs>>
            /\ \E r \in Run :
                 /\ Moves(r)
                 /\ \A q \in Run : q # r => phase'[q] = phase[q] /\ doc'[q] = doc[q]
                 /\ phase' = [phase EXCEPT ![r] = phase'[r]]
<1> USE DEF Inv, targetVars, callVars, runVars
<1>1. CASE \E r \in Run : RunStep(r) \/ Retry(r)
  <2> PICK r \in Run : RunStep(r) \/ Retry(r) BY <1>1
  <2>1. CASE \E c \in Call : StartCall(r, c)
    BY <2>1 DEF StartCall
  <2>2. CASE ~\E c \in Call : StartCall(r, c)
    <3>1. UNCHANGED <<store, docs>>
      BY <2>2 DEF RunStep, Retry, PrepareDuplicate, PrepareOk, PrepareFails,
                  LaterStepsSucceed, LaterStepFails
    <3>2. /\ \A q \in Run : q # r => phase'[q] = phase[q] /\ doc'[q] = doc[q]
          /\ phase' = [phase EXCEPT ![r] = phase'[r]]
      BY <2>2 DEF RunStep, Retry, PrepareDuplicate, PrepareOk, PrepareFails,
                  LaterStepsSucceed, LaterStepFails, TypeOK
    <3>3. Moves(r)
      BY <2>2 DEF RunStep, Retry, PrepareDuplicate, PrepareOk, PrepareFails,
                  LaterStepsSucceed, LaterStepFails, TypeOK, Moves, Closed
    <3> QED BY <3>1, <3>2, <3>3
  <2> QED BY <2>1, <2>2
<1>2. CASE \E c \in Call : Reply(c) \/ Crash(c)
  <2> PICK c \in Call : Reply(c) \/ Crash(c) BY <1>2
  <2>1. UNCHANGED <<store, docs>> /\ pc[c] # "idle"
    BY DEF Reply, Crash
  <2>2. PICK r \in Run : r = job[c].run
    BY DEF TypeOK, Job
  <2>3. /\ cur[r] = c /\ job[c].op \in Op
        /\ phase[r] = (IF job[c].op = "write" THEN "commit" ELSE "undo")
    BY <2>1, <2>2 DEF ExclInv, Attached, TypeOK, Job
  <2>4. \A q \in Run : q # r => phase'[q] = phase[q] /\ doc'[q] = doc[q]
    BY <2>2, <2>3 DEF Reply, Crash, AttemptFailed, TypeOK
  <2>5. phase' = [phase EXCEPT ![r] = phase'[r]]
    BY <2>2, <2>3 DEF Reply, Crash, AttemptFailed, TypeOK
  <2>6. Moves(r) \/ UNCHANGED <<phase, doc, alarmed>>
    BY <2>2, <2>3 DEF Reply, Crash, AttemptFailed, TypeOK, Moves, Op
  <2> QED BY <2>1, <2>4, <2>5, <2>6
<1>3. CASE \E c \in Call : Send(c) \/ SendFails(c)
  <2> PICK c \in Call : Send(c) \/ SendFails(c) BY <1>3
  <2>1. UNCHANGED <<store, phase, doc, alarmed>> /\ pc[c] = "send"
    BY DEF Send, SendFails
  <2>2. UNCHANGED docs \/ Creates(c) \/ Removes(c)
    BY DEF Send, SendFails, TargetEffect, Creates, Removes
  <2> QED BY <2>1, <2>2
<1>4. CASE \E c \in Call : AttemptTimesOut(c)
  BY <1>4 DEF AttemptTimesOut, OwnKeys
<1>5. CASE UNCHANGED vars \/ \E s \in Slot : LeaseExpires(s)
  BY <1>5 DEF vars, LeaseExpires
<1>6. CASE \E c \in Call : CallStep(c) /\ ~(Reply(c) \/ Send(c) \/ SendFails(c))
  BY <1>6 DEF CallStep, Generation, GenerationFails, Begin, BeginDuplicate,
              BeginFails, Decide, RecordCommitted, Complete, CompleteFails,
              Confirm, Abort
<1> QED BY <1>1, <1>2, <1>3, <1>4, <1>5, <1>6 DEF Next

\* Where a call that is about to send works, and for whom.
LEMMA SenderWorks ==
  ASSUME Inv, NEW c \in Call, pc[c] = "send"
  PROVE  /\ job[c].run \in Run /\ KeyOf(c) = RunKey[job[c].run] /\ KeyOf(c) \in Key
         /\ gen[c] \in Gen /\ ~Undone(KeyOf(c), gen[c]) /\ Below(KeyOf(c), gen[c])
         /\ job[c].op = "write" => phase[job[c].run] = "commit"
         /\ job[c].op = "undo" => /\ phase[job[c].run] = "undo"
                                  /\ job[c].doc \in Gen
                                  /\ job[c].doc = doc[job[c].run]
<1> USE DEF Inv, ExclInv
<1>1. job[c].run \in Run /\ KeyOf(c) = RunKey[job[c].run] /\ KeyOf(c) \in Key
  BY ConstantsAssumption DEF TypeOK, Job, KeyOf
<1>a. gen[c] \in Gen
  BY DEF LockInv, Owned, SlotOf, Slot, Claimed
<1>2. gen[c] \in Gen /\ gen[c] # 0
  BY <1>a DEF Gen
<1>3. ~Undone(KeyOf(c), gen[c]) /\ Below(KeyOf(c), gen[c])
  BY <1>2 DEF Fresh, ChainInv
<1>4. /\ job[c].op = "write" => phase[job[c].run] = "commit"
      /\ job[c].op = "undo" => /\ phase[job[c].run] = "undo"
                               /\ job[c].doc = doc[job[c].run]
  BY DEF Attached
<1> QED BY <1>1, <1>2, <1>3, <1>4 DEF Newest

\* An undo that answers success leaves no generation of its run's key that is
\* not recorded as undone and has ever had a document.
LEMMA UndoneAll ==
  ASSUME Inv, Recorded, Ahead, NEW c \in Call, job[c].op = "undo",
         pc[c] = "reply", err[c] = "none", NEW g \in Gen,
         docs[<<KeyOf(c), g>>] # "absent"
  PROVE  Undone(KeyOf(c), g)
<1> USE DEF Inv, ExclInv
<1>1. gen[c] \in Gen /\ Undone(KeyOf(c), gen[c]) /\ Below(KeyOf(c), gen[c])
  BY DEF Recorded, SlotOf, Undone, ChainInv, Effective
<1>2. /\ phase[job[c].run] = "undo" /\ job[c].doc = doc[job[c].run]
      /\ job[c].run \in Run /\ KeyOf(c) = RunKey[job[c].run] /\ KeyOf(c) \in Key
  BY ConstantsAssumption DEF Attached, TypeOK, Job, KeyOf
<1>3. job[c].doc \in Gen /\ \A h \in Gen : h > job[c].doc => docs[<<KeyOf(c), h>>] = "absent"
  BY <1>2 DEF Newest
<1>4. g <= gen[c]
  BY <1>1, <1>3 DEF Ahead, Gen
<1> QED BY <1>1, <1>4 DEF Below, Gen

\* generation() does not answer with a generation that is undone, and all
\* below the document of a run are.
LEMMA NextAhead ==
  ASSUME Inv, Ahead, [Next]_vars
  PROVE  Ahead'
<1> USE DEF Inv, targetVars, callVars, runVars
<1> SUFFICES ASSUME NEW c \in Call, job'[c].op = "undo", gen'[c] # 0
             PROVE  gen'[c] >= job'[c].doc
  BY DEF Ahead
<1>1. \/ Generation(c)
      \/ job'[c] = job[c] /\ gen'[c] = gen[c]
  <2>1. CASE \E d \in Call : CallStep(d) \/ Crash(d) \/ AttemptTimesOut(d)
    <3> PICK d \in Call : CallStep(d) \/ Crash(d) \/ AttemptTimesOut(d)
      BY <2>1
    <3>1. CASE d = c
      BY <3>1 DEF TypeOK, AttemptTimesOut, CallStep,
            GenerationFails, Begin, BeginDuplicate, BeginFails, Decide, Send,
            SendFails, RecordCommitted, Complete, CompleteFails, Confirm,
            Abort, Reply, Crash, Goto, Answer, FailAndAbort, Leave, Finish
    <3>2. CASE d # c
      BY <3>2 DEF TypeOK, AttemptTimesOut, CallStep, Generation,
            GenerationFails, Begin, BeginDuplicate, BeginFails, Decide, Send,
            SendFails, RecordCommitted, Complete, CompleteFails, Confirm,
            Abort, Reply, Crash, Goto, Answer, FailAndAbort, Leave, Finish
    <3> QED BY <3>1, <3>2
  <2>2. CASE \E r \in Run, d \in Call : StartCall(r, d)
    BY <2>2 DEF StartCall, TypeOK, ChainInv
  <2>3. CASE ~(\E d \in Call : CallStep(d) \/ Crash(d) \/ AttemptTimesOut(d))
             /\ ~(\E r \in Run, d \in Call : StartCall(r, d))
    BY <2>3 DEF Next, vars, RunStep, Retry, PrepareDuplicate, PrepareOk,
            PrepareFails, LaterStepsSucceed, LaterStepFails, LeaseExpires
  <2> QED BY <2>1, <2>2, <2>3
<1>2. CASE job'[c] = job[c] /\ gen'[c] = gen[c]
  BY <1>2 DEF Ahead
<1>3. CASE Generation(c)
  <2>1. PICK g \in Gen : IsGeneration(KeyOf(c), g) /\ gen'[c] = g /\ job' = job
    BY <1>3 DEF Generation, TypeOK
  <2>2. KeyOf(c) \in Key /\ job[c].doc \in Gen \cup {0}
    BY ConstantsAssumption DEF KeyOf, TypeOK, Job
  <2>3. ~Undone(KeyOf(c), g) /\ Below(KeyOf(c), job[c].doc)
    BY <2>1, <2>2, GenerationIsFresh DEF ExclInv, ChainInv
  <2> QED BY <2>1, <2>2, <2>3 DEF Below, Gen
<1> QED BY <1>1, <1>2, <1>3

\* A run stops undoing only when every undo is recorded or it has alarmed.
LEMMA NextExcused ==
  ASSUME OwnKeys, FullInv, [Next]_vars
  PROVE  Excused'
<1> USE DEF FullInv, KeptInv
<1> SUFFICES ASSUME NEW r \in Run, NEW g \in Gen,
                    docs'[<<RunKey[r], g>>] = "undone"
             PROVE  \/ Undone(RunKey[r], g)'
                    \/ r \in alarmed' \/ phase'[r] = "undo"
  BY DEF Excused
<1>0. /\ RunKey[r] \in Key /\ <<RunKey[r], g>> \in Key \X Gen
      /\ Undone(RunKey[r], g) => Undone(RunKey[r], g)'
  <2>1. RunKey[r] \in Key /\ <<RunKey[r], g, "undo">> \in Slot
    BY ConstantsAssumption DEF Slot, Op
  <2> QED BY <2>1, DoneStays DEF Undone, Inv
<1>1. CASE UNCHANGED <<docs, phase, doc, alarmed>>
  BY <1>0, <1>1 DEF Excused
<1>2. CASE /\ UNCHANGED <<store, phase, doc, alarmed>>
           /\ \E c \in Call : pc[c] = "send" /\ (Creates(c) \/ Removes(c))
  <2>1. PICK c \in Call : pc[c] = "send" /\ (Creates(c) \/ Removes(c))
    BY <1>2
  <2>2. CASE docs[<<RunKey[r], g>>] = "undone"
    BY <1>0, <1>2, <2>2 DEF Excused
  <2>3. CASE docs[<<RunKey[r], g>>] # "undone"
    <3>1. Removes(c) /\ <<RunKey[r], g>> = <<KeyOf(c), job[c].doc>>
      BY <1>0, <2>1, <2>3 DEF Creates, Removes, Inv, TypeOK
    <3>2. r = job[c].run
      BY <2>1, <3>1, SenderWorks DEF OwnKeys
    <3> QED BY <1>2, <2>1, <3>1, <3>2, SenderWorks DEF Removes
  <2> QED BY <2>2, <2>3
<1>3. CASE /\ UNCHANGED <<store, docs>>
           /\ \E q \in Run :
                /\ Moves(q)
                /\ \A p \in Run : p # q => phase'[p] = phase[p] /\ doc'[p] = doc[p]
  <2>1. PICK q \in Run :
           /\ Moves(q)
           /\ \A p \in Run : p # q => phase'[p] = phase[p] /\ doc'[p] = doc[p]
    BY <1>3
  <2>2. alarmed \subseteq alarmed'
    BY <2>1 DEF Moves
  <2>3. Undone(RunKey[r], g) \/ r \in alarmed \/ phase[r] = "undo"
    BY <1>3 DEF Excused
  <2>4. CASE q = r /\ phase[r] = "undo" /\ phase'[r] # "undo" /\ r \notin alarmed'
    <3>1. PICK c \in Call : /\ job[c].run = r /\ job[c].op = "undo"
                            /\ pc[c] = "reply" /\ err[c] = "none"
      BY <2>1, <2>4 DEF Moves
    <3>2. KeyOf(c) = RunKey[r] /\ docs[<<KeyOf(c), g>>] # "absent"
      BY <1>3, <3>1 DEF KeyOf
    <3> QED BY <1>0, <3>1, <3>2, UndoneAll
  <2> QED BY <1>0, <2>1, <2>2, <2>3, <2>4
<1> QED BY <1>1, <1>2, <1>3, OneMoves

\* A run gets hold of a live document, and nobody else takes it away.
LEMMA NextHeld ==
  ASSUME OwnKeys, FullInv, [Next]_vars
  PROVE  Held'
<1> USE DEF FullInv, KeptInv
<1> SUFFICES ASSUME NEW r \in Run, r \notin alarmed',
                    phase'[r] \in {"reused", "later", "succeeded"}
             PROVE  doc'[r] \in Gen /\ docs'[<<RunKey[r], doc'[r]>>] = "live"
  BY DEF Held
<1>0. RunKey[r] \in Key
  BY ConstantsAssumption
<1>1. CASE UNCHANGED <<docs, phase, doc, alarmed>>
  BY <1>1 DEF Held
<1>2. CASE /\ UNCHANGED <<store, phase, doc, alarmed>>
           /\ \E c \in Call : pc[c] = "send" /\ (Creates(c) \/ Removes(c))
  <2>1. PICK c \in Call : pc[c] = "send" /\ (Creates(c) \/ Removes(c))
    BY <1>2
  <2>2. /\ doc'[r] = doc[r] /\ doc[r] \in Gen
        /\ docs[<<RunKey[r], doc[r]>>] = "live"
        /\ <<RunKey[r], doc[r]>> \in Key \X Gen
    BY <1>0, <1>2 DEF Held
  <2>3. job[c].run # r
    BY <1>2, <2>1, SenderWorks DEF Creates, Removes
  <2>4. KeyOf(c) # RunKey[r]
    BY <2>1, <2>3, SenderWorks DEF OwnKeys
  <2> QED BY <2>1, <2>2, <2>4 DEF Creates, Removes, Inv, TypeOK
<1>3. CASE /\ UNCHANGED <<store, docs>>
           /\ \E q \in Run :
                /\ Moves(q)
                /\ \A p \in Run : p # q => phase'[p] = phase[p] /\ doc'[p] = doc[p]
  <2>1. PICK q \in Run :
           /\ Moves(q)
           /\ \A p \in Run : p # q => phase'[p] = phase[p] /\ doc'[p] = doc[p]
    BY <1>3
  <2>2. r \notin alarmed
    BY <2>1 DEF Moves
  <2>3. CASE q # r \/ phase'[r] = "succeeded"
    BY <1>3, <2>1, <2>2, <2>3 DEF Moves, Held
  <2>4. CASE q = r /\ phase'[r] = "reused"
    <3>1. PICK g \in Gen : /\ IsGeneration(RunKey[r], g) /\ doc'[r] = g
                           /\ store[<<RunKey[r], g, "write">>] = "done"
                           /\ phase[r] = "prepare"
      BY <2>1, <2>4 DEF Moves
    <3>2. docs[<<RunKey[r], g>>] # "absent" /\ ~Undone(RunKey[r], g)
      BY <1>0, <3>1, GenerationIsFresh DEF RealInv, DoneIsReal, Inv, ExclInv
    <3>3. docs[<<RunKey[r], g>>] # "undone"
      BY <2>2, <3>1, <3>2 DEF Excused
    <3> QED BY <1>0, <1>3, <3>1, <3>2, <3>3 DEF Inv, TypeOK
  <2>5. CASE q = r /\ phase'[r] = "later"
    <3>1. PICK c \in Call : /\ job[c].run = r /\ job[c].op = "write"
                            /\ pc[c] = "reply" /\ err[c] = "none"
                            /\ doc'[r] = gen[c] /\ phase[r] = "commit"
      BY <2>1, <2>5 DEF Moves
    <3>2. /\ gen[c] \in Gen /\ KeyOf(c) = RunKey[r]
          /\ store[<<RunKey[r], gen[c], "write">>] = "done"
      BY <3>1 DEF Recorded, SlotOf, KeyOf, Inv, ExclInv, Effective
    <3>3. docs[<<RunKey[r], gen[c]>>] # "absent"
      BY <1>0, <3>2 DEF RealInv, DoneIsReal
    <3>4. ~Undone(RunKey[r], gen[c])
      BY <3>1, <3>2 DEF Inv, ExclInv, Fresh, Gen
    <3>5. docs[<<RunKey[r], gen[c]>>] # "undone"
      BY <2>2, <3>1, <3>2, <3>4 DEF Excused
    <3> QED BY <1>0, <1>3, <3>1, <3>2, <3>3, <3>5 DEF Inv, TypeOK
  <2> QED BY <2>3, <2>4, <2>5
<1> QED BY <1>1, <1>2, <1>3, OneMoves

\* The invariant with what keeps documents from going missing.
LEMMA FullInvHolds == ASSUME OwnKeys PROVE Spec => []FullInv
<1>1. Init => FullInv
  BY InitType, InitLock, InitChain, InitExcl, InitReal, InitKept
  DEF FullInv, Inv
<1>2. FullInv /\ [Next]_vars => FullInv'
  <2> SUFFICES ASSUME FullInv, [Next]_vars PROVE FullInv'
    OBVIOUS
  <2>1. Inv' /\ RealInv'
    BY NextType, NextLock, NextChain, NextOrder, NextExcl, NextReal
    DEF FullInv, Inv
  <2>2. Recorded' /\ Ahead' /\ Excused' /\ Held'
    BY NextRecorded, NextAhead, NextExcused, NextHeld DEF FullInv, KeptInv
  <2> QED BY <2>1, <2>2 DEF FullInv, KeptInv
<1> QED BY <1>1, <1>2, PTL DEF Spec

\* When every event has its own key, a run that completes has its document at
\* the target, unless an operator was told of a failed compensation.
THEOREM SuccessesKeepDocuments ==
  ASSUME OwnKeys PROVE Spec => []SuccessKeepsDocument
<1>1. FullInv => SuccessKeepsDocument
  BY DEF FullInv, KeptInv, Held, SuccessKeepsDocument
<1> QED BY <1>1, FullInvHolds, PTL

-----------------------------------------------------------------------------
(* Every step is one of WriteOnce, or none. *)

\* A call that creates a document makes it appear while its run is open.
LEMMA CreatingAppears ==
  ASSUME OwnKeys, FullInv, NEW c \in Call, pc[c] = "send", Creates(c),
         UNCHANGED <<store, phase, doc, alarmed>>
  PROVE  Once!Appears(job[c].run)
<1> DEFINE r == job[c].run
<1>1. /\ r \in Run /\ KeyOf(c) = RunKey[r] /\ KeyOf(c) \in Key
      /\ gen[c] \in Gen /\ ~Undone(KeyOf(c), gen[c]) /\ phase[r] = "commit"
      /\ Below(KeyOf(c), gen[c])
  BY SenderWorks DEF FullInv, Creates
<1>2. <<RunKey[r], gen[c]>> \in Key \X Gen
  BY <1>1
<1>3. ASSUME NEW h \in Gen PROVE docs[<<RunKey[r], h>>] # "live"
  <2> SUFFICES ASSUME docs[<<RunKey[r], h>>] = "live" PROVE FALSE
    OBVIOUS
  <2>1. ~Undone(RunKey[r], h) /\ Below(RunKey[r], h)
    BY <1>1 DEF FullInv, Inv, ExclInv, UndoneIsDead, OrderInv, Touched
  <2>2. h = gen[c]
    BY <1>1, <2>1 DEF Below, Gen
  <2> QED BY <1>1, <2>2 DEF Creates
<1>4. \A q \in Run, h \in Gen : q # r =>
        docs'[<<RunKey[q], h>>] = docs[<<RunKey[q], h>>]
  BY <1>1, ConstantsAssumption DEF OwnKeys, Creates, FullInv, Inv, TypeOK
<1>5. docs'[<<RunKey[r], gen[c]>>] = "live"
  BY <1>1, <1>2 DEF Creates, FullInv, Inv, TypeOK
<1>6. r \notin there
  BY <1>3 DEF there
<1>7. there' = there \cup {r}
  BY <1>1, <1>4, <1>5 DEF there
<1>8. told' = told /\ told[r] = "open"
  BY <1>1 DEF told
<1> QED BY <1>6, <1>7, <1>8 DEF Once!Appears

\* A call that takes a document back makes it disappear while its run is
\* undoing, or it was gone already.
LEMMA RemovingDisappears ==
  ASSUME OwnKeys, FullInv, NEW c \in Call, pc[c] = "send", Removes(c),
         UNCHANGED <<store, phase, doc, alarmed>>
  PROVE  Once!Disappears(job[c].run) \/ UNCHANGED Once!onceVars
<1> DEFINE r == job[c].run
<1>1. /\ r \in Run /\ KeyOf(c) = RunKey[r] /\ KeyOf(c) \in Key
      /\ job[c].doc \in Gen /\ phase[r] = "undo"
  BY SenderWorks DEF FullInv, Removes
<1>2. \A q \in Run, h \in Gen : q # r =>
        docs'[<<RunKey[q], h>>] = docs[<<RunKey[q], h>>]
  BY <1>1, ConstantsAssumption DEF OwnKeys, Removes, FullInv, Inv, TypeOK
<1>3. \A h \in Gen : docs'[<<RunKey[r], h>>] =
        IF h = job[c].doc THEN "undone" ELSE docs[<<RunKey[r], h>>]
  BY <1>1 DEF Removes, FullInv, Inv, TypeOK
<1>4. told' = told /\ told[r] = "undoing"
  BY <1>1 DEF told
<1>5. CASE docs[<<RunKey[r], job[c].doc>>] = "live"
  <2>1. \A h \in Gen : docs'[<<RunKey[r], h>>] # "live"
    BY <1>1, <1>3, <1>5, LiveIsUnique DEF FullInv
  <2>2. there' = there \ {r} /\ r \in there
    <3>1. \A q \in Run : q # r => (q \in there' <=> q \in there)
      BY <1>2 DEF there
    <3>2. r \in there /\ r \notin there'
      BY <1>1, <1>5, <2>1 DEF there
    <3>3. there \subseteq Run /\ there' \subseteq Run
      BY DEF there
    <3> QED BY <3>1, <3>2, <3>3
  <2> QED BY <1>4, <2>2 DEF Once!Disappears
<1>6. CASE docs[<<RunKey[r], job[c].doc>>] # "live"
  <2>1. there' = there
    <3>1. \A q \in Run : q # r => (q \in there' <=> q \in there)
      BY <1>2 DEF there
    <3>2. \A h \in Gen : docs'[<<RunKey[r], h>>] = "live" <=> docs[<<RunKey[r], h>>] = "live"
      BY <1>3, <1>6
    <3>3. r \in there' <=> r \in there
      BY <1>1, <3>2 DEF there
    <3>4. there \subseteq Run /\ there' \subseteq Run
      BY DEF there
    <3> QED BY <3>1, <3>3, <3>4
  <2> QED BY <1>4, <2>1 DEF Once!onceVars
<1> QED BY <1>5, <1>6

\* A run that moves on tells a verdict WriteOnce allows, or nothing.
LEMMA MovingTells ==
  ASSUME OwnKeys, FullInv, NEW r \in Run, Moves(r),
         UNCHANGED <<store, docs>>, phase' = [phase EXCEPT ![r] = phase'[r]]
  PROVE  \/ Once!TakesBack(r) \/ Once!Closes(r) \/ Once!StartsAgain(r)
         \/ UNCHANGED Once!onceVars
<1> USE DEF FullInv, KeptInv
<1>1. there' = there /\ RunKey[r] \in Key
  BY ConstantsAssumption DEF there
<1>2. \A q \in Run : q # r => phase'[q] = phase[q]
  BY DEF Inv, TypeOK
<1>3. \A q \in Run : q # r => told'[q] = told[q]
  BY <1>2 DEF told
<1>4. told' = [told EXCEPT ![r] = told'[r]]
  BY <1>3 DEF told
<1>5. phase[r] \in {"reused", "later"} => r \in there \cup alarmed
  BY DEF Held, there
<1>6. CASE /\ phase[r] \in {"reused", "later"} /\ phase'[r] = "succeeded"
           /\ alarmed' = alarmed
  <2>1. told[r] = "open" /\ told'[r] = "succeeded"
    BY <1>6 DEF told
  <2> QED BY <1>1, <1>4, <1>5, <1>6, <2>1
          DEF Once!Closes, Once!Succeeds, Once!Tell
<1>7. CASE phase[r] = "later" /\ phase'[r] = "undo" /\ alarmed' = alarmed
  <2>1. told[r] = "open" /\ told'[r] = "undoing"
    BY <1>7 DEF told
  <2> QED BY <1>1, <1>4, <1>5, <1>7, <2>1 DEF Once!TakesBack, Once!Tell
<1>8. CASE /\ phase[r] \in {"prepare", "commit", "reused"}
           /\ phase'[r] = "failed" /\ alarmed' = alarmed
  <2>1. told[r] = "open" /\ told'[r] = "failed"
    BY <1>8 DEF told
  <2> QED BY <1>1, <1>4, <1>8, <2>1 DEF Once!Closes, Once!Fails, Once!Tell
<1>9. CASE /\ phase[r] \in {"failed", "compensationFailed"}
           /\ phase'[r] = "prepare" /\ alarmed' = alarmed
  <2>1. told[r] = phase[r] /\ told'[r] = "open"
    BY <1>9 DEF told
  <2> QED BY <1>1, <1>4, <1>9, <2>1 DEF Once!StartsAgain, Once!Tell
<1>10. CASE /\ phase[r] = "undo" /\ phase'[r] = "failed" /\ alarmed' = alarmed
            /\ \E c \in Call : /\ job[c].run = r /\ job[c].op = "undo"
                               /\ pc[c] = "reply" /\ err[c] = "none"
  <2>1. PICK c \in Call : /\ job[c].run = r /\ job[c].op = "undo"
                          /\ pc[c] = "reply" /\ err[c] = "none"
    BY <1>10
  <2>2. ASSUME NEW g \in Gen PROVE docs[<<RunKey[r], g>>] # "live"
    <3>1. KeyOf(c) = RunKey[r]
      BY <2>1 DEF KeyOf
    <3>2. docs[<<RunKey[r], g>>] # "absent" => Undone(RunKey[r], g)
      BY <2>1, <3>1, UndoneAll
    <3> QED BY <1>1, <3>2 DEF Inv, ExclInv, UndoneIsDead
  <2>3. r \notin there
    BY <2>2 DEF there
  <2>4. told[r] = "undoing" /\ told'[r] = "failed"
    BY <1>10 DEF told
  <2> QED BY <1>1, <1>4, <1>10, <2>3, <2>4
          DEF Once!Closes, Once!FailsUndone, Once!Tell
<1>11. CASE /\ phase[r] = "undo" /\ phase'[r] = "compensationFailed"
            /\ alarmed' = alarmed \cup {r}
  <2>1. told[r] = "undoing" /\ told'[r] = "compensationFailed"
    BY <1>11 DEF told
  <2> QED BY <1>1, <1>4, <1>11, <2>1 DEF Once!Closes, Once!Alarms, Once!Tell
<1>12. CASE /\ phase[r] \in {"prepare", "commit"}
            /\ phase'[r] \in {"reused", "commit", "later"} /\ alarmed' = alarmed
  <2>1. told[r] = "open" /\ told'[r] = "open"
    BY <1>12 DEF told
  <2>2. told' = told
    BY <1>3, <2>1 DEF told
  <2> QED BY <1>1, <1>12, <2>2 DEF Once!onceVars
<1> QED BY <1>6, <1>7, <1>8, <1>9, <1>10, <1>11, <1>12 DEF Moves

\* When every event has its own key, the guard with its store, calls and runs
\* implements what WriteOnce promises a run of its document: it appears at
\* most once at a time and only while the run is open, is there when the run
\* succeeds and gone when it fails after having it, and nobody touches it
\* after that.
THEOREM GuardWritesOnce == ASSUME OwnKeys PROVE Spec => Once!OnceSafe
<1>1. Init => Once!OnceInit
  <2> SUFFICES ASSUME Init PROVE Once!OnceInit
    OBVIOUS
  <2>1. there = {}
    BY ConstantsAssumption DEF Init, there
  <2>2. \A r \in Run : phase[r] = "prepare"
    BY DEF Init
  <2>3. told = [r \in Run |-> "open"]
    BY <2>2 DEF told
  <2> QED BY <2>1, <2>3 DEF Init, Once!OnceInit
<1>2. FullInv /\ [Next]_vars => [Once!OnceNext]_(Once!onceVars)
  <2> SUFFICES ASSUME FullInv, [Next]_vars
               PROVE  Once!OnceNext \/ UNCHANGED Once!onceVars
    OBVIOUS
  <2>1. CASE UNCHANGED <<docs, phase, doc, alarmed>>
    BY <2>1 DEF Once!onceVars, there, told
  <2>2. CASE /\ UNCHANGED <<store, phase, doc, alarmed>>
             /\ \E c \in Call : pc[c] = "send" /\ (Creates(c) \/ Removes(c))
    <3>1. PICK c \in Call : pc[c] = "send" /\ (Creates(c) \/ Removes(c))
      BY <2>2
    <3>2. job[c].run \in Run
      BY DEF FullInv, Inv, TypeOK, Job
    <3> QED BY <2>2, <3>1, <3>2, CreatingAppears, RemovingDisappears
            DEF Once!OnceNext
  <2>3. CASE /\ UNCHANGED <<store, docs>>
             /\ \E r \in Run : Moves(r) /\ phase' = [phase EXCEPT ![r] = phase'[r]]
    BY <2>3, MovingTells DEF Once!OnceNext
  <2> QED BY <2>1, <2>2, <2>3, OneMoves DEF FullInv
<1> QED BY <1>1, <1>2, FullInvHolds, PTL DEF Spec, Once!OnceSafe
===============================================================================
