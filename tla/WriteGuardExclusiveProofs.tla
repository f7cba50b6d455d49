---------------------- MODULE WriteGuardExclusiveProofs ----------------------
(***************************************************************************)
(* What the write guard guarantees when no two runs share a key (OwnKeys): *)
(* a key never has two live documents, and a run that fails cleanly has    *)
(* undone its document.  Neither is inductive; ExclInv strengthens them.   *)
(***************************************************************************)
EXTENDS WriteGuardProofs

\* A call at work is its run's current attempt, and does what the run is at.
Attached ==
  \A c \in Call : pc[c] # "idle" =>
    /\ cur[job[c].run] = c
    /\ phase[job[c].run] = (IF job[c].op = "write" THEN "commit" ELSE "undo")
    /\ job[c].doc = doc[job[c].run]

\* The generation a call works in is not undone while it works: nobody else
\* could undo it.
Fresh ==
  \A c \in Call :
    gen[c] # 0 /\ (job[c].op = "write" \/ pc[c] # "reply")
    => ~Undone(KeyOf(c), gen[c])

\* Only keys whose request declares a compensation are ever undone.
Declared ==
  /\ \A k \in Key, g \in Gen : Undone(k, g) => k \in Compensable
  /\ \A c \in Call : gen[c] # 0 /\ job[c].op = "undo" => KeyOf(c) \in Compensable

\* An undo that is past the target, or answers success, has taken effect.
Effective ==
  \A c \in Call :
    /\ /\ job[c].op = "undo"
       /\ pc[c] \in {"audit", "complete"} \/ (pc[c] = "reply" /\ err[c] = "none")
       => docs[<<KeyOf(c), job[c].doc>>] = "undone"
    /\ pc[c] = "abort" => err[c] # "none"
    /\ pc[c] = "reply" /\ err[c] = "none" => gen[c] \in Gen

\* A run that holds a document holds the newest one of its key.
Newest ==
  \A r \in Run : phase[r] \in {"later", "undo"} =>
    /\ doc[r] \in Gen
    /\ \A h \in Gen : h > doc[r] => docs[<<RunKey[r], h>>] = "absent"

\* An undo recorded as committed left no live document in its generation.
UndoneIsDead ==
  \A k \in Key, g \in Gen : Undone(k, g) => docs[<<k, g>>] # "live"

\* Only writes are read back.
OnlyWritesConfirm == \A c \in Call : pc[c] = "confirm" => job[c].op = "write"

Clean ==
  /\ \A r \in Run : phase[r] \in {"prepare", "commit"} => doc[r] = 0
  /\ CleanFailureUndoes

ExclInv ==
  /\ Attached
  /\ Fresh
  /\ Declared
  /\ Effective
  /\ Newest
  /\ UndoneIsDead
  /\ OnlyWritesConfirm
  /\ Clean

Inv == TypeOK /\ LockInv /\ ChainInv /\ OrderInv /\ ExclInv

\* The current generation of a key is not undone.
LEMMA GenerationIsFresh ==
  ASSUME Declared, NEW k \in Key, NEW g \in Gen, IsGeneration(k, g)
  PROVE  ~Undone(k, g)
  BY DEF IsGeneration, Declared

\* Under OwnKeys two calls at work on one key are the same call.
LEMMA OneCallPerKey ==
  ASSUME OwnKeys, TypeOK, Attached, NEW c \in Call, NEW d \in Call,
         pc[c] # "idle", pc[d] # "idle", KeyOf(c) = KeyOf(d)
  PROVE  c = d
  BY DEF OwnKeys, Attached, KeyOf, TypeOK, Job

\* Initially no call is attached to a run and no document exists.
LEMMA InitExcl == Init => ExclInv
<1> SUFFICES ASSUME Init PROVE ExclInv
  OBVIOUS
<1>1. \A k \in Key, g \in Gen : ~Undone(k, g)
  BY DEF Init, Undone, Slot, Op
<1> QED
  BY <1>1 DEF Init, ExclInv, Attached, Fresh, Declared, Effective, Newest,
              UndoneIsDead, OnlyWritesConfirm, Clean,
              CleanFailureUndoes

\* A step of one call that moves no document, completes no row and returns
\* nothing to its run.
LEMMA QuietCallExcl ==
  ASSUME Inv, NEW c \in Call, NEW p \in Pc \ {"idle"},
         pc[c] \notin {"idle", "reply"},
         pc' = [pc EXCEPT ![c] = p], UNCHANGED <<job, gen, docs, runVars>>,
         \A d \in Call : d # c => err'[d] = err[d],
         \A k \in Key, g \in Gen : Undone(k, g)' = Undone(k, g),
         p = "abort" => err'[c] # "none",
         p = "confirm" => job[c].op = "write",
         p = "reply" /\ err'[c] = "none" => gen[c] \in Gen,
         /\ job[c].op = "undo"
         /\ p \in {"audit", "complete"} \/ (p = "reply" /\ err'[c] = "none")
         => docs[<<KeyOf(c), job[c].doc>>] = "undone"
  PROVE  ExclInv'
<1> USE DEF Inv, ExclInv, runVars
<1>0. \A d \in Call : KeyOf(d)' = KeyOf(d) /\ KeyOf(d) \in Key /\ gen[d] \in Gen \cup {0}
  BY ConstantsAssumption DEF KeyOf, TypeOK, Job
<1>1. Attached'
  BY DEF Attached, TypeOK
<1>2. Fresh'
  BY <1>0 DEF Fresh, TypeOK
<1>3. Declared'
  BY <1>0 DEF Declared
<1>4. Effective' /\ OnlyWritesConfirm'
  <2>1. Effective'
    <3> SUFFICES ASSUME NEW d \in Call
                 PROVE  /\ /\ job[d].op = "undo"
                           /\ pc'[d] \in {"audit", "complete"} \/ (pc'[d] = "reply" /\ err'[d] = "none")
                           => docs[<<KeyOf(d), job[d].doc>>] = "undone"
                        /\ pc'[d] = "abort" => err'[d] # "none"
      BY <1>0 DEF Effective
    <3>1. CASE d = c
      BY <3>1 DEF TypeOK
    <3>2. CASE d # c
      <4>1. pc'[d] = pc[d] /\ err'[d] = err[d]
        BY <3>2 DEF TypeOK
      <4> QED BY <4>1 DEF Effective
    <3> QED BY <3>1, <3>2
  <2>2. OnlyWritesConfirm'
    BY <1>0 DEF OnlyWritesConfirm, TypeOK
  <2> QED BY <2>1, <2>2
<1>5. Newest' /\ Clean'
  BY DEF Newest, Clean, CleanFailureUndoes
<1>6. UndoneIsDead'
  BY DEF UndoneIsDead
<1> QED BY <1>1, <1>2, <1>3, <1>4, <1>5, <1>6

\* The steps between store, policy, audit and confirmation are quiet.
LEMMA QuietStepsExcl ==
  ASSUME Inv, NEW c \in Call,
         \/ GenerationFails(c) \/ Begin(c) \/ BeginDuplicate(c) \/ BeginFails(c)
         \/ Decide(c) \/ RecordCommitted(c) \/ Confirm(c) \/ Abort(c)
  PROVE  ExclInv'
<1> USE DEF targetVars
<1>0. /\ \A k \in Key, g \in Gen : <<k, g, "undo">> \in Slot
      /\ KeyOf(c) \in Key
  BY ConstantsAssumption DEF Slot, Op, KeyOf, Inv, TypeOK, Job
<1>a. pc[c] \in Claimed \cup {"begin", "confirm"} => gen[c] \in Gen
  BY DEF Inv, LockInv, Owned, Known, SlotOf, Slot
<1>1. CASE GenerationFails(c) \/ BeginFails(c)
  <2>1. /\ UNCHANGED <<store, job, gen, docs, runVars>>
        /\ pc[c] \in {"generation", "begin"} /\ pc' = [pc EXCEPT ![c] = "reply"]
        /\ err'[c] # "none" /\ \A d \in Call : d # c => err'[d] = err[d]
    BY <1>1 DEF GenerationFails, BeginFails, Answer, Leave, Inv, TypeOK
  <2> QED BY <2>1, QuietCallExcl DEF Pc, Undone
<1>2. CASE Begin(c)
  <2>1. /\ UNCHANGED <<job, gen, docs, runVars>> /\ pc[c] = "begin"
        /\ \E p \in {"decide", "send", "reply"} :
             pc' = [pc EXCEPT ![c] = p] /\ (p = "reply" => err'[c] = "retry")
        /\ \A d \in Call : d # c => err'[d] = err[d]
    BY <1>2 DEF Begin, Goto, Answer, Leave, Inv, TypeOK
  <2>2. \A k \in Key, g \in Gen : Undone(k, g)' = Undone(k, g)
    BY <1>0, <1>2 DEF Begin, Undone, Inv, TypeOK
  <2> QED BY <2>1, <2>2, QuietCallExcl DEF Pc
<1>3. CASE BeginDuplicate(c)
  <2>1. /\ UNCHANGED <<store, job, gen, docs, runVars>> /\ pc[c] = "begin"
        /\ pc' = [pc EXCEPT ![c] = "reply"]
        /\ \A d \in Call : d # c => err'[d] = err[d]
    BY <1>3 DEF BeginDuplicate, Answer, Leave, Inv, TypeOK
  <2>2. job[c].op # "undo"
    <3>1. ~Undone(KeyOf(c), gen[c])
      BY <1>a, <2>1 DEF Inv, ExclInv, Fresh, Gen
    <3> QED BY <1>3, <3>1 DEF BeginDuplicate, Undone, SlotOf
  <2> QED BY <1>a, <2>1, <2>2, QuietCallExcl DEF Pc, Undone
<1>4. CASE Decide(c)
  <2>1. /\ UNCHANGED <<store, job, gen, docs, runVars>> /\ pc[c] = "decide"
        /\ \E p \in {"send", "abort"} :
             pc' = [pc EXCEPT ![c] = p] /\ (p = "abort" => err'[c] # "none")
        /\ \A d \in Call : d # c => err'[d] = err[d]
    BY <1>4 DEF Decide, Goto, FailAndAbort, Leave, Inv, TypeOK
  <2> QED BY <2>1, QuietCallExcl DEF Pc, Undone
<1>5. CASE RecordCommitted(c)
  <2>1. /\ UNCHANGED <<store, job, gen, docs, runVars>> /\ pc[c] = "audit"
        /\ \E p \in {"complete", "abort"} :
             pc' = [pc EXCEPT ![c] = p] /\ (p = "abort" => err'[c] # "none")
        /\ \A d \in Call : d # c => err'[d] = err[d]
    BY <1>5 DEF RecordCommitted, Goto, FailAndAbort, Leave, Inv, TypeOK
  <2>2. job[c].op = "undo" => docs[<<KeyOf(c), job[c].doc>>] = "undone"
    BY <2>1 DEF Inv, ExclInv, Effective
  <2> QED BY <2>1, <2>2, QuietCallExcl DEF Pc, Undone
<1>6. CASE Confirm(c)
  <2>1. /\ UNCHANGED <<store, job, gen, docs, runVars>> /\ pc[c] = "confirm"
        /\ pc' = [pc EXCEPT ![c] = "reply"]
        /\ \A d \in Call : d # c => err'[d] = err[d]
    BY <1>6 DEF Confirm, Answer, Leave, Inv, TypeOK
  <2>2. job[c].op = "write"
    BY <2>1 DEF Inv, ExclInv, OnlyWritesConfirm
  <2> QED BY <1>a, <2>1, <2>2, QuietCallExcl DEF Pc, Undone
<1>7. CASE Abort(c)
  <2>1. /\ UNCHANGED <<job, gen, docs, runVars, err>> /\ pc[c] = "abort"
        /\ pc' = [pc EXCEPT ![c] = "reply"]
    BY <1>7 DEF Abort, Goto
  <2>2. \A k \in Key, g \in Gen : Undone(k, g)' = Undone(k, g)
    BY <1>0, <1>7 DEF Abort, AbortRow, Undone, Inv, TypeOK
  <2>3. err[c] # "none"
    BY <2>1 DEF Inv, ExclInv, Effective
  <2> QED BY <2>1, <2>2, <2>3, QuietCallExcl DEF Pc
<1> QED BY <1>1, <1>2, <1>3, <1>4, <1>5, <1>6, <1>7

\* generation() gives a call the generation it works in.
LEMMA GenerationExcl ==
  ASSUME Inv, NEW c \in Call, Generation(c)
  PROVE  ExclInv'
<1> USE DEF Inv, ExclInv, targetVars, runVars
<1>1. /\ UNCHANGED <<store, job, docs, err, runVars>> /\ pc[c] = "generation"
      /\ pc' = [pc EXCEPT ![c] = "begin"]
      /\ job[c].op = "undo" => KeyOf(c) \in Compensable
    BY DEF Generation
<1>2. PICK g \in Gen : IsGeneration(KeyOf(c), g) /\ gen' = [gen EXCEPT ![c] = g]
    BY DEF Generation
<1>3. \A d \in Call : KeyOf(d)' = KeyOf(d) /\ KeyOf(d) \in Key
  BY <1>1, ConstantsAssumption DEF KeyOf, TypeOK, Job
<1>4. ~Undone(KeyOf(c), g)
  BY <1>2, <1>3, GenerationIsFresh
<1>5. \A k, h : Undone(k, h)' = Undone(k, h)
  BY <1>1 DEF Undone
<1>6. Attached'
  BY <1>1 DEF Attached, TypeOK
<1>7. Fresh'
  BY <1>1, <1>2, <1>3, <1>4, <1>5 DEF Fresh, TypeOK
<1>8. Declared'
  BY <1>1, <1>2, <1>3, <1>5 DEF Declared, TypeOK
<1>9. Effective' /\ OnlyWritesConfirm'
  BY <1>1, <1>2, <1>3 DEF Effective, OnlyWritesConfirm, TypeOK
<1>10. Newest' /\ Clean'
  BY <1>1 DEF Newest, Clean, CleanFailureUndoes
<1>11. UndoneIsDead'
  BY <1>1, <1>5 DEF UndoneIsDead
<1> QED BY <1>6, <1>7, <1>8, <1>9, <1>10, <1>11

\* The target creates a document only in a generation that is not undone,
\* and for a run that holds none yet; an undo kills the document it names.
LEMMA SendExcl ==
  ASSUME OwnKeys, Inv, NEW c \in Call, Send(c) \/ SendFails(c)
  PROVE  ExclInv'
<1> USE DEF Inv, ExclInv, targetVars, runVars
<1>1. /\ UNCHANGED <<store, job, gen, runVars>> /\ pc[c] = "send"
      /\ \/ /\ pc' = [pc EXCEPT ![c] = "audit"] /\ TargetEffect(c) /\ err' = err
         \/ /\ pc' = [pc EXCEPT ![c] = "abort"] /\ err'[c] = "retry"
            /\ \A d \in Call : d # c => err'[d] = err[d]
            /\ TargetEffect(c) \/ docs' = docs
  BY DEF Send, SendFails, Goto, FailAndAbort, Leave, TypeOK
<1>2. \A d \in Call : KeyOf(d)' = KeyOf(d) /\ KeyOf(d) \in Key
  BY <1>1, ConstantsAssumption DEF KeyOf, TypeOK, Job
<1>3. gen[c] \in Gen /\ <<KeyOf(c), gen[c]>> \in Key \X Gen
  BY <1>1, <1>2 DEF LockInv, Owned, SlotOf, Slot, Claimed
<1>4. job[c].run \in Run /\ KeyOf(c) = RunKey[job[c].run]
  BY DEF TypeOK, Job, KeyOf
<1>5. job[c].op = "undo" => /\ job[c].doc = doc[job[c].run] /\ job[c].doc \in Gen
                            /\ <<KeyOf(c), job[c].doc>> \in Key \X Gen
  BY <1>1, <1>2, <1>4 DEF Attached, Newest
<1>6. /\ docs' = docs
      \/ /\ job[c].op = "write" /\ docs[<<KeyOf(c), gen[c]>>] = "absent"
         /\ docs' = [docs EXCEPT ![<<KeyOf(c), gen[c]>>] = "live"]
      \/ /\ job[c].op = "undo"
         /\ docs' = [docs EXCEPT ![<<KeyOf(c), job[c].doc>>] = "undone"]
  BY <1>1 DEF TargetEffect
<1>7. \A e \in Key \X Gen : docs[e] = "undone" => docs'[e] = "undone"
  BY <1>3, <1>5, <1>6 DEF TypeOK
<1>8. Attached'
  BY <1>1 DEF Attached, TypeOK
<1>9. Fresh' /\ Declared'
  BY <1>1, <1>2 DEF Fresh, Declared, Undone, TypeOK
<1>10. Effective' /\ OnlyWritesConfirm'
  <2>1. ASSUME NEW d \in Call, job[d].op = "undo", pc'[d] # "idle"
        PROVE  <<KeyOf(d), job[d].doc>> \in Key \X Gen
    <3>1. pc[d] # "idle" /\ job[d].run \in Run
      BY <1>1, <2>1 DEF TypeOK, Job
    <3> QED BY <1>2, <2>1, <3>1 DEF Attached, Newest
  <2>2. job[c].op = "undo" /\ TargetEffect(c)
        => docs'[<<KeyOf(c), job[c].doc>>] = "undone"
    BY <1>5 DEF TargetEffect, TypeOK, Op
  <2>3. OnlyWritesConfirm'
    BY <1>1 DEF OnlyWritesConfirm, TypeOK
  <2> QED BY <1>1, <1>2, <1>7, <2>1, <2>2, <2>3 DEF Effective, TypeOK
<1>11. Newest'
  <2> SUFFICES ASSUME NEW r \in Run, phase[r] \in {"later", "undo"},
                      NEW h \in Gen, h > doc[r]
               PROVE  docs'[<<RunKey[r], h>>] = "absent"
    BY <1>1 DEF Newest
  <2>1. docs[<<RunKey[r], h>>] = "absent"
    BY DEF Newest
  <2>2. CASE r = job[c].run
    <3>1. job[c].op = "undo" /\ job[c].doc = doc[r]
      <4>1. job[c].op \in Op
        BY DEF TypeOK, Job
      <4> QED BY <1>1, <2>2, <4>1 DEF Attached, Op
    <3>2. doc[r] \in Gen /\ h # doc[r] /\ RunKey[r] \in Key
      BY ConstantsAssumption DEF Newest, Gen
    <3>3. <<KeyOf(c), job[c].doc>> # <<RunKey[r], h>>
      BY <3>1, <3>2
    <3>4. docs' = docs \/ docs' = [docs EXCEPT ![<<KeyOf(c), job[c].doc>>] = "undone"]
      BY <1>6, <3>1
    <3> QED BY <2>1, <3>2, <3>3, <3>4 DEF TypeOK
  <2>3. CASE r # job[c].run
    <3>1. RunKey[r] # KeyOf(c)
      BY <1>4, <2>3 DEF OwnKeys
    <3>2. RunKey[r] \in Key
      BY ConstantsAssumption
    <3> QED BY <1>6, <2>1, <3>1, <3>2 DEF TypeOK
  <2> QED BY <2>2, <2>3
<1>12. UndoneIsDead'
  <2>1. ~Undone(KeyOf(c), gen[c])
    BY <1>1, <1>3 DEF Fresh, Gen
  <2> SUFFICES ASSUME NEW k \in Key, NEW g \in Gen, Undone(k, g)' PROVE docs'[<<k, g>>] # "live"
    BY DEF UndoneIsDead
  <2>2. Undone(k, g) /\ docs[<<k, g>>] # "live"
    BY <1>1 DEF UndoneIsDead, Undone
  <2>3. <<k, g>> # <<KeyOf(c), gen[c]>> /\ <<k, g>> \in Key \X Gen
    BY <2>1, <2>2
  <2> QED BY <1>6, <2>2, <2>3 DEF TypeOK
<1>13. Clean'
  <2>1. \A r \in Run : phase[r] = "failed" /\ doc[r] # 0 =>
          <<RunKey[r], doc[r]>> \in Key \X Gen
    BY ConstantsAssumption DEF TypeOK
  <2> QED BY <1>1, <1>7, <2>1 DEF Clean, CleanFailureUndoes
<1> QED BY <1>8, <1>9, <1>10, <1>11, <1>12, <1>13

\* A completed undo is of the newest generation: the document it names, which
\* is dead by then, or one above it, which does not exist.
LEMMA CompleteExcl ==
  ASSUME OwnKeys, Inv, NEW c \in Call, Complete(c) \/ CompleteFails(c)
  PROVE  ExclInv'
<1> USE DEF Inv, ExclInv, targetVars, runVars
<1>1. /\ UNCHANGED <<docs, job, gen, runVars>> /\ pc[c] = "complete"
      /\ store' = store \/ store' = [store EXCEPT ![SlotOf(c)] = "done"]
      /\ \E p \in {"confirm", "reply", "abort"} :
           /\ pc' = [pc EXCEPT ![c] = p]
           /\ p = "confirm" => job[c].op = "write"
           /\ p = "abort" => err'[c] # "none"
           /\ job[c].op = "undo" => p = "reply"
      /\ \A d \in Call : d # c => err'[d] = err[d]
  BY DEF Complete, CompleteFails, Goto, Leave, TypeOK
<1>2. \A d \in Call : /\ KeyOf(d)' = KeyOf(d) /\ KeyOf(d) \in Key
                      /\ job[d].run \in Run /\ job[d].op \in Op
  BY <1>1, ConstantsAssumption DEF KeyOf, TypeOK, Job
<1>3. gen[c] \in Gen /\ SlotOf(c) = <<KeyOf(c), gen[c], job[c].op>> /\ SlotOf(c) \in Slot
  BY <1>1 DEF LockInv, Owned, SlotOf, Slot, Claimed
<1>4. \A k \in Key, g \in Gen : <<k, g, "undo">> \in Slot
  BY DEF Slot, Op
<1>5. \A k \in Key, g \in Gen : Undone(k, g)' =>
        Undone(k, g) \/ (job[c].op = "undo" /\ k = KeyOf(c) /\ g = gen[c])
  BY <1>1, <1>3, <1>4 DEF Undone, TypeOK
<1>6. Attached'
  BY <1>1 DEF Attached, TypeOK
<1>7. Fresh'
  <2> SUFFICES ASSUME NEW d \in Call, gen[d] # 0,
                      job[d].op = "write" \/ pc'[d] # "reply"
               PROVE  ~Undone(KeyOf(d), gen[d])'
    BY <1>1 DEF Fresh
  <2>1. gen[d] \in Gen /\ KeyOf(d) \in Key /\ pc[d] # "idle"
    BY <1>2 DEF TypeOK, ChainInv
  <2>2. CASE d = c
    <3>1. job[c].op = "write"
      BY <1>1, <1>2, <2>2 DEF TypeOK, Op
    <3>2. ~Undone(KeyOf(d), gen[d])
      BY <2>2, <3>1 DEF Fresh
    <3> QED BY <1>1, <1>2, <1>5, <2>1, <3>1, <3>2 DEF Undone
  <2>3. CASE d # c
    <3>1. KeyOf(d) # KeyOf(c)
      BY <1>1, <2>1, <2>3, OneCallPerKey
    <3>2. ~Undone(KeyOf(d), gen[d])
      BY <1>1, <2>3 DEF Fresh, TypeOK
    <3> QED BY <1>1, <1>2, <1>5, <2>1, <3>1, <3>2 DEF Undone
  <2> QED BY <2>2, <2>3
<1>8. Declared'
  <2>1. job[c].op = "undo" => KeyOf(c) \in Compensable
    BY <1>3 DEF Declared, Gen
  <2> QED BY <1>1, <1>2, <1>5, <2>1 DEF Declared
<1>9. Effective' /\ OnlyWritesConfirm'
  <2>1. job[c].op = "undo" => docs[<<KeyOf(c), job[c].doc>>] = "undone"
    BY <1>1 DEF Effective
  <2> QED BY <1>1, <1>2, <1>3, <2>1 DEF Effective, OnlyWritesConfirm, TypeOK
<1>10. Newest' /\ Clean'
  BY <1>1 DEF Newest, Clean, CleanFailureUndoes
<1>11. UndoneIsDead'
  <2>1. job[c].op = "undo" => docs[<<KeyOf(c), gen[c]>>] # "live"
    <3> HAVE job[c].op = "undo"
    <3>1. /\ docs[<<KeyOf(c), job[c].doc>>] = "undone"
          /\ ~Undone(KeyOf(c), gen[c])
      BY <1>1, <1>3 DEF Effective, Fresh, Gen
    <3>2. /\ phase[job[c].run] = "undo" /\ job[c].doc = doc[job[c].run]
          /\ KeyOf(c) = RunKey[job[c].run]
      BY <1>1, <1>2 DEF Attached, KeyOf
    <3>3. /\ job[c].doc \in Gen
          /\ gen[c] > job[c].doc => docs[<<KeyOf(c), gen[c]>>] = "absent"
      BY <1>2, <1>3, <3>2 DEF Newest
    <3>4. ~(gen[c] < job[c].doc)
      BY <1>3, <3>1 DEF ChainInv, Below
    <3> QED BY <1>3, <3>1, <3>3, <3>4 DEF Gen
  <2> QED BY <1>1, <1>5, <2>1 DEF UndoneIsDead
<1> QED BY <1>6, <1>7, <1>8, <1>9, <1>10, <1>11

\* A run's own steps are taken while it has no call at work.
LEMMA RunStepExcl ==
  ASSUME Inv, NEW r \in Run, RunStep(r) \/ Retry(r)
  PROVE  ExclInv'
<1> USE DEF Inv, ExclInv, targetVars, callVars, runVars
<1>1. CASE \E c \in Call : StartCall(r, c)
  <2> PICK c \in Call : StartCall(r, c) BY <1>1
  <2>1. /\ UNCHANGED <<store, docs, gen, err, phase, doc>>
        /\ phase[r] \in {"commit", "undo"} /\ cur[r] = None /\ pc[c] = "idle"
        /\ pc' = [pc EXCEPT ![c] = "generation"] /\ cur' = [cur EXCEPT ![r] = c]
        /\ job'[c].run = r /\ job'[c].doc = doc[r]
        /\ job'[c].op = (IF phase[r] = "commit" THEN "write" ELSE "undo")
        /\ \A d \in Call : d # c => job'[d] = job[d]
    BY DEF StartCall, TypeOK
  <2>2. gen[c] = 0
    BY <2>1 DEF ChainInv
  <2>3. \A d \in Call : d # c => KeyOf(d)' = KeyOf(d)
    BY <2>1 DEF KeyOf
  <2>4. Attached'
    <3>1. \A d \in Call : d # c /\ pc[d] # "idle" => job[d].run # r
      BY <2>1, ConstantsAssumption DEF Attached
    <3>2. \A d \in Call : d # c => pc'[d] = pc[d]
      BY <2>1 DEF TypeOK
    <3>3. \A q \in Run : q # r => cur'[q] = cur[q]
      BY <2>1 DEF TypeOK
    <3>4. cur'[r] = c /\ pc'[c] = "generation"
      BY <2>1 DEF TypeOK
    <3>5. \A d \in Call : job[d].run \in Run
      BY DEF TypeOK, Job
    <3> QED BY <2>1, <3>1, <3>2, <3>3, <3>4, <3>5 DEF Attached
  <2>5. Fresh' /\ Declared'
    BY <2>1, <2>2, <2>3 DEF Fresh, Declared, Undone, TypeOK
  <2>6. Effective' /\ OnlyWritesConfirm'
    BY <2>1, <2>3 DEF Effective, OnlyWritesConfirm, TypeOK
  <2>7. Newest' /\ Clean' /\ UndoneIsDead'
    BY <2>1 DEF Newest, Clean, CleanFailureUndoes, UndoneIsDead, Undone
  <2> QED BY <2>4, <2>5, <2>6, <2>7
<1>2. CASE ~\E c \in Call : StartCall(r, c)
  <2>1. /\ UNCHANGED <<store, docs, pc, job, gen, err, cur>>
        /\ phase[r] \notin {"commit", "undo"}
        /\ \A q \in Run : q # r => phase'[q] = phase[q] /\ doc'[q] = doc[q]
    BY <1>2 DEF RunStep, Retry, PrepareDuplicate, PrepareOk, PrepareFails,
                LaterStepsSucceed, LaterStepFails, Closed, TypeOK
  <2>2. \/ phase[r] = "prepare" /\ phase'[r] = "reused"
        \/ phase[r] = "prepare" /\ phase'[r] = "commit" /\ doc'[r] = doc[r]
        \/ phase[r] = "prepare" /\ phase'[r] = "failed" /\ doc'[r] = doc[r]
        \/ phase'[r] = "succeeded"
        \/ phase[r] = "later" /\ phase'[r] = "undo" /\ doc'[r] = doc[r]
        \/ phase'[r] = "failed" /\ doc'[r] = 0
        \/ phase'[r] = "prepare" /\ doc'[r] = 0
    BY <1>2 DEF RunStep, Retry, PrepareDuplicate, PrepareOk, PrepareFails,
                LaterStepsSucceed, LaterStepFails, TypeOK
  <2>3. \A d \in Call : KeyOf(d)' = KeyOf(d) /\ job[d].run \in Run
    BY <2>1 DEF KeyOf, TypeOK, Job
  <2>4. \A d \in Call : pc[d] # "idle" => job[d].run # r
    BY <2>1 DEF Attached
  <2>5. Attached'
    BY <2>1, <2>3, <2>4 DEF Attached
  <2>6. Fresh' /\ Declared' /\ Effective' /\ OnlyWritesConfirm' /\ UndoneIsDead'
    BY <2>1, <2>3
    DEF Fresh, Declared, Effective, OnlyWritesConfirm, UndoneIsDead, Undone
  <2>7. Newest'
    BY <2>1, <2>2 DEF Newest
  <2>8. Clean'
    BY <2>1, <2>2 DEF Clean, CleanFailureUndoes
  <2> QED BY <2>5, <2>6, <2>7, <2>8
<1> QED BY <1>1, <1>2

\* A call ends: with its answer, or because its worker died.
LEMMA FinishExcl ==
  ASSUME OwnKeys, Inv, NEW c \in Call, Reply(c) \/ Crash(c)
  PROVE  ExclInv'
<1> USE DEF Inv, ExclInv, targetVars, callVars, runVars
<1>1. Finish(c) /\ UNCHANGED <<store, docs>> /\ pc[c] # "idle"
  BY DEF Reply, Crash
<1>2. PICK r \in Run : r = job[c].run
  BY DEF TypeOK, Job
<1>3. /\ cur[r] = c
      /\ phase[r] = (IF job[c].op = "write" THEN "commit" ELSE "undo")
      /\ job[c].doc = doc[r] /\ KeyOf(c) = RunKey[r] /\ job[c].op \in Op
  BY <1>1, <1>2 DEF Attached, KeyOf, TypeOK, Job
<1>4. /\ pc'[c] = "idle" /\ gen'[c] = 0 /\ job'[c].run = r
      /\ \A d \in Call : d # c =>
           /\ pc'[d] = pc[d] /\ gen'[d] = gen[d] /\ job'[d] = job[d]
           /\ err'[d] = err[d] /\ KeyOf(d)' = KeyOf(d)
  BY <1>1, <1>2 DEF Finish, KeyOf, TypeOK
<1>5. \A q \in Run : q # r => /\ phase'[q] = phase[q] /\ doc'[q] = doc[q]
                              /\ cur'[q] = cur[q]
  BY <1>2, <1>3 DEF Reply, Crash, AttemptFailed, TypeOK
<1>6. \/ phase'[r] = phase[r] /\ doc'[r] = doc[r]
      \/ phase[r] = "commit" /\ phase'[r] = "failed" /\ doc'[r] = doc[r]
      \/ phase[r] = "undo" /\ phase'[r] = "compensationFailed"
      \/ /\ pc[c] = "reply" /\ err[c] = "none" /\ job[c].op = "write"
         /\ phase'[r] = "later" /\ doc'[r] = gen[c]
      \/ /\ pc[c] = "reply" /\ err[c] = "none" /\ job[c].op = "undo"
         /\ phase'[r] = "failed" /\ doc'[r] = doc[r]
  BY <1>2, <1>3 DEF Reply, Crash, AttemptFailed, TypeOK, Op
<1>7. \A d \in Call : d # c /\ pc[d] # "idle" => job[d].run # r
  BY <1>3 DEF Attached
<1>8. Attached'
  <2>1. \A d \in Call : job[d].run \in Run
    BY DEF TypeOK, Job
  <2> QED BY <1>4, <1>5, <1>7, <2>1 DEF Attached
<1>9. Fresh' /\ Declared' /\ OnlyWritesConfirm' /\ UndoneIsDead'
  BY <1>1, <1>4 DEF Fresh, Declared, OnlyWritesConfirm, UndoneIsDead, Undone
<1>10. Effective'
  BY <1>1, <1>4 DEF Effective
<1>11. Newest'
  <2>1. ASSUME pc[c] = "reply", err[c] = "none", job[c].op = "write"
        PROVE  /\ gen[c] \in Gen
               /\ \A h \in Gen : h > gen[c] => docs[<<RunKey[r], h>>] = "absent"
    <3>a. gen[c] \in Gen
      BY <2>1 DEF Effective
    <3>0. gen[c] \in Gen /\ gen[c] # 0
      BY <3>a, ConstantsAssumption DEF Gen
    <3>1. gen[c] \in Gen /\ ~Undone(RunKey[r], gen[c])
      BY <1>3, <2>1, <3>0 DEF Fresh
    <3>2. \A h \in Gen : h > gen[c] => ~Below(RunKey[r], h)
      BY <3>1 DEF Below, Gen
    <3>3. RunKey[r] \in Key
      BY ConstantsAssumption
    <3> QED BY <3>1, <3>2, <3>3 DEF OrderInv, Touched
  <2> QED BY <1>1, <1>5, <1>6, <2>1 DEF Newest
<1>12. Clean'
  <2>1. pc[c] = "reply" /\ err[c] = "none" /\ job[c].op = "undo"
        => docs[<<RunKey[r], doc[r]>>] = "undone"
    BY <1>3 DEF Effective
  <2> QED BY <1>1, <1>3, <1>5, <1>6, <2>1 DEF Clean, CleanFailureUndoes, Op
<1> QED BY <1>8, <1>9, <1>10, <1>11, <1>12

\* Every step keeps the invariant of keys that belong to one run.
LEMMA NextExcl ==
  ASSUME OwnKeys, Inv, [Next]_vars
  PROVE  ExclInv'
<1>1. CASE \E r \in Run : RunStep(r) \/ Retry(r)
  BY <1>1, RunStepExcl
<1>2. CASE \E c \in Call : CallStep(c) \/ Crash(c) \/ AttemptTimesOut(c)
  <2> PICK c \in Call : CallStep(c) \/ Crash(c) \/ AttemptTimesOut(c) BY <1>2
  <2>1. ~AttemptTimesOut(c)
    BY DEF AttemptTimesOut, OwnKeys
  <2> QED
    BY <2>1, QuietStepsExcl, GenerationExcl, SendExcl, CompleteExcl, FinishExcl
    DEF CallStep
<1>3. CASE \E s \in Slot : LeaseExpires(s)
  <2> PICK s \in Slot : LeaseExpires(s) BY <1>3
  <2>1. UNCHANGED <<docs, pc, job, gen, err, runVars>>
    BY DEF LeaseExpires, targetVars, callVars
  <2>2. \A k \in Key, g \in Gen : Undone(k, g)' = Undone(k, g)
    <3>1. \A k \in Key, g \in Gen : <<k, g, "undo">> \in Slot
      BY DEF Slot, Op
    <3> QED BY <3>1 DEF LeaseExpires, Undone, Inv, TypeOK
  <2>3. \A c \in Call : /\ KeyOf(c)' = KeyOf(c) /\ KeyOf(c) \in Key
                        /\ gen[c] \in Gen \cup {0}
    BY <2>1, ConstantsAssumption DEF KeyOf, Inv, TypeOK, Job
  <2>4. Fresh' /\ Declared' /\ UndoneIsDead'
    BY <2>1, <2>2, <2>3
    DEF Inv, ExclInv, Fresh, Declared, UndoneIsDead
  <2>5. Attached' /\ Effective' /\ Newest' /\ OnlyWritesConfirm' /\ Clean'
    BY <2>1, <2>3
    DEF Inv, ExclInv, Attached, Effective, Newest, OnlyWritesConfirm, Clean,
        CleanFailureUndoes, runVars
  <2> QED BY <2>4, <2>5 DEF ExclInv
<1>4. CASE UNCHANGED vars
  BY <1>4
  DEF vars, targetVars, callVars, runVars, Inv, ExclInv, Attached, Fresh,
      Declared, Effective, Newest, UndoneIsDead, OnlyWritesConfirm, Clean,
      CleanFailureUndoes, KeyOf, Undone
<1> QED BY <1>1, <1>2, <1>3, <1>4 DEF Next

\* The whole invariant holds in every reachable state.
LEMMA InvHolds == ASSUME OwnKeys PROVE Spec => []Inv
<1>1. Init => Inv
  BY InitType, InitLock, InitChain, InitExcl DEF Inv
<1>2. Inv /\ [Next]_vars => Inv'
  BY NextType, NextLock, NextChain, NextOrder, NextExcl DEF Inv
<1> QED BY <1>1, <1>2, PTL DEF Spec

\* A key's live documents are of one generation.
LEMMA LiveIsUnique ==
  ASSUME Inv, NEW k \in Key, NEW g \in Gen, NEW h \in Gen,
         docs[<<k, g>>] = "live", docs[<<k, h>>] = "live"
  PROVE  g = h
<1>1. ~Undone(k, g) /\ ~Undone(k, h)
  BY DEF Inv, ExclInv, UndoneIsDead
<1>2. Below(k, g) /\ Below(k, h)
  BY DEF Inv, OrderInv, Touched
<1> QED BY <1>1, <1>2 DEF Below, Gen

\* When every event has its own key, retries, crashes, lost answers and
\* operators' retries never leave two live documents for one key.
THEOREM NoSecondLiveDocument == ASSUME OwnKeys PROVE Spec => []AtMostOneLive
<1>1. Inv => AtMostOneLive
  BY LiveIsUnique DEF AtMostOneLive
<1> QED BY <1>1, InvHolds, PTL

\* When every event has its own key, a run that reports its own failure with
\* its writes undone has really undone the document it committed.
THEOREM CleanFailuresUndo == ASSUME OwnKeys PROVE Spec => []CleanFailureUndoes
<1>1. Inv => CleanFailureUndoes
  BY DEF Inv, ExclInv, Clean
<1> QED BY <1>1, InvHolds, PTL
=============================================================================
