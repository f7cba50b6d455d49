-------------------------- MODULE IntegrationProofs --------------------------
(***************************************************************************)
(* What IntegrationWorkflow keeps, for any workflow, any number of signals *)
(* and any number of retries.  The properties are not inductive: that a    *)
(* failed run has left nothing needs to be known of every compensation     *)
(* while the loop still runs, and that a run takes back only what is its   *)
(* own needs the order in which it went through its steps.                 *)
(***************************************************************************)
EXTENDS Integration, TLAPS

\* A run waits, commits and calls plugins at write steps only, and is past
\* its last step when it has completed.
Placed ==
  /\ pc \in {"await", "commit", "plugins"} => step \in WriteStep
  /\ pc # "completed" => step <= N

\* The writes on the list are of steps before this one, in their order.
Listed ==
  /\ \A i \in 1..Len(done) : done[i] < step \/ (pc = "plugins" /\ done[i] = step)
  /\ \A i, j \in 1..Len(done) : i < j => done[i] < done[j]
  /\ Len(done) < step \/ (pc = "plugins" /\ Len(done) = step)

\* While fail() works through the list, it has undone or reported what is
\* behind it; a run that failed has undone everything.
TakenBack ==
  /\ undoing \in 0..Len(done)
  /\ pc = "undo" <=> undoing # 0
  /\ pc \in {"undo", "failed"} =>
       \A i \in (undoing + 1)..Len(done) :
         written[done[i]] = "absent" \/ done[i] \in errs

\* Only a run that was undoing has errors, and it is told of; a refused write
\* is told of when the run has failed and undone the others.
Reported ==
  /\ pc \notin {"undo", "compensationFailed"} => errs = {}
  /\ pc = "compensationFailed" => "compensationFailed" \in told
  /\ "writeRefused" \in told => pc = "failed"

\* What was there before the run stays, and is neither on its list nor at a
\* step it is about to write.
Apart ==
  /\ \A s \in foreign : written[s] \in {"live", "ghost"}
  /\ \A i \in 1..Len(done) : done[i] \notin foreign
  /\ pc \in {"await", "commit", "plugins"} => step \notin foreign

\* Everything the run can receive was sent to it.
Heard == \A i \in 1..Len(channel) : channel[i] \in sent

\* Plugins have run for steps before this one only.
NotYetRun == \A s \in WriteStep : s >= step => plugins[s] = 0

IInv == /\ TypeOK /\ Placed /\ Listed /\ TakenBack /\ Reported /\ Apart
        /\ Heard /\ ApprovalBindsRequest /\ NotYetRun

\* A run starts with nothing written, listed or told.
LEMMA InitIInv == Init => IInv
  BY ConstantsAssumption
  DEF Init, IInv, TypeOK, Placed, Listed, TakenBack, Reported, Apart, Heard,
      ApprovalBindsRequest, NotYetRun, Closed, Written, Signal

\* The entries of the list are step numbers.
LEMMA ListType ==
  ASSUME TypeOK
  PROVE  /\ Len(done) \in Nat
         /\ \A i \in 1..Len(done) : done[i] \in WriteStep /\ done[i] \in 1..N
<1>1. done \in Seq(WriteStep)
  BY DEF TypeOK
<1>2. Len(done) \in Nat /\ \A i \in 1..Len(done) : done[i] \in WriteStep
  BY <1>1
<1> QED BY <1>2, ConstantsAssumption

\* A list in the order of its steps stays so when a later step joins it.
LEMMA AppendOrdered ==
  ASSUME NEW list \in Seq(WriteStep), NEW s \in WriteStep,
         \A i, j \in 1..Len(list) : i < j => list[i] < list[j],
         \A i \in 1..Len(list) : list[i] < s
  PROVE  LET longer == Append(list, s)
         IN  /\ Len(longer) = Len(list) + 1 /\ longer \in Seq(WriteStep)
             /\ \A i \in 1..Len(longer) : longer[i] \in ToSet(list) \cup {s}
             /\ \A i \in 1..Len(longer) : longer[i] < s \/ longer[i] = s
             /\ \A i, j \in 1..Len(longer) : i < j => longer[i] < longer[j]
<1> DEFINE longer == Append(list, s)
<1>1. Len(list) \in Nat /\ Len(longer) = Len(list) + 1 /\ longer \in Seq(WriteStep)
  OBVIOUS
<1>2. ASSUME NEW i \in 1..Len(longer)
      PROVE  \/ i \in 1..Len(list) /\ longer[i] = list[i]
             \/ i = Len(list) + 1 /\ longer[i] = s
  BY <1>1
<1>3. ASSUME NEW i \in 1..Len(longer), NEW j \in 1..Len(longer), i < j
      PROVE  longer[i] < longer[j]
  BY <1>1, <1>2, <1>3
<1>4. \A i \in 1..Len(longer) : longer[i] \in ToSet(list) \cup {s}
  BY <1>2 DEF ToSet
<1>5. \A i \in 1..Len(longer) : longer[i] < s \/ longer[i] = s
  BY <1>2
<1> QED BY <1>1, <1>3, <1>4, <1>5

\* fail(): the list is as it was, and none of it undone yet.
LEMMA FailKeeps ==
  ASSUME IInv, NEW kind \in {"other", "stewardNeeded", "writeRefused"},
         pc \in {"step", "commit"}, Fail(kind), decision' = decision,
         written' \in [WriteStep -> Written],
         \A s \in foreign : written'[s] = written[s]
  PROVE  IInv'
<1> USE ConstantsAssumption DEF IInv, Fail, runVars
<1>0. Len(done) \in Nat
  BY DEF TypeOK
<1>a. told' \subseteq {"approvalPending", "approvalTimedOut", "stewardNeeded",
                      "writeRefused", "compensationFailed"}
  BY DEF TypeOK
<1>b. undoing' \in 0..Len(done') /\ pc' \in {"failed", "undo"}
  BY <1>0
<1>1. TypeOK'
  BY <1>a, <1>b DEF TypeOK, Closed
<1>2. Placed' /\ Listed' /\ Heard' /\ ApprovalBindsRequest' /\ NotYetRun'
  BY DEF TypeOK, Placed, Listed, Heard, ApprovalBindsRequest, NotYetRun
<1>3. TakenBack' /\ Reported' /\ Apart'
  BY DEF TypeOK, TakenBack, Reported, Apart
<1> QED BY <1>1, <1>2, <1>3

\* A step is passed: its write, if it made one, ends the list.
LEMMA AdvanceKeeps ==
  ASSUME IInv, Advance, pc \in {"step", "commit", "plugins"},
         UNCHANGED <<version, foreign, retries, undoing, errs, channel, why, sent>>,
         \/ done' = done
         \/ done' = Append(done, step) /\ pc = "commit",
         \/ plugins' = plugins
         \/ plugins' = [plugins EXCEPT ![step] = @ + 1] /\ pc = "plugins",
         written' \in [WriteStep -> Written],
         \A s \in foreign : written'[s] = written[s]
  PROVE  IInv'
<1> USE ConstantsAssumption DEF IInv, Advance
<1>0. step \in 1..N /\ (pc # "step" => step \in WriteStep) /\ Len(done) \in Nat
  BY DEF TypeOK, Placed
<1>a. /\ done' \in Seq(WriteStep) /\ Len(done') \in Nat /\ Len(done') >= Len(done)
      /\ Len(done') <= Len(done) + 1
      /\ pc # "commit" => done' = done
      /\ \A i \in 1..Len(done) : done'[i] = done[i]
      /\ \A i \in 1..Len(done') : i > Len(done) => done'[i] = step /\ pc = "commit"
  <2>1. done \in Seq(WriteStep)
    BY DEF TypeOK
  <2>2. CASE done' = done
    BY <1>0, <2>1, <2>2
  <2>3. CASE done' = Append(done, step) /\ pc = "commit"
    BY <1>0, <2>1, <2>3
  <2> QED BY <2>2, <2>3
<1>b. Len(done') <= N
  BY <1>0, <1>a DEF TypeOK, Placed, Listed
<1>c. plugins' \in [WriteStep -> 0..1]
  BY <1>0 DEF TypeOK, NotYetRun
<1>d. step' \in 1..(N + 1) /\ pc' \in {"step", "completed"}
  BY <1>0
<1>1. TypeOK'
  BY <1>a, <1>b, <1>c, <1>d DEF TypeOK, Closed
<1>e. Listed'
  <2>0. /\ done \in Seq(WriteStep) /\ \A i \in 1..Len(done) : done[i] \in 1..N
        /\ step' = step + 1 /\ pc' # "plugins"
    BY ListType DEF TypeOK
  <2>1. CASE done' = done
    BY <1>0, <2>0, <2>1 DEF Listed
  <2>2. CASE done' = Append(done, step) /\ pc = "commit"
    <3>1. /\ \A i \in 1..Len(done) : done[i] < step
          /\ \A i, j \in 1..Len(done) : i < j => done[i] < done[j]
          /\ Len(done) < step
      BY <2>2 DEF Listed
    <3>2. /\ Len(done') = Len(done) + 1 /\ done' \in Seq(WriteStep)
          /\ \A i \in 1..Len(done') : done'[i] < step \/ done'[i] = step
          /\ \A i, j \in 1..Len(done') : i < j => done'[i] < done'[j]
      BY <1>0, <2>0, <2>2, <3>1, AppendOrdered
    <3>3. \A i \in 1..Len(done') : done'[i] \in WriteStep
      BY <3>2
    <3> QED BY <1>0, <2>0, <3>1, <3>2, <3>3 DEF Listed
  <2> QED BY <2>1, <2>2
<1>2. Placed' /\ Listed' /\ Heard' /\ ApprovalBindsRequest'
  <2>1. Placed'
    BY <1>0, <1>d DEF TypeOK, Placed
  <2>2. Heard' /\ ApprovalBindsRequest'
    BY <1>0 DEF Heard, ApprovalBindsRequest
  <2> QED BY <1>e, <2>1, <2>2
<1>3. TakenBack' /\ Reported' /\ Apart'
  <2>1. TakenBack'
    <3>1. undoing' = undoing /\ undoing = 0 /\ pc' \notin {"undo", "failed"}
      BY <1>d DEF TakenBack
    <3> QED BY <1>a, <3>1 DEF TakenBack
  <2>2. Reported'
    BY DEF Reported
  <2>3. Apart'
    <3>1. \A i \in 1..Len(done') : done'[i] \notin foreign
      <4> SUFFICES ASSUME NEW i \in 1..Len(done') PROVE done'[i] \notin foreign
        OBVIOUS
      <4>1. CASE i <= Len(done)
        BY <1>0, <1>a, <4>1 DEF Apart
      <4>2. CASE i > Len(done)
        BY <1>a, <4>2 DEF Apart
      <4> QED BY <1>0, <1>a, <4>1, <4>2
    <3> QED BY <1>d, <3>1 DEF Apart
  <2> QED BY <2>1, <2>2, <2>3
<1>4. NotYetRun'
  BY DEF TypeOK, Placed, NotYetRun
<1> QED BY <1>1, <1>2, <1>3, <1>4

\* A compensation is tried: its write is undone, or it is in errs.
LEMMA UndoKeeps ==
  ASSUME IInv, UndoOk \/ UndoFails
  PROVE  IInv'
<1> USE ConstantsAssumption DEF IInv, UndoOk, UndoFails, AfterUndo, NextUndo, runVars
<1>0. undoing \in 1..Len(done) /\ done[undoing] \in WriteStep
  BY DEF TypeOK, TakenBack
<1>a. /\ undoing' = undoing - 1 /\ undoing' \in 0..Len(done)
      /\ undoing = 1 <=> undoing' = 0
  BY <1>0
<1>b. /\ written' \in [WriteStep -> Written]
      /\ \A s \in WriteStep : s # done[undoing] => written'[s] = written[s]
      /\ written'[done[undoing]] = "absent" \/ done[undoing] \in errs'
      /\ errs \subseteq errs' /\ errs' \subseteq WriteStep
  BY <1>0 DEF TypeOK, Written
<1>1. TypeOK'
  BY <1>a, <1>b DEF TypeOK, Closed
<1>2. Placed' /\ Listed' /\ Heard' /\ ApprovalBindsRequest' /\ NotYetRun'
  <2>1. Placed'
    BY DEF TypeOK, Placed
  <2>2. Listed'
    BY DEF TypeOK, Placed, Listed
  <2>3. Heard'
    BY DEF TypeOK, Placed, Heard
  <2>4. ApprovalBindsRequest'
    BY DEF TypeOK, Placed, ApprovalBindsRequest
  <2>5. NotYetRun'
    BY DEF TypeOK, Placed, NotYetRun
  <2> QED BY <2>1, <2>2, <2>3, <2>4, <2>5
<1>3. TakenBack'
  <2>1. ASSUME NEW i \in undoing..Len(done)
        PROVE  written'[done[i]] = "absent" \/ done[i] \in errs'
    <3>1. CASE i = undoing
      BY <1>b, <3>1
    <3>2. CASE i # undoing
      <4>1. i \in (undoing + 1)..Len(done) /\ done[i] \in WriteStep
        BY <1>0, <3>2 DEF TypeOK
      <4>2. written[done[i]] = "absent" \/ done[i] \in errs
        BY <4>1 DEF TakenBack
      <4>3. done[i] # done[undoing]
        <5>1. done[i] \in 1..N /\ done[undoing] \in 1..N
          BY <1>0, <4>1
        <5>2. done[undoing] < done[i]
          BY <1>0, <4>1 DEF Listed
        <5> QED BY <5>1, <5>2
      <4> QED BY <1>b, <4>1, <4>2, <4>3
    <3> QED BY <3>1, <3>2
  <2>2. undoing' + 1 = undoing
    BY <1>0
  <2> QED BY <1>0, <1>a, <2>1, <2>2 DEF TakenBack
<1>4. Reported'
  BY <1>0 DEF TypeOK, Reported
<1>5. Apart'
  BY <1>0 DEF TypeOK, Apart
<1> QED BY <1>1, <1>2, <1>3, <1>4, <1>5

\* Every step of the run, of the people and of the calls before it.
LEMMA NextIInv == IInv /\ [Next]_vars => IInv'
<1> SUFFICES ASSUME IInv, [Next]_vars PROVE IInv'
  OBVIOUS
<1> USE ConstantsAssumption
<1>0. TypeOK /\ Placed /\ Apart
  BY DEF IInv
<1>1. CASE LocalStepOk \/ PrepareDuplicate
  BY <1>0, <1>1, AdvanceKeeps DEF LocalStepOk, PrepareDuplicate, TypeOK
<1>2. CASE RunPlugins
  BY <1>0, <1>2, AdvanceKeeps DEF RunPlugins, TypeOK
<1>3. CASE CommitRetried \/ CommitDuplicate \/ (CommitOk /\ Advance)
  <2>1. /\ written' \in [WriteStep -> Written]
        /\ \A s \in foreign : written'[s] = written[s]
    BY <1>0, <1>3 DEF CommitRetried, CommitDuplicate, CommitOk, TypeOK, Placed,
                      Apart, Written
  <2> QED BY <1>3, <2>1, AdvanceKeeps
          DEF CommitRetried, CommitDuplicate, CommitOk
<1>4. CASE CommitOk /\ ~Advance
  <2>1. /\ pc = "commit" /\ pc' = "plugins" /\ step \in WriteStep
        /\ done' = Append(done, step)
        /\ written' = [written EXCEPT ![step] = "live"]
        /\ UNCHANGED <<step, version, foreign, retries, decision, undoing, errs,
                       channel, why, told, sent, plugins>>
    BY <1>0, <1>4 DEF CommitOk, Placed
  <2>2. /\ done \in Seq(WriteStep) /\ Len(done) \in Nat /\ step \in 1..N
        /\ \A i \in 1..Len(done) : done[i] \in 1..N
    BY <1>0, <2>1, ListType DEF TypeOK
  <2>3. /\ done' \in Seq(WriteStep) /\ Len(done') = Len(done) + 1
        /\ \A i \in 1..Len(done) : done'[i] = done[i]
        /\ done'[Len(done')] = step
    BY <2>1, <2>2
  <2>4. /\ \A i \in 1..Len(done) : done[i] < step
        /\ Len(done) < step
    BY <2>1, <2>2 DEF IInv, Listed
  <2>5. Listed'
    <3>1. \A i, j \in 1..Len(done) : i < j => done[i] < done[j]
      BY DEF IInv, Listed
    <3>2. /\ \A i \in 1..Len(done') : done'[i] < step \/ done'[i] = step
          /\ \A i, j \in 1..Len(done') : i < j => done'[i] < done'[j]
      BY <2>1, <2>2, <2>4, <3>1, AppendOrdered
    <3> QED BY <2>1, <2>2, <2>3, <2>4, <3>2 DEF Listed
  <2>6. undoing = 0 /\ errs = {}
    BY <2>1 DEF IInv, TakenBack, Reported
  <2>7. TypeOK'
    BY <1>0, <2>1, <2>2, <2>3, <2>4, <2>6 DEF TypeOK, Written
  <2>8. TakenBack' /\ Reported'
    BY <2>1, <2>2, <2>3, <2>6 DEF IInv, TakenBack, Reported
  <2>9. Apart'
    BY <1>0, <2>1, <2>2, <2>3 DEF TypeOK, Apart
  <2>10. Placed' /\ Heard' /\ ApprovalBindsRequest' /\ NotYetRun'
    BY <2>1 DEF IInv, Placed, Heard, ApprovalBindsRequest, NotYetRun
  <2> QED BY <2>5, <2>7, <2>8, <2>9, <2>10 DEF IInv
<1>5. CASE LocalStepFails \/ PrepareFails \/ CommitRefused \/ CommitGivesUp
  <2>1. /\ written' \in [WriteStep -> Written]
        /\ \A s \in foreign : written'[s] = written[s]
    BY <1>0, <1>5 DEF LocalStepFails, PrepareFails, CommitRefused,
                      CommitGivesUp, TypeOK, Placed, Apart, Written
  <2> QED BY <1>5, <2>1, FailKeeps
          DEF LocalStepFails, PrepareFails, CommitRefused, CommitGivesUp
<1>6. CASE UndoOk \/ UndoFails
  BY <1>6, UndoKeeps
<1>7. CASE PrepareOk \/ ApprovalTimesOut
  <2>1. TypeOK' /\ Placed' /\ Apart'
    BY <1>0, <1>7 DEF PrepareOk, ApprovalTimesOut, runVars, TypeOK, Placed,
                      Apart, Closed
  <2>2. Listed' /\ TakenBack' /\ Reported'
    BY <1>7 DEF PrepareOk, ApprovalTimesOut, runVars, IInv, TypeOK, Listed,
                TakenBack, Reported
  <2>3. Heard' /\ ApprovalBindsRequest' /\ NotYetRun'
    BY <1>7 DEF PrepareOk, ApprovalTimesOut, runVars, IInv, Heard,
                ApprovalBindsRequest, NotYetRun
  <2> QED BY <2>1, <2>2, <2>3 DEF IInv
<1>8. CASE ReceiveSignal
  <2>1. /\ channel \in Seq(Signal) /\ channel # <<>> /\ Len(channel) \in Nat
        /\ Head(channel) = channel[1] /\ Head(channel) \in Signal
        /\ 1 \in 1..Len(channel)
    BY <1>0, <1>8 DEF TypeOK, ReceiveSignal
  <2>2. /\ Tail(channel) \in Seq(Signal) /\ Len(Tail(channel)) = Len(channel) - 1
        /\ \A i \in 1..(Len(channel) - 1) :
             Tail(channel)[i] = channel[i + 1] /\ i + 1 \in 1..Len(channel)
    BY <2>1
  <2>3. Head(channel) \in sent
    BY <2>1 DEF IInv, Heard
  <2>4. Matches(Head(channel)) /\ Head(channel).status = "approved"
        => [step |-> step, digest |-> version, status |-> "approved"] \in sent
    BY <2>1, <2>3 DEF Matches, Signal
  <2>5. TypeOK'
    BY <1>0, <1>8, <2>1, <2>2 DEF ReceiveSignal, runVars, TypeOK, Signal
  <2>6. Heard'
    BY <1>8, <2>2 DEF ReceiveSignal, IInv, Heard
  <2>7. ApprovalBindsRequest'
    BY <1>8, <2>4 DEF ReceiveSignal, runVars, IInv, ApprovalBindsRequest
  <2>8. Placed' /\ Listed' /\ TakenBack' /\ Reported' /\ Apart' /\ NotYetRun'
    BY <1>8 DEF ReceiveSignal, runVars, IInv, Placed, Listed, TakenBack,
                Reported, Apart, NotYetRun
  <2> QED BY <2>5, <2>6, <2>7, <2>8 DEF IInv
<1>9. CASE \E sig \in Signal : SendSignal(sig)
  <2> PICK sig \in Signal : SendSignal(sig) BY <1>9
  <2>1. channel \in Seq(Signal)
    BY <1>0 DEF TypeOK
  <2>2. TypeOK'
    BY <1>0, <2>1 DEF SendSignal, runVars, TypeOK
  <2>3. Heard'
    BY <2>1 DEF SendSignal, IInv, Heard
  <2>4. /\ Placed' /\ Listed' /\ TakenBack' /\ Reported' /\ Apart'
        /\ ApprovalBindsRequest' /\ NotYetRun'
    BY DEF SendSignal, runVars, IInv, Placed, Listed, TakenBack, Reported,
           Apart, ApprovalBindsRequest, NotYetRun
  <2> QED BY <2>2, <2>3, <2>4 DEF IInv
<1>10. CASE \E s \in WriteStep : LateCommit(s)
  <2> PICK s \in WriteStep : LateCommit(s) BY <1>10
  <2>1. TypeOK' /\ Apart'
    BY <1>0 DEF LateCommit, runVars, TypeOK, Apart, Written
  <2>2. TakenBack'
    BY <1>0 DEF LateCommit, runVars, TypeOK, IInv, TakenBack
  <2>3. /\ Placed' /\ Listed' /\ Reported' /\ Heard'
        /\ ApprovalBindsRequest' /\ NotYetRun'
    BY DEF LateCommit, runVars, IInv, Placed, Listed, Reported, Heard,
           ApprovalBindsRequest, NotYetRun
  <2> QED BY <2>1, <2>2, <2>3 DEF IInv
<1>11. CASE Retry
  <2>1. TypeOK'
    BY <1>0, <1>11 DEF Retry, Recorded, TypeOK, Closed
  <2>2. Placed' /\ Listed' /\ TakenBack' /\ Reported'
    BY <1>11 DEF Retry, Placed, Listed, TakenBack, Reported
  <2>3. Apart' /\ Heard' /\ ApprovalBindsRequest' /\ NotYetRun'
    BY <1>11 DEF Retry, Recorded, Apart, Heard, ApprovalBindsRequest, NotYetRun
  <2> QED BY <2>1, <2>2, <2>3 DEF IInv
<1>12. CASE UNCHANGED vars
  <2>1. TypeOK' /\ Placed' /\ Listed'
    BY <1>12 DEF vars, runVars, IInv, TypeOK, Placed, Listed
  <2>2. TakenBack' /\ Reported' /\ Apart'
    BY <1>12 DEF vars, runVars, IInv, TakenBack, Reported, Apart
  <2>3. Heard' /\ ApprovalBindsRequest' /\ NotYetRun'
    BY <1>12 DEF vars, runVars, IInv, Heard, ApprovalBindsRequest, NotYetRun
  <2> QED BY <2>1, <2>2, <2>3 DEF IInv
<1> QED
  BY <1>1, <1>2, <1>3, <1>4, <1>5, <1>6, <1>7, <1>8, <1>9, <1>10, <1>11, <1>12
  DEF Next, WorkflowStep

\* The inductive invariant holds in every reachable state.
LEMMA IInvHolds == Spec => []IInv
  BY InitIInv, NextIInv, PTL DEF Spec

\* Whatever signals people send, when and in which order, and however often
\* the run is retried with another spec: a run that goes ahead was approved,
\* by a signal to this very run, for this very step and request.
THEOREM DecisionsAreSound == Spec => []DecisionSound
<1>1. IInv => DecisionSound
  BY DEF IInv, DecisionSound
<1> QED BY <1>1, IInvHolds, PTL

\* A run that ends in its step's own failure has left none of its writes at
\* a target, however many there were and whichever failed.
THEOREM FailuresLeaveNothing == Spec => []FailedLeavesNothing
<1>1. IInv => FailedLeavesNothing
  <2> SUFFICES ASSUME IInv, pc = "failed", NEW s \in ToSet(done)
               PROVE  written[s] = "absent"
    BY DEF FailedLeavesNothing
  <2>1. PICK i \in 1..Len(done) : s = done[i]
    BY DEF ToSet, IInv, TypeOK
  <2> QED BY <2>1 DEF IInv, TakenBack, Reported
<1> QED BY <1>1, IInvHolds, PTL

\* A notice that a write was refused is sent when nothing else of the run is
\* left, and a compensation that failed is always told.
THEOREM NoticesTellTheTruth == Spec => []NoticesAreTrue
<1>1. IInv => NoticesAreTrue
  <2> SUFFICES ASSUME IInv PROVE NoticesAreTrue
    OBVIOUS
  <2>1. ASSUME "writeRefused" \in told, NEW s \in ToSet(done)
        PROVE  written[s] = "absent"
    <3>1. PICK i \in 1..Len(done) : s = done[i]
      BY DEF ToSet, IInv, TypeOK
    <3> QED BY <2>1, <3>1 DEF IInv, TakenBack, Reported
  <2>2. pc \in Closed /\ errs # {} => "compensationFailed" \in told
    BY DEF IInv, Reported, Closed
  <2> QED BY <2>1, <2>2 DEF NoticesAreTrue
<1> QED BY <1>1, IInvHolds, PTL

\* fail() undoes the newest write first and touches no write twice.
THEOREM UndoesNewestFirst == Spec => UndoNewestFirst
<1>1. IInv /\ [Next]_vars =>
        [\A i \in 1..Len(done) :
           pc = "undo" /\ WorkflowStep /\ written'[done[i]] # written[done[i]]
           => i = undoing /\ undoing' = i - 1]_vars
  <2> SUFFICES ASSUME IInv, NEW i \in 1..Len(done), pc = "undo", WorkflowStep,
                      written'[done[i]] # written[done[i]]
               PROVE  i = undoing /\ undoing' = i - 1
    OBVIOUS
  <2>1. UndoOk \/ UndoFails
    BY DEF WorkflowStep, LocalStepOk, LocalStepFails, PrepareDuplicate, PrepareOk,
           PrepareFails, ReceiveSignal, ApprovalTimesOut, CommitOk, CommitRetried,
           CommitDuplicate, CommitRefused, CommitGivesUp, RunPlugins
  <2>2. undoing \in 1..Len(done) /\ undoing' = undoing - 1
    BY <2>1 DEF UndoOk, UndoFails, AfterUndo, IInv, TypeOK, TakenBack
  <2>3. /\ done[i] \in WriteStep /\ done[undoing] \in WriteStep
        /\ done[i] \in 1..N /\ done[undoing] \in 1..N
    BY <2>2, ListType DEF IInv
  <2>4. done[i] = done[undoing]
    BY <2>1, <2>3 DEF UndoOk, UndoFails, NextUndo, IInv, TypeOK
  <2>5. ~(i < undoing) /\ ~(undoing < i)
    BY <2>2, <2>3, <2>4 DEF IInv, Listed
  <2> QED BY <2>2, <2>5
<1> QED BY <1>1, IInvHolds, PTL DEF Spec, UndoNewestFirst

\* A rejected or timed-out step is never written, and a write that had
\* completed before the run started is never touched by it, whatever signals,
\* answers lost and calls outliving their run there are.
THEOREM DecisionsAreRespected == Spec => WritesRespectDecisions
<1>1. IInv /\ [Next]_vars =>
        [Refused /\ WorkflowStep /\ pc # "undo" => written' = written]_vars
  <2> SUFFICES ASSUME IInv, Refused, WorkflowStep, pc # "undo"
               PROVE  written' = written
    OBVIOUS
  <2> QED BY DEF Refused, WorkflowStep, LocalStepOk, LocalStepFails,
           PrepareDuplicate, PrepareOk, PrepareFails, ReceiveSignal,
           ApprovalTimesOut, CommitOk, CommitRetried, CommitDuplicate,
           CommitRefused, CommitGivesUp, RunPlugins, UndoOk, UndoFails
<1>2. IInv /\ [Next]_vars => [\A s \in foreign : written'[s] = written[s]]_vars
  <2> SUFFICES ASSUME IInv, Next, NEW s \in foreign
               PROVE  written'[s] = written[s]
    OBVIOUS
  <2>0. s \in WriteStep /\ written[s] \in {"live", "ghost"}
    BY DEF IInv, TypeOK, Apart
  <2>1. CASE UndoOk \/ UndoFails
    <3>1. undoing \in 1..Len(done) /\ done[undoing] \in WriteStep
      BY <2>1, ListType DEF UndoOk, UndoFails, IInv, TypeOK, TakenBack
    <3>2. done[undoing] # s
      BY <3>1 DEF IInv, Apart
    <3> QED BY <2>0, <2>1, <3>1, <3>2 DEF UndoOk, UndoFails, NextUndo, IInv, TypeOK
  <2>2. CASE CommitOk \/ CommitRetried \/ CommitGivesUp
    <3>1. step \in WriteStep /\ step # s
      BY <2>2 DEF CommitOk, CommitRetried, CommitGivesUp, IInv, Placed, Apart
    <3> QED BY <2>0, <2>2, <3>1 DEF CommitOk, CommitRetried, CommitGivesUp, IInv, TypeOK
  <2>3. CASE \E t \in WriteStep : LateCommit(t)
    BY <2>0, <2>3 DEF LateCommit, IInv, TypeOK
  <2>4. CASE \/ LocalStepOk \/ LocalStepFails \/ PrepareDuplicate \/ PrepareOk
             \/ PrepareFails \/ ReceiveSignal \/ ApprovalTimesOut
             \/ CommitDuplicate \/ CommitRefused \/ RunPlugins \/ Retry
             \/ \E sig \in Signal : SendSignal(sig)
    BY <2>4 DEF LocalStepOk, LocalStepFails, PrepareDuplicate, PrepareOk,
           PrepareFails, ReceiveSignal, ApprovalTimesOut, CommitDuplicate,
           CommitRefused, RunPlugins, Retry, SendSignal
  <2> QED BY <2>1, <2>2, <2>3, <2>4 DEF Next, WorkflowStep
<1> QED BY <1>1, <1>2, IInvHolds, PTL
    DEF Spec, WritesRespectDecisions, RefusedIsNotWritten, ForeignWritesStay
=============================================================================
