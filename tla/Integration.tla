---------------------------- MODULE Integration ----------------------------
(***************************************************************************)
(* IntegrationWorkflow (pkg/engine/workflow.go): one run interprets the    *)
(* steps of a compiled workflow for one event.  Its activities are atomic  *)
(* here, with every outcome the write guard gives them (WriteGuard models  *)
(* their inside); people answer approvals with signals that may be early,  *)
(* late, or about another request; a timer ends the wait; operators retry  *)
(* failed runs, with another spec if the mapping changed.  The event's     *)
(* idempotency keys are its own.                                           *)
(***************************************************************************)
EXTENDS Naturals, FiniteSets, Sequences, SequencesExt

CONSTANTS
  N,             \* the number of steps of the workflow
  WriteStep,     \* which of 1..N are write steps; the others map or resolve
  Compensable,   \* write steps that declare a compensation
  WithPlugins,   \* write steps with subscribed logic plugins
  Version,       \* versions of the requests a run may build
  MaxSignals,    \* bound: approval signals people send to one run
  MaxRetries     \* bound: how often operators retry the run

ASSUME ConstantsAssumption ==
  /\ N \in Nat \ {0}
  /\ WriteStep \subseteq 1..N
  /\ Compensable \subseteq WriteStep
  /\ WithPlugins \subseteq WriteStep
  /\ MaxSignals \in Nat /\ MaxRetries \in Nat

VARIABLES
  pc,        \* where the run is
  step,      \* the step it is at
  version,   \* the version of the requests this run builds
  decision,  \* what awaitApproval returned for the current step
  done,      \* the committed writes of this run, oldest first
  undoing,   \* fail(): how many of them are still to be undone
  errs,      \* writes whose compensation failed
  written,   \* each write at the target and in the store
  channel,   \* approval signals not received yet
  why,       \* the kind of error that failed the run
  told,      \* history: the notices (best effort) sent about the current step
  sent,      \* history: every signal people sent to this run
  plugins,   \* history: events of each write given to its plugins
  foreign,   \* history: writes that had completed when the run started
  retries    \* how often the run was retried

runVars == <<step, version, done, foreign, retries>>
vars == <<runVars, pc, decision, undoing, errs, written, channel, why, told,
          sent, plugins>>

Step == 1..N

Signal == [step: WriteStep, digest: Version, status: {"approved", "rejected"}]

(***************************************************************************)
(* A write is absent; in doubt: not recorded as done, though an attempt    *)
(* may have reached the target; live: at the target and recorded; or a     *)
(* ghost: undone at the target but still recorded as done.                 *)
(***************************************************************************)
Written == {"absent", "doubt", "live", "ghost"}

Closed == {"completed", "failed", "compensationFailed"}

TypeOK ==
  /\ pc \in {"step", "await", "commit", "plugins", "undo"} \cup Closed
  /\ step \in 1..(N + 1)
  /\ version \in Version
  /\ decision \in {"none", "approved", "rejected", "timedOut"}
  /\ done \in Seq(WriteStep) /\ Len(done) <= N
  /\ undoing \in 0..Len(done)
  /\ errs \subseteq WriteStep
  /\ written \in [WriteStep -> Written]
  /\ channel \in Seq(Signal)
  /\ sent \subseteq Signal
  /\ why \in {"none", "other", "stewardNeeded", "writeRefused"}
  /\ foreign \subseteq WriteStep
  /\ told \subseteq {"approvalPending", "approvalTimedOut", "stewardNeeded",
                     "writeRefused", "compensationFailed"}
  /\ plugins \in [WriteStep -> 0..1]
  /\ retries \in 0..MaxRetries

Init ==
  /\ pc = "step" /\ step = 1 /\ version \in Version /\ decision = "none"
  /\ done = <<>> /\ undoing = 0 /\ errs = {}
  /\ written = [s \in WriteStep |-> "absent"]
  /\ channel = <<>> /\ sent = {} /\ told = {} /\ why = "none" /\ foreign = {}
  /\ plugins = [s \in WriteStep |-> 0]
  /\ retries = 0

-----------------------------------------------------------------------------
(* Failing and compensating. *)

\* Mutant: the oldest write is undone first.
NextUndoOldestFirst == Len(done) - undoing + 1

\* fail() walks the committed writes from the newest to the oldest.
NextUndo == undoing

\* fail(): the run ends, or it undoes its writes first.  The notice of a
\* refused write waits until they are undone.
Fail(kind) ==
  /\ why' = kind
  /\ told' = told \cup {n \in {kind} : \/ n = "stewardNeeded"
                                       \/ n = "writeRefused" /\ done = <<>>}
  /\ pc' = IF done = <<>> THEN "failed" ELSE "undo"
  /\ undoing' = Len(done)
  /\ UNCHANGED <<runVars, errs, channel, sent, plugins>>

\* Mutant: a refused write is reported whatever became of the others.
AfterUndoRefusedOnly(failed) ==
  /\ undoing' = undoing - 1
  /\ errs' = failed
  /\ pc' = IF undoing > 1 THEN pc ELSE "failed"
  /\ told' = told \cup IF undoing = 1 THEN {"writeRefused"} ELSE {}

\* After the last compensation: the step's own failure, or CompensationFailed
\* and a notice to an operator.
AfterUndo(failed) ==
  /\ undoing' = undoing - 1
  /\ errs' = failed
  /\ \/ undoing > 1 /\ UNCHANGED <<pc, told>>
     \/ /\ undoing = 1 /\ failed = {}
        /\ pc' = "failed"
        /\ told' = told \cup ({why} \cap {"writeRefused"})
     \/ /\ undoing = 1 /\ failed # {}
        /\ pc' = "compensationFailed"
        /\ told' = told \cup {"compensationFailed"}

\* A Compensate activity succeeds.
UndoOk ==
  /\ pc = "undo"
  /\ done[NextUndo] \in Compensable
  /\ written' = [written EXCEPT ![done[NextUndo]] = "absent"]
  /\ AfterUndo(errs)
  /\ UNCHANGED <<runVars, decision, channel, why, sent, plugins>>

\* Mutant: the first compensation that fails ends the loop.
UndoFailsGivesUp ==
  /\ pc = "undo"
  /\ undoing' = 0 /\ errs' = {done[NextUndo]} /\ pc' = "failed"
  /\ UNCHANGED <<runVars, decision, written, channel, why, told, sent, plugins>>

\* It fails for good: the request declares no compensation, or eight attempts
\* failed, the last of which may have reached the target.  The loop goes on.
UndoFails ==
  /\ pc = "undo"
  /\ \/ UNCHANGED written
     \/ /\ done[NextUndo] \in Compensable
        /\ written' = [written EXCEPT ![done[NextUndo]] = "ghost"]
  /\ AfterUndo(errs \cup {done[NextUndo]})
  /\ UNCHANGED <<runVars, decision, channel, why, sent, plugins>>

-----------------------------------------------------------------------------
(* The steps. *)

Advance ==
  /\ pc' = IF step = N THEN "completed" ELSE "step"
  /\ step' = step + 1
  /\ decision' = "none"
  /\ told' = {}

\* A map or resolve step, a local activity.
LocalStepOk ==
  /\ pc = "step" /\ step \notin WriteStep
  /\ Advance
  /\ UNCHANGED <<version, done, foreign, retries, undoing, errs, written,
                 channel, why, sent, plugins>>

\* It fails: a mapping error, or a record no master record matches.
LocalStepFails ==
  /\ pc = "step" /\ step \notin WriteStep
  /\ \E kind \in {"other", "stewardNeeded"} : Fail(kind)
  /\ UNCHANGED <<written, decision>>

\* Mutant: a write that completed before the run joins the list of its own.
PrepareDuplicateOwned ==
  /\ pc = "step" /\ step \in WriteStep
  /\ written[step] \in {"live", "ghost"}
  /\ Advance
  /\ done' = Append(done, step)
  /\ UNCHANGED <<version, foreign, retries, undoing, errs, written, channel,
                 why, sent, plugins>>

\* PrepareWrite finds the write done: "not ours to compensate".
PrepareDuplicate ==
  /\ pc = "step" /\ step \in WriteStep
  /\ written[step] \in {"live", "ghost"}
  /\ Advance
  /\ UNCHANGED <<version, done, foreign, retries, undoing, errs, written,
                 channel, why, sent, plugins>>

\* PrepareWrite passes: straight to the commit, or first to a person, who is
\* told what is pending.
PrepareOk ==
  /\ pc = "step" /\ step \in WriteStep
  /\ written[step] \in {"absent", "doubt"}
  /\ \/ pc' = "commit" /\ UNCHANGED told
     \/ pc' = "await" /\ told' = told \cup {"approvalPending"}
  /\ UNCHANGED <<runVars, decision, undoing, errs, written, channel, why, sent,
                 plugins>>

\* Denied, invalid (which is reported as a refused write), a failed
\* simulation, or a store or policy that stayed out.
PrepareFails ==
  /\ pc = "step" /\ step \in WriteStep
  /\ \E kind \in {"other", "writeRefused"} : Fail(kind)
  /\ UNCHANGED <<written, decision>>

\* A person approves or rejects what the console or the command line showed
\* them: any step, any version of its request, at any time.  A closed run
\* takes no signals.
SendSignal(sig) ==
  /\ pc \notin Closed
  /\ Cardinality(sent) < MaxSignals
  /\ channel' = Append(channel, sig)
  /\ sent' = sent \cup {sig}
  /\ sent' # sent
  /\ UNCHANGED <<runVars, pc, decision, undoing, errs, written, why, told,
                 plugins>>

\* Mutant: the digest is not compared.
MatchesStepOnly(sig) == sig.step = step

\* awaitApproval: a signal counts for this step and this exact request only.
Matches(sig) == sig.step = step /\ sig.digest = version

\* Mutant: the wait only ends when a person's decision matches.
ApprovalNeverTimesOut ==
  /\ pc = "await" /\ channel # <<>> /\ Matches(Head(channel))
  /\ decision' = "timedOut"
  /\ pc' = "commit"
  /\ UNCHANGED <<runVars, undoing, errs, written, channel, why, told, sent,
                 plugins>>

ReceiveSignal ==
  /\ pc = "await" /\ channel # <<>>
  /\ channel' = Tail(channel)
  /\ \/ /\ Matches(Head(channel))
        /\ decision' = Head(channel).status
        /\ pc' = "commit"
     \/ /\ ~Matches(Head(channel))
        /\ UNCHANGED <<decision, pc>>
  /\ UNCHANGED <<runVars, undoing, errs, written, why, told, sent, plugins>>

\* The timer fires first: nobody decided, which is a rejection.
ApprovalTimesOut ==
  /\ pc = "await"
  /\ decision' = "timedOut"
  /\ pc' = "commit"
  /\ told' = told \cup {"approvalTimedOut"}
  /\ UNCHANGED <<runVars, undoing, errs, written, channel, why, sent, plugins>>

Refused == decision \in {"rejected", "timedOut"}

\* CommitWrite answers that it committed the write; its plugins are next.
CommitOk ==
  /\ pc = "commit" /\ ~Refused
  /\ written[step] # "live"
  /\ written' = [written EXCEPT ![step] = "live"]
  /\ done' = Append(done, step)
  /\ \/ step \notin WithPlugins /\ Advance
     \/ /\ step \in WithPlugins
        /\ pc' = "plugins"
        /\ UNCHANGED <<step, decision, told>>
  /\ UNCHANGED <<version, foreign, retries, undoing, errs, channel, why, sent,
                 plugins>>

\* One attempt commits the write, its answer is lost (or the target could
\* not confirm it), and the next attempt answers that it is a duplicate.
CommitRetried ==
  /\ pc = "commit" /\ ~Refused
  /\ written[step] # "live"
  /\ written' = [written EXCEPT ![step] = "live"]
  /\ done' = Append(done, step)
  /\ Advance
  /\ UNCHANGED <<version, foreign, retries, undoing, errs, channel, why, sent,
                 plugins>>

\* The write was recorded between PrepareWrite and CommitWrite: Commit finds
\* the prior outcome before it looks at the approval.  The workflow takes it
\* for a write of its own.
CommitDuplicate ==
  /\ pc = "commit" /\ written[step] = "live"
  /\ done' = Append(done, step)
  /\ Advance
  /\ UNCHANGED <<version, foreign, retries, undoing, errs, written, channel,
                 why, sent, plugins>>

\* CommitWrite fails for good: rejected, denied or invalid.
CommitRefused ==
  /\ pc = "commit" /\ written[step] # "live"
  /\ \E kind \in {"other", "writeRefused"} : Fail(kind)
  /\ UNCHANGED <<written, decision>>

\* All its attempts fail: the write may be at the target, or even recorded.
\* A refused one fails before it is sent.
CommitGivesUp ==
  /\ pc = "commit"
  /\ \/ UNCHANGED written
     \/ /\ ~Refused /\ written[step] # "live"
        /\ \E st \in {"doubt", "live"} : written' = [written EXCEPT ![step] = st]
  /\ Fail("other")
  /\ UNCHANGED decision

\* The plugins subscribed to the committed write run, in parallel; their
\* failures are logged.
RunPlugins ==
  /\ pc = "plugins"
  /\ plugins' = [plugins EXCEPT ![step] = @ + 1]
  /\ Advance
  /\ UNCHANGED <<version, done, foreign, retries, undoing, errs, written,
                 channel, why, sent>>

\* A guard call that outlived its activity's last attempt, and the run before
\* this one, records its write.
LateCommit(s) ==
  /\ retries > 0 /\ written[s] = "doubt"
  /\ written' = [written EXCEPT ![s] = "live"]
  /\ UNCHANGED <<runVars, pc, decision, undoing, errs, channel, why, told, sent,
                 plugins>>

Recorded == {s \in WriteStep : written[s] \in {"live", "ghost"}}

\* An operator retries the failed run; a new spec builds other requests.  The
\* new run has its own signal channel.
Retry ==
  /\ pc \in Closed \ {"completed"}
  /\ retries < MaxRetries
  /\ retries' = retries + 1
  /\ pc' = "step" /\ step' = 1 /\ version' \in Version /\ decision' = "none"
  /\ done' = <<>> /\ undoing' = 0 /\ errs' = {} /\ why' = "none"
  /\ channel' = <<>> /\ sent' = {} /\ told' = {}
  /\ plugins' = [s \in WriteStep |-> 0]
  /\ foreign' = Recorded
  /\ UNCHANGED written

WorkflowStep ==
  \/ LocalStepOk \/ LocalStepFails
  \/ PrepareDuplicate \/ PrepareOk \/ PrepareFails
  \/ ReceiveSignal \/ ApprovalTimesOut
  \/ CommitOk \/ CommitRetried \/ CommitDuplicate
  \/ CommitRefused \/ CommitGivesUp \/ RunPlugins
  \/ UndoOk \/ UndoFails

Next ==
  \/ WorkflowStep
  \/ \E sig \in Signal : SendSignal(sig)
  \/ \E s \in WriteStep : LateCommit(s)
  \/ Retry

Spec == Init /\ [][Next]_vars

\* Temporal drives every open run: its activities end and its timers fire.
\* People need not answer, and operators need not retry.
FairSpec == Spec /\ WF_vars(WorkflowStep)

-----------------------------------------------------------------------------
(* Properties. *)

\* A decision lets a write through only if a person sent this run an approval
\* of that very request: same step, same digest.  A signal sent early, for
\* another step, or for the request of another spec approves nothing.
ApprovalBindsRequest ==
  decision = "approved" =>
    [step |-> step, digest |-> version, status |-> "approved"] \in sent

\* A run's state is well formed, whatever signals it was sent, and its
\* decision is one that a person took on the very request.
DecisionSound == TypeOK /\ ApprovalBindsRequest

\* Nobody's refusal is written: from the moment a step's approval is rejected
\* or times out, no step of the workflow brings that write to its target.
RefusedIsNotWritten ==
  [][Refused /\ WorkflowStep /\ pc # "undo" => written' = written]_vars

\* The saga is complete: when a run has failed and reported no failed
\* compensation, none of the writes on its list is left at a target.
FailedLeavesNothing ==
  pc = "failed" => \A s \in ToSet(done) : written[s] = "absent"

\* What people are told is true: a notice that a write was refused goes out
\* only once every earlier write of the run is undone, and a run with a
\* write it could not undo always tells an operator.
NoticesAreTrue ==
  /\ "writeRefused" \in told =>
       \A s \in ToSet(done) : written[s] = "absent"
  /\ pc \in Closed /\ errs # {} => "compensationFailed" \in told

\* Compensations run newest first: while a write waits to be undone, no
\* write committed before it is touched.
UndoNewestFirst ==
  [][\A i \in 1..Len(done) :
       pc = "undo" /\ WorkflowStep /\ written'[done[i]] # written[done[i]]
       => i = undoing /\ undoing' = i - 1]_vars

\* A run undoes only what was not there before it: a write that had completed
\* when the run started stays, whatever fails later.
ForeignWritesStay ==
  [][\A s \in foreign : written'[s] = written[s]]_vars

\* What a run brings to a target it was allowed to, and what it takes away
\* is its own.
WritesRespectDecisions == RefusedIsNotWritten /\ ForeignWritesStay

\* Every run closes: an approval nobody answers times out, and a failed step
\* or compensation ends its activity.
RunCloses == []<>(pc \in Closed)

\* plugins.go's package comment: "after a write commits, every plugin
\* subscribed to the model event it causes ... runs once".
PluginsRunOnce ==
  pc = "completed" =>
    \A s \in WithPlugins \cap ToSet(done) : plugins[s] = 1
=============================================================================
