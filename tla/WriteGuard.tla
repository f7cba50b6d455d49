----------------------------- MODULE WriteGuard -----------------------------
(***************************************************************************)
(* The write guard (pkg/writeguard) over its Postgres store (pkg/store/    *)
(* pgstore), as the engine's activities call it: one call per attempt of a *)
(* CommitWrite or Compensate activity, each a sequence of store, policy,   *)
(* target and audit steps that interleaves with the other calls and may    *)
(* die between any two of them.                                            *)
(*                                                                         *)
(* A run is the part of IntegrationWorkflow that matters to one write: it  *)
(* prepares, commits, goes on to later steps, and undoes its write when    *)
(* one of those fails.  A failed run may be started again (turgon retry).  *)
(*                                                                         *)
(* A write is known by its idempotency key.  Generation g of a key is the  *)
(* key after it was undone g-1 times ("<key>~g"), so the store's rows are  *)
(* slots <<key, generation, op>>, where op "undo" is the derived           *)
(* "#compensate" key.                                                      *)
(***************************************************************************)
EXTENDS Naturals, FiniteSets

CONSTANTS
  Key,             \* idempotency keys (target/operation/key triples)
  Run,             \* workflow runs
  Call,            \* slots for activity attempts in progress
  RunKey,          \* the key each run writes under
  Compensable,     \* keys whose request declares a compensation
  MaxGenerations,  \* guard.go maxGenerations (50 in the code)
  MaxAttempts,     \* activityRetry.MaximumAttempts (8 in the code)
  MaxRetries,      \* bound: how often an operator retries a run
  Outlives,        \* ops whose call may outlive its timed-out attempt
  None             \* no call, no run

Op == {"write", "undo"}

ASSUME ConstantsAssumption ==
  /\ RunKey \in [Run -> Key]
  /\ Compensable \subseteq Key
  /\ MaxGenerations \in Nat /\ MaxGenerations >= 2
  /\ MaxAttempts \in Nat /\ MaxAttempts >= 1
  /\ MaxRetries \in Nat
  /\ Outlives \subseteq Op
  /\ None \notin Call \cup Run

VARIABLES
  store,    \* turgon_writes: the status of every slot
  docs,     \* external: the target's document of every key and generation
  author,   \* history: the run whose call created the document
  pc,       \* where each guard call is
  job,      \* what each call was asked to do, and by which run
  gen,      \* the generation a call works in (0: not known yet)
  err,      \* the error a call will answer with
  phase,    \* where each run is
  doc,      \* the generation of the document a run holds (0: none)
  attempt,  \* failed attempts of the run's current activity
  cur,      \* the call that is the run's current attempt
  retries,  \* how often operators retried the run
  alarmed   \* history: runs of which some compensation failed

targetVars == <<docs, author>>
callVars == <<pc, job, gen, err>>
runVars == <<phase, doc, attempt, cur, retries, alarmed>>
vars == <<store, targetVars, callVars, runVars>>

\* The loop of generation() tries maxGenerations - 1 keys.
Gen == 1..(MaxGenerations - 1)

Slot == Key \X Gen \X Op

\* A row is inflight while its claim is younger than the lease and stale
\* after that; a missing row is free.
Status == {"free", "inflight", "stale", "done"}

Pc == {"idle", "generation", "begin", "decide", "send", "audit", "complete",
       "confirm", "abort", "reply"}

\* The points at which a call holds the claim on its slot.
Claimed == {"decide", "send", "audit", "complete", "abort"}

\* "reused" is "later" for a run whose write had completed before it.
Phase == {"prepare", "commit", "reused", "later", "undo", "succeeded",
          "failed", "compensationFailed"}

Closed == {"succeeded", "failed", "compensationFailed"}

\* Nothing, an error Temporal retries, or a non-retryable type.
Err == {"none", "retry", "final"}

\* A job's doc is the document that an undo's payload names.
Job == [run: Run, op: Op, doc: Gen \cup {0}]

TypeOK ==
  /\ store \in [Slot -> Status]
  /\ docs \in [Key \X Gen -> {"absent", "live", "undone"}]
  /\ author \in [Key \X Gen -> Run \cup {None}]
  /\ pc \in [Call -> Pc]
  /\ job \in [Call -> Job]
  /\ gen \in [Call -> Gen \cup {0}]
  /\ err \in [Call -> Err]
  /\ phase \in [Run -> Phase]
  /\ doc \in [Run -> Gen \cup {0}]
  /\ attempt \in [Run -> 0..(MaxAttempts - 1)]
  /\ cur \in [Run -> Call \cup {None}]
  /\ retries \in [Run -> 0..MaxRetries]
  /\ alarmed \subseteq Run

Init ==
  /\ store = [s \in Slot |-> "free"]
  /\ docs = [d \in Key \X Gen |-> "absent"]
  /\ author = [d \in Key \X Gen |-> None]
  /\ pc = [c \in Call |-> "idle"]
  /\ \E r \in Run : job = [c \in Call |-> [run |-> r, op |-> "write", doc |-> 0]]
  /\ gen = [c \in Call |-> 0]
  /\ err = [c \in Call |-> "none"]
  /\ phase = [r \in Run |-> "prepare"]
  /\ doc = [r \in Run |-> 0]
  /\ attempt = [r \in Run |-> 0]
  /\ cur = [r \in Run |-> None]
  /\ retries = [r \in Run |-> 0]
  /\ alarmed = {}

KeyOf(c) == RunKey[job[c].run]

SlotOf(c) == <<KeyOf(c), gen[c], job[c].op>>

\* Mutant: a claim on the undo counts as the undo.
UndoneWhenClaimed(k, g) == store[<<k, g, "undo">>] # "free"

Undone(k, g) == store[<<k, g, "undo">>] = "done"

\* Mutant: no generations, the key is always the request's own.
IsGenerationAlwaysFirst(k, g) == g = 1

\* Mutant: any generation not undone yet, not the first such.
IsGenerationAny(k, g) == ~Undone(k, g)

\* generation(): the first generation whose compensation has not committed.
\* A request without a compensation stays in its first one.
IsGeneration(k, g) ==
  \/ k \notin Compensable /\ g = 1
  \/ /\ k \in Compensable
     /\ ~Undone(k, g)
     /\ \A h \in Gen : h < g => Undone(k, h)

\* generation()'s error: the write was undone maxGenerations - 1 times.
Exhausted(k) == k \in Compensable /\ \A g \in Gen : Undone(k, g)

-----------------------------------------------------------------------------
(* The run, as far as one write is concerned. *)

\* Prepare reads the store and claims nothing: a write that completed under
\* the key is answered as a duplicate ("not ours to compensate").
PrepareDuplicate(r) ==
  /\ phase[r] = "prepare"
  /\ \E g \in Gen :
       /\ IsGeneration(RunKey[r], g)
       /\ store[<<RunKey[r], g, "write">>] = "done"
       /\ doc' = [doc EXCEPT ![r] = g]
  /\ phase' = [phase EXCEPT ![r] = "reused"]
  /\ UNCHANGED <<store, targetVars, callVars, attempt, cur, retries, alarmed>>

PrepareOk(r) ==
  /\ phase[r] = "prepare"
  /\ \E g \in Gen :
       /\ IsGeneration(RunKey[r], g)
       /\ store[<<RunKey[r], g, "write">>] # "done"
  /\ phase' = [phase EXCEPT ![r] = "commit"]
  /\ UNCHANGED <<store, targetVars, callVars, doc, attempt, cur, retries,
                 alarmed>>

\* Denied, invalid, exhausted, a failed simulation, or eight attempts that
\* could not reach the store: nothing was written, so nothing is undone.
PrepareFails(r) ==
  /\ phase[r] = "prepare"
  /\ phase' = [phase EXCEPT ![r] = "failed"]
  /\ UNCHANGED <<store, targetVars, callVars, doc, attempt, cur, retries,
                 alarmed>>

\* Temporal schedules an attempt of CommitWrite or Compensate on a worker.
\* The payload of an undo is the result the run's write answered with.
StartCall(r, c) ==
  /\ phase[r] \in {"commit", "undo"}
  /\ cur[r] = None
  /\ pc[c] = "idle"
  /\ pc' = [pc EXCEPT ![c] = "generation"]
  /\ job' = [job EXCEPT ![c] =
               [run |-> r, op |-> IF phase[r] = "commit" THEN "write" ELSE "undo",
                doc |-> doc[r]]]
  /\ cur' = [cur EXCEPT ![r] = c]
  /\ UNCHANGED <<store, targetVars, gen, err, phase, doc, attempt, retries,
                 alarmed>>

\* Mutant: no MaximumAttempts.
AttemptFailedForever(r, final) ==
  /\ cur' = [cur EXCEPT ![r] = None]
  /\ phase' = [phase EXCEPT ![r] = IF final THEN "failed" ELSE @]
  /\ UNCHANGED <<attempt, alarmed>>

\* What a failed attempt does to its run: another attempt, or the end.  A
\* failed commit has nothing to undo; a failed undo tells an operator.
AttemptFailed(r, final) ==
  /\ cur' = [cur EXCEPT ![r] = None]
  /\ \/ /\ ~final /\ attempt[r] + 1 < MaxAttempts
        /\ attempt' = [attempt EXCEPT ![r] = @ + 1]
        /\ UNCHANGED <<phase, alarmed>>
     \/ /\ final \/ attempt[r] + 1 >= MaxAttempts
        /\ phase[r] = "commit"
        /\ phase' = [phase EXCEPT ![r] = "failed"]
        /\ UNCHANGED <<attempt, alarmed>>
     \/ /\ final \/ attempt[r] + 1 >= MaxAttempts
        /\ phase[r] # "commit"
        /\ phase' = [phase EXCEPT ![r] = "compensationFailed"]
        /\ alarmed' = alarmed \cup {r}
        /\ UNCHANGED attempt

\* The run's later steps succeed and it completes.
LaterStepsSucceed(r) ==
  /\ phase[r] \in {"reused", "later"}
  /\ phase' = [phase EXCEPT ![r] = "succeeded"]
  /\ UNCHANGED <<store, targetVars, callVars, doc, attempt, cur, retries,
                 alarmed>>

\* A later step fails: fail() undoes the writes on the run's list, which a
\* write that completed before the run is not on.
LaterStepFails(r) ==
  /\ \/ /\ phase[r] = "later"
        /\ phase' = [phase EXCEPT ![r] = "undo"]
        /\ UNCHANGED doc
     \/ /\ phase[r] = "reused"
        /\ phase' = [phase EXCEPT ![r] = "failed"]
        /\ doc' = [doc EXCEPT ![r] = 0]
  /\ attempt' = [attempt EXCEPT ![r] = 0]
  /\ UNCHANGED <<store, targetVars, callVars, cur, retries, alarmed>>

\* turgon retry starts a closed, failed run again from its first step.
Retry(r) ==
  /\ phase[r] \in Closed \ {"succeeded"}
  /\ retries[r] < MaxRetries
  /\ phase' = [phase EXCEPT ![r] = "prepare"]
  /\ doc' = [doc EXCEPT ![r] = 0]
  /\ attempt' = [attempt EXCEPT ![r] = 0]
  /\ retries' = [retries EXCEPT ![r] = @ + 1]
  /\ UNCHANGED <<store, targetVars, callVars, cur, alarmed>>

-----------------------------------------------------------------------------
(* One guard call: commitRequest for op "write", compensate for "undo". *)

Goto(c, p) ==
  /\ pc' = [pc EXCEPT ![c] = p]
  /\ UNCHANGED <<job, gen, err>>

\* Leave with an error, through the Abort (p = "abort": the deferred one of
\* commitRequest or the explicit one of compensate) or at once.
Leave(c, p, e) ==
  /\ pc' = [pc EXCEPT ![c] = p]
  /\ err' = [err EXCEPT ![c] = e]
  /\ UNCHANGED <<job, gen>>

Answer(c, e) == Leave(c, "reply", e)

FailAndAbort(c, e) == Leave(c, "abort", e)

Finish(c) ==
  /\ pc' = [pc EXCEPT ![c] = "idle"]
  /\ gen' = [gen EXCEPT ![c] = 0]
  /\ err' = [err EXCEPT ![c] = "none"]
  /\ job' = [job EXCEPT ![c] = [run |-> @.run, op |-> "write", doc |-> 0]]

\* The generation is the first whose undo the store does not hold.  Only
\* completed rows count and those never go away, so reading them one by one
\* or at once gives the same answer at some moment of the loop.
Generation(c) ==
  /\ pc[c] = "generation"
  /\ job[c].op = "undo" => KeyOf(c) \in Compensable
  /\ \E g \in Gen :
       /\ IsGeneration(KeyOf(c), g)
       /\ gen' = [gen EXCEPT ![c] = g]
  /\ pc' = [pc EXCEPT ![c] = "begin"]
  /\ UNCHANGED <<store, targetVars, job, err, runVars>>

\* A compensation of a request that declares none, a key undone too often,
\* or a store that does not answer.  Compensate's errors are not classified,
\* so Temporal retries all of them.
GenerationFails(c) ==
  /\ pc[c] = "generation"
  /\ \/ Answer(c, "retry")
     \/ Exhausted(KeyOf(c)) /\ job[c].op = "write" /\ Answer(c, "final")
  /\ UNCHANGED <<store, targetVars, runVars>>

\* Store.Begin: the INSERT ... ON CONFLICT claims a free row or takes over a
\* claim older than the lease.
Begin(c) ==
  /\ pc[c] = "begin"
  /\ store[SlotOf(c)] \in {"free", "stale"}
  /\ store' = [store EXCEPT ![SlotOf(c)] = "inflight"]
  /\ \/ Goto(c, IF job[c].op = "write" THEN "decide" ELSE "send")
     \/ Answer(c, "retry")  \* the row was claimed, the reply was lost
  /\ UNCHANGED <<targetVars, runVars>>

\* Begin finds the key done: the prior outcome is the answer.  commitRequest
\* also audits the duplicate, which can fail.
BeginDuplicate(c) ==
  /\ pc[c] = "begin"
  /\ store[SlotOf(c)] = "done"
  /\ \/ Answer(c, "none")
     \/ job[c].op = "write" /\ Answer(c, "retry")
  /\ UNCHANGED <<store, targetVars, runVars>>

\* Mutant: the deferred Abort is set up before Begin's error is checked.
BeginFailsAborting(c) ==
  /\ pc[c] = "begin"
  /\ FailAndAbort(c, "retry")
  /\ UNCHANGED <<store, targetVars, runVars>>

\* Mutant: compensate takes another caller's claim for a finished undo.
BeginFailsAsDone(c) ==
  /\ pc[c] = "begin"
  /\ Answer(c, IF job[c].op = "undo" THEN "none" ELSE "retry")
  /\ UNCHANGED <<store, targetVars, runVars>>

\* ErrInFlight, or a store that does not answer: the claim is not this
\* call's, and it is not aborted.
BeginFails(c) ==
  /\ pc[c] = "begin"
  /\ Answer(c, "retry")
  /\ UNCHANGED <<store, targetVars, runVars>>

\* The approval is recorded and policy decides again with it: allowed,
\* denied or rejected for good, or an audit or policy error.
Decide(c) ==
  /\ pc[c] = "decide"
  /\ \/ Goto(c, "send")
     \/ FailAndAbort(c, "final")
     \/ FailAndAbort(c, "retry")
  /\ UNCHANGED <<store, targetVars, runVars>>

\* External: the target honours the key it is given, so a repeated write
\* finds the document of the key instead of creating another.  An undo acts
\* on the document its payload names, the one the run's write answered with.
TargetEffect(c) ==
  \/ /\ job[c].op = "write" /\ docs[<<KeyOf(c), gen[c]>>] = "absent"
     /\ docs' = [docs EXCEPT ![<<KeyOf(c), gen[c]>>] = "live"]
     /\ author' = [author EXCEPT ![<<KeyOf(c), gen[c]>>] = job[c].run]
  \/ /\ job[c].op = "write" /\ docs[<<KeyOf(c), gen[c]>>] # "absent"
     /\ UNCHANGED <<docs, author>>
  \/ /\ job[c].op = "undo"
     /\ docs' = [docs EXCEPT ![<<KeyOf(c), job[c].doc>>] = "undone"]
     /\ UNCHANGED author

\* commit(): the request reaches the target and the target answers.
Send(c) ==
  /\ pc[c] = "send"
  /\ TargetEffect(c)
  /\ Goto(c, "audit")
  /\ UNCHANGED <<store, runVars>>

\* Mutant: the target's error is swallowed.
SendFailsSwallowed(c) ==
  /\ pc[c] = "send"
  /\ Goto(c, "audit")
  /\ UNCHANGED <<store, targetVars, runVars>>

\* The breaker or governor refuses, the target fails, or it did the work and
\* its answer was lost.
SendFails(c) ==
  /\ pc[c] = "send"
  /\ TargetEffect(c) \/ UNCHANGED targetVars
  /\ FailAndAbort(c, "retry")
  /\ UNCHANGED <<store, runVars>>

\* The committed write is metered and audited; an audit error is the
\* commit's error although the target has the document.
RecordCommitted(c) ==
  /\ pc[c] = "audit"
  /\ Goto(c, "complete") \/ FailAndAbort(c, "retry")
  /\ UNCHANGED <<store, targetVars, runVars>>

\* Store.Complete.
Complete(c) ==
  /\ pc[c] = "complete"
  /\ store' = [store EXCEPT ![SlotOf(c)] = "done"]
  /\ Goto(c, IF job[c].op = "write" THEN "confirm" ELSE "reply")
  /\ UNCHANGED <<targetVars, runVars>>

\* Complete reports an error, having stored the outcome or not.  commitRequest
\* then aborts; compensate returns and keeps its claim until the lease ends.
CompleteFails(c) ==
  /\ pc[c] = "complete"
  /\ \/ UNCHANGED store
     \/ store' = [store EXCEPT ![SlotOf(c)] = "done"]
  /\ Leave(c, IF job[c].op = "write" THEN "abort" ELSE "reply", "retry")
  /\ UNCHANGED <<targetVars, runVars>>

\* Read-your-writes confirmation; ErrUnconfirmed is retried and the retry is
\* answered as a duplicate.
Confirm(c) ==
  /\ pc[c] = "confirm"
  /\ Answer(c, "none") \/ Answer(c, "retry")
  /\ UNCHANGED <<store, targetVars, runVars>>

\* Mutant: the DELETE has no status condition.
AbortRowAlways(s) == [store EXCEPT ![s] = "free"]

\* Store.Abort deletes the row only while it is in flight.
AbortRow(s) ==
  IF store[s] \in {"inflight", "stale"} THEN [store EXCEPT ![s] = "free"]
                                        ELSE store

\* Abort's error is ignored: the claim then stays until the lease ends.
Abort(c) ==
  /\ pc[c] = "abort"
  /\ UNCHANGED store \/ store' = AbortRow(SlotOf(c))
  /\ Goto(c, "reply")
  /\ UNCHANGED <<targetVars, runVars>>

\* The activity's result reaches the workflow, unless its attempt has timed
\* out meanwhile: then nobody waits for it.
Reply(c) ==
  /\ pc[c] = "reply"
  /\ Finish(c)
  /\ \/ /\ cur[job[c].run] # c
        /\ UNCHANGED runVars
     \/ /\ cur[job[c].run] = c /\ err[c] # "none"
        /\ AttemptFailed(job[c].run, err[c] = "final")
        /\ UNCHANGED <<doc, retries>>
     \/ /\ cur[job[c].run] = c /\ err[c] = "none" /\ job[c].op = "write"
        /\ phase' = [phase EXCEPT ![job[c].run] = "later"]
        /\ doc' = [doc EXCEPT ![job[c].run] = gen[c]]
        /\ cur' = [cur EXCEPT ![job[c].run] = None]
        /\ UNCHANGED <<attempt, retries, alarmed>>
     \/ /\ cur[job[c].run] = c /\ err[c] = "none" /\ job[c].op = "undo"
        /\ phase' = [phase EXCEPT ![job[c].run] = "failed"]
        /\ cur' = [cur EXCEPT ![job[c].run] = None]
        /\ UNCHANGED <<doc, attempt, retries, alarmed>>
  /\ UNCHANGED <<store, targetVars>>

\* The worker dies, or its answer never reaches Temporal: the attempt times
\* out and the claim, if the call held one, is left behind.
Crash(c) ==
  /\ pc[c] # "idle"
  /\ Finish(c)
  /\ \/ cur[job[c].run] = c /\ AttemptFailed(job[c].run, FALSE)
     \/ cur[job[c].run] # c /\ UNCHANGED <<phase, attempt, cur, alarmed>>
  /\ UNCHANGED <<store, targetVars, doc, retries>>

\* StartToCloseTimeout passes while the call still runs on its worker.
AttemptTimesOut(c) ==
  /\ pc[c] # "idle"
  /\ job[c].op \in Outlives
  /\ cur[job[c].run] = c
  /\ AttemptFailed(job[c].run, FALSE)
  /\ UNCHANGED <<store, targetVars, callVars, doc, retries>>

\* A claim's lease (5 minutes) ends.  The call that took it is over by then:
\* its attempt has one minute and each of its store calls ten seconds.
LeaseExpires(s) ==
  /\ store[s] = "inflight"
  /\ \A c \in Call : pc[c] \in Claimed => SlotOf(c) # s
  /\ store' = [store EXCEPT ![s] = "stale"]
  /\ UNCHANGED <<targetVars, callVars, runVars>>

-----------------------------------------------------------------------------
RunStep(r) ==
  \/ PrepareDuplicate(r)
  \/ PrepareOk(r)
  \/ PrepareFails(r)
  \/ LaterStepsSucceed(r)
  \/ LaterStepFails(r)
  \/ \E c \in Call : StartCall(r, c)

CallStep(c) ==
  \/ Generation(c)
  \/ GenerationFails(c)
  \/ Begin(c)
  \/ BeginDuplicate(c)
  \/ BeginFails(c)
  \/ Decide(c)
  \/ Send(c)
  \/ SendFails(c)
  \/ RecordCommitted(c)
  \/ Complete(c)
  \/ CompleteFails(c)
  \/ Confirm(c)
  \/ Abort(c)
  \/ Reply(c)

Next ==
  \/ \E r \in Run : RunStep(r) \/ Retry(r)
  \/ \E c \in Call : CallStep(c) \/ Crash(c) \/ AttemptTimesOut(c)
  \/ \E s \in Slot : LeaseExpires(s)

Spec == Init /\ [][Next]_vars

\* Temporal keeps scheduling a run's next step and a call on a live worker
\* keeps going; nothing makes faults, lease expiry or operators happen.
FairSpec ==
  /\ Spec
  /\ \A r \in Run : WF_vars(RunStep(r))
  /\ \A c \in Call : WF_vars(CallStep(c))

-----------------------------------------------------------------------------
(* What every schedule keeps, however many runs share a key. *)

Holds(c, s) == pc[c] \in Claimed /\ SlotOf(c) = s

\* The claim is a lock: between Store.Begin and Complete or Abort no other
\* call, of another run or a late attempt of the same one, works on the same
\* key, so the target never sees two concurrent requests for it.  This is
\* what the claim, the lease and the conditional DELETE are for.
SingleSender ==
  \A c, d \in Call : \A s \in Slot : Holds(c, s) /\ Holds(d, s) => c = d

\* A key is written in generation g only after every earlier generation's
\* compensation committed: nothing the store or the target holds for g
\* precedes the undo of g-1 (generation() and its callers, which use the
\* generation some steps after reading it).
GenerationsInOrder ==
  \A k \in Key, g, h \in Gen :
    /\ h < g
    /\ docs[<<k, g>>] # "absent" \/ \E o \in Op : store[<<k, g, o>>] # "free"
    => Undone(k, h)

\* A completed outcome is the store's memory of the write: no Abort, late or
\* after a Complete that reported an error, and no lease takeover erases it.
DoneIsForever ==
  [][\A s \in Slot : store[s] = "done" => store'[s] = "done"]_vars

\* The store reports a write as done only when the target has made the
\* document: what a duplicate is answered with exists.
DoneIsReal ==
  \A k \in Key, g \in Gen :
    store[<<k, g, "write">>] = "done" => docs[<<k, g>>] # "absent"

-----------------------------------------------------------------------------
(* What holds when every key is one event's, so that no two runs share one, *)
(* and no call outlives its attempt.                                       *)

OwnKeys ==
  /\ \A r, q \in Run : RunKey[r] = RunKey[q] => r = q
  /\ Outlives = {}

\* Retries, crashes, lost answers and operators' retries never leave two live
\* documents for one idempotency key.
AtMostOneLive ==
  \A k \in Key, g, h \in Gen :
    docs[<<k, g>>] = "live" /\ docs[<<k, h>>] = "live" => g = h

\* A run that completes has its document, unless an operator was told that
\* a compensation of an earlier run of the event failed (its undo may have
\* reached the target after all).
SuccessKeepsDocument ==
  \A r \in Run :
    phase[r] = "succeeded" /\ r \notin alarmed
    => docs[<<RunKey[r], doc[r]>>] = "live"

\* A run that reports its own failure with its writes undone (no
\* CompensationFailed) has really undone the document it committed.
CleanFailureUndoes ==
  \A r \in Run :
    phase[r] = "failed" /\ doc[r] # 0
    => docs[<<RunKey[r], doc[r]>>] = "undone"

\* Every run closes, whatever fails: attempts are bounded and a claim that a
\* dead call left behind makes them fail rather than wait.
EveryRunCloses ==
  \A r \in Run : []<>(phase[r] \in Closed)

-----------------------------------------------------------------------------
(* What the repository's comments say and the code does not keep. *)

\* IntegrationWorkflow's comment on a duplicate, "Written before this run:
\* not ours to compensate": a run undoes only a document it created itself.
NotOursToCompensate ==
  \A c \in Call :
    pc[c] = "send" /\ job[c].op = "undo"
    => author[<<KeyOf(c), job[c].doc>>] = job[c].run
=============================================================================
