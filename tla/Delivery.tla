------------------------------ MODULE Delivery ------------------------------
(***************************************************************************)
(* How events become runs: pkg/engine's WebhookHandler, Streams and        *)
(* Dispatcher, which every worker of a deployment runs, over the cursors,  *)
(* inbox, stream positions and advisory locks of pkg/store/pgstore, and    *)
(* the runs Temporal keeps.  One trigger of one workflow is modelled; it   *)
(* is polled, received by webhook or streamed.                             *)
(*                                                                         *)
(* The events of the source are 1, 2, ... in the order of their positions, *)
(* which are also their IDs.  Rows of the inbox are known by their         *)
(* sequence numbers; a transaction takes its numbers when it inserts and   *)
(* shows its rows when it commits.  A subscription has stored a position   *)
(* before the first event, so "from now" never skips one.                  *)
(***************************************************************************)
EXTENDS Naturals, FiniteSets, Sequences, SequencesExt, FiniteSetsExt

CONSTANTS
  Worker,     \* worker processes
  Mode,       \* the trigger's kinds to look at
  Batch,      \* events read per pass (100 in the code)
  MaxEvents,  \* bound: events that happen
  MaxPruned,  \* bound: rows PruneInbox deletes
  MaxFaults,  \* bound: crashes, lost connections and failed calls
  None        \* no worker

ASSUME ConstantsAssumption ==
  /\ None \notin Worker
  /\ Mode \subseteq {"poll", "webhook", "stream"}
  /\ Batch \in Nat \ {0}
  /\ MaxEvents \in Nat /\ MaxPruned \in Nat /\ MaxFaults \in Nat

VARIABLES
  mode,        \* how the trigger's events arrive
  happened,    \* external: the events that happened so far
  owed,        \* external: webhook deliveries the provider still makes
  acked,       \* history: deliveries that were acknowledged
  inbox,       \* turgon_inbox: the event of every row ever inserted
  committed,   \* rows whose transaction committed
  pruned,      \* rows PruneInbox deleted
  writing,     \* transactions in progress: the rows each inserted
  load,        \* the events each transaction stores (<<>>: none running)
  pollCursor,  \* turgon_cursors, the source's position (webhook: reconciled)
  inboxCursor, \* turgon_cursors, the "#inbox" position
  resume,      \* turgon_stream_positions
  lock,        \* the worker that holds the subscription's advisory lock
  runs,        \* external: Temporal's run of each event; one that was started
               \* is running or completed, or has failed
  dpc,         \* where each worker's dispatcher is
  batch,       \* the positions it has read and not passed yet
  spc,         \* where each worker's subscription loop is
  spos,        \* the position its open subscription has reached
  faults       \* faults so far

sourceVars == <<mode, happened, owed, acked>>
inboxVars == <<inbox, committed, pruned, writing, load>>
cursorVars == <<pollCursor, inboxCursor>>
streamVars == <<resume, lock, spc, spos>>
dispatchVars == <<dpc, batch>>
vars == <<sourceVars, inboxVars, cursorVars, streamVars, runs, dispatchVars,
          faults>>

Event == 1..MaxEvents

\* Who delivers to the inbox: the webhook handler, a worker's reconciliation,
\* a worker's subscription.
Writer == {<<None, "hook">>} \cup Worker \X {"reconcile", "stream"}

TypeOK ==
  /\ mode \in Mode
  /\ happened \in 0..MaxEvents
  /\ owed \subseteq Event /\ acked \subseteq Event
  /\ inbox \in Seq(Event)
  /\ committed \subseteq 1..Len(inbox) /\ pruned \subseteq committed
  /\ \A wr \in Writer : writing[wr] \subseteq 1..Len(inbox) \ committed
  /\ \A wr \in Writer : ToSet(load[wr]) \subseteq Event
  /\ pollCursor \in 0..happened
  /\ inboxCursor \in 0..Len(inbox)
  /\ resume \in 0..happened
  /\ lock \in Worker \cup {None}
  /\ runs \in [Event -> {"none", "started", "failed"}]
  /\ dpc \in [Worker -> {"idle", "start", "advance", "found", "stored"}]
  /\ \A w \in Worker : batch[w] \in Seq(Nat \ {0})
  /\ spc \in [Worker -> {"standby", "locked", "open"}]
  /\ spos \in [Worker -> 0..happened]
  /\ faults \in 0..MaxFaults

Init ==
  /\ mode \in Mode
  /\ happened = 0 /\ owed = {} /\ acked = {}
  /\ inbox = <<>> /\ committed = {} /\ pruned = {}
  /\ writing = [wr \in Writer |-> {}]
  /\ load = [wr \in Writer |-> <<>>]
  /\ pollCursor = 0 /\ inboxCursor = 0 /\ resume = 0
  /\ lock = None
  /\ runs = [e \in Event |-> "none"]
  /\ dpc = [w \in Worker |-> "idle"]
  /\ batch = [w \in Worker |-> <<>>]
  /\ spc = [w \in Worker |-> "standby"]
  /\ spos = [w \in Worker |-> 0]
  /\ faults = 0

\* Rows a query sees.
Visible == committed \ pruned

\* Events that reached the inbox at some time.
Stored == {inbox[s] : s \in committed}

\* ORDER BY: the numbers of S, from the least to the greatest.
Ascending(S) ==
  CHOOSE f \in [1..Cardinality(S) -> S] :
    \A i, j \in 1..Cardinality(S) : i < j => f[i] < f[j]

\* LIMIT: a batch holds those with fewer than Batch before them.
FirstOf(S) == Ascending({x \in S : Cardinality({y \in S : y < x}) < Batch})

Fault == faults < MaxFaults /\ faults' = faults + 1

-----------------------------------------------------------------------------
(* The source, and what becomes of the runs. *)

\* Something happens at the source; a webhook provider owes its delivery.
EventHappens ==
  /\ happened < MaxEvents
  /\ happened' = happened + 1
  /\ owed' = IF mode = "webhook" THEN owed \cup {happened + 1} ELSE owed
  /\ UNCHANGED <<mode, acked, inboxVars, cursorVars, streamVars, runs,
                 dispatchVars, faults>>

\* The provider never delivers it, or stops retrying.
ProviderGivesUp(e) ==
  /\ Fault
  /\ e \in owed
  /\ owed' = owed \ {e}
  /\ UNCHANGED <<mode, happened, acked, inboxVars, cursorVars, streamVars,
                 runs, dispatchVars>>

RunFails(e) ==
  /\ runs[e] = "started"
  /\ runs' = [runs EXCEPT ![e] = "failed"]
  /\ UNCHANGED <<sourceVars, inboxVars, cursorVars, streamVars, dispatchVars,
                 faults>>

-----------------------------------------------------------------------------
(* The inbox: Deliver and DeliverStream. *)

\* Mutant: deliveries to a source are not serialized.
SourceLockNotTaken(wr) == load[wr] = <<>>

\* pg_advisory_xact_lock: one delivery to the source at a time.
SourceLock(wr) == \A v \in Writer : load[v] = <<>>

\* INSERT ... ON CONFLICT (source, event_id) DO NOTHING, one row per event,
\* in the order of the batch, which is that of the events.
Insert(wr, events) ==
  LET new == Ascending({e \in ToSet(events) : \A s \in Visible : inbox[s] # e})
  IN  /\ SourceLock(wr)
      /\ inbox' = inbox \o new
      /\ writing' = [writing EXCEPT ![wr] = Len(inbox) + 1..Len(inbox')]
      /\ load' = [load EXCEPT ![wr] = events]
      /\ UNCHANGED <<committed, pruned>>

Commit(wr) ==
  /\ load[wr] # <<>>
  /\ committed' = committed \cup writing[wr]
  /\ writing' = [writing EXCEPT ![wr] = {}]
  /\ load' = [load EXCEPT ![wr] = <<>>]
  /\ UNCHANGED <<inbox, pruned>>

Rollback(wrs) ==
  /\ writing' = [wr \in Writer |-> IF wr \in wrs THEN {} ELSE writing[wr]]
  /\ load' = [wr \in Writer |-> IF wr \in wrs THEN <<>> ELSE load[wr]]
  /\ UNCHANGED <<inbox, committed, pruned>>

\* PruneInbox deletes rows received 30 days ago.  That is longer than any
\* provider retries, and longer than a dispatcher is taken to lag.
PruneInbox ==
  /\ Cardinality(pruned) < MaxPruned
  /\ Visible # {}
  /\ LET s == Min(Visible)
     IN  /\ s <= inboxCursor /\ inbox[s] \notin owed
         /\ pruned' = pruned \cup {s}
  /\ UNCHANGED <<sourceVars, inbox, committed, writing, load, cursorVars,
                 streamVars, runs, dispatchVars, faults>>

-----------------------------------------------------------------------------
(* WebhookHandler. *)

Hook == <<None, "hook">>

\* A delivery arrives and is verified; it goes into the inbox.
HookReceives(e) ==
  /\ e \in owed
  /\ Insert(Hook, <<e>>)
  /\ UNCHANGED <<sourceVars, cursorVars, streamVars, runs, dispatchVars,
                 faults>>

\* It could not be stored: no acknowledgement, the provider delivers again.
HookFails ==
  /\ Fault
  /\ load[Hook] # <<>>
  /\ Rollback({Hook})
  /\ UNCHANGED <<sourceVars, cursorVars, streamVars, runs, dispatchVars>>

\* It is stored and acknowledged.
HookStores ==
  /\ Commit(Hook)
  /\ owed' = owed \ ToSet(load[Hook])
  /\ acked' = acked \cup ToSet(load[Hook])
  /\ UNCHANGED <<mode, happened, cursorVars, streamVars, runs, dispatchVars,
                 faults>>

\* It is stored and the acknowledgement is lost.
HookStoresUnheard ==
  /\ Fault
  /\ Commit(Hook)
  /\ UNCHANGED <<sourceVars, cursorVars, streamVars, runs, dispatchVars>>

-----------------------------------------------------------------------------
(* Streams.run, one loop per worker. *)

Subscription(w) == <<w, "stream">>

\* pg_try_advisory_lock: the other workers stand by.
TryLock(w) ==
  /\ mode = "stream"
  /\ spc[w] = "standby"
  /\ lock = None
  /\ lock' = w
  /\ spc' = [spc EXCEPT ![w] = "locked"]
  /\ UNCHANGED <<sourceVars, inboxVars, cursorVars, resume, spos, runs,
                 dispatchVars, faults>>

\* StreamResume, then the connector subscribes from there.
OpenStream(w) ==
  /\ spc[w] = "locked"
  /\ spc' = [spc EXCEPT ![w] = "open"]
  /\ spos' = [spos EXCEPT ![w] = resume]
  /\ UNCHANGED <<sourceVars, inboxVars, cursorVars, resume, lock, runs,
                 dispatchVars, faults>>

\* Mutant: the position is stored before the events are.
StreamReceivesPositionFirst(w) ==
  /\ spc[w] = "open" /\ load[Subscription(w)] = <<>>
  /\ spos[w] < happened
  /\ Insert(Subscription(w), FirstOf(spos[w] + 1..happened))
  /\ resume' = Last(FirstOf(spos[w] + 1..happened))
  /\ UNCHANGED <<sourceVars, cursorVars, lock, spc, spos, runs, dispatchVars,
                 faults>>

\* A batch arrives; deliver hands it to DeliverStream.
StreamReceives(w) ==
  /\ spc[w] = "open" /\ load[Subscription(w)] = <<>>
  /\ spos[w] < happened
  /\ Insert(Subscription(w), FirstOf(spos[w] + 1..happened))
  /\ UNCHANGED <<sourceVars, cursorVars, streamVars, runs, dispatchVars,
                 faults>>

\* The rows and the position after them commit together.
StreamStores(w) ==
  /\ Commit(Subscription(w))
  /\ resume' = Last(load[Subscription(w)])
  /\ spos' = [spos EXCEPT ![w] = Last(load[Subscription(w)])]
  /\ UNCHANGED <<sourceVars, cursorVars, lock, spc, runs, dispatchVars,
                 faults>>

Unlocked(w) == IF lock = w THEN None ELSE lock

\* Mutant: the lock is released only when the stream never opened.
StreamEndsLocked(w) ==
  /\ Fault
  /\ spc[w] # "standby"
  /\ Rollback({Subscription(w)})
  /\ lock' = IF spc[w] = "open" THEN lock ELSE Unlocked(w)
  /\ spc' = [spc EXCEPT ![w] = "standby"]
  /\ UNCHANGED <<sourceVars, cursorVars, resume, spos, runs, dispatchVars>>

\* The subscription fails, or the store does; it is reopened after a backoff
\* by whoever takes the lock first.
StreamEnds(w) ==
  /\ Fault
  /\ spc[w] # "standby"
  /\ Rollback({Subscription(w)})
  /\ lock' = Unlocked(w)
  /\ spc' = [spc EXCEPT ![w] = "standby"]
  /\ UNCHANGED <<sourceVars, cursorVars, resume, spos, runs, dispatchVars>>

\* The connection that holds the lock is lost.  Nobody watches it: the worker
\* streams on while another one takes the lock.
LockIsLost(w) ==
  /\ Fault
  /\ lock = w
  /\ lock' = None
  /\ UNCHANGED <<sourceVars, inboxVars, cursorVars, resume, spc, spos, runs,
                 dispatchVars>>

-----------------------------------------------------------------------------
(* Dispatcher.Poll, one loop per worker. *)

Forward(cursor, pos) == IF pos > cursor THEN pos ELSE cursor

Drain(w, p, rest) ==
  /\ dpc' = [dpc EXCEPT ![w] = p]
  /\ batch' = [batch EXCEPT ![w] = rest]

\* Poll or Inbox: the events after the cursor, a batch at most.
DrainReads(w) ==
  /\ dpc[w] = "idle"
  /\ LET found == FirstOf(IF mode = "poll" THEN pollCursor + 1..happened
                          ELSE {s \in Visible : s > inboxCursor})
     IN  found # <<>> /\ Drain(w, "start", found)
  /\ UNCHANGED <<sourceVars, inboxVars, cursorVars, streamVars, runs,
                 faults>>

EventAt(pos) == IF mode = "poll" THEN pos ELSE inbox[pos]

\* Starter.Start: Temporal starts the run of an ID that has none, or whose
\* last run failed; a run that is under way or completed is left alone.
StartRun(e) == runs' = [runs EXCEPT ![e] = "started"]

\* The run of the next event is started.
Start(w) ==
  /\ dpc[w] = "start"
  /\ StartRun(EventAt(Head(batch[w])))
  /\ Drain(w, "advance", batch[w])
  /\ UNCHANGED <<sourceVars, inboxVars, cursorVars, streamVars, faults>>

\* Temporal does not answer, with or without the run started: the pass ends
\* and the cursor stays before the event.
StartFails(w) ==
  /\ Fault
  /\ dpc[w] = "start"
  /\ StartRun(EventAt(Head(batch[w]))) \/ UNCHANGED runs
  /\ Drain(w, "idle", <<>>)
  /\ UNCHANGED <<sourceVars, inboxVars, cursorVars, streamVars>>

\* SetCursor, which only moves forward.
Advance(w) ==
  /\ dpc[w] = "advance"
  /\ LET pos == Head(batch[w]) IN
       \/ mode = "poll" /\ pollCursor' = Forward(pollCursor, pos)
          /\ UNCHANGED inboxCursor
       \/ mode # "poll" /\ inboxCursor' = Forward(inboxCursor, pos)
          /\ UNCHANGED pollCursor
  /\ Drain(w, IF Len(batch[w]) = 1 THEN "idle" ELSE "start", Tail(batch[w]))
  /\ UNCHANGED <<sourceVars, inboxVars, streamVars, runs, faults>>

AdvanceFails(w) ==
  /\ Fault
  /\ dpc[w] = "advance"
  /\ Drain(w, "idle", <<>>)
  /\ UNCHANGED <<sourceVars, inboxVars, cursorVars, streamVars, runs>>

Reconciler(w) == <<w, "reconcile">>

\* reconcile(): the source is polled for webhook events now and then.
ReconcileReads(w) ==
  /\ mode = "webhook"
  /\ dpc[w] = "idle"
  /\ pollCursor < happened
  /\ Drain(w, "found", FirstOf(pollCursor + 1..happened))
  /\ UNCHANGED <<sourceVars, inboxVars, cursorVars, streamVars, runs,
                 faults>>

ReconcileInserts(w) ==
  /\ dpc[w] = "found"
  /\ Insert(Reconciler(w), batch[w])
  /\ UNCHANGED <<sourceVars, cursorVars, streamVars, runs, dispatchVars,
                 faults>>

ReconcileStores(w) ==
  /\ Commit(Reconciler(w))
  /\ Drain(w, "stored", batch[w])
  /\ UNCHANGED <<sourceVars, cursorVars, streamVars, runs, faults>>

\* The cursor moves past the batch; the loop asks for the next one.
ReconcileAdvances(w) ==
  /\ dpc[w] = "stored"
  /\ pollCursor' = Forward(pollCursor, Last(batch[w]))
  /\ Drain(w, "idle", <<>>)
  /\ UNCHANGED <<sourceVars, inboxVars, inboxCursor, streamVars, runs,
                 faults>>

\* The store fails at one of these steps; the cursor stays.
ReconcileFails(w) ==
  /\ Fault
  /\ dpc[w] \in {"found", "stored"}
  /\ Rollback({Reconciler(w)})
  /\ Drain(w, "idle", <<>>)
  /\ UNCHANGED <<sourceVars, cursorVars, streamVars, runs>>

\* A worker process dies and is started again: what it had in memory is
\* gone, its transactions roll back and its lock is free.
Crash(w) ==
  /\ Fault
  /\ Rollback({Reconciler(w), Subscription(w)})
  /\ lock' = Unlocked(w)
  /\ spc' = [spc EXCEPT ![w] = "standby"]
  /\ Drain(w, "idle", <<>>)
  /\ UNCHANGED <<sourceVars, cursorVars, resume, spos, runs>>

Dispatch(w) ==
  \/ DrainReads(w) \/ Start(w) \/ Advance(w)
  \/ ReconcileReads(w) \/ ReconcileInserts(w) \/ ReconcileStores(w)
  \/ ReconcileAdvances(w)

Subscribe(w) ==
  TryLock(w) \/ OpenStream(w) \/ StreamReceives(w) \/ StreamStores(w)

Next ==
  \/ EventHappens \/ PruneInbox \/ HookFails \/ HookStores \/ HookStoresUnheard
  \/ \E e \in Event : ProviderGivesUp(e) \/ RunFails(e) \/ HookReceives(e)
  \/ \E w \in Worker :
       \/ Dispatch(w) \/ StartFails(w) \/ AdvanceFails(w) \/ ReconcileFails(w)
       \/ Subscribe(w) \/ StreamEnds(w) \/ LockIsLost(w)
       \/ Crash(w)

Spec == Init /\ [][Next]_vars

\* Every worker's loops go on and the handler finishes what it began.  The
\* faults are bounded: calls that are repeated succeed in the end.
FairSpec ==
  /\ Spec
  /\ WF_vars(HookStores)
  /\ \A w \in Worker : WF_vars(Dispatch(w)) /\ WF_vars(Subscribe(w))

-----------------------------------------------------------------------------
(* Properties. *)

\* "The cursor advances only past started events" (Poll), with any number of
\* dispatchers and deliveries at once: no row that ever becomes visible lies
\* behind the inbox cursor without its run having been started.
CursorBehindRuns ==
  /\ mode = "poll" => \A e \in 1..pollCursor : runs[e] # "none"
  /\ \A s \in committed : s <= inboxCursor => runs[inbox[s]] # "none"

\* What the source will not send again is in the inbox: a delivery that was
\* acknowledged, and what lies behind the reconciled cursor or the position
\* a subscription resumes from, however many workers wrote them.
NothingForgotten ==
  /\ acked \subseteq Stored
  /\ mode = "webhook" => 1..pollCursor \subseteq Stored
  /\ 1..resume \subseteq Stored

\* The inbox keeps each event once: two visible rows never hold the same
\* event, although handler, reconciliation and subscriptions race.
OneRowPerEvent ==
  \A s, t \in Visible : inbox[s] = inbox[t] => s = t

\* What the inbox, the cursors and the positions hold together is well formed,
\* complete and without repetition.
InboxSound == TypeOK /\ NothingForgotten /\ OneRowPerEvent

\* Every event gets its run, whatever single deliveries, workers, locks or
\* calls fail on the way.
EveryEventRuns == \A e \in Event : (e <= happened) ~> (runs[e] # "none")
=============================================================================
