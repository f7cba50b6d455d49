------------------------------ MODULE PgChanges ------------------------------
(***************************************************************************)
(* Change capture of a Postgres table (pkg/connector/postgres/changes.go): *)
(* workers peek at a replication slot, start a run for each change and     *)
(* release the slot up to what the dispatcher has confirmed.               *)
(*                                                                         *)
(* Transaction i of the log changes txns[i] rows of the table; its commit  *)
(* record starts at LSN 2i and ends at 2i + 1.  A change is <<i, k>>, the  *)
(* k-th of transaction i: exactly what position() packs into an integer,   *)
(* so that positions are compared as pairs.  The workflows that the event  *)
(* triggers are 1..CdcWorkflows; each has a cursor, and all of them read   *)
(* the one slot of the event.                                              *)
(***************************************************************************)
EXTENDS Naturals, Sequences, FiniteSets

CONSTANTS
  CdcWorker,      \* worker processes
  CdcWorkflows,   \* how many workflows the event triggers
  CdcLimit,       \* Batch: changes returned by one poll
  CdcBudget,      \* rows asked of the slot (limit*4 + 64)
  MaxTxns,        \* bound: transactions
  MaxRows         \* bound: rows of the table one transaction changes

ASSUME CdcAssumption ==
  /\ {CdcWorkflows, CdcLimit, CdcBudget, MaxTxns, MaxRows} \subseteq Nat
  /\ CdcWorkflows > 0 /\ CdcLimit > 0 /\ CdcBudget > CdcLimit

VARIABLES
  txns,       \* the log: rows of the table changed by each transaction
  confirmed,  \* the slot's confirmed_flush_lsn
  cursor,     \* turgon_cursors: the position each workflow has started up to
  runs,       \* the changes each workflow has started a run for
  poller      \* each worker: the workflow it polls, and how far it is

cdcVars == <<txns, confirmed, cursor, runs, poller>>

Workflows == 1..CdcWorkflows
TableChange(i, k) == <<i, k>>
NoPosition == TableChange(0, 0)
Start(i) == 2 * i
FlushLSN == 2 * Len(txns) + 1

\* position() orders changes by commit record, then by index.
Before(p, q) == p[1] < q[1] \/ (p[1] = q[1] /\ p[2] < q[2])
ChangesOf(s) == UNION {{TableChange(i, k) : k \in 1..txns[i]} : i \in s}
Changes == ChangesOf(DOMAIN txns)
commitOf(pos) == Start(pos[1])

Poll(wf) == [wf |-> wf, pc |-> "idle", after |-> NoPosition, confirmed |-> 0,
             upto |-> 0, out |-> {}]

CdcTypeOK ==
  /\ txns \in Seq(0..MaxRows) /\ Len(txns) <= MaxTxns
  /\ confirmed \in 0..FlushLSN
  /\ cursor \in [Workflows -> Changes \cup {NoPosition}]
  /\ runs \in [Workflows -> SUBSET Changes]
  /\ \A w \in CdcWorker :
       /\ poller[w].wf \in Workflows
       /\ poller[w].pc \in {"idle", "slot", "upto", "flush", "peek", "release", "drain"}
       /\ poller[w].after \in Changes \cup {NoPosition}
       /\ poller[w].out \subseteq Changes /\ Cardinality(poller[w].out) <= CdcLimit

\* The slot is made by the first poll, before the first transaction.
CdcInit ==
  /\ txns = <<>> /\ confirmed = 0
  /\ cursor = [f \in Workflows |-> NoPosition]
  /\ runs = [f \in Workflows |-> {}]
  /\ poller = [w \in CdcWorker |-> Poll(1)]

Goes(w, p) == poller' = [poller EXCEPT ![w] = p]

\* The application commits a transaction.  One that changes no published
\* row moves the log on and is not seen by the slot.
Transaction(rows) ==
  /\ Len(txns) < MaxTxns
  /\ txns' = Append(txns, rows)
  /\ UNCHANGED <<confirmed, cursor, runs, poller>>

\* drain: the stored cursor is read.
ReadCursor(w) ==
  /\ poller[w].pc = "idle"
  /\ Goes(w, [poller[w] EXCEPT !.pc = "slot", !.after = cursor[poller[w].wf]])
  /\ UNCHANGED <<txns, confirmed, cursor, runs>>

\* pollChanges: the slot's confirmed position.
ReadSlot(w) ==
  /\ poller[w].pc = "slot"
  /\ Goes(w, [poller[w] EXCEPT !.pc = "upto", !.confirmed = confirmed])
  /\ UNCHANGED <<txns, confirmed, cursor, runs>>

\* pg_replication_slot_advance refuses to move a slot back.
AdvanceTo(lsn) == lsn >= confirmed /\ confirmed' = lsn

\* What the slot is released to before it is read: the transaction of the
\* cursor itself is decoded again.
ReleasedWhole(after) == Start(after[1] + 1)
Released(after) == commitOf(after)

Advance(w) ==
  LET p == poller[w]
  IN /\ p.pc = "upto"
     /\ IF Released(p.after) > p.confirmed
          THEN AdvanceTo(Released(p.after))
          ELSE UNCHANGED confirmed
     /\ Goes(w, [p EXCEPT !.pc = "flush"])
     /\ UNCHANGED <<txns, cursor, runs>>

\* pg_current_wal_flush_lsn, before the slot is read.
ReadFlush(w) ==
  /\ poller[w].pc = "flush"
  /\ Goes(w, [poller[w] EXCEPT !.pc = "peek", !.upto = FlushLSN])
  /\ UNCHANGED <<txns, confirmed, cursor, runs>>

(* The peek decodes the transactions whose commit record starts at or      *)
(* after the confirmed position and lies before upto, whole, until it has  *)
(* returned the rows it was asked for: a Begin, the rows and a Commit each.*)
Decodable(upto) ==
  {i \in DOMAIN txns : txns[i] > 0 /\ Start(i) >= confirmed /\ Start(i) < upto}

RowsOf(s) == Cardinality(UNION {{i} \X (0..(txns[i] + 1)) : i \in s})

Peeked(upto) ==
  {i \in Decodable(upto) : RowsOf({j \in Decodable(upto) : j < i}) < CdcBudget}

\* The changes past the cursor, the first ones up to the limit.
Wanted(after, s) ==
  LET new == {c \in ChangesOf(s) : Before(after, c)}
  IN {c \in new : Cardinality({d \in new : Before(d, c)}) < CdcLimit}

\* Nothing to deliver, and the slot was read up to upto: a quiet table is
\* released that far.
Quiet(p, out, read) ==
  /\ out = {}
  /\ read < CdcBudget
  /\ p.upto > p.confirmed /\ p.upto > commitOf(p.after)

Peek(w) ==
  LET p == poller[w]
      seen == Peeked(p.upto)
      out == Wanted(p.after, seen)
  IN /\ p.pc = "peek"
     /\ Goes(w, [p EXCEPT !.out = out,
                          !.pc = IF Quiet(p, out, RowsOf(seen)) THEN "release" ELSE "drain"])
     /\ UNCHANGED <<txns, confirmed, cursor, runs>>

QuietRelease(w) ==
  /\ poller[w].pc = "release"
  /\ AdvanceTo(poller[w].upto)
  /\ Goes(w, [poller[w] EXCEPT !.pc = "drain"])
  /\ UNCHANGED <<txns, cursor, runs>>

\* drain: a run is started for the first change left, then the cursor moves
\* past it, which SetCursor never moves back.
Started(w, c) ==
  /\ poller[w].pc = "drain"
  /\ \A d \in poller[w].out : d = c \/ Before(c, d)
  /\ runs' = [runs EXCEPT ![poller[w].wf] = @ \cup {c}]

StartRun(w, c) ==
  LET p == poller[w]
  IN /\ Started(w, c)
     /\ cursor' = [cursor EXCEPT ![p.wf] = IF Before(@, c) THEN c ELSE @]
     /\ Goes(w, [p EXCEPT !.out = @ \ {c}])
     /\ UNCHANGED <<txns, confirmed>>

SetCursorFails(w, c) ==
  /\ Started(w, c)
  /\ Goes(w, Poll((poller[w].wf % CdcWorkflows) + 1))
  /\ UNCHANGED <<txns, confirmed, cursor>>

NextWorkflow(w) ==
  /\ poller[w].pc = "drain" /\ poller[w].out = {}
  /\ Goes(w, Poll((poller[w].wf % CdcWorkflows) + 1))
  /\ UNCHANGED <<txns, confirmed, cursor, runs>>

\* Any call fails: the slot is busy or moved on, a run could not be started.
\* Poll goes on with the next workflow.
PollFails(w) ==
  /\ poller[w].pc # "idle"
  /\ Goes(w, Poll((poller[w].wf % CdcWorkflows) + 1))
  /\ UNCHANGED <<txns, confirmed, cursor, runs>>

WorkerStops(w) ==
  /\ poller[w].pc # "idle"
  /\ Goes(w, Poll(1))
  /\ UNCHANGED <<txns, confirmed, cursor, runs>>

CdcStep(w) ==
  \/ ReadCursor(w) \/ ReadSlot(w) \/ Advance(w) \/ ReadFlush(w) \/ Peek(w)
  \/ QuietRelease(w) \/ NextWorkflow(w) \/ PollFails(w) \/ WorkerStops(w)
  \/ \E c \in poller[w].out : StartRun(w, c) \/ SetCursorFails(w, c)

CdcNext ==
  \/ \E n \in 0..MaxRows : Transaction(n)
  \/ \E w \in CdcWorker : CdcStep(w)

CdcSpec == CdcInit /\ [][CdcNext]_cdcVars

----------------------------------------------------------------------------
(* "The slot advances only to the position the dispatcher has confirmed,   *)
(* so a crash re-reads events and never skips one" (changes.go): whatever  *)
(* the workers do in between, the log still holds every change for which   *)
(* no run has been started, and no cursor is past it.                      *)
NoChangeSkipped ==
  \A f \in Workflows : \A c \in Changes \ runs[f] :
    Start(c[1]) >= confirmed /\ ~Before(c, cursor[f]) /\ c # cursor[f]
=============================================================================
