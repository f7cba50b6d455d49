------------------------------- MODULE Polling -------------------------------
(***************************************************************************)
(* Polled events: a connector's Poll reads the records changed after the   *)
(* cursor, and the dispatcher's drain starts a run for each, moving the    *)
(* cursor past it.  The sources are those the repository has a fake of,    *)
(* which is what their part is translated from; they differ in what a      *)
(* position is, and the connectors in where a batch ends:                  *)
(*   sap, salesforce  a time stamp; pages are read on to a boundary        *)
(*   odoo             a time stamp and an ID; records that may not have    *)
(*                    settled wait                                         *)
(*   shop, b1         the ID                                               *)
(*   the others       REST lists: a time stamp; one page, or back to the   *)
(*                    cursor                                               *)
(*                                                                         *)
(* Records are numbered in ID order.  The source stamps a record with its  *)
(* clock; in Odoo when the transaction starts, in the others when it       *)
(* commits.  There the clock has moved on once a request is answered, so   *)
(* that no record gets a stamp that was read already (an assumption on the *)
(* source).  A record may stop matching the event's filter at any time.  A *)
(* record changed again leaves its place in the list in the same way; it   *)
(* comes back with the same event ID, hence starts no second run.          *)
(*                                                                         *)
(* Every worker polls, and the cursor they share never moves back.  A time *)
(* stamp is not unique, so that a batch given up within a group of records *)
(* sharing one can lose the rest: slipped keeps what is lost in the three  *)
(* ways the code leaves open.                                              *)
(***************************************************************************)
EXTENDS Naturals, FiniteSets

CONSTANTS
  Source,         \* the sources checked
  PollWorker,     \* the workers that poll
  PollLimit,      \* Batch, and the size of a page
  MaxPages,       \* MaxPages, 10 * PageLimit
  Settle,         \* settleSeconds; a transaction is shorter
  MaxRecs,        \* bound: records
  MaxClock        \* bound: the source's clock

ById == {"shop", "b1"}
RestSource == ById \cup {"hubspot", "bc", "dataverse", "netsuite", "qbo",
                        "xero", "stripe"}
ByStamp == {"sap", "salesforce"} \cup (RestSource \ ById)

ASSUME PollingAssumption ==
  /\ Source \subseteq {"sap", "salesforce", "odoo"} \cup RestSource
  /\ {PollLimit, MaxPages, Settle, MaxRecs, MaxClock} \subseteq Nat
  /\ PollLimit > 0 /\ MaxPages > 0 /\ Settle > 0 /\ MaxClock > 0

VARIABLES
  source,
  clock,
  stamp,       \* each record's stamp, 0: not written
  visible,     \* the records the event's query can list
  gone,        \* those that no longer match it
  pollCursor,  \* turgon_cursors
  pollPc,      \* where each worker's drain is
  after,       \* the cursor it has read
  page,        \* SAP: the pages it has read
  polled,      \* the records it has left of its batch
  startedRecs, \* the records a run was started for
  slipped      \* history: the records that were lost

pollingSource == <<source, clock, stamp, visible, gone>>
drainVars == <<pollPc, after, page, polled>>
pollingVars == <<pollingSource, pollCursor, drainVars, startedRecs, slipped>>

Rec == 1..MaxRecs
Position == (0..MaxClock) \X (0..MaxRecs)
Pos(r) == <<IF source \in ById THEN 0 ELSE stamp[r],
            IF source \in ById \cup {"odoo"} THEN r ELSE 0>>
After(p, q) == p[1] > q[1] \/ (p[1] = q[1] /\ p[2] > q[2])

PollingTypeOK ==
  /\ source \in Source /\ clock \in 1..MaxClock
  /\ stamp \in [Rec -> 0..MaxClock]
  /\ gone \subseteq {r \in Rec : stamp[r] > 0}
  /\ visible \subseteq {r \in Rec : stamp[r] > 0} \ gone
  /\ pollCursor \in Position
  /\ pollPc \in [PollWorker -> {"idle", "reading", "starting"}]
  /\ after \in [PollWorker -> Position] /\ page \in [PollWorker -> 0..MaxPages]
  /\ polled \in [PollWorker -> SUBSET {r \in Rec : stamp[r] > 0}]
  /\ startedRecs \subseteq {r \in Rec : stamp[r] > 0} /\ slipped \subseteq Rec

PollingInit ==
  /\ source \in Source
  /\ clock = 1 /\ stamp = [r \in Rec |-> 0] /\ visible = {} /\ gone = {}
  /\ pollCursor = <<0, 0>>
  /\ pollPc = [w \in PollWorker |-> "idle"] /\ after = [w \in PollWorker |-> <<0, 0>>]
  /\ page = [w \in PollWorker |-> 0] /\ polled = [w \in PollWorker |-> {}]
  /\ startedRecs = {} /\ slipped = {}

-----------------------------------------------------------------------------
(* The source *)

Stamps(r) ==
  /\ stamp[r] = 0
  /\ source \in ById => \A q \in 1..(r - 1) : stamp[q] > 0
  /\ stamp' = [stamp EXCEPT ![r] = clock]
  /\ visible' = IF source = "odoo" THEN visible ELSE visible \cup {r}
  /\ UNCHANGED <<source, clock, gone, pollCursor, drainVars, startedRecs, slipped>>

CommitsRecord(r) ==
  /\ stamp[r] > 0 /\ r \notin visible \cup gone
  /\ visible' = visible \cup {r}
  /\ UNCHANGED <<source, clock, stamp, gone, pollCursor, drainVars, startedRecs, slipped>>

Leaves(r) ==
  /\ r \in visible
  /\ visible' = visible \ {r} /\ gone' = gone \cup {r}
  /\ UNCHANGED <<source, clock, stamp, pollCursor, drainVars, startedRecs, slipped>>

\* An Odoo transaction ends before its records count as settled.
Tick ==
  /\ clock < MaxClock
  /\ \A r \in Rec \ (visible \cup gone) : stamp[r] > 0 => clock + 1 < stamp[r] + Settle
  /\ clock' = clock + 1
  /\ UNCHANGED <<source, stamp, visible, gone, pollCursor, drainVars, startedRecs, slipped>>

-----------------------------------------------------------------------------
(* Poll *)

\* The latest stamp a poll asks for.
Settled == IF source # "odoo" THEN clock
           ELSE IF clock > Settle THEN clock - Settle ELSE 0

\* What each source lists after a position.
Modified(p) == {r \in visible : stamp[r] > p[1]}
S4Lists(p) == Modified(p)
SalesforceLists(p) == Modified(p)
HubspotLists(p) == Modified(p)
BcLists(p) == Modified(p)
DataverseLists(p) == Modified(p)
NetsuiteLists(p) == Modified(p)
QboLists(p) == Modified(p)
StripeLists(p) == Modified(p)
XeroLists(p) == {r \in visible : stamp[r] >= p[1]}
ShopLists(p) == {r \in visible : r > p[2]}
B1Lists(p) == {r \in visible : r > p[2]}
OdooLists(p) == {r \in visible : After(Pos(r), p) /\ stamp[r] <= Settled}

Lists(p) == CASE source = "sap" -> S4Lists(p)
              [] source = "salesforce" -> SalesforceLists(p)
              [] source = "odoo" -> OdooLists(p)
              [] source = "hubspot" -> HubspotLists(p)
              [] source = "bc" -> BcLists(p)
              [] source = "dataverse" -> DataverseLists(p)
              [] source = "netsuite" -> NetsuiteLists(p)
              [] source = "qbo" -> QboLists(p)
              [] source = "stripe" -> StripeLists(p)
              [] source = "xero" -> XeroLists(p)
              [] source = "shop" -> ShopLists(p)
              [] source = "b1" -> B1Lists(p)

\* A list, and a batch, is in the order of the stamps, then of the IDs; its
\* first n records.
Listed(q, r) == After(<<stamp[r], r>>, <<stamp[q], q>>)
FirstOf(s, n) == {r \in s : Cardinality({q \in s : Listed(q, r)}) < n}

\* Mutant: only the last record is left for the next poll.
BoundaryOneShort(s) == {r \in s : \E q \in s : Listed(r, q)}

\* boundary: what is before the trailing group of one stamp.
Boundary(s) == {r \in s : \E q \in s : stamp[q] > stamp[r]}

\* The cursor is read first.
ReadsCursor(w) ==
  /\ pollPc[w] = "idle"
  /\ pollPc' = [pollPc EXCEPT ![w] = "reading"]
  /\ after' = [after EXCEPT ![w] = pollCursor]
  /\ UNCHANGED <<pollingSource, pollCursor, page, polled, startedRecs, slipped>>

\* A request of worker w was answered: the source's clock has moved on, and
\* the worker has a batch, or another page to read.
Answered(w, pc, n, batch) ==
  /\ pollPc' = [pollPc EXCEPT ![w] = pc]
  /\ page' = [page EXCEPT ![w] = n]
  /\ polled' = [polled EXCEPT ![w] = batch]
  /\ after' = [after EXCEPT ![w] = IF pc = "reading" THEN @ ELSE <<0, 0>>]
  /\ IF source = "odoo" THEN UNCHANGED clock ELSE clock < MaxClock /\ clock' = clock + 1
  /\ UNCHANGED <<source, stamp, visible, gone, pollCursor, startedRecs>>

\* SAP's pages are asked for by their place in a list that changes: what has
\* moved up into the places read already is lost.
SkippedPages(w) == FirstOf(Lists(after[w]), page[w] * PollLimit)
SapFull(w) == Cardinality(Lists(after[w])) >= (page[w] + 1) * PollLimit

\* The list ends with a page that is not full; a full one is read on from
\* until the batch holds a whole group.  Reading MaxPages is an error.
SapReads(w) ==
  LET s == polled[w] \cup (FirstOf(Lists(after[w]), (page[w] + 1) * PollLimit)
                            \ SkippedPages(w))
  IN /\ source = "sap" /\ pollPc[w] = "reading"
     /\ \/ ~SapFull(w) /\ Answered(w, "starting", 0, s)
        \/ SapFull(w) /\ Boundary(s) # {} /\ Answered(w, "starting", 0, Boundary(s))
        \/ /\ SapFull(w) /\ Boundary(s) = {} /\ page[w] + 1 < MaxPages
           /\ Answered(w, "reading", page[w] + 1, s)
     /\ slipped' = slipped \cup (SkippedPages(w) \ polled[w])

\* Salesforce's pages are those of one query's result, which is kept; it
\* says where it ends.
SalesforceEnded(p, n) == Cardinality(Lists(p)) <= n * PollLimit
PagesRead(p) ==
  {n \in 1..MaxPages : \/ SalesforceEnded(p, n)
                       \/ Boundary(FirstOf(Lists(p), n * PollLimit)) # {}}
SalesforcePoll(p) ==
  LET n == CHOOSE n \in PagesRead(p) : \A m \in PagesRead(p) : n <= m
      s == FirstOf(Lists(p), n * PollLimit)
  IN IF SalesforceEnded(p, n) THEN s ELSE Boundary(s)

\* A REST list is read one page (Xero's has no limit), or, newest first, back
\* to the cursor (Stripe).  A batch cut short ends before the last group,
\* unless it is nothing but that group.
RestList(p) == IF source \in {"xero", "stripe"} THEN Lists(p)
               ELSE FirstOf(Lists(p), PollLimit)
RestNew(p) == {r \in RestList(p) : After(Pos(r), p)}
RestShort(p) == \/ source # "stripe" /\ Cardinality(RestList(p)) >= PollLimit
                \/ Cardinality(RestNew(p)) > PollLimit
RestCut(p) == RestShort(p) /\ source \notin ById
RestPoll(p) ==
  LET s == FirstOf(RestNew(p), PollLimit)
  IN IF RestCut(p) /\ Boundary(s) # {} THEN Boundary(s) ELSE s

OdooPoll(p) == FirstOf(Lists(p), PollLimit)

Batch(p) == CASE source = "odoo" -> OdooPoll(p)
              [] source = "salesforce" -> SalesforcePoll(p)
              [] OTHER -> RestPoll(p)

\* The rest of a group of one stamp that fills a REST batch.
Overflow(p) ==
  IF source \in RestSource /\ RestCut(p) /\ Boundary(FirstOf(RestNew(p), PollLimit)) = {}
    THEN {r \in Lists(p) \ Batch(p) : \E q \in Batch(p) : stamp[q] = stamp[r]}
    ELSE {}

Polls(w) ==
  /\ pollPc[w] = "reading" /\ source # "sap"
  /\ source = "salesforce" => PagesRead(after[w]) # {}
  /\ Answered(w, "starting", 0, Batch(after[w]))
  /\ slipped' = slipped \cup Overflow(after[w])

\* No answer, or a group of one stamp with more than MaxPages pages.
PollErrs(w) ==
  /\ pollPc[w] = "reading"
  /\ pollPc' = [pollPc EXCEPT ![w] = "idle"] /\ after' = [after EXCEPT ![w] = <<0, 0>>]
  /\ page' = [page EXCEPT ![w] = 0] /\ polled' = [polled EXCEPT ![w] = {}]
  /\ UNCHANGED <<pollingSource, pollCursor, startedRecs, slipped>>

-----------------------------------------------------------------------------
(* drain *)

First(w, r) == /\ pollPc[w] = "starting" /\ r \in polled[w]
               /\ \A q \in polled[w] : q = r \/ Listed(r, q)

\* The run is started, then the cursor is moved, never back.
Starts(w, r) ==
  /\ First(w, r)
  /\ startedRecs' = startedRecs \cup {r}
  /\ pollCursor' = IF After(Pos(r), pollCursor) THEN Pos(r) ELSE pollCursor
  /\ polled' = [polled EXCEPT ![w] = @ \ {r}]
  /\ UNCHANGED <<pollingSource, pollPc, after, page, slipped>>

Drained(w) ==
  /\ pollPc[w] = "starting" /\ polled[w] = {}
  /\ pollPc' = [pollPc EXCEPT ![w] = "idle"]
  /\ UNCHANGED <<pollingSource, pollCursor, after, page, polled, startedRecs, slipped>>

\* The rest of the batch is left to the next poll, which does not list what
\* has the cursor's own stamp.
GivesUp(w) ==
  /\ pollPc' = [pollPc EXCEPT ![w] = "idle"]
  /\ polled' = [polled EXCEPT ![w] = {}]
  /\ slipped' = slipped \cup {r \in polled[w] : ~After(Pos(r), pollCursor)}
  /\ UNCHANGED <<pollingSource, pollCursor, after, page>>

\* A run could not be started, or the worker died ...
DrainStops(w) ==
  /\ pollPc[w] = "starting" /\ polled[w] # {}
  /\ GivesUp(w) /\ UNCHANGED startedRecs

\* ... or the run was started and the cursor could not be moved.
CursorNotMoved(w, r) ==
  /\ First(w, r)
  /\ GivesUp(w) /\ startedRecs' = startedRecs \cup {r}

PollingNext ==
  \/ \E r \in Rec : Stamps(r) \/ CommitsRecord(r) \/ Leaves(r)
  \/ Tick
  \/ \E w \in PollWorker :
       \/ ReadsCursor(w) \/ SapReads(w) \/ Polls(w) \/ PollErrs(w)
       \/ Drained(w) \/ DrainStops(w)
       \/ \E r \in Rec : Starts(w, r) \/ CursorNotMoved(w, r)

PollingSpec == PollingInit /\ [][PollingNext]_pollingVars

-----------------------------------------------------------------------------
\* The records that are there, match the event and have no run.
Unstarted == {r \in Rec : stamp[r] > 0} \ (startedRecs \cup gone)
Waiting(r) == After(Pos(r), pollCursor) \/ \E w \in PollWorker : r \in polled[w]

(* runtime.go: the cursor is kept before an event whose run did not start, *)
(* and each connector's batch is such that this suffices.  A record        *)
(* without a run is still ahead of the cursor or in a batch being drained; *)
(* in Odoo also one that has not committed.  Only a source whose position  *)
(* is a bare time stamp may lose one, and only where a drain is given up   *)
(* within a group of one stamp, a REST batch is nothing but one group, or  *)
(* SAP's list moves up between two pages.                                  *)
SkipsOnlyKnown ==
  \A r \in Unstarted : Waiting(r) \/ (source \in ByStamp /\ r \in slipped)

(* sap.go: "A poll never ends inside a group of entities sharing a         *)
(* timestamp, so the strict "greater than" cursor cannot skip any", and in *)
(* rest.go "so a strict "after" cursor cannot skip items".  No record      *)
(* without a run is behind the cursor, unless its batch is being drained.  *)
NoRecordSkipped == \A r \in Unstarted : Waiting(r)
=============================================================================
