------------------------------- MODULE Streams -------------------------------
(***************************************************************************)
(* Subscriptions: engine.Streams keeps one open per event, and a connector *)
(* reads it.  Who remembers the position differs:                          *)
(*   replay   Salesforce Pub/Sub, Turgon stores the replay ID              *)
(*   managed  Salesforce, which keeps what was committed to it             *)
(*   kafka    Debezium, Turgon stores the offsets                          *)
(*   queue    SAP Event Mesh, which keeps what was not acknowledged        *)
(*   sidecar  a remote connector, whose system keeps the same              *)
(*                                                                         *)
(* The source's log is one partition; events are numbered from 1 and a     *)
(* position is the number of the next one.  A worker that lost its lock's  *)
(* connection goes on reading next to the one that took over.              *)
(***************************************************************************)
EXTENDS Naturals, Sequences, FiniteSetsExt

CONSTANTS
  Subscriber,       \* worker processes
  StreamKind,       \* the kinds of subscription checked
  StreamBatch,      \* Subscription.Batch
  MaxPublished      \* bound: events of the source

ASSUME StreamsAssumption ==
  /\ StreamKind \subseteq {"replay", "managed", "kafka", "queue", "sidecar"}
  /\ StreamBatch \in Nat \ {0} /\ MaxPublished \in Nat

VARIABLES
  kind, start,    \* the subscription: its kind, and Start ("latest", "earliest")
  log,            \* the source's events
  kept,           \* the oldest event the source still has
  acked,          \* queue: messages acknowledged
  committed,      \* managed: the position committed to Salesforce
  stored,         \* turgon_stream_positions, 0: none
  streamInbox,    \* turgon_inbox
  session,        \* each worker's subscription
  holder,         \* the workers whose connection holds the lock (at most one)
  owedFrom        \* history: the first event the subscription must deliver, 0: none

sourceVars == <<kind, start, log, kept>>
streamVars == <<sourceVars, acked, committed, stored, streamInbox, session, holder, owedFrom>>

\* An event the subscription takes, one it does not (another operation or
\* type, no match, a tombstone), or one that cannot be converted.
Message == {"wanted", "other", "bad"}

\* Kinds whose messages stay until they are acknowledged.
Queues == {"queue", "sidecar"}

Standby == [pc |-> "standby", from |-> 0, next |-> 0, pending |-> 0]
Tip == Len(log) + 1

StreamsTypeOK ==
  /\ kind \in StreamKind /\ start \in {"latest", "earliest"}
  /\ log \in Seq(Message) /\ Len(log) <= MaxPublished
  /\ kept \in 1..Tip /\ acked \subseteq 1..Len(log)
  /\ committed \in 1..Tip /\ stored \in 0..Tip
  /\ streamInbox \subseteq {e \in 1..Len(log) : log[e] = "wanted"}
  /\ \A w \in Subscriber :
       /\ session[w].pc \in {"standby", "resume", "fix", "recv", "received", "delivered"}
       /\ session[w].from \in 0..Tip /\ session[w].next \in 0..Tip
       \* an open subscription has always asked for more events
       /\ session[w].pending \in IF session[w].pc = "recv" THEN 1..StreamBatch ELSE 0..StreamBatch
  /\ holder \subseteq Subscriber /\ Cardinality(holder) <= 1
  /\ owedFrom \in 0..Tip

\* Subscription.Start, where the source itself does not say where it begins.
StartsFrom(k) == IF k \in {"managed"} \cup Queues THEN {"earliest"} ELSE {"latest", "earliest"}

StreamsInit ==
  /\ kind \in StreamKind /\ start \in StartsFrom(kind)
  /\ log = <<>> /\ kept = 1 /\ acked = {} /\ committed = 1 /\ stored = 0
  /\ streamInbox = {} /\ holder = {}
  /\ session = [w \in Subscriber |-> Standby]
  /\ owedFrom = IF start = "earliest" THEN 1 ELSE 0

-----------------------------------------------------------------------------
(* The source *)

Published(m) ==
  /\ Len(log) < MaxPublished
  /\ log' = Append(log, m)
  /\ UNCHANGED <<kind, start, kept, acked, committed, stored, streamInbox, session, holder, owedFrom>>

PublishChange(m) == kind \in {"replay", "managed"} /\ Published(m)
PublishRecord(m) == kind = "kafka" /\ Published(m)
PublishMessage(m) == kind \in Queues /\ Published(m)

\* Retention passes the oldest event; a queue keeps its messages.
RetentionPasses ==
  /\ kind \notin Queues /\ kept < Tip
  /\ kept' = kept + 1
  /\ UNCHANGED <<kind, start, log, acked, committed, stored, streamInbox, session, holder, owedFrom>>

-----------------------------------------------------------------------------
(* engine.Streams.run *)

Is(w, pc) == session[w].pc = pc
Becomes(w, s) == session' = [session EXCEPT ![w] = s]

TryLock(w) ==
  /\ Is(w, "standby") /\ holder = {}
  /\ holder' = {w}
  /\ Becomes(w, [Standby EXCEPT !.pc = "resume"])
  /\ UNCHANGED <<sourceVars, acked, committed, stored, streamInbox, owedFrom>>

\* The subscription ends: a call failed, an event could not be converted
\* (its record could not be read), or the worker stopped.
SessionEnds(w) ==
  /\ ~Is(w, "standby")
  /\ holder' = holder \ {w}
  /\ Becomes(w, Standby)
  /\ UNCHANGED <<sourceVars, acked, committed, stored, streamInbox, owedFrom>>

\* The connection that holds the lock is lost, which the worker does not see.
LockLost ==
  /\ holder # {} /\ holder' = {}
  /\ UNCHANGED <<sourceVars, acked, committed, stored, streamInbox, session, owedFrom>>

-----------------------------------------------------------------------------
(* The connectors' Stream *)

Opened(w, pc, from) ==
  /\ Is(w, "resume")
  /\ Becomes(w, [pc |-> pc, from |-> from, next |-> from, pending |-> StreamBatch])
  /\ UNCHANGED <<sourceVars, acked, committed, stored, streamInbox, holder, owedFrom>>

StartsAt == IF start = "earliest" THEN kept ELSE Tip

\* Salesforce rejects a replay ID it no longer has, and every event still
\* kept is taken instead.
ReplayRejected == stored # 0 /\ stored < kept
OpenReplay(w) ==
  /\ kind = "replay"
  /\ Opened(w, "recv", CASE stored = 0      -> StartsAt
                         [] ReplayRejected  -> kept
                         [] OTHER           -> stored)

\* Salesforce resumes after what was committed to it; a subscription whose
\* replay presets are "earliest" starts, or recovers, at the oldest event.
OpenManaged(w) ==
  /\ kind = "managed"
  /\ Opened(w, "recv", Max({committed, kept}))

\* A stored offset that retention has passed is an error.
OffsetsKept == stored = 0 \/ stored >= kept
OpenKafka(w) ==
  /\ kind = "kafka" /\ OffsetsKept
  /\ IF stored = 0 THEN Opened(w, "fix", StartsAt) ELSE Opened(w, "recv", stored)

OpenQueue(w) == kind = "queue" /\ Opened(w, "recv", 1)
OpenSidecar(w) == kind = "sidecar" /\ Opened(w, "recv", 1)

\* A subscription answers for its events once a position is stored by the
\* only open session: one whose lock was lost before the first position was
\* stored has chosen a start of its own.
Owes(w) ==
  owedFrom' = IF owedFrom = 0 /\ \A v \in Subscriber \ {w} : Is(v, "standby")
                THEN session[w].from ELSE owedFrom

\* Debezium stores the offsets it starts at before anything is read.
StartFixed(w) ==
  /\ Is(w, "fix")
  /\ stored' = session[w].from
  /\ Owes(w)
  /\ Becomes(w, [session[w] EXCEPT !.pc = "recv"])
  /\ UNCHANGED <<sourceVars, acked, committed, streamInbox, holder>>

\* The next n events, of those still kept.
Receive(w, n) ==
  LET first == Max({session[w].next, kept})
  IN  /\ Is(w, "recv")
      /\ n <= session[w].pending /\ first + n <= Tip
      /\ Becomes(w, [session[w] EXCEPT !.pc = "received", !.from = first,
                                       !.next = first + n, !.pending = @ - n])
      /\ UNCHANGED <<sourceVars, acked, committed, stored, streamInbox, holder, owedFrom>>

\* An empty response carries the latest replay ID once nothing is left.
Subscribe(w, n) ==
  /\ kind = "replay" /\ (n = 0 => session[w].next = Tip)
  /\ Receive(w, n)
ManagedSubscribe(w, n) ==
  /\ kind = "managed" /\ (n = 0 => session[w].next = Tip)
  /\ Receive(w, n)
PollFetches(w, n) == kind = "kafka" /\ n > 0 /\ Receive(w, n)

\* A message that is not acknowledged, whichever.
TakeMessage(w, e) ==
  /\ Is(w, "recv")
  /\ e \notin acked
  /\ Becomes(w, [session[w] EXCEPT !.pc = "received", !.from = e, !.next = e + 1])
  /\ UNCHANGED <<sourceVars, acked, committed, stored, streamInbox, holder, owedFrom>>

Consume(w, e) == kind = "queue" /\ TakeMessage(w, e)
ReceiveBatch(w, e) == kind = "sidecar" /\ TakeMessage(w, e)

ReceivedBy(w) == session[w].from .. (session[w].next - 1)

\* convert: none of the events received may fail to convert.
Converts(w) == \A e \in ReceivedBy(w) : log[e] # "bad"
WantedBy(w) == {e \in ReceivedBy(w) : log[e] = "wanted"}

\* DeliverStream: the wanted events and the position after all of them, in
\* one transaction; a queue has no position.
DeliverStream(w, position) ==
  /\ Is(w, "received") /\ Converts(w)
  /\ streamInbox' = streamInbox \cup WantedBy(w)
  /\ stored' = position
  /\ Owes(w)
  /\ Becomes(w, [session[w] EXCEPT !.pc = "delivered"])
  /\ UNCHANGED <<sourceVars, acked, committed, holder>>

HandOver(w) == kind \in {"replay", "managed"} /\ DeliverStream(w, session[w].next)
DeliverRecords(w) == kind = "kafka" /\ DeliverStream(w, session[w].next)

\* A message the subscription does not take is acknowledged all the same.
ConvertMessage(w) == kind = "queue" /\ DeliverStream(w, stored)
DeliverBatch(w) == kind = "sidecar" /\ DeliverStream(w, stored)

MayCommitOnReceipt(w) == session[w].pc \in {"received", "delivered"}

\* A position is committed and a message acknowledged once the inbox has it.
MayCommit(w) == Is(w, "delivered")

\* Mutant: what arrived is never asked for again.
AskedOnce(p) == p

\* More events are asked for once half of the batch has arrived.
Asked(p) == IF p <= StreamBatch \div 2 THEN StreamBatch ELSE p

GoOn(w) ==
  Becomes(w, [session[w] EXCEPT !.pc = "recv", !.from = session[w].next, !.pending = Asked(@)])

\* Salesforce applies a commit, also one older than its last.
CommitReplay(w) ==
  /\ MayCommit(w) /\ kind = "managed"
  /\ committed' = session[w].next
  /\ GoOn(w)
  /\ UNCHANGED <<sourceVars, acked, stored, streamInbox, holder, owedFrom>>

Acknowledged(w) ==
  /\ MayCommit(w)
  /\ acked' = acked \cup ReceivedBy(w)
  /\ GoOn(w)
  /\ UNCHANGED <<sourceVars, committed, stored, streamInbox, holder, owedFrom>>

Ack(w) == kind = "queue" /\ Acknowledged(w)
AckBatch(w) == kind = "sidecar" /\ Acknowledged(w)

\* Nothing to commit, or the commit was sent and is lost.
Continue(w) ==
  /\ Is(w, "delivered") /\ kind \notin Queues
  /\ GoOn(w)
  /\ UNCHANGED <<sourceVars, acked, committed, stored, streamInbox, holder, owedFrom>>

StreamsNext ==
  \/ \E m \in Message : PublishChange(m) \/ PublishRecord(m) \/ PublishMessage(m)
  \/ RetentionPasses \/ LockLost
  \/ \E w \in Subscriber :
       \/ TryLock(w) \/ SessionEnds(w)
       \/ OpenReplay(w) \/ OpenManaged(w) \/ OpenKafka(w) \/ OpenQueue(w) \/ OpenSidecar(w)
       \/ StartFixed(w)
       \/ \E n \in 0..StreamBatch :
            Subscribe(w, n) \/ ManagedSubscribe(w, n) \/ PollFetches(w, n)
       \/ \E e \in 1..Len(log) : Consume(w, e) \/ ReceiveBatch(w, e)
       \/ HandOver(w) \/ DeliverRecords(w) \/ ConvertMessage(w) \/ DeliverBatch(w)
       \/ CommitReplay(w) \/ Ack(w) \/ AckBatch(w) \/ Continue(w)

StreamsSpec == StreamsInit /\ [][StreamsNext]_streamVars

-----------------------------------------------------------------------------
\* What a subscription opened now would still get.
Obtainable(e) ==
  IF kind \in Queues THEN e \notin acked
  ELSE IF kind = "managed" THEN e >= committed
  ELSE IF stored = 0 THEN start = "earliest"
  ELSE e >= stored

(* A subscription that fails, or whose worker dies or loses its lock, at   *)
(* any point loses no event it was open for: each one is in the inbox, or  *)
(* the next subscription gets it, or the source's retention has passed it. *)
NoEventLost ==
  owedFrom > 0 =>
    \A e \in owedFrom..Len(log) :
      log[e] = "wanted" => e \in streamInbox \/ e < kept \/ Obtainable(e)
=============================================================================
