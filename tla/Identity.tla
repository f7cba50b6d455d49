------------------------------ MODULE Identity ------------------------------
(***************************************************************************)
(* Which master record one source record is (architecture 7.3): the        *)
(* Resolve activity of the runs that carry the record, the data stewards   *)
(* of the console (pkg/console/steward.go), `turgon xref set` and bulk     *)
(* loads (`turgon xref load`, pgstore.LinkMany), over the cross-reference  *)
(* of that record in pgstore.  What the scoring model computes is free:    *)
(* any master may come out as the one certain match, or none.              *)
(***************************************************************************)
EXTENDS Naturals, FiniteSets

CONSTANTS ResolveRun,     \* runs whose document names the record
          Master, NoMaster,
          StewardUser,    \* stewards at work in the console
          Automatic,      \* TRUE: strategy probabilistic or splink; FALSE: exact
          QueueLimit,     \* page size of the steward queue's list of failed runs
          OtherFailures,  \* bound on failed runs of other kinds
          MaxIdentityFaults

ASSUME IdentityAssumption ==
    /\ NoMaster \notin Master /\ Automatic \in BOOLEAN
    /\ QueueLimit \in Nat \ {0} /\ {OtherFailures, MaxIdentityFaults} \subseteq Nat

VARIABLES xref,        \* the record's cross-reference, or NoMaster
          resolve,     \* resolve[r]: where run r is, and the master it has
          seat,        \* seat[s]: a steward's request
          load,        \* a bulk load without --replace
          others,      \* failed runs of other kinds, newer than these
          idFaults

identityVars == <<xref, resolve, seat, load, others, idFaults>>

MaybeMaster == Master \cup {NoMaster}
ResolveStates == {"start", "lookup", "link", "audit", "resolved", "unresolved",
                  "invalid"}
NoRequestSeat == [pc |-> "idle", master |-> NoMaster, waiting |-> {}]
NoLoad == [pc |-> "idle", seen |-> NoMaster, master |-> NoMaster]

IdentityTypeOK ==
    /\ xref \in MaybeMaster
    /\ resolve \in [ResolveRun -> [state : ResolveStates, master : MaybeMaster, retried : BOOLEAN]]
    /\ seat \in [StewardUser -> [pc : {"idle", "link", "audit", "retry"}, master : MaybeMaster,
                                 waiting : SUBSET ResolveRun]]
    /\ load \in [pc : {"idle", "write"}, seen : MaybeMaster, master : MaybeMaster]
    /\ others \in 0..OtherFailures
    /\ idFaults \in 0..MaxIdentityFaults

IdentityInit ==
    /\ xref = NoMaster
    /\ resolve = [r \in ResolveRun |-> [state |-> "start", master |-> NoMaster, retried |-> FALSE]]
    /\ seat = [s \in StewardUser |-> NoRequestSeat]
    /\ load = NoLoad /\ others = 0 /\ idFaults = 0

IdFault == idFaults < MaxIdentityFaults /\ idFaults' = idFaults + 1
ResolveAt(r, state) == resolve[r].state = state
GoTo(r, state, m) == resolve' = [resolve EXCEPT ![r].state = state, ![r].master = m]

\* Store.Link: an upsert.
LinkTo(m) == xref' = m

-----------------------------------------------------------------------------
(***************************************************************************)
(* Activities.Resolve.                                                     *)
(***************************************************************************)

\* A known cross-reference is used as it is; else the record is scored.
Xref(r) ==
    /\ ResolveAt(r, "start")
    /\ IF xref # NoMaster THEN GoTo(r, "resolved", xref) ELSE GoTo(r, "lookup", NoMaster)
    /\ UNCHANGED <<xref, seat, load, others, idFaults>>

\* Suggest (the built-in model or Splink's) and Decide: one master reaches
\* the threshold and no other comes close, or the match is not certain.
DecideMatch(m) == Automatic /\ m \in Master

Match(r, m) ==
    /\ ResolveAt(r, "lookup") /\ DecideMatch(m)
    /\ GoTo(r, "link", m)
    /\ UNCHANGED <<xref, seat, load, others, idFaults>>

\* ErrTypeUnresolved: the run fails and waits for a steward.
NeedsSteward(r) ==
    /\ ResolveAt(r, "lookup")
    /\ GoTo(r, "unresolved", NoMaster)
    /\ UNCHANGED <<xref, seat, load, others, idFaults>>

\* Splink refuses the record (ErrTypeInvalid): the run fails for good, and
\* not for want of a master record.
SplinkRefuses(r) ==
    /\ ResolveAt(r, "lookup") /\ Automatic
    /\ GoTo(r, "invalid", NoMaster)
    /\ UNCHANGED <<xref, seat, load, others, idFaults>>

MatchLinks(r) ==
    /\ ResolveAt(r, "link") /\ LinkTo(resolve[r].master)
    /\ GoTo(r, "audit", resolve[r].master)
    /\ UNCHANGED <<seat, load, others, idFaults>>

MatchAudits(r) ==
    /\ ResolveAt(r, "audit")
    /\ GoTo(r, "resolved", resolve[r].master)
    /\ UNCHANGED <<xref, seat, load, others, idFaults>>

\* The store, Splink or the audit log is out of reach: the activity is tried
\* again from its start.
ResolveFails(r) ==
    /\ resolve[r].state \in {"lookup", "link", "audit"} /\ IdFault
    /\ GoTo(r, "start", NoMaster)
    /\ UNCHANGED <<xref, seat, load, others>>

-----------------------------------------------------------------------------
(***************************************************************************)
(* The steward queue.                                                      *)
(***************************************************************************)

\* The queue looks at the QueueLimit newest failed runs of any kind, and
\* keeps those whose latest attempt failed for want of a master record.
Unresolved ==
    IF others < QueueLimit THEN {r \in ResolveRun : ResolveAt(r, "unresolved")} ELSE {}

AnotherRunFails ==
    /\ others < OtherFailures /\ others' = others + 1
    /\ UNCHANGED <<xref, resolve, seat, load, idFaults>>

\* stewardLink: only a record that runs wait for can be linked.
StewardLists(s, m) ==
    /\ seat[s].pc = "idle" /\ Unresolved # {}
    /\ seat' = [seat EXCEPT ![s] = [pc |-> "link", master |-> m, waiting |-> Unresolved]]
    /\ UNCHANGED <<xref, resolve, load, others, idFaults>>

\* A defect to compare with: the runs are retried before the link is stored.
StewardLinksLast(s) ==
    /\ seat[s].pc = "link"
    /\ seat' = [seat EXCEPT ![s].pc = "audit"]
    /\ UNCHANGED <<xref, resolve, load, others, idFaults>>

StewardLinks(s) ==
    /\ seat[s].pc = "link" /\ LinkTo(seat[s].master)
    /\ seat' = [seat EXCEPT ![s].pc = "audit"]
    /\ UNCHANGED <<resolve, load, others, idFaults>>

StewardAudits(s) ==
    /\ seat[s].pc = "audit"
    /\ seat' = [seat EXCEPT ![s].pc = "retry"]
    /\ UNCHANGED <<xref, resolve, load, others, idFaults>>

\* The answer is an error and nothing more happens: before the link, or with
\* the link stored and no run retried.
StewardFails(s) ==
    /\ seat[s].pc \in {"link", "audit"} /\ IdFault
    /\ seat' = [seat EXCEPT ![s] = NoRequestSeat]
    /\ UNCHANGED <<xref, resolve, load, others>>

\* Retry starts a run again when its last attempt failed; one another
\* steward has retried meanwhile is reported as failed to retry.
StewardRetries(s) ==
    /\ seat[s].pc = "retry"
    /\ resolve' = [r \in ResolveRun |->
                      IF r \in seat[s].waiting /\ ResolveAt(r, "unresolved")
                      THEN [state |-> "start", master |-> NoMaster, retried |-> TRUE]
                      ELSE resolve[r]]
    /\ seat' = [seat EXCEPT ![s] = NoRequestSeat]
    /\ UNCHANGED <<xref, load, others, idFaults>>

-----------------------------------------------------------------------------
(***************************************************************************)
(* Loads.                                                                  *)
(***************************************************************************)

\* LinkMany reads the links it is about to set, without locking them ...
LoadReads(m) ==
    /\ load.pc = "idle"
    /\ load' = [pc |-> "write", seen |-> xref, master |-> m]
    /\ UNCHANGED <<xref, resolve, seat, others, idFaults>>

\* ... and upserts those it found absent: one linked elsewhere is a conflict
\* and is left alone, one linked to the same master is unchanged.
LoadWrites ==
    /\ load.pc = "write"
    /\ IF load.seen = NoMaster THEN LinkTo(load.master) ELSE UNCHANGED xref
    /\ load' = NoLoad
    /\ UNCHANGED <<resolve, seat, others, idFaults>>

IdentityNext ==
    \/ \E r \in ResolveRun : \/ Xref(r) \/ NeedsSteward(r) \/ MatchLinks(r) \/ MatchAudits(r)
                             \/ SplinkRefuses(r) \/ ResolveFails(r) \/ \E m \in Master : Match(r, m)
    \/ \E s \in StewardUser : \/ StewardLinks(s) \/ StewardAudits(s) \/ StewardFails(s)
                              \/ StewardRetries(s) \/ \E m \in Master : StewardLists(s, m)
    \/ \E m \in Master : LoadReads(m)
    \/ LoadWrites \/ AnotherRunFails

IdentitySpec == IdentityInit /\ [][IdentityNext]_identityVars

-----------------------------------------------------------------------------
\* A run a steward has retried does not come back to the queue for the same
\* record: its link is stored before the retry starts, and nothing removes a
\* link.  (stewardLink: Link, then Retry; Resolve reads the link first.)
RetriedResolves == \A r \in ResolveRun : resolve[r].retried => ~ResolveAt(r, "unresolved")
=============================================================================
