----------------------------- MODULE MetaGraph -----------------------------
(***************************************************************************)
(* The metadata graph: `turgon discover` (cmd/turgon/discover.go) asks a   *)
(* connector what an endpoint holds, adds what refused writes taught       *)
(* (pkg/meta/learn.go), stores the catalog as a snapshot when it differs   *)
(* from the latest one (pkg/store/pgstore/meta.go), and Compare            *)
(* (pkg/meta/meta.go) says which of the changes break what uses the        *)
(* endpoint.  The console compares the stored snapshots the same way.      *)
(*                                                                         *)
(* One endpoint with one object, one of whose fields is followed; the      *)
(* other fields never change.  Each connector sees the object in its own   *)
(* way, so its kind is part of the state.                                  *)
(***************************************************************************)
EXTENDS Naturals, Sequences, FiniteSets

CONSTANTS
  Discoverer,       \* `turgon discover` processes, a schedule's and a person's
  MetaKind,         \* kinds of connectors considered
  PartlyWritable,   \* those whose fields may be creatable but not updatable
  MaxLength,        \* bound: lengths of a text field
  MaxSchemaChanges, \* bound: changes of the system
  MaxSaves          \* bound: discoveries that reach SaveCatalog

ASSUME MetaAssumption ==
  /\ PartlyWritable \subseteq MetaKind
  /\ MetaKind \subseteq {"postgres", "salesforce", "sap", "odoo",
                         "openapi", "debezium", "sampled"}
  /\ MaxLength \in Nat /\ MaxSchemaChanges \in Nat /\ MaxSaves \in Nat

VARIABLES
  metaKind,   \* the endpoint's connector
  system,     \* the object as it is: gone, without the field, or the field
  changed,    \* changes of the system so far
  refused,    \* whether a refusal in the learn window names the field
  snapshots,  \* turgon_meta_snapshots of the endpoint, by id
  saved,      \* history: each SaveCatalog, with the object it was made from
  discovery   \* each process: its step, LatestCatalog and what it holds

metaVars == <<metaKind, system, changed, refused, snapshots, saved, discovery>>

Types == {"text", "number"}
Unknown == ""
Gone == [there |-> FALSE]
NoField == [there |-> TRUE, has |-> FALSE]

\* The field in the system.  Length 0 is unlimited.
RawField(k) ==
  {[there |-> TRUE, has |-> TRUE, type |-> t, length |-> n, required |-> r,
    create |-> c, update |-> u] :
      t \in Types, n \in 0..MaxLength, r \in BOOLEAN, c \in BOOLEAN,
      u \in BOOLEAN}
Possible(k, s) ==
  \/ ~s.there \/ ~s.has
  \/ /\ s.create = s.update \/ k \in PartlyWritable
     /\ s.required => s.create
     /\ k = "sampled" => s.length = 0 /\ s.create   \* a sample shows neither
System(k) == {s \in {Gone, NoField} \cup RawField(k) : Possible(k, s)}

\* The field in a catalog: what meta.Field keeps of it.
Field(t, n, r, ro) ==
  [there |-> TRUE, has |-> TRUE, type |-> t, length |-> n,
   required |-> r, readOnly |-> ro]
Catalog == {Gone, NoField} \cup
  {Field(t, n, r, ro) : t \in Types \cup {Unknown}, n \in 0..MaxLength,
                        r \in BOOLEAN, ro \in BOOLEAN}

NoDiscovery == [at |-> "idle", had |-> FALSE, prev |-> Gone, learns |-> FALSE,
         cat |-> Gone, of |-> Gone]

MetaTypeOK ==
  /\ metaKind \in MetaKind
  /\ system \in System(metaKind)
  /\ changed \in 0..MaxSchemaChanges /\ refused \in BOOLEAN
  /\ snapshots \in Seq(Catalog)
  /\ saved \in Seq([cat: Catalog, of: System(metaKind)]) /\ Len(saved) <= MaxSaves
  /\ discovery \in [Discoverer ->
       [at: {"idle", "asked", "found", "locked"}, had: BOOLEAN,
        prev: Catalog, learns: BOOLEAN, cat: Catalog, of: System(metaKind)]]

MetaInit ==
  /\ metaKind \in MetaKind
  /\ system \in System(metaKind)
  /\ changed = 0 /\ refused = FALSE
  /\ snapshots = <<>> /\ saved = <<>>
  /\ discovery = [d \in Discoverer |-> NoDiscovery]

Latest(s) == s[Len(s)]
Sampled(k) == k = "sampled"

-----------------------------------------------------------------------------
(* What each connector's Discover makes of the field. *)

\* pg_attribute: a generated column is read-only.
DiscoverPostgres(s) == Field(s.type, s.length, s.required, ~s.create)

\* describe: required of a create unless defaulted, read-only when neither
\* a create nor an update may send it.
DiscoverSalesforce(s) ==
  Field(s.type, s.length, s.required /\ s.create, ~s.create /\ ~s.update)

\* $metadata: sap:creatable and sap:updatable both false.
DiscoverSap(s) == Field(s.type, s.length, s.required, ~s.create /\ ~s.update)

\* fields_get.
DiscoverOdoo(s) == Field(s.type, s.length, s.required, ~s.create)

\* The request body's schema: a read-only property is not required.
DiscoverOpenAPI(s) ==
  Field(s.type, s.length, s.required /\ s.create, ~s.create)

\* The Connect schema of the newest change: nothing is read-only.
DiscoverDebezium(s) == Field(s.type, s.length, s.required, FALSE)

\* SampleFields: the records that happen to be read show the field with its
\* type, null, or not at all; an empty list shows no object.
DiscoverSample(s) ==
  {Gone, NoField, Field(Unknown, 0, FALSE, FALSE), Field(s.type, 0, FALSE, FALSE)}

Discovered(k, s) ==
  IF ~s.there \/ ~s.has THEN IF Sampled(k) THEN {Gone, NoField} ELSE {s}
  ELSE CASE k = "postgres"   -> {DiscoverPostgres(s)}
         [] k = "salesforce" -> {DiscoverSalesforce(s)}
         [] k = "sap"        -> {DiscoverSap(s)}
         [] k = "odoo"       -> {DiscoverOdoo(s)}
         [] k = "openapi"    -> {DiscoverOpenAPI(s)}
         [] k = "debezium"   -> {DiscoverDebezium(s)}
         [] OTHER            -> DiscoverSample(s)

\* Learn: a refusal marks a sampled object's field required.
Learn(c, learns) ==
  IF ~learns \/ ~c.there THEN c
  ELSE IF c.has THEN [c EXCEPT !.required = TRUE]
  ELSE Field(Unknown, 0, TRUE, FALSE)

\* KeepRequired: a sampled object keeps the fields known to be required.
KeepRequired(k, prev, c) ==
  IF /\ Sampled(k) /\ prev.there /\ c.there
     /\ prev.has /\ prev.required
  THEN IF c.has THEN [c EXCEPT !.required = TRUE] ELSE prev
  ELSE c

-----------------------------------------------------------------------------
(* What changed, and whom it breaks. *)

Change(kind, breaking) == [kind |-> kind, breaking |-> breaking]

\* Mutant: a field that gets its first limit is not reported.
ShrunkLimitsOnly(old, new) ==
  IF new.length > 0 /\ new.length < old.length
  THEN {Change("length-shrunk", TRUE)} ELSE {}

Shrunk(old, new) ==
  IF new.length > 0 /\ (old.length = 0 \/ new.length < old.length)
  THEN {Change("length-shrunk", TRUE)} ELSE {}

\* Diff, of an object with its field.
FieldDiff(old, new, sampled) ==
  (IF old.type # new.type /\ ~(sampled /\ Unknown \in {old.type, new.type})
   THEN {Change("type-changed", TRUE)} ELSE {})
  \cup (IF ~old.required /\ new.required
        THEN {Change("became-required", TRUE)} ELSE {})
  \cup (IF old.required /\ ~new.required
        THEN {Change("no-longer-required", FALSE)} ELSE {})
  \cup Shrunk(old, new)
  \cup (IF ~old.readOnly /\ new.readOnly
        THEN {Change("became-read-only", TRUE)} ELSE {})

Diff(old, new, sampled) ==
  IF ~old.there \/ ~new.there
    THEN (IF old.there THEN {Change("object-removed", TRUE)} ELSE {})
           \cup (IF new.there THEN {Change("object-added", FALSE)} ELSE {})
    ELSE CASE old.has /\ new.has -> FieldDiff(old, new, sampled)
           [] old.has /\ ~new.has ->
                {IF sampled THEN Change("field-not-seen", FALSE)
                            ELSE Change("field-removed", TRUE)}
           [] ~old.has /\ new.has -> {Change("field-added", new.required)}
           [] OTHER -> {}

\* What uses the endpoint: an operation that creates or updates records, or
\* an event that reads them, with or without the field.
Does(k) ==
  CASE k = "salesforce" -> {"update", "read"}
    [] k \in {"sap", "odoo", "openapi"} -> {"create", "read"}
    [] k = "debezium" -> {"read"}
    [] OTHER -> {"create", "update", "read"}
User(k) == [does: Does(k), field: BOOLEAN, length: 0..MaxLength]

\* Usage, Creators and Annotate: the users of what changed.  Every user uses
\* the object; one that creates records is broken by what becomes required.
Breaks(u, change) ==
  /\ change.breaking
  /\ \/ change.kind = "object-removed"
     \/ u.field
     \/ u.does = "create" /\ change.kind \in {"field-added", "became-required"}

Compare(old, new, sampled, u) == {c \in Diff(old, new, sampled) : Breaks(u, c)}

-----------------------------------------------------------------------------
(* `turgon check`: what each connector's Check asks of the system for a     *)
(* user.  Privileges are granted.                                           *)

Named(s, u) == s.there /\ (u.field => s.has)

\* Every column an operation or the outbox names exists.
CheckTable(s, u) == Named(s, u)

\* describe: fields read are visible, fields written are updateable.
CheckSalesforce(s, u) == Named(s, u) /\ (u.field /\ u.does = "update" => s.update)

\* $metadata has the entity set and its properties, fields_get the fields.
CheckSap(s, u) == Named(s, u)
CheckOdoo(s, u) == Named(s, u)

\* The event's list request answers; the broker knows the topic.
CheckRest(s, u) == u.does = "read" => s.there
CheckDebezium(s, u) == s.there

CheckPasses(k, s, u) ==
  CASE k = "postgres"   -> CheckTable(s, u)
    [] k = "salesforce" -> CheckSalesforce(s, u)
    [] k = "sap"        -> CheckSap(s, u)
    [] k = "odoo"       -> CheckOdoo(s, u)
    [] k = "debezium"   -> CheckDebezium(s, u)
    [] OTHER            -> CheckRest(s, u)

-----------------------------------------------------------------------------
(* discoverAll, for one endpoint. *)

\* LatestCatalog, and the refusals of the last 30 days.
ReadLatest(d) ==
  /\ discovery[d].at = "idle"
  /\ Len(saved) + Cardinality({e \in Discoverer : discovery[e].at # "idle"}) < MaxSaves
  /\ discovery' = [discovery EXCEPT ![d] =
       [at |-> "asked", had |-> snapshots # <<>>,
        prev |-> IF snapshots = <<>> THEN Gone ELSE Latest(snapshots),
        learns |-> refused, cat |-> Gone, of |-> Gone]]
  /\ UNCHANGED <<metaKind, system, changed, refused, snapshots, saved>>

\* discoverOne asks the system and learns from the refusals; KeepRequired
\* then adds what the catalog read before knew.
DiscoverOne(d) ==
  /\ discovery[d].at = "asked"
  /\ \E c \in Discovered(metaKind, system) :
       discovery' = [discovery EXCEPT
         ![d].at = "found", ![d].of = system,
         ![d].cat = KeepRequired(metaKind, discovery[d].prev,
                      IF Sampled(metaKind) THEN Learn(c, discovery[d].learns) ELSE c)]
  /\ UNCHANGED <<metaKind, system, changed, refused, snapshots, saved>>

\* The endpoint cannot be read: the discovery reports its error.
DiscoverFails(d) ==
  /\ discovery[d].at \in {"asked", "found"}
  /\ discovery' = [discovery EXCEPT ![d] = NoDiscovery]
  /\ UNCHANGED <<metaKind, system, changed, refused, snapshots, saved>>

\* pg_advisory_xact_lock on the endpoint, until the transaction ends.
CatalogFree(d) == \A e \in Discoverer : discovery[e].at # "locked"

\* SaveCatalog reads the latest digest under the lock.
SaveReads(d) ==
  /\ discovery[d].at = "found" /\ CatalogFree(d)
  /\ discovery' = [discovery EXCEPT
       ![d].at = "locked",
       ![d].prev = IF snapshots = <<>> THEN Gone ELSE Latest(snapshots),
       ![d].had = snapshots # <<>>]
  /\ UNCHANGED <<metaKind, system, changed, refused, snapshots, saved>>

\* The snapshot is added when its digest is another one, or kept.
SaveWrites(d) ==
  /\ discovery[d].at = "locked"
  /\ IF discovery[d].had /\ discovery[d].prev = discovery[d].cat
     THEN UNCHANGED snapshots
     ELSE snapshots' = Append(snapshots, discovery[d].cat)
  /\ saved' = Append(saved, [cat |-> discovery[d].cat, of |-> discovery[d].of])
  /\ discovery' = [discovery EXCEPT ![d] = NoDiscovery]
  /\ UNCHANGED <<metaKind, system, changed, refused>>

\* The system is changed by its owner.
SystemChanges ==
  /\ changed < MaxSchemaChanges
  /\ \E s \in System(metaKind) \ {system} : system' = s
  /\ changed' = changed + 1
  /\ UNCHANGED <<metaKind, refused, snapshots, saved, discovery>>

\* A write without the field is refused, as its audit entry records.
WriteRefused ==
  /\ Sampled(metaKind) /\ ~refused
  /\ system.there /\ system.has /\ system.required
  /\ refused' = TRUE
  /\ UNCHANGED <<metaKind, system, changed, snapshots, saved, discovery>>

\* Thirty days pass: the refusal leaves the learn window.
RefusalForgotten ==
  /\ refused /\ refused' = FALSE
  /\ UNCHANGED <<metaKind, system, changed, snapshots, saved, discovery>>

MetaNext ==
  \/ \E d \in Discoverer :
       ReadLatest(d) \/ DiscoverOne(d) \/ DiscoverFails(d)
       \/ SaveReads(d) \/ SaveWrites(d)
  \/ SystemChanges \/ WriteRefused \/ RefusalForgotten

MetaSpec == MetaInit /\ [][MetaNext]_metaVars

-----------------------------------------------------------------------------
(* Properties. *)

\* Whether the user's requests, with a text of some length, succeed.
Serves(s, u) ==
  /\ s.there
  /\ u.field =>
       /\ s.has /\ s.type = "text"
       /\ u.does = "create" => s.create
       /\ u.does = "update" => s.update
       /\ u.does # "read" => s.length = 0 \/ u.length \in 1..s.length
  /\ u.does = "create" /\ ~u.field => ~(s.has /\ s.required)

\* When the system served a user at one discovery and no longer does at the
\* next, or `turgon check` passed for the user and would fail now, the
\* comparison of what the two stored reports a breaking change that affects
\* this user (for schemas the system declares: a sample shows only what it
\* happens to see).
BreaksReported ==
  ~Sampled(metaKind) =>
    \A i \in 1..(Len(saved) - 1) : \A u \in User(metaKind) :
      LET was == saved[i].of
          is  == saved[i + 1].of
      IN  \/ Serves(was, u) /\ ~Serves(is, u)
          \/ CheckPasses(metaKind, was, u) /\ ~CheckPasses(metaKind, is, u)
          => Compare(saved[i].cat, saved[i + 1].cat, FALSE, u) # {}

\* Two discoveries at once store one snapshot: a snapshot always differs
\* from the one before it, which the console measures its changes from.
SnapshotsDiffer ==
  \A i \in 1..(Len(snapshots) - 1) : snapshots[i] # snapshots[i + 1]

\* The stored snapshots tell a reader every breaking change, and no other
\* snapshot than the one before is what a change is measured from.
SnapshotsTell == BreaksReported /\ SnapshotsDiffer
=============================================================================
