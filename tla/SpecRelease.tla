---------------------------- MODULE SpecRelease ----------------------------
(***************************************************************************)
(* From the catalog to a running worker: the verifier's report on a recipe *)
(* or a stack, the data stewards' reviews of the mapped fields it doubts,  *)
(* the compiler, the signature on the runtime spec and the worker that     *)
(* loads it.                                                               *)
(*                                                                         *)
(* The catalog is files people edit, the spec is a file people can edit,   *)
(* and a steward decides on a page loaded earlier.  One mapped field       *)
(* stands for all of them.  What the verifier finds wrong is a set of      *)
(* named faults; the tables below say what each error costs.  SHA-256 and  *)
(* Ed25519 are taken as injective and unforgeable: a digest is the body, a *)
(* signature is the message it covers.                                     *)
(***************************************************************************)
EXTENDS Integers, FiniteSets
CONSTANTS Expr,            \* the expressions a field can be mapped with
          MappingVersion,  \* versions of the mapping
          FaultSeen,       \* the faults an edit of the catalog can bring in
          MaxCatalogEdits, MaxFileEdits

VARIABLES catalog,   \* the files: what is compiled, its mapping, its faults
          page,      \* the queued field the steward's browser shows
          decisions, \* turgon_mapping_reviews: the last decision per field key
          build,     \* the compile command: the catalog it has loaded
          file,      \* the runtime spec on disk
          worker,    \* what the worker loaded, {} or one spec
          editsMade, \* [catalog, file]: edits so far
          released,  \* history: the specs compiled, and whether the catalog warranted them
          endorsed   \* history: the edited specs the key's owner signed

releaseVars == <<catalog, page, decisions, build, file, worker, editsMade, released, endorsed>>

\* Below 0.90; below 0.95; above, or vouched for (approved or certified).
Confidences == {"low", "between", "enough"}
Mappings == [version: MappingVersion, expr: Expr, confidence: Confidences]
FieldKeys == [version: MappingVersion, expr: Expr]

----------------------------------------------------------------------------
\* What the verifier reports as an error, and the one-click level it costs.

\* schema: an object that does not validate; nothing else is looked at.
SchemaFaults == [schema |-> 3]

\* recipe, endpoints: no connector; a stack's slot outside a stack.
ResolveFaults == [noConnector |-> 3, slotOnly |-> 0]

\* connection: no such connector version; an interface it does not sanction.
ConnectionFaults == [noVersion |-> 3, unsanctioned |-> 3]

\* extensions and checkExtension: what a recipe's logic plugins ask for.
ExtensionFaults == [noExtension |-> 3, notLogic |-> 0, beyondSlots |-> 0]

\* recipe, trigger: the event is missing or its interface prohibited.
TriggerFaults == [noEvent |-> 2, eventProhibited |-> 3]

\* writeStep: the operation, its interface, its amount check, its undo, its risk.
WriteFaults == [noOperation |-> 3, readOperation |-> 0, writeProhibited |-> 3, amountCheck |-> 0,
                otherEntity |-> 2, noUndo |-> 0, highRiskUnapproved |-> 0]

\* mapStep: the first two end the step before any field is looked at.
UnmappedFaults == [noMapping |-> 2, otherDirection |-> 2]
FieldFaults == [badExpression |-> 0]

\* recipe, resolve and amount: fields no mapping sets, unknown strategies.
DocumentFaults == [amountUnset |-> 0, referenceUnset |-> 0, unknownStrategy |-> 0]

\* checkPolicies and recipe, capacity.
PolicyFaults == [noPolicy |-> 0, policyFails |-> 0]
CapacityFaults == [overCapacity |-> 0]

\* Plugin, logicPlugin and satisfies: a plugin's own report.
PluginFaults == [otherWorld |-> 0, badModule |-> 0, noPluginConnector |-> 3, contractUnmet |-> 0]

\* Blueprint: slots, their connections and contracts, recipes and endpoints.
BlueprintFaults == [noPlugin |-> 3, notConnector |-> 0, notImplemented |-> 2, noContract |-> 0, otherModel |-> 0,
                    noConnection |-> 3, otherConnector |-> 3, slotUnsatisfied |-> 2, noRecipe |-> 2, notASlot |-> 0]

Merged(f, g) == [x \in DOMAIN f \cup DOMAIN g |-> IF x \in DOMAIN f THEN f[x] ELSE g[x]]
EndpointFaults == Merged(Merged(ResolveFaults, ConnectionFaults), Merged(ExtensionFaults, TriggerFaults))
StepFaults == Merged(Merged(WriteFaults, UnmappedFaults), Merged(FieldFaults, DocumentFaults))
RecipeFaults == Merged(Merged(EndpointFaults, StepFaults), Merged(PolicyFaults, CapacityFaults))
RecipeErrors == Merged(RecipeFaults, [rejectedField |-> 2])   \* a steward's rejection
Faults == DOMAIN SchemaFaults \cup DOMAIN RecipeFaults \cup DOMAIN PluginFaults \cup DOMAIN BlueprintFaults

ASSUME ReleaseConstants ==
  /\ FaultSeen \subseteq Faults /\ Expr # {} /\ MappingVersion # {}
  /\ MaxCatalogEdits \in Nat /\ MaxFileEdits \in Nat

Products == [stack: BOOLEAN, writes: BOOLEAN, certified: BOOLEAN, mapping: Mappings, faults: SUBSET Faults]

Highest(S) == CHOOSE n \in S : \A k \in S : k <= n

\* finish: errors, queued reviews and children decide the level and whether
\* the object can be deployed.  base is what the object is at best.
FinishReport(base, table, faults, queue, children) ==
  LET found == faults \cap DOMAIN table
  IN [level      |-> Highest({base} \cup {table[f] : f \in found} \cup {c.level : c \in children}
                               \cup {IF queue = {} THEN 0 ELSE 1}),
      deployable |-> found = {} /\ queue = {} /\ \A c \in children : c.deployable,
      queue      |-> queue \cup UNION {c.queue : c \in children}]

Refused == [level |-> 3, deployable |-> FALSE, queue |-> {}]   \* schema failed

----------------------------------------------------------------------------
\* Reviews

KeyOf(m) == [version |-> m.version, expr |-> m.expr]

\* A review that was made of another expression, taken for this one's.
FindAnyExpression(rv, m) ==
  IF \E k \in FieldKeys : k.version = m.version /\ rv[k] = "approved" THEN "approved" ELSE rv[KeyOf(m)]

\* The decision on this expression of this field of this mapping version.
Find(rv, m) == rv[KeyOf(m)]

NoReviews == [k \in FieldKeys |-> "none"]

\* mapStep: a field the catalog itself vouches for, or confident enough for
\* what the mapping feeds.
Confident(c) ==
  \/ c.mapping.confidence = "enough"
  \/ c.mapping.confidence = "between" /\ ~c.writes

MapStep(c, rv) ==
  LET looked == c.faults \cap DOMAIN UnmappedFaults = {} /\ ~Confident(c)
  IN [queue    |-> IF looked /\ Find(rv, c.mapping) = "none" THEN {KeyOf(c.mapping)} ELSE {},
      rejected |-> looked /\ Find(rv, c.mapping) = "rejected"]

RecipeReport(c, rv) ==
  LET step     == MapStep(c, rv)
      plugins  == {FinishReport(0, PluginFaults, c.faults, {}, {})}
  IN IF "schema" \in c.faults THEN Refused
     ELSE FinishReport(IF c.certified THEN 0 ELSE 1, RecipeErrors,
                 c.faults \cup {f \in {"rejectedField"} : step.rejected}, step.queue, plugins)

\* A stack: its own findings, its plugins' and its recipes'.
BlueprintReport(c, rv) ==
  FinishReport(0, BlueprintFaults, c.faults, {},
         {RecipeReport(c, rv), FinishReport(0, PluginFaults, c.faults, {}, {})})

Verify(c, rv) == IF c.stack THEN BlueprintReport(c, rv) ELSE RecipeReport(c, rv)

----------------------------------------------------------------------------
\* The runtime spec

NoSpec == [body |-> {}, level |-> 0, digest |-> {}, signatures |-> {}]
Body(c) == {KeyOf(c.mapping)}            \* the compiled mapping: version and expression
Digest(body) == body
Levels == 0..3

\* The signature covers the spec's name, level and digest.
SignedMessage(s) == [level |-> s.level, digest |-> s.digest]

Sign(s) == [s EXCEPT !.signatures = {SignedMessage(s)}]    \* one key: it replaces its own

\* ParseSpec: the digest must match the body; signing.Verify: a trusted key's
\* signature on this level and digest.
Parses(s) == s.body # {} /\ s.digest = Digest(s.body)
Trusted(s) == SignedMessage(s) \in s.signatures

----------------------------------------------------------------------------
ReleaseTypeOK ==
  /\ catalog \in Products
  /\ page \subseteq FieldKeys /\ Cardinality(page) <= 1
  /\ decisions \in [FieldKeys -> {"none", "approved", "rejected"}]
  /\ build \subseteq Products /\ Cardinality(build) <= 1
  /\ \A s \in {file} \cup worker :
       /\ s.body \subseteq FieldKeys /\ s.digest \subseteq FieldKeys /\ s.level \in Levels
       /\ \A g \in s.signatures : g.level \in Levels /\ g.digest \subseteq FieldKeys
  /\ Cardinality(worker) <= 1
  /\ editsMade.catalog \in 0..MaxCatalogEdits /\ editsMade.file \in 0..MaxFileEdits

ReleaseInit ==
  /\ catalog \in [stack: BOOLEAN, writes: BOOLEAN, certified: BOOLEAN, mapping: Mappings, faults: {{}}]
  /\ page = {} /\ decisions = NoReviews /\ build = {}
  /\ file = NoSpec /\ worker = {}
  /\ editsMade = [catalog |-> 0, file |-> 0]
  /\ released = {} /\ endorsed = {}

----------------------------------------------------------------------------
\* The catalog's files are edited: the mapping (its version bumped or not),
\* or something the verifier finds fault with.
EditCatalog ==
  /\ editsMade.catalog < MaxCatalogEdits
  /\ editsMade' = [editsMade EXCEPT !.catalog = @ + 1]
  /\ \/ \E m \in Mappings : catalog' = [catalog EXCEPT !.mapping = m]
     \/ \E f \in FaultSeen :
          /\ f \in DOMAIN BlueprintFaults => catalog.stack   \* slots are a stack's
          /\ catalog' = [catalog EXCEPT !.faults = {f}]
     \/ catalog' = [catalog EXCEPT !.faults = {}]
  /\ UNCHANGED <<page, decisions, build, file, worker, released, endorsed>>

\* GET /api/catalog: the steward sees the queue, the stored reviews applied.
LoadPage ==
  /\ page' = Verify(catalog, decisions).queue
  /\ UNCHANGED <<catalog, decisions, build, file, worker, editsMade, released, endorsed>>

\* Only a field queued now, with the expression the catalog has now,
\* verified without the stored reviews so one can be reconsidered.
InReviewQueue(k) == k \in Verify(catalog, NoReviews).queue

\* POST /api/reviews: the decision is stored, then the audit log is told;
\* when that fails the steward gets an error and the review stands.
ReviewField ==
  \E k \in page, d \in {"approved", "rejected"} :
    /\ InReviewQueue(k)
    /\ decisions' = [decisions EXCEPT ![k] = d]
    /\ UNCHANGED <<catalog, page, build, file, worker, editsMade, released, endorsed>>

\* turgon compile: resolve loads the catalog ...
StartCompile ==
  /\ build = {}
  /\ build' = {catalog}
  /\ UNCHANGED <<catalog, page, decisions, file, worker, editsMade, released, endorsed>>

\* ... then the reviews, and Compile refuses what is not deployable.
RefuseCompile ==
  \E c \in build :
    /\ ~Verify(c, decisions).deployable
    /\ build' = {}
    /\ UNCHANGED <<catalog, page, decisions, file, worker, editsMade, released, endorsed>>

\* What has to be true of a catalog for a worker to run what it compiles to.
Warranted(c) == c.faults = {} /\ (Confident(c) \/ decisions[KeyOf(c.mapping)] = "approved")

\* Otherwise it writes the spec, signed when a key is given.
FinishCompile ==
  \E c \in build, signed \in BOOLEAN :
    LET r == Verify(c, decisions)
        s == [body |-> Body(c), level |-> r.level, digest |-> Digest(Body(c)), signatures |-> {}]
    IN /\ r.deployable
       /\ file' = IF signed THEN Sign(s) ELSE s
       /\ build' = {}
       /\ released' = released \cup {[level |-> s.level, body |-> s.body, warranted |-> Warranted(c)]}
       /\ UNCHANGED <<catalog, page, decisions, worker, editsMade, endorsed>>

\* Somebody edits the spec: its body, with or without a new digest, or its level to L0.
EditFile ==
  /\ editsMade.file < MaxFileEdits /\ file.body # {}
  /\ editsMade' = [editsMade EXCEPT !.file = @ + 1]
  /\ \/ \E k \in FieldKeys : file' = [file EXCEPT !.body = {k}]
     \/ \E k \in FieldKeys : file' = [file EXCEPT !.body = {k}, !.digest = Digest({k})]
     \/ file' = [file EXCEPT !.level = 0]
  /\ UNCHANGED <<catalog, page, decisions, build, worker, released, endorsed>>

\* turgon sign: the key's owner signs the file as it stands, if its digest
\* fits.  Signing what a compile wrote vouches for the compile alone.
AsCompiled == \E r \in released : r.body = file.body /\ r.level = file.level
SignFile ==
  /\ Parses(file)
  /\ file' = Sign(file)
  /\ endorsed' = endorsed \cup (IF AsCompiled THEN {} ELSE {SignedMessage(file)})
  /\ UNCHANGED <<catalog, page, decisions, build, worker, editsMade, released>>

\* loadSpec with --trusted-keys; a worker that refuses the file does not start.
LoadSpec ==
  /\ Parses(file) /\ Trusted(file)
  /\ worker' = {file}
  /\ UNCHANGED <<catalog, page, decisions, build, file, editsMade, released, endorsed>>

ReleaseNext ==
  \/ EditCatalog \/ LoadPage \/ ReviewField
  \/ StartCompile \/ RefuseCompile \/ FinishCompile
  \/ EditFile \/ SignFile \/ LoadSpec

ReleaseSpec == ReleaseInit /\ [][ReleaseNext]_releaseVars

----------------------------------------------------------------------------
\* A worker that trusts the pipeline's key runs only what the key's owner
\* signed by hand as it stands, or a spec compiled, at the level it still
\* carries, from a catalog without faults whose field was certified,
\* confident enough for what it feeds, or approved by a steward with exactly
\* the expression that runs: whatever was edited after the page was loaded,
\* after the review, during the compile or after the signature.
ReviewedRuns ==
  \A w \in worker :
    \/ [level |-> w.level, digest |-> w.body] \in endorsed
    \/ \E r \in released :
         r.body = w.body /\ r.level = w.level /\ r.warranted
=============================================================================
