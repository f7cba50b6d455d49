------------------------------ MODULE Rotation ------------------------------
(***************************************************************************)
(* How a process replaces its connections when a secret changes:           *)
(* cmd/turgon/rotation.go over the secret backends of pkg/secrets, as      *)
(* `turgon run` (a worker generation that is stopped before the next one   *)
(* starts) and `turgon mcp` (agent.Live, which swaps servers under         *)
(* requests) use it.                                                       *)
(*                                                                         *)
(* A secret's value is its version: a rotation always sets a value the     *)
(* reference did not have before.  0 stands for no value (not cached, no   *)
(* read in flight, an optional secret nobody has set, or one left out).    *)
(*                                                                         *)
(* The backends cache a path, with every key under it.  References that    *)
(* share a path are cached one by one here, which only adds behaviours; a  *)
(* plugin's reads touch every reference on the plugin's paths (LazyRef).   *)
(***************************************************************************)
EXTENDS Naturals, FiniteSets

CONSTANTS SecretRef,          \* the references of the spec's connectors and plugins
          OptionalRef,        \* those only connector configuration uses
          UnneededRef,        \* optional ones the connections do without: signing
                              \* secrets of webhooks the process does not listen for
          LazyRef,            \* those on a path that plugins read while they run
          Client,             \* requests to the agent server, or the worker's activities
          MaxVersion,         \* bound on the rotations of a reference
          MaxOpens,           \* bound on the generations of connections opened
          MaxRotationFaults   \* bound on failures injected

ASSUME RotationAssumption ==
    /\ OptionalRef \subseteq SecretRef /\ LazyRef \subseteq SecretRef
    /\ UnneededRef \subseteq OptionalRef
    /\ {MaxVersion, MaxOpens} \subseteq Nat \ {0}
    /\ MaxRotationFaults \in Nat

VARIABLES process,     \* "run" or "mcp"
          vault,       \* vault[r]: what the secret manager holds, or 0
          cache,       \* cache[r] of the backend
          late,        \* late[r]: fetched by a lazy read that has not stored it yet
          prints,      \* the fingerprints of the last reconnection
          rot,         \* the rotation: where it is and what it has read
          opened,      \* opened[g][r]: the value generation g was opened with
          inUse,     \* the generation new requests go to; 0: none yet
          closed,      \* the generations whose connections are closed
          on,          \* on[c]: the generation request c has loaded, or 0
          serving,     \* the requests that hold their generation's lock
          rotFaults

rotationVars == <<process, vault, cache, late, prints, rot,
                  opened, inUse, closed, on, serving, rotFaults>>

NoValues == [r \in SecretRef |-> 0]
Values == [SecretRef -> 0..MaxVersion]
RotIdle == [pc |-> "idle", hup |-> FALSE, todo |-> {}, read |-> NoValues,
            ok |-> TRUE, next |-> 0]

RotationTypeOK ==
    /\ process \in {"run", "mcp"}
    /\ vault \in Values
    /\ cache \in Values /\ late \in Values /\ prints \in Values
    /\ rot \in [pc : {"idle", "prints", "open", "check", "start"}, hup : BOOLEAN,
                todo : SUBSET SecretRef, read : Values, ok : BOOLEAN, next : 0..MaxOpens]
    /\ opened \in [1..MaxOpens -> Values]
    /\ inUse \in 0..MaxOpens /\ closed \subseteq 1..MaxOpens
    /\ on \in [Client -> 0..MaxOpens] /\ serving \subseteq Client
    /\ rotFaults \in 0..MaxRotationFaults

\* newRotation reads the fingerprints before the first connections are opened.
RotationInit ==
    /\ process \in {"run", "mcp"}
    /\ \E unset \in SUBSET OptionalRef :
          vault = [r \in SecretRef |-> IF r \in unset THEN 0 ELSE 1]
    /\ cache = NoValues /\ late = NoValues /\ prints = NoValues
    /\ rot = [RotIdle EXCEPT !.pc = "prints", !.todo = SecretRef]
    /\ opened = [g \in 1..MaxOpens |-> NoValues]
    /\ inUse = 0 /\ closed = {} /\ on = [c \in Client |-> 0] /\ serving = {}
    /\ rotFaults = 0

Fault == rotFaults < MaxRotationFaults /\ rotFaults' = rotFaults + 1

-----------------------------------------------------------------------------
(***************************************************************************)
(* The secret backends.                                                    *)
(***************************************************************************)

\* read: from the cache while it is fresh, else fetched and cached.  A fetch
\* from OpenBao signs in first when there is no token (currentToken), and
\* once more when the server refuses the token held (call).
Reads(r, v) ==
    \/ cache[r] # 0 /\ v = cache[r] /\ UNCHANGED cache
    \/ cache[r] = 0 /\ v = vault[r] /\ cache' = [cache EXCEPT ![r] = v]

\* The secret is not set, or the manager is unreachable or refuses the
\* sign-in: nothing is cached.
ReadFails(r) ==
    /\ cache[r] = 0 /\ UNCHANGED cache
    /\ \/ vault[r] = 0 /\ UNCHANGED rotFaults
       \/ Fault

\* Forget and the start of Fingerprints.
Forgotten == NoValues

Expires(r) == cache[r] # 0 /\ cache' = [cache EXCEPT ![r] = 0]

CacheExpires ==
    /\ \E r \in SecretRef : Expires(r)
    /\ UNCHANGED <<process, vault, late, prints, rot, opened, inUse, closed, on, serving, rotFaults>>

\* A plugin's request names a secret (withSecrets), unlike the connectors,
\* which read theirs when they are opened: the fetch ...
LazyFetch(r) ==
    /\ inUse # 0 /\ cache[r] = 0 /\ late[r] = 0
    /\ late' = [late EXCEPT ![r] = vault[r]]
    /\ UNCHANGED <<process, vault, cache, prints, rot, opened, inUse, closed, on, serving, rotFaults>>

\* ... and the cache's update, under a lock the fetch did not hold.
LazyStore(r) ==
    /\ late[r] # 0
    /\ cache' = [cache EXCEPT ![r] = late[r]] /\ late' = [late EXCEPT ![r] = 0]
    /\ UNCHANGED <<process, vault, prints, rot, opened, inUse, closed, on, serving, rotFaults>>

Rotate(r) ==
    /\ vault[r] < MaxVersion
    /\ vault' = [vault EXCEPT ![r] = @ + 1]
    /\ UNCHANGED <<process, cache, late, prints, rot, opened, inUse, closed, on, serving, rotFaults>>

-----------------------------------------------------------------------------
(***************************************************************************)
(* The rotation.                                                           *)
(***************************************************************************)

\* The ticker of `every`, or SIGHUP: Fingerprints starts with an empty cache.
Check(hup) ==
    /\ rot.pc = "idle" /\ inUse # 0 /\ inUse < MaxOpens
    /\ rot' = [RotIdle EXCEPT !.pc = "prints", !.hup = hup, !.todo = SecretRef]
    /\ cache' = Forgotten
    /\ UNCHANGED <<process, vault, late, prints, opened, inUse, closed, on, serving, rotFaults>>

ReadPrint(r) ==
    /\ rot.pc = "prints" /\ r \in rot.todo
    /\ \E v \in 1..MaxVersion :
          Reads(r, v) /\ rot' = [rot EXCEPT !.todo = @ \ {r}, !.read[r] = v]
    /\ UNCHANGED <<process, vault, late, prints, opened, inUse, closed, on, serving, rotFaults>>

\* Without a required value there are no fingerprints: at the start the
\* process ends (and is started again), a refresh keeps the connections, a
\* SIGHUP reconnects all the same.
ReadPrintFails(r) ==
    /\ rot.pc = "prints" /\ r \in rot.todo /\ ReadFails(r)
    /\ rot' = IF r \in OptionalRef THEN [rot EXCEPT !.todo = @ \ {r}]
              ELSE IF inUse = 0 THEN [RotIdle EXCEPT !.pc = "prints", !.todo = SecretRef]
              ELSE IF rot.hup THEN [rot EXCEPT !.todo = {}, !.ok = FALSE]
              ELSE RotIdle
    /\ UNCHANGED <<process, vault, late, prints, opened, inUse, closed, on, serving>>

Changed(old, now) == {r \in SecretRef : now[r] # old[r]}

\* refresh reconnects when a fingerprint changed, hup always; the first
\* connections are opened with the fingerprints kept.
Compared ==
    /\ rot.pc = "prints" /\ rot.todo = {}
    /\ rot' = IF inUse = 0 \/ rot.hup \/ Changed(prints, rot.read) # {}
              THEN [rot EXCEPT !.pc = "open", !.todo = SecretRef, !.next = inUse + 1]
              ELSE RotIdle
    /\ prints' = IF inUse = 0 THEN rot.read ELSE prints
    /\ UNCHANGED <<process, vault, cache, late, opened, inUse, closed, on, serving, rotFaults>>

\* connect: engine.New or agent.New resolves the secrets, from the cache.
\* The connections that replace others are checked once all are open.
AfterOpening(r) ==
    [rot EXCEPT !.todo = @ \ {r},
                !.pc = IF rot.todo = {r} THEN (IF inUse = 0 THEN "start" ELSE "check") ELSE @]

Open(r) ==
    /\ rot.pc = "open" /\ r \in rot.todo
    /\ \E v \in 1..MaxVersion :
          Reads(r, v) /\ opened' = [opened EXCEPT ![rot.next][r] = v]
    /\ rot' = AfterOpening(r)
    /\ UNCHANGED <<process, vault, late, prints, inUse, closed, on, serving, rotFaults>>

\* A webhook's signing secret that cannot be read is the webhook's error, and
\* a sidecar is configured without it: the connection is opened all the same.
OpenWithout(r) ==
    /\ rot.pc = "open" /\ r \in rot.todo /\ r \in UnneededRef /\ ReadFails(r)
    /\ opened' = [opened EXCEPT ![rot.next][r] = 0]
    /\ rot' = AfterOpening(r)
    /\ UNCHANGED <<process, vault, late, prints, inUse, closed, on, serving>>

Restart == [RotIdle EXCEPT !.pc = "prints", !.todo = SecretRef]

\* Any other secret is needed: by the connector's Factory, by a plugin, or by
\* engine.New for a webhook it is to listen for.
OpenFails(r) ==
    /\ rot.pc = "open" /\ r \in rot.todo /\ r \notin UnneededRef /\ ReadFails(r)
    /\ rot' = IF inUse = 0 THEN Restart ELSE RotIdle
    /\ opened' = [opened EXCEPT ![rot.next] = NoValues]
    /\ UNCHANGED <<process, vault, late, prints, inUse, closed, on, serving>>

\* regressions: the next connections to the endpoints that use a changed
\* reference (to every endpoint on SIGHUP) fail a check that the current
\* ones pass.  What the target systems answer is not modelled.
Refuse ==
    /\ rot.pc = "check"
    /\ rot' = RotIdle /\ opened' = [opened EXCEPT ![rot.next] = NoValues]
    /\ UNCHANGED <<process, vault, cache, late, prints, inUse, closed, on, serving, rotFaults>>

Accept ==
    /\ rot.pc = "check"
    /\ rot' = [rot EXCEPT !.pc = "start"]
    /\ UNCHANGED <<process, vault, cache, late, prints, opened, inUse, closed, on, serving, rotFaults>>

\* generation.stop: the worker's activities get a minute, then the
\* connectors close under those that are left, which Temporal retries.
GenerationStopped == IF process = "run" THEN closed \cup ({inUse} \ {0}) ELSE closed

\* A defect to compare with: what the manager holds once the connections
\* are in use.
PrintsAfterSwitch == IF rot.ok THEN vault ELSE prints

\* The fingerprints the next refresh compares with.
PrintsAfter == IF rot.ok THEN rot.read ELSE prints

\* use: `turgon run` stops the old generation and starts the next, `turgon
\* mcp` swaps servers.
Use ==
    /\ rot.pc = "start"
    /\ inUse' = rot.next
    /\ closed' = GenerationStopped
    /\ prints' = IF inUse = 0 THEN prints ELSE PrintsAfter
    /\ rot' = RotIdle
    /\ UNCHANGED <<process, vault, cache, late, opened, on, serving, rotFaults>>

\* The worker does not start: the process exits and its supervisor starts it
\* again, with an empty cache.
UseFails ==
    /\ rot.pc = "start" /\ process = "run" /\ Fault
    /\ opened' = [g \in 1..MaxOpens |-> NoValues]
    /\ inUse' = 0 /\ closed' = {}
    /\ cache' = NoValues /\ late' = NoValues /\ prints' = NoValues
    /\ rot' = Restart
    /\ UNCHANGED <<process, vault, on, serving>>

-----------------------------------------------------------------------------
(***************************************************************************)
(* Requests to the agent server: Live.ServeHTTP and retire.                *)
(***************************************************************************)

RotationStays == <<process, vault, cache, late, prints, rot, opened, inUse, rotFaults>>

\* cur.Load, before the server's lock is taken.
Load(c) ==
    /\ process = "mcp" /\ inUse # 0 /\ on[c] = 0
    /\ on' = [on EXCEPT ![c] = inUse]
    /\ UNCHANGED <<RotationStays, closed, serving>>

\* RLock: a server that was retired meanwhile is left for the current one.
Serve(c) ==
    /\ on[c] # 0 /\ c \notin serving
    /\ IF on[c] \in closed THEN on' = [on EXCEPT ![c] = 0] /\ UNCHANGED serving
                           ELSE serving' = serving \cup {c} /\ UNCHANGED on
    /\ UNCHANGED <<RotationStays, closed>>

Finish(c) ==
    /\ c \in serving
    /\ serving' = serving \ {c} /\ on' = [on EXCEPT ![c] = 0]
    /\ UNCHANGED <<RotationStays, closed>>

\* retire waits for the write lock: no request holds the generation's.
Retire(g) ==
    /\ process = "mcp" /\ g < inUse /\ g \notin closed
    /\ \A c \in serving : on[c] # g
    /\ closed' = closed \cup {g}
    /\ UNCHANGED <<RotationStays, on, serving>>

RotationNext ==
    \/ CacheExpires \/ Compared \/ Refuse \/ Accept \/ Use \/ UseFails
    \/ \E hup \in BOOLEAN : Check(hup)
    \/ \E r \in SecretRef : \/ Rotate(r)
                            \/ ReadPrint(r) \/ ReadPrintFails(r)
                            \/ Open(r) \/ OpenWithout(r) \/ OpenFails(r)
    \/ \E r \in LazyRef : LazyFetch(r) \/ LazyStore(r)
    \/ \E c \in Client : Load(c) \/ Serve(c) \/ Finish(c)
    \/ \E g \in 1..MaxOpens : Retire(g)

RotationSpec == RotationInit /\ [][RotationNext]_rotationVars

-----------------------------------------------------------------------------
\* A rotation is never missed: whenever the process rests on connections
\* that were opened with an older value than the manager holds, the
\* fingerprints it compares with are not those of the value held, so that
\* the next refresh reconnects.  (rotation.refresh; the fingerprints are read
\* before the connections are opened, and kept only when they are used.)
\* It is stated for the references only connectors read: a plugin's read that
\* began before the rotation can put the old value back into the cache between
\* the fingerprints and the connections.  Connections that do without a secret
\* nobody needs from them may stay without it.
RotationNotMissed ==
    rot.pc = "idle" /\ inUse # 0 =>
        \A r \in SecretRef \ LazyRef :
            \/ opened[inUse][r] = vault[r] \/ prints[r] # vault[r]
            \/ r \in UnneededRef /\ opened[inUse][r] = 0

\* A request to the agent server never runs on closed connections.
\* (Live.ServeHTTP and liveServer.retire.)
ServedOpen == \A c \in serving : on[c] \notin closed

\* Connections follow their secrets, and none is closed under a request.
RotationSafe == RotationNotMissed /\ ServedOpen
=============================================================================
