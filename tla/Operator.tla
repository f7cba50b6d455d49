------------------------------ MODULE Operator ------------------------------
(***************************************************************************)
(* The Kubernetes operator (pkg/operator): it brings the Deployment of an  *)
(* Integration to the runtime spec the Integration names.  Every version   *)
(* of a spec is an immutable ConfigMap that the pods mount; old ones are   *)
(* pruned once a rollout is through.  Reconcile makes one API call after   *)
(* another, any of which may fail, reads from a cache that may be behind,  *)
(* and runs while the Deployment's controller replaces pods.               *)
(***************************************************************************)
EXTENDS Naturals, FiniteSets

CONSTANTS
  OpSpec,         \* runtime specs Verify takes
  BadSpec,        \* a runtime spec it refuses
  Replicas,       \* workers of an Integration that is not paused
  MaxChanges,     \* bound: changes of the Integration
  MaxOpFaults     \* bound: failed calls and failing pods

ASSUME OperatorAssumption ==
  /\ BadSpec \notin OpSpec
  /\ Replicas \in Nat /\ MaxChanges \in Nat /\ MaxOpFaults \in Nat

VARIABLES
  intg,       \* the Integration: runtime spec, paused, generation
  specMaps,   \* versions whose ConfigMap exists
  dep,        \* the Deployment and its status
  depCache,   \* the Deployment as the operator's cache has it
  pods,       \* external: pods per version
  podsReady,  \* external: the ready ones among them
  oper,       \* Reconcile: its step, the Integration it read, its Deployment
  available,  \* the Available condition: its reason and observedGeneration
  routed,     \* the spec whose webhook paths the Ingress routes, if any
  opFaults

podVars == <<pods, podsReady>>
operatorVars == <<intg, specMaps, dep, depCache, podVars, oper, available,
                  routed, opFaults>>

NoMount == BadSpec
Deployment == [spec: OpSpec \cup {NoMount}, want: Nat, gen: Nat,
               obs: Nat, updated: Nat, ready: Nat, total: Nat]
NoDeployment == [spec |-> NoMount, want |-> 0, gen |-> 0,
                 obs |-> 0, updated |-> 0, ready |-> 0, total |-> 0]
Integration == [spec: OpSpec \cup {BadSpec}, paused: BOOLEAN, gen: 0..MaxChanges]
OperIdle(in) == [at |-> "idle", in |-> in, dep |-> NoDeployment]

OperatorTypeOK ==
  /\ intg \in Integration
  /\ specMaps \subseteq OpSpec
  /\ dep \in Deployment /\ depCache \in Deployment
  /\ pods \in [OpSpec -> Nat] /\ podsReady \in [OpSpec -> Nat]
  /\ \A s \in OpSpec : podsReady[s] <= pods[s]
  /\ oper \in [at: {"idle", "map", "deploy", "hooks", "observe", "prune", "refused"},
               in: Integration, dep: Deployment]
  /\ available \in [reason: {"Unknown", "NoWorkers", "Paused", "WorkersReady",
                             "RollingOut"}, gen: 0..MaxChanges]
  /\ routed \in OpSpec \cup {NoMount}
  /\ opFaults \in 0..MaxOpFaults

OperatorInit ==
  /\ intg = [spec |-> BadSpec, paused |-> FALSE, gen |-> 0]
  /\ specMaps = {} /\ dep = NoDeployment /\ depCache = NoDeployment
  /\ pods = [s \in OpSpec |-> 0] /\ podsReady = [s \in OpSpec |-> 0]
  /\ oper = OperIdle(intg)
  /\ available = [reason |-> "Unknown", gen |-> 0]
  /\ routed = NoMount /\ opFaults = 0

OpFault == opFaults < MaxOpFaults /\ opFaults' = opFaults + 1

-----------------------------------------------------------------------------
(* The cluster. *)

ChangeIntegration(s, paused) ==
  /\ intg.gen < MaxChanges
  /\ <<s, paused>> # <<intg.spec, intg.paused>>
  /\ intg' = [spec |-> s, paused |-> paused, gen |-> intg.gen + 1]
  /\ UNCHANGED <<specMaps, dep, depCache, podVars, oper, available, routed, opFaults>>

CacheCatchesUp ==
  /\ depCache # dep
  /\ depCache' = dep
  /\ UNCHANGED <<intg, specMaps, dep, podVars, oper, available, routed, opFaults>>

\* The pods that f counts, numbered within their versions, and how many.
PodsOf(f) == UNION {{s} \X (1..f[s]) : s \in OpSpec}
Total(f) == Cardinality(PodsOf(f))

\* The Deployment's controller takes note of the template and of the pods.
DeploymentObserves ==
  /\ dep.gen > 0
  /\ dep' = [dep EXCEPT !.obs = dep.gen, !.updated = pods[dep.spec],
                        !.ready = Total(podsReady), !.total = Total(pods)]
  /\ dep' # dep
  /\ UNCHANGED <<intg, specMaps, depCache, podVars, oper, available, routed, opFaults>>

\* It adds a pod of the template, one more than wanted at most, and removes
\* pods of other versions once enough are ready, or pods too many.
PodCreated ==
  /\ dep.gen > 0
  /\ pods[dep.spec] < dep.want /\ Total(pods) <= dep.want
  /\ pods' = [pods EXCEPT ![dep.spec] = @ + 1]
  /\ UNCHANGED <<intg, specMaps, dep, depCache, podsReady, oper, available, routed, opFaults>>

PodRemoved(s) ==
  /\ dep.gen > 0
  /\ pods[s] > 0
  /\ Total(pods) > dep.want
  /\ s # dep.spec \/ Total(pods) = pods[dep.spec]
  /\ Total(podsReady) > dep.want \/ podsReady[s] < pods[s]
  /\ pods' = [pods EXCEPT ![s] = @ - 1]
  /\ podsReady' = [podsReady EXCEPT ![s] = IF @ = pods[s] THEN @ - 1 ELSE @]
  /\ UNCHANGED <<intg, specMaps, dep, depCache, oper, available, routed, opFaults>>

\* A pod starts only when the ConfigMap it mounts is there.
PodReady(s) ==
  /\ podsReady[s] < pods[s] /\ s \in specMaps
  /\ podsReady' = [podsReady EXCEPT ![s] = @ + 1]
  /\ UNCHANGED <<intg, specMaps, dep, depCache, pods, oper, available, routed, opFaults>>

\* A pod is lost and made anew.
PodFails(s) ==
  /\ OpFault
  /\ podsReady[s] > 0
  /\ podsReady' = [podsReady EXCEPT ![s] = @ - 1]
  /\ UNCHANGED <<intg, specMaps, dep, depCache, pods, oper, available, routed>>

-----------------------------------------------------------------------------
(* Reconcile. *)

At(step) == oper.at = step
Goto(step) == oper' = [oper EXCEPT !.at = step]

\* Config.Replicas.
Want(in) == IF in.paused THEN 0 ELSE Replicas

\* A refused spec leaves the workers on the last valid one.
ReconcileStart ==
  /\ At("idle")
  /\ oper' = [at |-> IF intg.spec \in OpSpec THEN "map" ELSE "refused",
              in |-> intg, dep |-> NoDeployment]
  /\ UNCHANGED <<intg, specMaps, dep, depCache, podVars, available, routed, opFaults>>

CreateSpecMap ==
  /\ At("map") /\ Goto("deploy")
  /\ specMaps' = specMaps \cup {oper.in.spec}
  /\ UNCHANGED <<intg, dep, depCache, podVars, available, routed, opFaults>>

\* CreateOrUpdate.  The template leaves out what the API server fills in,
\* so the update is always sent, and refused when the cache was behind.
UpdateDeployment ==
  /\ At("deploy")
  /\ \/ /\ depCache = dep
        /\ dep' = [dep EXCEPT !.spec = oper.in.spec, !.want = Want(oper.in),
                     !.gen = IF <<dep.spec, dep.want>> = <<oper.in.spec, Want(oper.in)>>
                             THEN @ ELSE @ + 1]
        /\ oper' = [oper EXCEPT !.at = "hooks", !.dep = dep']
     \/ /\ depCache # dep
        /\ UNCHANGED dep /\ oper' = OperIdle(oper.in)
  /\ UNCHANGED <<intg, specMaps, depCache, podVars, available, routed, opFaults>>

\* The webhooks' Service and Ingress (and the SLO rule) follow the spec;
\* a spec without webhooks has none.
ReconcileHooks(webhooks) ==
  /\ At("hooks") /\ Goto("observe")
  /\ routed' = IF webhooks THEN oper.in.spec ELSE NoMount
  /\ UNCHANGED <<intg, specMaps, dep, depCache, podVars, available, opFaults>>

\* Mutant: the status is believed before the controller saw the template.
RolledOutUnobserved(d, want) ==
  d.updated = want /\ d.ready = want /\ d.total = want

RolledOut(d, want) ==
  d.obs >= d.gen /\ d.updated = want /\ d.ready = want /\ d.total = want

\* observeDeployment: the Available condition.
Observed ==
  IF depCache.gen = 0 THEN "NoWorkers"
  ELSE IF oper.in.paused THEN "Paused"
  ELSE IF RolledOut(depCache, Want(oper.in)) THEN "WorkersReady"
  ELSE "RollingOut"

\* updateStatus: the update is refused when the Integration has changed.
UpdateStatus ==
  available' = IF intg = oper.in THEN [reason |-> Observed, gen |-> intg.gen]
               ELSE available

ObserveDeployment ==
  /\ At("observe")
  /\ IF RolledOut(oper.dep, Want(oper.in))
     THEN Goto("prune") /\ UNCHANGED available
     ELSE UpdateStatus /\ oper' = OperIdle(oper.in)
  /\ UNCHANGED <<intg, specMaps, dep, depCache, podVars, routed, opFaults>>

\* pruneSpecs, and the end of Reconcile.
PruneSpecs ==
  /\ At("prune")
  /\ specMaps' = specMaps \cap {oper.in.spec}
  /\ UpdateStatus
  /\ oper' = OperIdle(oper.in)
  /\ UNCHANGED <<intg, dep, depCache, podVars, routed, opFaults>>

\* An invalid spec: only the status is brought up to date.
ReportRefused ==
  /\ At("refused")
  /\ UpdateStatus
  /\ oper' = OperIdle(oper.in)
  /\ UNCHANGED <<intg, specMaps, dep, depCache, podVars, routed, opFaults>>

\* A call fails, or the operator dies: it starts over.
ReconcileFails ==
  /\ OpFault
  /\ ~At("idle")
  /\ oper' = OperIdle(oper.in)
  /\ UNCHANGED <<intg, specMaps, dep, depCache, podVars, available, routed>>

OperatorNext ==
  \/ \E s \in OpSpec \cup {BadSpec}, p \in BOOLEAN : ChangeIntegration(s, p)
  \/ CacheCatchesUp \/ DeploymentObserves \/ PodCreated
  \/ \E s \in OpSpec : PodRemoved(s) \/ PodReady(s) \/ PodFails(s)
  \/ ReconcileStart \/ CreateSpecMap \/ UpdateDeployment
  \/ \E b \in BOOLEAN : ReconcileHooks(b)
  \/ ObserveDeployment \/ PruneSpecs \/ ReportRefused \/ ReconcileFails

OperatorSpec == OperatorInit /\ [][OperatorNext]_operatorVars

-----------------------------------------------------------------------------
(* Properties. *)

\* "pods of the old version keep reading theirs until the rollout replaces
\* them": what a pod, or the Deployment's template, mounts is never pruned,
\* so that a pod that is lost halfway through a rollout can come back.
MountedSpecKept ==
  /\ \A s \in OpSpec : pods[s] > 0 => s \in specMaps
  /\ dep.gen > 0 => dep.spec \in specMaps
=============================================================================
