----------------------------- MODULE MCPlatform -------------------------------
(***************************************************************************)
(* The platform around the write path, each part with small constants; as  *)
(* in MCConnectors, every behaviour is of one part, the unit.              *)
(***************************************************************************)
EXTENDS AuditLog, AgentWrite, LogicPlugins, Identity, Console, SpecRelease,
        Supervisor, Operator, Rotation, TLC

CONSTANTS
  Unit,            \* the parts checked, by their names in AllUnits
  w1, w2, x1, x2

VARIABLE unit

Workers == {w1, w2}
Items == {x1, x2}
OneItem == {x1}

AllUnits == {"audit", "agent", "plugins", "identity", "console", "release",
             "supervisor", "operator", "rotation"}
AnySubscription == Plugin \X Plugin
SomeCatalog == [stack |-> FALSE, writes |-> FALSE, certified |-> FALSE,
                mapping |-> CHOOSE m \in Mappings : TRUE, faults |-> {}]


MCInit ==
  /\ unit \in Unit
  /\ AuditInit
  /\ AgentWriteInit
  /\ PluginsInit /\ (unit = "plugins" \/ resolves = "public")
  /\ IdentityInit
  /\ ConsoleInit /\ (unit = "console" \/ (signIn = "dev" /\ agentRun = Nobody))
  /\ ReleaseInit /\ (unit = "release" \/ catalog = SomeCatalog)
  /\ SupervisorInit
  /\ OperatorInit
  /\ RotationInit /\ (unit = "rotation" \/ (process = "run" /\ \A r \in SecretRef : vault[r] = 1))

\* The unit takes a step of its own ...
UnitSteps ==
  \/ unit = "audit" /\ AuditNext
  \/ unit = "agent" /\ AgentWriteNext
  \/ unit = "plugins" /\ PluginsNext
  \/ unit = "identity" /\ IdentityNext
  \/ unit = "console" /\ ConsoleNext
  \/ unit = "release" /\ ReleaseNext
  \/ unit = "supervisor" /\ SupervisorNext
  \/ unit = "operator" /\ OperatorNext
  \/ unit = "rotation" /\ RotationNext

\* ... and the others stay.
OthersStay ==
  /\ IF unit = "audit" THEN TRUE ELSE UNCHANGED auditVars
  /\ IF unit = "agent" THEN TRUE ELSE UNCHANGED agentWriteVars
  /\ IF unit = "plugins" THEN TRUE ELSE UNCHANGED pluginVars
  /\ IF unit = "identity" THEN TRUE ELSE UNCHANGED identityVars
  /\ IF unit = "console" THEN TRUE ELSE UNCHANGED consoleVars
  /\ IF unit = "release" THEN TRUE ELSE UNCHANGED releaseVars
  /\ IF unit = "supervisor" THEN TRUE ELSE UNCHANGED supervisorVars
  /\ IF unit = "operator" THEN TRUE ELSE UNCHANGED operatorVars
  /\ IF unit = "rotation" THEN TRUE ELSE UNCHANGED rotationVars

MCNext == UnitSteps /\ OthersStay /\ UNCHANGED unit

mcVars == <<unit, auditVars, agentWriteVars, pluginVars, identityVars,
            consoleVars, releaseVars, supervisorVars, operatorVars,
            rotationVars>>

MCSpec == MCInit /\ [][MCNext]_mcVars

\* Every part's variables keep their types and its bounds; among them
\* agentpush.go's MaxPushConfigs.
PlatformTypeOK ==
  CASE unit = "audit" -> AuditTypeOK
    [] unit = "agent" -> AgentWriteTypeOK
    [] unit = "plugins" -> PluginsTypeOK
    [] unit = "identity" -> IdentityTypeOK
    [] unit = "console" -> ConsoleTypeOK
    [] unit = "release" -> ReleaseTypeOK
    [] unit = "supervisor" -> SupervisorTypeOK
    [] unit = "operator" -> OperatorTypeOK
    [] unit = "rotation" -> RotationTypeOK
===============================================================================
