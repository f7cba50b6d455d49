---------------------------- MODULE MCConnectors ------------------------------
(***************************************************************************)
(* The connectors' side of the system, each part with small constants.  A  *)
(* part keeps its own state, and what it asks of another (the token store, *)
(* the inbox, the write guard) is in its own module, so one run checks     *)
(* them all: every behaviour is of one part, the unit, and the others stay *)
(* in an initial state.                                                    *)
(***************************************************************************)
EXTENDS Tokens, Sessions, Streams, PgChanges, Polling, TargetWrite,
        RemoteConnector, MetaGraph, TLC

CONSTANTS
  Unit,            \* the parts checked, by their names in AllUnits
  w1, w2, x1, x2

VARIABLE unit

Workers == {w1, w2}
Symmetry == Permutations(Workers)
Items == {x1, x2}

AllUnits == {"tokens", "sessions", "streams", "changes", "polling", "target",
             "remote", "meta"}
ASSUME UnitAssumption == Unit \subseteq AllUnits

AllStreamKinds == {"replay", "managed", "kafka", "queue", "sidecar"}
AllSources == {"sap", "salesforce", "odoo", "hubspot", "bc", "dataverse",
               "netsuite", "qbo", "xero", "stripe", "shop", "b1"}
AllTargets == {"sap", "odoo", "bc", "b1", "netsuite", "dataverse", "xero",
               "qbo", "postgres", "salesforce", "hubspot", "shop", "stripe"}
AllApis == {"bc", "dataverse", "qbo", "xero", "b1", "salesforce", "mesh",
            "netsuite", "hubspot", "stripe", "shop", "odoo", "sap"}

MCInit ==
  /\ unit \in Unit
  /\ TokensInit /\ (unit = "tokens" \/ auth = "refresh")
  /\ SessionsInit /\ (unit = "sessions" \/ api = "sap")
  /\ StreamsInit /\ (unit = "streams" \/ (kind = "replay" /\ start = "latest"))
  /\ CdcInit
  /\ PollingInit /\ (unit = "polling" \/ source = "sap")
  /\ TargetWriteInit /\ (unit = "target" \/ (target = "sap" /\ request = "ok"))
  /\ RemoteInit /\ (unit = "remote" \/ (caps = {} /\ ~described))
  /\ MetaInit /\ (unit = "meta" \/ (metaKind = "sampled" /\ ~system.there))

\* The unit takes a step of its own ...
UnitSteps ==
  \/ unit = "tokens" /\ TokensNext
  \/ unit = "sessions" /\ SessionsNext
  \/ unit = "streams" /\ StreamsNext
  \/ unit = "changes" /\ CdcNext
  \/ unit = "polling" /\ PollingNext
  \/ unit = "target" /\ TargetWriteNext
  \/ unit = "remote" /\ RemoteNext
  \/ unit = "meta" /\ MetaNext

\* ... and the others stay.
OthersStay ==
  /\ IF unit = "tokens" THEN TRUE ELSE UNCHANGED tokenVars
  /\ IF unit = "sessions" THEN TRUE ELSE UNCHANGED sessionVars
  /\ IF unit = "streams" THEN TRUE ELSE UNCHANGED streamVars
  /\ IF unit = "changes" THEN TRUE ELSE UNCHANGED cdcVars
  /\ IF unit = "polling" THEN TRUE ELSE UNCHANGED pollingVars
  /\ IF unit = "target" THEN TRUE ELSE UNCHANGED targetVars
  /\ IF unit = "remote" THEN TRUE ELSE UNCHANGED remoteVars
  /\ IF unit = "meta" THEN TRUE ELSE UNCHANGED metaVars

MCNext == UnitSteps /\ OthersStay /\ UNCHANGED unit

mcVars == <<unit, tokenVars, sessionVars, streamVars, cdcVars, pollingVars,
            targetVars, remoteVars, metaVars>>

MCSpec == MCInit /\ [][MCNext]_mcVars

\* Every part's variables keep their types and its bounds; among them the
\* events a Salesforce subscription may still be sent (stream.go), which are
\* never down to none while it waits for one.
ConnectorsTypeOK ==
  CASE unit = "tokens" -> TokensTypeOK
    [] unit = "sessions" -> SessionsTypeOK
    [] unit = "streams" -> StreamsTypeOK
    [] unit = "changes" -> CdcTypeOK
    [] unit = "polling" -> PollingTypeOK
    [] unit = "target" -> TargetWriteTypeOK
    [] unit = "remote" -> RemoteTypeOK
    [] unit = "meta" -> MetaTypeOK
===============================================================================
