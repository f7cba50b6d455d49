--------------------------- MODULE RemoteConnector ---------------------------
(***************************************************************************)
(* A connector in a sidecar (pkg/connector/remote): the worker configures  *)
(* an instance there and calls it by its ID.  A sidecar that restarted     *)
(* does not know the ID; the call that finds out configures the instance   *)
(* again and is repeated once.  Calls run at once, a configured instance   *)
(* replaces and closes the one before it, and the sidecar may die at any   *)
(* point, also between the effect of a call and its answer.                *)
(***************************************************************************)
EXTENDS Naturals, FiniteSets

CONSTANTS
  RemoteCall,       \* the worker's calls
  MaxSidecarDeaths  \* bound: restarts of the sidecar

ASSUME RemoteAssumption == MaxSidecarDeaths \in Nat

VARIABLES
  caps,         \* what the connector can do, as it described itself
  described,    \* whether it is the connector the spec needs: name, version, protocol
  instanceOf,   \* the worker's instance: "none", "open" or "closed"
  bound,        \* whether the sidecar knows the instance
  sidecarDeaths,
  rcall         \* the calls

remoteVars == <<caps, described, instanceOf, bound, sidecarDeaths, rcall>>

Capability == {"simulate", "confirm", "read", "poll", "export", "check", "webhook", "discover"}
NoCall == [op |-> "none", pc |-> "idle", took |-> FALSE, repeated |-> FALSE,
           answer |-> "none", effects |-> 0]

RemoteTypeOK ==
  /\ caps \subseteq Capability /\ described \in BOOLEAN
  /\ instanceOf \in {"none", "open", "closed"}
  /\ bound \in BOOLEAN /\ sidecarDeaths \in 0..MaxSidecarDeaths
  /\ \A c \in RemoteCall :
       /\ rcall[c].op \in Capability \cup {"none", "commit"}
       /\ rcall[c].pc \in {"idle", "sent", "runs", "answered", "configure", "done"}
       /\ rcall[c].took \in BOOLEAN /\ rcall[c].repeated \in BOOLEAN
       /\ rcall[c].answer \in {"none", "ok", "bad", "refused", "aborted", "unavailable", "unsupported"}

RemoteInit ==
  /\ caps \in {Capability, {}} /\ described \in BOOLEAN
  /\ instanceOf = "none" /\ bound = FALSE /\ sidecarDeaths = 0
  /\ rcall = [c \in RemoteCall |-> NoCall]

-----------------------------------------------------------------------------
(* The sidecar *)

\* Configure binds a new endpoint; the one it replaces is closed, and may
\* fail the calls that still use it.
Bind == bound' = TRUE

SidecarDies ==
  /\ sidecarDeaths < MaxSidecarDeaths
  /\ sidecarDeaths' = sidecarDeaths + 1
  /\ bound' = FALSE
  /\ rcall' = [c \in RemoteCall |->
                 IF rcall[c].pc \in {"sent", "runs"}
                   THEN [rcall[c] EXCEPT !.pc = "answered", !.answer = "unavailable"]
                   ELSE rcall[c]]
  /\ UNCHANGED <<caps, described, instanceOf>>

SidecarTakes(c) ==
  /\ rcall[c].pc = "sent"
  /\ rcall' = IF ~bound
                THEN [rcall EXCEPT ![c].pc = "answered", ![c].answer = "aborted"]
                ELSE [rcall EXCEPT ![c].pc = "runs", ![c].took = FALSE]
  /\ UNCHANGED <<caps, described, instanceOf, bound, sidecarDeaths>>

\* The system does what is asked, before the sidecar answers.
TakesEffect(c) ==
  /\ rcall[c].pc = "runs" /\ ~rcall[c].took
  /\ rcall' = [rcall EXCEPT ![c].took = TRUE, ![c].effects = @ + 1]
  /\ UNCHANGED <<caps, described, instanceOf, bound, sidecarDeaths>>

\* A poll may answer with positions that do not increase, and a delivery's
\* signature may be refused.
SidecarAnswers(c) ==
  /\ rcall[c].pc = "runs"
  /\ \E a \in {"ok", "bad", "refused", "unavailable"} :
       /\ a \in {"ok", "bad"} => rcall[c].took
       /\ a = "bad" => rcall[c].op \in {"poll", "webhook"}
       /\ a = "refused" => ~rcall[c].took
       /\ rcall' = [rcall EXCEPT ![c].pc = "answered", ![c].answer = a]
  /\ UNCHANGED <<caps, described, instanceOf, bound, sidecarDeaths>>

-----------------------------------------------------------------------------
(* The worker *)

\* configure: Describe must name the connector the spec needs, in a version
\* the spec was compiled for.
Compatible == described
ConfigureRemote ==
  /\ instanceOf = "none" /\ Compatible
  /\ Bind /\ instanceOf' = "open"
  /\ UNCHANGED <<caps, described, sidecarDeaths, rcall>>

\* The instance is closed once its calls have ended.
CloseRemote ==
  /\ instanceOf = "open" /\ \A c \in RemoteCall : rcall[c].pc \in {"idle", "done"}
  /\ instanceOf' = "closed" /\ bound' = FALSE
  /\ UNCHANGED <<caps, described, sidecarDeaths, rcall>>

Calls(c, op) ==
  /\ rcall[c].pc = "idle" /\ instanceOf = "open"
  /\ rcall' = [rcall EXCEPT ![c] =
       IF op \in caps \cup {"commit"}
         THEN [NoCall EXCEPT !.op = op, !.pc = "sent"]
         ELSE [NoCall EXCEPT !.op = op, !.pc = "done", !.answer = "unsupported"]]
  /\ UNCHANGED <<caps, described, instanceOf, bound, sidecarDeaths>>

RemoteSimulate(c) == Calls(c, "simulate")
RemoteCommit(c) == Calls(c, "commit")
RemoteConfirm(c) == Calls(c, "confirm")
RemoteRead(c) == Calls(c, "read")
RemotePoll(c) == Calls(c, "poll")
RemoteExport(c) == Calls(c, "export")
RemoteCheck(c) == Calls(c, "check")
RemoteReceive(c) == Calls(c, "webhook")
RemoteDiscover(c) == Calls(c, "discover")

\* Mutant: a call the sidecar did not answer is repeated too.
RepeatedUnanswered(c) == rcall[c].answer \in {"aborted", "unavailable"}

\* Only a sidecar that does not know the instance has done nothing.  What a
\* stream of records answers comes after the call returned.
Repeated(c) == rcall[c].answer = "aborted" /\ rcall[c].op # "export"

CallAgain(c) ==
  /\ rcall[c].pc = "answered" /\ ~rcall[c].repeated /\ Repeated(c)
  /\ rcall' = [rcall EXCEPT ![c].pc = "configure", ![c].repeated = TRUE]
  /\ UNCHANGED <<caps, described, instanceOf, bound, sidecarDeaths>>

ConfigureAgain(c) ==
  /\ rcall[c].pc = "configure"
  /\ Bind
  /\ rcall' = [rcall EXCEPT ![c].pc = "sent", ![c].answer = "none"]
  /\ UNCHANGED <<caps, described, instanceOf, sidecarDeaths>>

ConfigureAgainFails(c) ==
  /\ rcall[c].pc = "configure"
  /\ \E a \in {"refused", "unavailable"} :
       rcall' = [rcall EXCEPT ![c].pc = "done", ![c].answer = a]
  /\ UNCHANGED <<caps, described, instanceOf, bound, sidecarDeaths>>

\* wrap: the status as the write guard and the engine know it.
Wrapped(c) ==
  /\ rcall[c].pc = "answered" /\ (rcall[c].repeated \/ ~Repeated(c))
  /\ rcall' = [rcall EXCEPT ![c].pc = "done"]
  /\ UNCHANGED <<caps, described, instanceOf, bound, sidecarDeaths>>

RemoteNext ==
  \/ SidecarDies \/ ConfigureRemote \/ CloseRemote
  \/ \E c \in RemoteCall :
       \/ SidecarTakes(c) \/ TakesEffect(c) \/ SidecarAnswers(c)
       \/ RemoteSimulate(c) \/ RemoteCommit(c) \/ RemoteConfirm(c) \/ RemoteRead(c)
       \/ RemotePoll(c) \/ RemoteExport(c) \/ RemoteCheck(c) \/ RemoteReceive(c) \/ RemoteDiscover(c)
       \/ CallAgain(c) \/ ConfigureAgain(c) \/ ConfigureAgainFails(c) \/ Wrapped(c)

RemoteSpec == RemoteInit /\ [][RemoteNext]_remoteVars

-----------------------------------------------------------------------------
(* What a call tells the write guard: one that is refused or unsupported   *)
(* changed nothing, one that is ok changed the system, and none changed it *)
(* twice, although the sidecar dies, its instance is replaced under the    *)
(* call and the call is repeated.                                          *)
AnswerTellsEffect ==
  \A c \in RemoteCall :
    /\ rcall[c].pc = "done" /\ rcall[c].answer \in {"refused", "unsupported", "aborted"}
         => rcall[c].effects = 0
    /\ rcall[c].pc = "done" /\ rcall[c].answer = "ok" => rcall[c].effects = 1
    /\ rcall[c].effects <= 1
=============================================================================
