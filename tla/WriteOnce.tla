------------------------------ MODULE WriteOnce ------------------------------
(***************************************************************************)
(* What the write guard promises a run, without saying how: its document   *)
(* appears at the target at most once at a time, and only while the run is *)
(* open; a run that succeeds has it, one that fails after it had it has    *)
(* taken it back, and nobody touches it once the run is closed.  The one   *)
(* excuse is a compensation that failed, of which somebody was told: from  *)
(* then on the document may be there or not.                               *)
(***************************************************************************)
CONSTANT Run

VARIABLES
  there,  \* runs whose document the target holds
  told,   \* what is known of each run
  doubt   \* runs of which a compensation failed

onceVars == <<there, told, doubt>>

Verdict == {"open", "undoing", "succeeded", "failed", "compensationFailed"}

OnceTypeOK == /\ there \subseteq Run /\ doubt \subseteq Run
              /\ told \in [Run -> Verdict]

OnceInit == there = {} /\ told = [r \in Run |-> "open"] /\ doubt = {}

Tell(r, verdict) == told' = [told EXCEPT ![r] = verdict]

Appears(r) ==
  /\ told[r] = "open" /\ r \notin there
  /\ there' = there \cup {r} /\ UNCHANGED <<told, doubt>>

Succeeds(r) ==
  /\ told[r] = "open" /\ r \in there \cup doubt
  /\ Tell(r, "succeeded") /\ UNCHANGED <<there, doubt>>

\* Its write failed, or it had been made by an earlier run of the event.
Fails(r) ==
  /\ told[r] = "open"
  /\ Tell(r, "failed") /\ UNCHANGED <<there, doubt>>

TakesBack(r) ==
  /\ told[r] = "open" /\ r \in there \cup doubt
  /\ Tell(r, "undoing") /\ UNCHANGED <<there, doubt>>

Disappears(r) ==
  /\ told[r] = "undoing" /\ r \in there
  /\ there' = there \ {r} /\ UNCHANGED <<told, doubt>>

FailsUndone(r) ==
  /\ told[r] = "undoing" /\ r \notin there
  /\ Tell(r, "failed") /\ UNCHANGED <<there, doubt>>

Alarms(r) ==
  /\ told[r] = "undoing"
  /\ Tell(r, "compensationFailed") /\ doubt' = doubt \cup {r} /\ UNCHANGED there

StartsAgain(r) ==
  /\ told[r] \in {"failed", "compensationFailed"}
  /\ Tell(r, "open") /\ UNCHANGED <<there, doubt>>

Closes(r) == Succeeds(r) \/ Fails(r) \/ FailsUndone(r) \/ Alarms(r)

OnceNext ==
  \E r \in Run : \/ Appears(r) \/ TakesBack(r) \/ Disappears(r)
                 \/ Closes(r) \/ StartsAgain(r)

OnceSafe == OnceInit /\ [][OnceNext]_onceVars

\* A run is closed in the end, whatever it meets.
OnceSpec == OnceSafe /\ \A r \in Run : WF_onceVars(Closes(r))
==============================================================================
