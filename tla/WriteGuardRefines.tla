-------------------------- MODULE WriteGuardRefines --------------------------
(***************************************************************************)
(* The write guard, its store and the runs that call it, seen as WriteOnce *)
(* sees them: claims, leases, generations, attempts and calls are hidden,  *)
(* what is left is whether the target holds a live document of the run's   *)
(* key, in whatever generation, and what the run has told.                 *)
(***************************************************************************)
EXTENDS WriteGuard

there == {r \in Run : \E g \in Gen : docs[<<RunKey[r], g>>] = "live"}

told == [r \in Run |->
           CASE phase[r] \in {"prepare", "commit", "reused", "later"} -> "open"
             [] phase[r] = "undo" -> "undoing"
             [] OTHER -> phase[r]]

Once == INSTANCE WriteOnce WITH doubt <- alarmed

\* The guard implements WriteOnce (OwnKeys): through lost answers, failed
\* store calls, dead workers, leases taken over and operators' retries, every
\* change at the target and every verdict is one that WriteOnce allows, and
\* every run gets its verdict.
WritesOnce == Once!OnceSpec
==============================================================================
