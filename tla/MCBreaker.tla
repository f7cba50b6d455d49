----------------------------- MODULE MCBreaker -----------------------------
(* Three calls to a target with room for two. *)
EXTENDS Breaker

CONSTANTS c1, c2, c3

ThreeCallers == {c1, c2, c3}
=============================================================================
