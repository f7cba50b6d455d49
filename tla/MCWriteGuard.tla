---------------------------- MODULE MCWriteGuard ----------------------------
(* Small instances of the write guard. *)
EXTENDS WriteGuardRefines, TLC

CONSTANTS k1, r1, r2, c1, c2

OneKey == {k1}
OneRun == {r1}
TwoRuns == {r1, r2}
OneCall == {c1}
TwoCalls == {c1, c2}

Exclusive == [r \in OneRun |-> k1]
Shared == [r \in TwoRuns |-> k1]

NoOp == {}
Symmetry == Permutations(TwoRuns) \cup Permutations(TwoCalls)
=============================================================================
