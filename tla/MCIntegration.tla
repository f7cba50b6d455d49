--------------------------- MODULE MCIntegration ---------------------------
(* Two writes, the first of them with plugins, then a local step. *)
EXTENDS Integration

CONSTANTS v1, v2

TwoWrites == {1, 2}
FirstOnly == {1}
SecondOnly == {2}
TwoVersions == {v1, v2}
=============================================================================
