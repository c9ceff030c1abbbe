--------------------------- MODULE MCSnapshotStore ---------------------------
(* Two pairs, a default cap below the ceiling, and a timer that takes one   *)
(* tick: a mutation can land before, between and after ticks.               *)
EXTENDS SnapshotStore

CONSTANTS p1, p2

MCPairs == {p1, p2}
=============================================================================
