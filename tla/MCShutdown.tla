----------------------------- MODULE MCShutdown -----------------------------
(* One pair and a log of one are enough to tell a saved state from a stale *)
(* one; two connections let one be busy while the other drains, and two    *)
(* signals can meet in one drain.                                          *)
EXTENDS Shutdown

CONSTANT p1

MCPairs == {p1}
=============================================================================
