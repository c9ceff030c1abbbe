---------------------------- MODULE MCPairQuotes ----------------------------
(* Two pairs, so that one pair's change meets the other's cached quotes;    *)
(* a scale of 4 makes fees and slippage round; bounds on either side of     *)
(* each other and of the amounts; three changes of each pair.               *)
EXTENDS PairQuotes

CONSTANTS p1, p2

MCPairs == {p1, p2}
=============================================================================
