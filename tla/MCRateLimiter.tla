---------------------------- MODULE MCRateLimiter ----------------------------
(* Three IPs for a Map of two, so that the ceiling is reached; a limit and a  *)
(* window that can be raised and lowered under live buckets, the window past  *)
(* the interval of garbage collection.                                        *)
EXTENDS RateLimiter, TLC

CONSTANTS a, b, c

MCIps == {a, b, c}

AnyOrder == Permutations(MCIps)
=============================================================================
