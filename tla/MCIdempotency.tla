---------------------------- MODULE MCIdempotency ----------------------------
(* Two clients whose repeats can cross, one key more than the cache holds,  *)
(* and two bodies, so that a key can be reused with another one.            *)
EXTENDS Idempotency

CONSTANTS alice, bob, k1, k2, k3

MCClients == {alice, bob}
MCKeys == {k1, k2, k3}
=============================================================================
