-------------------------- MODULE MCStorageAdapter --------------------------
(* Two keys, so that one call can fail between two calls on the other; two   *)
(* values, so that a key can be set again; three events to trim.             *)
EXTENDS StorageAdapter

CONSTANTS a, b

MCKeys == {a, b}
=============================================================================
