------------------------------- MODULE MCPages -------------------------------
(* The log holds up to three events under a default cap of two; bodies carry *)
(* a bad key before or after a cap that is good, bad, or above its ceiling.  *)
EXTENDS Pages, TLC

MCDefaults ==
  [k \in ConfigKeys |-> IF k = "eventLogCap" THEN 2 ELSE 1]

MCCeiling == [k \in ConfigKeys |-> IF k = "eventLogCap" THEN 3 ELSE 1]

MCTypes == {"webhook.created", "webhook.deleted"}

\* One key of each kind: before the cap, the cap, after it, and an unknown one.
MCBodies ==
  LET caps == {"eventLogCap" :> n : n \in 0..4}
      late == {"requestTimeoutMs" :> n : n \in 0..1}
  IN  caps \cup {c @@ l : c \in caps, l \in late}
        \cup {("bulkMaxItems" :> 0) @@ c : c \in caps}
        \cup {("quoteTtl" :> 1) @@ c : c \in caps}

MCDeleted == {"webhook.deleted"}

\* Limits below, at and above the clamps.
MCQueries ==
  {[types |-> MCTypes, since |-> 0, limit |-> 1], [types |-> MCTypes, since |-> 2, limit |-> 3],
   [types |-> MCDeleted, since |-> 0, limit |-> 0], [types |-> MCDeleted, since |-> 2, limit |-> 1]}
=============================================================================
