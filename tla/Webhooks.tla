------------------------------- MODULE Webhooks -------------------------------
(***************************************************************************)
(* Webhook registrations: one Map, listed in the order of insertion, whose *)
(* changes are recorded in the event log.  Ids are random and never drawn  *)
(* twice; here they are numbered in the order of creation.  The URL of a   *)
(* registration never changes and is left out.                             *)
(***************************************************************************)
EXTENDS RuntimeConfig, Sequences

CONSTANTS
  Subscriptions,  \* lists of subscribed events, deduplicated
  MaxHooks        \* bound on the webhooks ever registered

ASSUME HookAssumption ==
  /\ MaxHooks \in Nat
  /\ {"webhook.created", "webhook.deleted"} \subseteq Types

VARIABLES
  hooks,  \* stores.ts: webhookStore, in insertion order
  drawn   \* number of ids drawn (history)

HooksTypeOK ==
  /\ hooks \in Seq([id : 1..MaxHooks, events : Subscriptions])
  /\ drawn \in 0..MaxHooks

-----------------------------------------------------------------------------
Ids == {hooks[i].id : i \in 1..Len(hooks)}

\* Mutant: an entry that is set again moves to the end.
MapSetLast(m, id, v) == Append(SelectSeq(m, LAMBDA e : e.id # id), [id |-> id, events |-> v])

\* Map.set: a known key keeps its place.
MapSet(m, id, v) ==
  IF \E i \in 1..Len(m) : m[i].id = id
  THEN [i \in 1..Len(m) |-> IF m[i].id = id THEN [id |-> id, events |-> v] ELSE m[i]]
  ELSE Append(m, [id |-> id, events |-> v])

\* Map.delete of a known key closes the gap.
MapDelete(m, id) ==
  LET at == CHOOSE i \in 1..Len(m) : m[i].id = id
  IN  [i \in 1..Len(m) - 1 |-> IF i < at THEN m[i] ELSE m[i + 1]]

CreateWebhook(v) ==
  /\ drawn < MaxHooks
  /\ drawn' = drawn + 1
  /\ hooks' = MapSet(hooks, drawn + 1, v)
  /\ Record("webhook.created")
  /\ answer' = "none"
  /\ UNCHANGED config

\* Only the subscribed events change, and nothing is recorded.
PatchWebhook(id, v) ==
  /\ id \in Ids
  /\ hooks' = MapSet(hooks, id, v)
  /\ answer' = "none"
  /\ UNCHANGED <<config, log, drawn>>

DeleteWebhook(id) ==
  /\ id \in Ids
  /\ hooks' = MapDelete(hooks, id)
  /\ Record("webhook.deleted")
  /\ answer' = "none"
  /\ UNCHANGED <<config, drawn>>

InitHooks ==
  /\ hooks = <<>>
  /\ drawn = 0
=============================================================================
