-------------------------------- MODULE Pages --------------------------------
(***************************************************************************)
(* A client that pages through a list while the list changes.  A cursor is *)
(* nothing but an offset, and every page is cut from the list of that      *)
(* moment: GET /events lists the log newest first, GET /webhooks lists its *)
(* Map in insertion order, like the lists of API keys and pairs.           *)
(*                                                                         *)
(* Pages change nothing in the service, so one client, with one walk at a  *)
(* time, stands for all.  It keeps its filters and its limit from page to  *)
(* page.                                                                   *)
(***************************************************************************)
EXTENDS Webhooks

CONSTANTS
  PageCap,  \* upper clamp of the limit: EVENT_LOG_CAP for events, 500 for webhooks
  Queries   \* what a client asks for: the types wanted, `since` and `limit`

ASSUME PagesAssumption ==
  /\ PageCap \in Nat \ {0}
  /\ \A q \in Queries : q.since \in Int /\ q.limit \in Int

VARIABLES
  walking,  \* "no", or the list the client is paging through
  query,    \* its filters and limit
  cursor,   \* offset of its next page
  owed,     \* events in the log since its first page that it has not been given (history)
  seen      \* webhooks its pages gave it (history)

walk == <<walking, query, cursor, owed, seen>>

vars == <<config, log, answer, hooks, drawn, walk>>

TypeOK ==
  /\ LogTypeOK
  /\ HooksTypeOK
  /\ walking \in {"no", "events", "webhooks"}
  /\ query \in Queries
  /\ cursor \in Nat
  /\ owed \in SUBSET log
  /\ seen \in SUBSET (1..MaxHooks)

-----------------------------------------------------------------------------
(* One page.                                                               *)

\* Mutant: a limit of 0 is let through.
ClampTop(raw) == IF raw < PageCap THEN raw ELSE PageCap

\* Math.min(cap, Math.max(1, rawLimit))
Clamp(raw) ==
  CASE raw < 1 -> 1
    [] raw > PageCap -> PageCap
    [] OTHER -> raw

\* The log after the `since` and `type` filters.
View(l, q) == {e \in l : e.id >= q.since /\ e.type \in q.types}

\* Mutant: the page is cut from the oldest end.
EventPageOldest(q, offset, limit) ==
  {e \in View(log, q) : LET rank == Cardinality({f \in View(log, q) : f.id <= e.id})
                        IN  offset < rank /\ rank <= offset + limit}

\* The slice of the filtered log, newest first.
EventPage(q, offset, limit) ==
  {e \in View(log, q) : LET rank == Rank(View(log, q), e)
                        IN  offset < rank /\ rank <= offset + limit}

HookPage(offset, limit) ==
  {hooks[i].id : i \in {j \in 1..Len(hooks) : offset < j /\ j <= offset + limit}}

\* paginate answers no nextCursor once the offset reaches the size of the list.
Advance(list, next, size) ==
  /\ walking' = IF next < size THEN list ELSE "no"
  /\ cursor' = IF next < size THEN next ELSE 0

ReadEvents(q, offset, due) ==
  LET limit == Clamp(q.limit)
  IN  /\ Advance("events", offset + limit, Cardinality(View(log, q)))
      /\ owed' = due \ EventPage(q, offset, limit)
      /\ query' = q
      /\ UNCHANGED seen

ReadHooks(q, offset, given) ==
  LET limit == Clamp(q.limit)
  IN  /\ Advance("webhooks", offset + limit, Len(hooks))
      /\ seen' = IF walking' = "no" THEN {} ELSE given \cup HookPage(offset, limit)
      /\ query' = q
      /\ UNCHANGED owed

Read == answer' = "none" /\ UNCHANGED <<config, log, hooks, drawn>>

FirstEvents(q) == walking = "no" /\ ReadEvents(q, 0, View(log, q)) /\ Read

NextEvents == walking = "events" /\ ReadEvents(query, cursor, owed) /\ Read

FirstHooks(q) == walking = "no" /\ ReadHooks(q, 0, {}) /\ Read

NextHooks == walking = "webhooks" /\ ReadHooks(query, cursor, seen) /\ Read

-----------------------------------------------------------------------------
(* Everybody else.                                                         *)

\* What has left the log is not owed any more.
Forget == owed' = owed \cap log' /\ UNCHANGED <<walking, query, cursor, seen>>

Post(t) == Record(t) /\ answer' = "none" /\ UNCHANGED <<config, hooks, drawn>> /\ Forget

Patch(b) == PatchConfig(b) /\ UNCHANGED <<hooks, drawn>> /\ Forget

Create(v) == CreateWebhook(v) /\ Forget

Update(id, v) == PatchWebhook(id, v) /\ Forget

Delete(id) == DeleteWebhook(id) /\ Forget

Init ==
  /\ InitLog
  /\ InitHooks
  /\ walking = "no"
  /\ query \in Queries
  /\ cursor = 0
  /\ owed = {}
  /\ seen = {}

Next ==
  \/ \E t \in Types : Post(t)
  \/ \E b \in Bodies : Patch(b)
  \/ \E v \in Subscriptions : Create(v)
  \/ \E id \in 1..MaxHooks, v \in Subscriptions : Update(id, v)
  \/ \E id \in 1..MaxHooks : Delete(id)
  \/ \E q \in Queries : FirstEvents(q)
  \/ NextEvents
  \/ \E q \in Queries : FirstHooks(q)
  \/ NextHooks

Spec == Init /\ [][Next]_vars

\* A client that follows the cursors asks for its next page sooner or later.
FairSpec == Spec /\ WF_vars(NextEvents)

-----------------------------------------------------------------------------
(* Properties.                                                             *)

\* A client that pages through the events to the last page has been given every
\* event that was in the log at its first page and still is: what is recorded,
\* evicted or trimmed in between can repeat an event but never hide one.
NoEventMissed == walking # "events" => owed = {}

\* A client that pages through the webhooks is never given one twice, whatever is
\* created, patched or deleted in between: none that it has been given can stand
\* where its next page is cut.
NoEntryRepeated ==
  walking = "webhooks" => \A i \in 1..Len(hooks) : i > cursor => hooks[i].id \notin seen

\* Paging through the events comes to an end although events are recorded as fast
\* as pages are read: each page moves the offset, and the log is bounded.
WalkEnds == walking = "events" ~> walking # "events"

\* No step makes the log longer than its cap, and a new cap is in force at once,
\* also when the PATCH that carried it is refused for a later key; a log hydrated
\* above the cap never grows.
CapEnforced ==
  [][/\ config'["eventLogCap"] # config["eventLogCap"]
          => Cardinality(log') <= config'["eventLogCap"]
     /\ Cardinality(log') > config'["eventLogCap"] => Cardinality(log') <= Cardinality(log)]_vars

\* "Atomically updates one or more config keys" (openapi.ts:149): refuted, the
\* keys before the first bad one stay applied, and the log may have been trimmed.
PatchAtomic == [][answer' = "refused" => UNCHANGED <<config, log>>]_vars

\* Inductive strengthening: what is owed is still to come.
OwedAhead ==
  walking = "events" =>
    \A e \in owed : e \in View(log, query) /\ Rank(View(log, query), e) > cursor

IInv ==
  /\ LogTypeOK /\ IsFiniteSet(log)
  /\ query \in Queries /\ cursor \in Nat /\ owed \in SUBSET log
  /\ NoEventMissed
  /\ OwedAhead

\* The same for the webhooks: insertion order is the order of their ids, and every
\* id given to the client has been drawn before.
HookInv ==
  /\ HooksTypeOK
  /\ walking \in {"no", "events", "webhooks"}
  /\ seen \subseteq 1..drawn
  /\ \A i \in 1..Len(hooks) : hooks[i].id <= drawn
  /\ \A i, j \in 1..Len(hooks) : i < j => hooks[i].id < hooks[j].id
  /\ NoEntryRepeated
=============================================================================
