----------------------------- MODULE Idempotency -----------------------------
(***************************************************************************)
(* The Idempotency-Key guard in front of the create endpoints, its bounded *)
(* and expiring cache of first answers, and the request timer that answers *)
(* 503 while a body is still on its way.                                   *)
(*                                                                         *)
(* A request waits for its body first; then guard, handler and answer are  *)
(* one step.  When the timer has already answered, the late body still     *)
(* runs the handler: its effect and its cache entry are kept, only its     *)
(* answer cannot be sent.  A key stands for "METHOD:path:key", an answer   *)
(* for the run of the handler that gave it; requests without a key bypass  *)
(* all this.                                                               *)
(*                                                                         *)
(* The records that creates leave behind are in the snapshot of the stores *)
(* and may survive a restart; the cache never does.                        *)
(***************************************************************************)
EXTENDS Integers, FiniteSets

CONSTANTS
  Clients,     \* each with one request at a time
  Keys,        \* cache keys
  Bodies,      \* request bodies, told apart by their hash
  Valid,       \* the bodies that a handler accepts: it creates a record
  MaxEntries,  \* IDEMPOTENCY_CACHE_MAX
  Ttl,         \* IDEMPOTENCY_TTL_MS, in ticks
  MaxRestarts  \* bound on the restarts over which one window is followed

ASSUME IdempotencyAssumption ==
  /\ MaxEntries \in Nat \ {0}
  /\ Ttl \in Nat \ {0}
  /\ MaxRestarts \in Nat

VARIABLES
  inflight,  \* per client: its request and whether the timer has answered it
  cache,     \* per key: its entry of idempotencyCache
  records,   \* keys whose create left a record in the stores
  window     \* per key: the retry window of its first run (history)

vars == <<inflight, cache, records, window>>

Idle == [stage |-> "idle"]

Absent == [left |-> 0]

\* `since` counts the entries cached after it: the insertion order of the Map.
Entries == [body : Bodies, left : 0..Ttl, since : Nat]

\* A window opens with a run of a key's handler and closes when Ttl ticks have
\* passed, MaxEntries runs of other keys have followed, or after MaxRestarts
\* restarts.  `by`: which process ran the key's handler last.
Closed == [runs |-> 0]

Windows ==
  [body : Bodies, age : 0..Ttl - 1, others : 0..MaxEntries - 1,
   runs : 1..MaxRestarts + 2, restarts : 0..MaxRestarts, by : {"this", "earlier"}]

TypeOK ==
  /\ inflight \in [Clients -> [stage : {"open", "late"}, key : Keys, body : Bodies] \cup {Idle}]
  /\ cache \in [Keys -> Entries \cup {Absent}]
  /\ records \in SUBSET Keys
  /\ window \in [Keys -> Windows \cup {Closed}]

-----------------------------------------------------------------------------
(* The cache.                                                              *)

Held == {k \in Keys : cache[k] # Absent}

LiveKeys == {k \in Held : cache[k].left > 0}

\* The live entry of key k has body b.
Cached(k, b) == k \in LiveKeys /\ cache[k].body = b

\* Mutant: the newest entry makes room.
DropNewest(ks) ==
  IF Cardinality(ks) >= MaxEntries
  THEN {k \in ks : \E q \in ks : cache[q].since < cache[k].since}
  ELSE ks

\* Mutant: room is made one entry too late.
DropLate(ks) ==
  IF Cardinality(ks) > MaxEntries
  THEN {k \in ks : \E q \in ks : cache[q].since > cache[k].since}
  ELSE ks

DropOldest(ks) ==
  IF Cardinality(ks) >= MaxEntries
  THEN {k \in ks : \E q \in ks : cache[q].since > cache[k].since}
  ELSE ks

\* pruneIdempotencyCache, after the guard has deleted an expired entry of its key.
Pruned == DropOldest(LiveKeys)

-----------------------------------------------------------------------------
(* Requests.                                                               *)

Done(c) == inflight' = [inflight EXCEPT ![c] = Idle]

Send(c, k, b) ==
  /\ inflight[c] = Idle
  /\ inflight' = [inflight EXCEPT ![c] = [stage |-> "open", key |-> k, body |-> b]]
  /\ UNCHANGED <<cache, records, window>>

\* Mutant: one timer serves all requests.
TimeoutShared(c) ==
  /\ inflight[c].stage = "open"
  /\ \A d \in Clients : inflight[d].stage # "late"
  /\ inflight' = [inflight EXCEPT ![c].stage = "late"]
  /\ UNCHANGED <<cache, records, window>>

\* requestTimeoutGuard: 503 while the body is still arriving.
Timeout(c) ==
  /\ inflight[c].stage = "open"
  /\ inflight' = [inflight EXCEPT ![c].stage = "late"]
  /\ UNCHANGED <<cache, records, window>>

\* The client is gone before its body is complete: no handler runs.
Abort(c) ==
  /\ inflight[c] # Idle
  /\ Done(c)
  /\ UNCHANGED <<cache, records, window>>

\* 409: the key was used with another body.
Conflict(c) ==
  /\ inflight[c] # Idle
  /\ inflight[c].key \in LiveKeys /\ ~Cached(inflight[c].key, inflight[c].body)
  /\ Done(c)
  /\ UNCHANGED <<cache, records, window>>

Replay(c) ==
  /\ inflight[c] # Idle
  /\ Cached(inflight[c].key, inflight[c].body)
  /\ Done(c)
  /\ UNCHANGED <<cache, records, window>>

\* One more run of another key's handler.
Overtaken(w) ==
  IF w = Closed \/ w.others + 1 = MaxEntries THEN Closed ELSE [w EXCEPT !.others = @ + 1]

\* A run of the key's own handler with body b.
Ran(w, b) ==
  IF w = Closed
  THEN [body |-> b, age |-> 0, others |-> 0, runs |-> 1, restarts |-> 0, by |-> "this"]
  ELSE [w EXCEPT !.body = b, !.runs = @ + 1, !.by = "this"]

\* The handler runs; its JSON answer, whatever its status, is cached.
Execute(c) ==
  /\ inflight[c] # Idle
  /\ inflight[c].key \notin LiveKeys
  /\ LET k == inflight[c].key
         b == inflight[c].body
         kept == [q \in Keys |-> IF q \in Pruned THEN [cache[q] EXCEPT !.since = @ + 1] ELSE Absent]
     IN  /\ cache' = [kept EXCEPT ![k] = [body |-> b, left |-> Ttl, since |-> 0]]
         /\ records' = IF b \in Valid THEN records \cup {k} ELSE records
         /\ window' = [q \in Keys |-> IF q = k THEN Ran(window[q], b) ELSE Overtaken(window[q])]
  /\ Done(c)

-----------------------------------------------------------------------------
(* Time and the process.                                                   *)

\* Mutant: deadlines run on below zero.
OlderRaw(e) == IF e = Absent THEN Absent ELSE [e EXCEPT !.left = @ - 1]

Older(e) ==
  IF e = Absent THEN Absent ELSE [e EXCEPT !.left = IF @ > 0 THEN @ - 1 ELSE 0]

Aged(w) ==
  IF w = Closed \/ w.age + 1 = Ttl THEN Closed ELSE [w EXCEPT !.age = @ + 1]

Tick ==
  /\ cache' = [k \in Keys |-> Older(cache[k])]
  /\ window' = [k \in Keys |-> Aged(window[k])]
  /\ UNCHANGED <<inflight, records>>

Outlived(w) ==
  IF w = Closed \/ w.restarts = MaxRestarts THEN Closed
  ELSE [w EXCEPT !.restarts = @ + 1, !.by = "earlier"]

\* Mutant: the cache is reloaded, and the records are those of the last snapshot.
RestartWarm ==
  /\ inflight' = [c \in Clients |-> Idle]
  /\ cache' = cache
  /\ records' \in SUBSET records
  /\ window' = [k \in Keys |-> Outlived(window[k])]

\* The cache is in memory only; of the records, the last snapshot has some.
Restart ==
  /\ inflight' = [c \in Clients |-> Idle]
  /\ cache' = [k \in Keys |-> Absent]
  /\ records' \in SUBSET records
  /\ window' = [k \in Keys |-> Outlived(window[k])]

Init ==
  /\ inflight = [c \in Clients |-> Idle]
  /\ cache = [k \in Keys |-> Absent]
  /\ records = {}
  /\ window = [k \in Keys |-> Closed]

Next ==
  \/ \E c \in Clients, k \in Keys, b \in Bodies : Send(c, k, b)
  \/ \E c \in Clients : Timeout(c)
  \/ \E c \in Clients : Abort(c)
  \/ \E c \in Clients : Conflict(c)
  \/ \E c \in Clients : Replay(c)
  \/ \E c \in Clients : Execute(c)
  \/ Tick
  \/ Restart

Spec == Init /\ [][Next]_vars

\* Timers fire; bodies need not arrive.
FairSpec == Spec /\ \A c \in Clients : WF_vars(Timeout(c))

-----------------------------------------------------------------------------
(* Properties.                                                             *)

\* A create may be repeated safely: as long as its window is open, its handler
\* has run once, and once more at most for every restart in between, and the
\* entry that answers a repeat to the process that ran it last is still there.
\* This holds for requests whose bodies arrive in any order, and for a client that
\* was told 503 request_timeout and cannot know that its first request ran after
\* all.
SafeRetry ==
  \A k \in Keys : window[k] # Closed =>
    /\ window[k].runs <= 1 + window[k].restarts
    /\ window[k].by = "this" => Cached(k, window[k].body)

\* A replayed 201 never vouches for a record that a restart undid because its
\* snapshot had not been saved: the entry is gone with it, and the repeat creates
\* the record anew.  (A client's own DELETE of the record is not counted here.)
ReplayIsBacked ==
  \A k \in Keys, b \in Valid : Cached(k, b) => k \in records

\* "the map is bounded to IDEMPOTENCY_CACHE_MAX entries" (index.ts:552-553); the
\* expired ones that are still in it count.
CacheBounded == Cardinality(Held) <= MaxEntries

\* Every request is answered, even if its body never comes.
AlwaysAnswered ==
  \A c \in Clients : inflight[c].stage = "open" ~> inflight[c].stage # "open"

\* Inductive strengthening: entries are ordered, and each has lasted no longer and
\* been followed by no more others than the window of its key says.
Ordered == \A p, q \in Held : cache[p].since = cache[q].since => p = q

WindowKept(k) ==
  /\ window[k].runs <= window[k].restarts + (IF window[k].by = "this" THEN 1 ELSE 0)
  /\ window[k].by = "this" =>
       /\ k \in Held
       /\ cache[k].body = window[k].body
       /\ cache[k].left + window[k].age >= Ttl
       /\ cache[k].since <= window[k].others

IInv ==
  /\ TypeOK
  /\ Ordered
  /\ IsFiniteSet(Held) /\ CacheBounded
  /\ \A k \in Keys : window[k] # Closed => WindowKept(k)
  /\ \A k \in Held : cache[k].body \in Valid => k \in records
=============================================================================
