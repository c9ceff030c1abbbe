----------------------------- MODULE RateLimiter -----------------------------
(***************************************************************************)
(* The per-IP sliding-window rate limiter: its Map of buckets, the garbage *)
(* collection that runs at most once an interval, the ceiling on tracked   *)
(* IPs, and limit and window that an operator changes while it runs.       *)
(*                                                                         *)
(* A request is one synchronous step.  A hit is kept as its age in ticks,  *)
(* ages past every window not told apart, and its place in the bucket      *)
(* counted from the newest.  An IP that is not in the Map has no hits: the *)
(* code deletes a bucket that becomes empty.  Which IP a request counts    *)
(* for (resolveClientIp) is the choice of `ip`.                            *)
(***************************************************************************)
EXTENDS Integers, FiniteSets

CONSTANTS
  Ips,
  MaxIps,      \* RATE_BUCKETS_MAX_IPS
  GcInterval,  \* RATE_BUCKET_GC_INTERVAL_MS, in ticks
  MaxLimit,    \* bound on rateLimitPerWindow; the default is 1
  MaxWindow    \* bound on rateLimitWindowMs, in ticks; the default is 1

ASSUME RateLimiterAssumption ==
  {MaxIps, GcInterval, MaxLimit, MaxWindow} \subseteq Nat \ {0}

VARIABLES
  rateBuckets,  \* per IP: the hits in its bucket
  before,       \* insertion order of the Map: pairs of tracked IPs, the earlier one first
  sinceGc,      \* ticks since lastRateBucketGcAt, up to GcInterval
  limit,        \* config.rateLimitPerWindow
  windowMs,     \* config.rateLimitWindowMs, in ticks
  recent,       \* per IP: admitted hits young enough for every window since, from
                \* the last time the ceiling dropped the IP on (history)
  promise       \* per IP: what is left of the Retry-After it was given (history)

vars == <<rateBuckets, before, sinceGc, limit, windowMs, recent, promise>>

None == -1

Hits == [age : 0..MaxWindow, since : 0..MaxLimit - 1]

TypeOK ==
  /\ rateBuckets \in [Ips -> SUBSET Hits]
  /\ before \in SUBSET (Ips \X Ips)
  /\ sinceGc \in 0..GcInterval
  /\ limit \in 1..MaxLimit
  /\ windowMs \in 1..MaxWindow
  /\ recent \in [Ips -> SUBSET Hits]
  /\ promise \in [Ips -> {None} \cup 0..MaxWindow]

-----------------------------------------------------------------------------
(* Buckets.                                                                *)

\* Mutant: a hit counts one tick too long.
LiveLong(hits, w) == {h \in hits : h.age <= w}

Live(hits, w) == {h \in hits : h.age < w}

\* bucket.push(now)
Pushed(hits) ==
  {[h EXCEPT !.since = @ + 1] : h \in hits} \cup {[age |-> 0, since |-> 0]}

Tracked(m) == {ip \in Ips : m[ip] # {}}

\* What is left of the insertion order when only the IPs of s are left.
Among(s) == before \cap (s \X s)

\* The first key of the Map.
First(m) == {ip \in Tracked(m) : \A q \in Tracked(m) : <<q, ip>> \notin before}

\* Mutant: a bucket goes as soon as one of its hits is stale.
pruneOnStale(m) ==
  IF sinceGc < GcInterval THEN m
  ELSE [ip \in Ips |-> IF Live(m[ip], windowMs) = m[ip] THEN m[ip] ELSE {}]

pruneExpiredRateBuckets(m) ==
  IF sinceGc < GcInterval THEN m ELSE [ip \in Ips |-> Live(m[ip], windowMs)]

\* Mutant: the ceiling is seen one IP too late.
RoomLate(m, ip) ==
  IF ip \notin Tracked(m) /\ Cardinality(Tracked(m)) > MaxIps
  THEN [q \in Ips |-> IF q \in First(m) THEN {} ELSE m[q]]
  ELSE m

\* The ceiling on IPs: a new one takes the place of the one inserted first.
Room(m, ip) ==
  IF ip \notin Tracked(m) /\ Cardinality(Tracked(m)) >= MaxIps
  THEN [q \in Ips |-> IF q \in First(m) THEN {} ELSE m[q]]
  ELSE m

\* The Map once a request of ip has collected garbage and made room.
Swept(ip) == Room(pruneExpiredRateBuckets(rateBuckets), ip)

\* IPs that lose their bucket to the ceiling by it.
Dropped(ip) == Tracked(pruneExpiredRateBuckets(rateBuckets)) \ Tracked(Swept(ip))

LiveBucket(ip) == Live(Swept(ip)[ip], windowMs)

Accepts(ip) == Cardinality(LiveBucket(ip)) < limit

-----------------------------------------------------------------------------
(* Requests.                                                               *)

Collected == sinceGc' = IF sinceGc < GcInterval THEN sinceGc ELSE 0

Forget(ip) == [q \in Ips |-> IF q \in Dropped(ip) THEN {} ELSE recent[q]]

\* A bucket whose hits are all stale is deleted first and so loses its place;
\* Map.set appends a new key and leaves a known one at its place.
Admit(ip) ==
  LET stays == Tracked([Swept(ip) EXCEPT ![ip] = LiveBucket(ip)])
  IN  /\ Accepts(ip)
      /\ rateBuckets' = [Swept(ip) EXCEPT ![ip] = Pushed(LiveBucket(ip))]
      /\ before' = Among(stays) \cup (IF ip \in stays THEN {} ELSE stays \X {ip})
      /\ Collected
      /\ recent' = [Forget(ip) EXCEPT ![ip] = Pushed(@)]
      /\ promise' = [promise EXCEPT ![ip] = None]
      /\ UNCHANGED <<limit, windowMs>>

\* Mutant: a refused request counts as a hit.
RefuseCounted(ip) ==
  /\ ~Accepts(ip)
  /\ rateBuckets' = [Swept(ip) EXCEPT ![ip] = Pushed(LiveBucket(ip))]
  /\ before' = Among(Tracked(Swept(ip)))
  /\ Collected
  /\ promise' = [promise EXCEPT ![ip] = IF @ = None THEN windowMs ELSE @]
  /\ UNCHANGED <<recent, limit, windowMs>>

\* 429 with Retry-After; it leaves no hit.
Refuse(ip) ==
  /\ ~Accepts(ip)
  /\ rateBuckets' = Swept(ip)
  /\ before' = Among(Tracked(Swept(ip)))
  /\ Collected
  /\ recent' = Forget(ip)
  /\ promise' = [promise EXCEPT ![ip] = IF @ = None THEN windowMs ELSE @]
  /\ UNCHANGED <<limit, windowMs>>

-----------------------------------------------------------------------------
(* Time, configuration, restarts.                                          *)

Elapse(age) == IF age < MaxWindow THEN age + 1 ELSE MaxWindow

Aged(hits) == {[h EXCEPT !.age = Elapse(@)] : h \in hits}

Tick ==
  /\ rateBuckets' = [ip \in Ips |-> Aged(rateBuckets[ip])]
  /\ sinceGc' = IF sinceGc < GcInterval THEN sinceGc + 1 ELSE sinceGc
  /\ recent' = [ip \in Ips |-> Live(Aged(recent[ip]), windowMs)]
  /\ promise' = [ip \in Ips |-> IF promise[ip] > 0 THEN promise[ip] - 1 ELSE promise[ip]]
  /\ UNCHANGED <<before, limit, windowMs>>

\* PATCH /api/v1/config; answers already given hold for the old values.
Configure(l, w) ==
  /\ limit' = l
  /\ windowMs' = w
  /\ recent' = [ip \in Ips |-> Live(recent[ip], w)]
  /\ promise' = [ip \in Ips |-> None]
  /\ UNCHANGED <<rateBuckets, before, sinceGc>>

Init ==
  /\ rateBuckets = [ip \in Ips |-> {}]
  /\ before = {}
  /\ sinceGc = GcInterval
  /\ limit = 1
  /\ windowMs = 1
  /\ recent = [ip \in Ips |-> {}]
  /\ promise = [ip \in Ips |-> None]

\* Buckets and configuration are in memory only.
Restart ==
  /\ rateBuckets' = [ip \in Ips |-> {}]
  /\ before' = {}
  /\ sinceGc' = GcInterval
  /\ limit' = 1
  /\ windowMs' = 1
  /\ recent' = [ip \in Ips |-> {}]
  /\ promise' = [ip \in Ips |-> None]

Next ==
  \/ \E ip \in Ips : Admit(ip) \/ Refuse(ip)
  \/ Tick
  \/ \E l \in 1..MaxLimit, w \in 1..MaxWindow : Configure(l, w)
  \/ Restart

Spec == Init /\ [][Next]_vars

-----------------------------------------------------------------------------
(* Properties.                                                             *)

\* The Map stays under its ceiling, whether or not garbage collection has run.
MapBounded == Cardinality(Tracked(rateBuckets)) <= MaxIps

\* No IP gets more than `limit` requests admitted in any window, whatever was
\* collected, deleted or reconfigured in between, unless the ceiling dropped it.
QuotaKept == \A ip \in Ips : Accepts(ip) => Cardinality(recent[ip]) < limit

\* Retry-After keeps its word: a refused IP is admitted once that time is over,
\* also one that went on sending while it was refused.
RetryAfterHonoured == \A ip \in Ips : promise[ip] = 0 => Accepts(ip)

\* Inductive strengthening: the hits of a bucket are numbered without gaps, the
\* newer the younger; a bucket has every recent hit, and no hit as young as an
\* outstanding promise presumes gone; insertion is a strict total order of the
\* finitely many tracked IPs.
Numbered(hits) ==
  /\ \A g, h \in hits : g.since = h.since => g = h
  /\ \A h \in hits : \A i \in 0..h.since : \E g \in hits : g.since = i /\ g.age <= h.age

Waited(ip) ==
  promise[ip] # None => \A h \in rateBuckets[ip] : h.age + promise[ip] >= windowMs

Inserted(order, s) ==
  /\ order \subseteq s \X s
  /\ \A p \in s : <<p, p>> \notin order
  /\ \A p, q \in s : p # q => <<p, q>> \in order \/ <<q, p>> \in order
  /\ \A p, q, r \in s : <<p, q>> \in order /\ <<q, r>> \in order => <<p, r>> \in order

IInv ==
  /\ TypeOK
  /\ IsFiniteSet(Tracked(rateBuckets)) /\ MapBounded
  /\ Inserted(before, Tracked(rateBuckets))
  /\ \A ip \in Ips : Numbered(rateBuckets[ip])
  /\ \A ip \in Ips : recent[ip] \subseteq Live(rateBuckets[ip], windowMs)
  /\ \A ip \in Ips : Waited(ip)
=============================================================================
