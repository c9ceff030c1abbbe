-------------------------- MODULE Idempotency_proofs --------------------------
(***************************************************************************)
(* Proofs about Idempotency: while the window of a key is open, fewer      *)
(* entries have been cached after its own than the cache holds, so its own *)
(* is never the one that makes room.                                       *)
(***************************************************************************)
EXTENDS Idempotency, FiniteSetTheorems, WellFoundedInduction, TLAPS

LEMMA Distinct == Absent \notin Entries /\ Closed \notin Windows
BY DEF Absent, Entries, Closed, Windows

LEMMA HeldEntries ==
  ASSUME TypeOK, NEW k \in Held
  PROVE  cache[k] \in Entries
BY DEF TypeOK, Held

\* A non-empty set of entries has one that is followed by the most.
LEMMA OldestExists ==
  ASSUME TypeOK, NEW S \in SUBSET Held, IsFiniteSet(S), S # {}
  PROVE  \E k \in S : \A q \in S : ~(cache[q].since > cache[k].since)
<1> DEFINE After(k) == {q \in S : cache[q].since >= cache[k].since}
           T == {After(k) : k \in S}
<1>1. IsWellFoundedOn(StrictSubsetOrdering(S), SUBSET S)
  BY FS_StrictSubsetOrderingWellFounded, FS_FiniteSubsetsOfFinite
<1>2. T \subseteq SUBSET S /\ T # {}
  OBVIOUS
<1>3. \E x \in T : \A y \in T : ~(<<y, x>> \in StrictSubsetOrdering(S))
  <2> HIDE DEF T
  <2> QED
    BY <1>1, <1>2, WFMin
<1>4. PICK k \in S : \A q \in S : ~(<<After(q), After(k)>> \in StrictSubsetOrdering(S))
  BY <1>3
<1>5. ASSUME NEW q \in S, cache[q].since > cache[k].since
      PROVE  FALSE
  <2>1. \A e \in S : cache[e].since \in Nat
    BY HeldEntries DEF Entries
  <2>2. After(q) \subseteq After(k) /\ k \in After(k) /\ k \notin After(q)
    BY <1>5, <2>1
  <2>3. <<After(q), After(k)>> \in StrictSubsetOrdering(S)
    BY <2>2 DEF StrictSubsetOrdering
  <2> QED
    BY <1>4, <2>3
<1> QED
  BY <1>5

LEMMA LiveFinite ==
  ASSUME IInv
  PROVE  /\ LiveKeys \in SUBSET Held /\ IsFiniteSet(LiveKeys)
         /\ Cardinality(LiveKeys) \in Nat /\ Cardinality(LiveKeys) <= MaxEntries
         /\ Pruned \in SUBSET LiveKeys /\ IsFiniteSet(Pruned)
<1>1. LiveKeys \in SUBSET Held /\ Pruned \in SUBSET LiveKeys
  BY DEF LiveKeys, Pruned, DropOldest
<1>2. Cardinality(Held) \in Nat
  BY FS_CardinalityType DEF IInv
<1> QED
  BY <1>1, <1>2, FS_Subset, FS_CardinalityType, IdempotencyAssumption DEF IInv, CacheBounded

\* Pruning makes room for one more entry.
LEMMA PrunedRoom ==
  ASSUME IInv
  PROVE  Cardinality(Pruned) \in Nat /\ Cardinality(Pruned) < MaxEntries
<1>0. Cardinality(Pruned) \in Nat
  BY LiveFinite, FS_CardinalityType
<1>1. CASE Cardinality(LiveKeys) >= MaxEntries
  <2>1. LiveKeys # {}
    BY <1>1, FS_EmptySet, IdempotencyAssumption
  <2>2. PICK k \in LiveKeys : \A q \in LiveKeys : ~(cache[q].since > cache[k].since)
    BY <2>1, LiveFinite, OldestExists DEF IInv
  <2>3. Pruned \subseteq LiveKeys \ {k}
    BY <1>1, <2>2 DEF Pruned, DropOldest
  <2>4. /\ IsFiniteSet(LiveKeys \ {k})
        /\ Cardinality(LiveKeys \ {k}) = Cardinality(LiveKeys) - 1
    BY LiveFinite, FS_RemoveElement
  <2>5. Cardinality(Pruned) <= Cardinality(LiveKeys) - 1
    BY <2>3, <2>4, FS_Subset
  <2> QED
    BY <1>0, <2>5, LiveFinite, IdempotencyAssumption
<1>2. CASE ~(Cardinality(LiveKeys) >= MaxEntries)
  <2>1. Pruned = LiveKeys
    BY <1>2 DEF Pruned, DropOldest
  <2> QED
    BY <1>2, <2>1, LiveFinite, IdempotencyAssumption
<1> QED
  BY <1>1, <1>2

\* The heart of it: a live entry that few enough have followed is not pruned,
\* because the entries that could be in the cache with it are no more than those.
LEMMA RecentStays ==
  ASSUME IInv, NEW k \in LiveKeys, cache[k].since + 2 <= MaxEntries
  PROVE  k \in Pruned
<1> SUFFICES ASSUME Cardinality(LiveKeys) >= MaxEntries,
                    \A q \in LiveKeys : ~(cache[q].since > cache[k].since)
             PROVE  FALSE
  BY DEF Pruned, DropOldest
<1> DEFINE n == cache[k].since
           f == [q \in LiveKeys |-> cache[q].since]
<1>1. \A q \in LiveKeys : cache[q].since \in Nat
  BY LiveFinite, HeldEntries DEF IInv, Entries
<1>2. f \in [LiveKeys -> 0..n] /\ n \in Nat
  BY <1>1
<1>3. IsFiniteSet(0..n) /\ Cardinality(0..n) = n + 1
  BY <1>2, FS_Interval
<1>4. Cardinality(0..n) < Cardinality(LiveKeys)
  BY <1>2, <1>3, LiveFinite, IdempotencyAssumption
<1>5. \E x, y \in LiveKeys : x # y /\ f[x] = f[y]
  <2> HIDE DEF f, n
  <2> QED
    BY <1>2, <1>3, <1>4, LiveFinite, FS_PigeonHole
<1> QED
  BY <1>5, LiveFinite DEF IInv, Ordered

-----------------------------------------------------------------------------
(* Steps.                                                                  *)

LEMMA InitIInv == Init => IInv
<1> SUFFICES ASSUME Init
             PROVE  IInv
  OBVIOUS
<1>1. TypeOK
  BY DEF Init, TypeOK
<1>2. Held = {}
  BY DEF Init, Held
<1>3. IsFiniteSet(Held) /\ Cardinality(Held) = 0
  BY <1>2, FS_EmptySet
<1> QED
  BY <1>1, <1>2, <1>3, IdempotencyAssumption DEF Init, IInv, Ordered, CacheBounded

\* Requests that do not run a handler leave cache, records and windows alone.
LEMMA QuietIInv ==
  ASSUME IInv, UNCHANGED <<cache, records, window>>,
         inflight' \in [Clients -> [stage : {"open", "late"}, key : Keys, body : Bodies] \cup {Idle}]
  PROVE  IInv'
BY DEF IInv, TypeOK, Ordered, CacheBounded, Held, WindowKept

LEMMA ExecuteIInv ==
  ASSUME IInv, NEW c \in Clients, Execute(c)
  PROVE  IInv'
<1> DEFINE k == inflight[c].key
           b == inflight[c].body
           new == [body |-> b, left |-> Ttl, since |-> 0]
<1>1. /\ k \in Keys /\ b \in Bodies /\ k \notin LiveKeys
      /\ inflight' \in [Clients -> [stage : {"open", "late"}, key : Keys, body : Bodies] \cup {Idle}]
  BY DEF Execute, Done, IInv, TypeOK
<1>2. /\ cache' = [q \in Keys |->
                    IF q = k THEN new
                    ELSE IF q \in Pruned THEN [cache[q] EXCEPT !.since = @ + 1] ELSE Absent]
      /\ records' = IF b \in Valid THEN records \cup {k} ELSE records
      /\ window' = [q \in Keys |-> IF q = k THEN Ran(window[q], b) ELSE Overtaken(window[q])]
  BY <1>1 DEF Execute
<1> HIDE DEF k, b
<1>3. new \in Entries
  BY <1>1, IdempotencyAssumption DEF Entries
<1>4. \A q \in Pruned : /\ q \in Held /\ q \in Keys /\ cache[q] \in Entries
                        /\ [cache[q] EXCEPT !.since = @ + 1] \in Entries
  BY LiveFinite, HeldEntries DEF IInv, Entries, Held
<1>5. Held' = Pruned \cup {k}
  BY <1>1, <1>2, <1>3, <1>4, Distinct DEF Held
<1>6. \A q \in Held' : cache'[q] = IF q = k THEN new ELSE [cache[q] EXCEPT !.since = @ + 1]
  BY <1>1, <1>2, <1>4, <1>5
<1>7. cache' \in [Keys -> Entries \cup {Absent}]
  BY <1>2, <1>3, <1>4
<1>8. k \notin Pruned
  BY <1>1, LiveFinite
<1>9. Ordered'
  <2> SUFFICES ASSUME NEW p \in Held', NEW q \in Held', cache'[p].since = cache'[q].since
               PROVE  p = q
    BY DEF Ordered
  <2>1. \A r \in Pruned : cache[r].since \in Nat /\ cache'[r].since = cache[r].since + 1
    BY <1>4, <1>5, <1>6, <1>8 DEF Entries
  <2>2. cache'[k].since = 0
    <3>1. cache'[k] = new
      BY <1>1, <1>2
    <3> QED
      BY <3>1
  <2>3. CASE p \in Pruned /\ q \in Pruned
    <3>1. cache[p].since = cache[q].since
      BY <2>1, <2>3
    <3> QED
      BY <1>4, <2>3, <3>1 DEF IInv, Ordered
  <2>4. CASE p = k \/ q = k
    BY <1>5, <2>1, <2>2, <2>4
  <2> QED
    BY <1>5, <2>3, <2>4
<1>10. IsFiniteSet(Held)' /\ CacheBounded'
  <2>1. /\ IsFiniteSet(Pruned \cup {k})
        /\ Cardinality(Pruned \cup {k}) = Cardinality(Pruned) + 1
    BY <1>8, LiveFinite, FS_AddElement
  <2>2. Cardinality(Held') <= MaxEntries
    BY <1>5, <2>1, PrunedRoom, IdempotencyAssumption
  <2> QED
    BY <1>5, <2>1, <2>2 DEF CacheBounded
<1>11. ASSUME NEW q \in Keys
       PROVE  window'[q] \in Windows \cup {Closed} /\ (window'[q] # Closed => WindowKept(q)')
  <2>0. window[q] \in Windows \cup {Closed} /\ (window[q] # Closed => WindowKept(q))
    BY DEF IInv, TypeOK
  <2>1. CASE q = k
    <3>1. window'[q] = Ran(window[q], b) /\ cache'[q] = new /\ q \in Held'
      BY <1>1, <1>2, <1>5, <2>1
    <3>2. CASE window[q] = Closed
      BY <1>1, <3>1, <3>2, IdempotencyAssumption DEF Ran, Windows, WindowKept
    <3>3. CASE window[q] # Closed
      <4>1. window[q] \in Windows /\ WindowKept(q)
        BY <2>0, <3>3
      <4>2. window[q].by # "this"
        <5>1. SUFFICES ASSUME window[q].by = "this"
                       PROVE  q \in LiveKeys
          BY <1>1, <2>1
        <5>2. q \in Held /\ cache[q].left + window[q].age >= Ttl /\ cache[q] \in Entries
          BY <4>1, <5>1, HeldEntries DEF WindowKept, IInv
        <5> QED
          BY <4>1, <5>2, IdempotencyAssumption DEF LiveKeys, Windows, Entries
      <4>3. window'[q] = [window[q] EXCEPT !.body = b, !.runs = @ + 1, !.by = "this"]
        BY <3>1, <3>3 DEF Ran
      <4>4. window[q].runs <= window[q].restarts
        BY <4>1, <4>2 DEF WindowKept, Windows
      <4>5. window'[q] \in Windows
        <5>1. window[q].runs + 1 \in 1..MaxRestarts + 2
          BY <4>1, <4>4, IdempotencyAssumption DEF Windows
        <5> QED
          BY <1>1, <4>1, <4>3, <5>1 DEF Windows
      <4>6. /\ window'[q].runs = window[q].runs + 1 /\ window'[q].restarts = window[q].restarts
            /\ window'[q].by = "this" /\ window'[q].body = b /\ window'[q].age = window[q].age
            /\ window'[q].others = window[q].others
        BY <4>1, <4>3 DEF Windows
      <4>7. window'[q].runs <= window'[q].restarts + 1
        BY <4>1, <4>4, <4>6, IdempotencyAssumption DEF Windows
      <4>8. /\ cache'[q].body = b /\ cache'[q].left = Ttl /\ cache'[q].since = 0
            /\ window[q].age \in Nat /\ window[q].others \in Nat
        BY <3>1, <4>1, IdempotencyAssumption DEF Windows
      <4> QED
        BY <3>1, <4>5, <4>6, <4>7, <4>8, IdempotencyAssumption DEF WindowKept
    <3> QED
      BY <3>2, <3>3
  <2>2. CASE q # k
    <3>1. window'[q] = Overtaken(window[q])
      BY <1>2, <2>2
    <3>2. CASE window[q] = Closed \/ window[q].others + 1 = MaxEntries
      BY <3>1, <3>2 DEF Overtaken
    <3>3. CASE ~(window[q] = Closed \/ window[q].others + 1 = MaxEntries)
      <4>1. window[q] \in Windows /\ WindowKept(q) /\ window'[q] = [window[q] EXCEPT !.others = @ + 1]
        BY <2>0, <3>1, <3>3 DEF Overtaken
      <4>2. /\ window'[q] \in Windows
            /\ window'[q].others = window[q].others + 1 /\ window'[q].age = window[q].age
            /\ window'[q].body = window[q].body /\ window'[q].runs = window[q].runs
            /\ window'[q].restarts = window[q].restarts /\ window'[q].by = window[q].by
            /\ window[q].others + 2 <= MaxEntries /\ window[q].others \in Nat
        BY <3>3, <4>1, IdempotencyAssumption DEF Windows
      <4>3. ASSUME window[q].by = "this"
            PROVE  /\ q \in Held' /\ cache'[q].body = cache[q].body
                   /\ cache'[q].left = cache[q].left /\ cache'[q].since <= window'[q].others
        <5>1. /\ q \in Held /\ cache[q] \in Entries
              /\ cache[q].left + window[q].age >= Ttl /\ cache[q].since <= window[q].others
          BY <4>1, <4>3, HeldEntries DEF WindowKept, IInv
        <5>2. q \in LiveKeys
          BY <4>1, <5>1, IdempotencyAssumption DEF LiveKeys, Windows, Entries
        <5>3. cache[q].since + 2 <= MaxEntries
          BY <4>2, <5>1, IdempotencyAssumption DEF Entries
        <5>4. q \in Pruned
          BY <5>2, <5>3, RecentStays
        <5>5. q \in Held' /\ cache'[q] = [cache[q] EXCEPT !.since = @ + 1]
          BY <1>5, <1>6, <2>2, <5>4
        <5> QED
          BY <4>2, <5>1, <5>5 DEF Entries
      <4> QED
        BY <4>1, <4>2, <4>3 DEF WindowKept
    <3> QED
      BY <3>2, <3>3
  <2> QED
    BY <2>1, <2>2
<1>12. ASSUME NEW q \in Held', cache'[q].body \in Valid
       PROVE  q \in records'
  <2>1. CASE q = k
    <3>1. cache'[q] = new
      BY <1>1, <1>2, <2>1
    <3>2. b \in Valid
      BY <1>12, <3>1
    <3> QED
      BY <1>2, <2>1, <3>2
  <2>2. CASE q # k
    <3>1. q \in Held /\ cache'[q].body = cache[q].body
      BY <1>4, <1>5, <1>6, <2>2 DEF Entries
    <3> QED
      BY <1>2, <1>12, <3>1 DEF IInv
  <2> QED
    BY <2>1, <2>2
<1>13. records' \in SUBSET Keys /\ window' \in [Keys -> Windows \cup {Closed}]
  BY <1>1, <1>2, <1>11 DEF IInv, TypeOK
<1> QED
  BY <1>1, <1>7, <1>9, <1>10, <1>11, <1>12, <1>13 DEF IInv, TypeOK

LEMMA TickIInv ==
  ASSUME IInv, Tick
  PROVE  IInv'
<1>1. ASSUME NEW k \in Held
      PROVE  /\ cache[k] \in Entries /\ cache'[k] \in Entries
             /\ cache'[k].since = cache[k].since /\ cache'[k].body = cache[k].body
             /\ cache'[k].left + 1 >= cache[k].left
  <2>1. cache[k] \in Entries /\ cache[k] # Absent /\ k \in Keys
    BY HeldEntries DEF IInv, Held
  <2>2. cache'[k] = [cache[k] EXCEPT !.left = IF @ > 0 THEN @ - 1 ELSE 0]
    BY <2>1 DEF Tick, Older
  <2> QED
    BY <2>1, <2>2, IdempotencyAssumption DEF Entries
<1>2. \A k \in Keys \ Held : cache'[k] = Absent
  BY DEF Tick, Older, Held
<1>3. Held' = Held
  BY <1>1, <1>2, Distinct DEF Held, Tick
<1>4. cache' \in [Keys -> Entries \cup {Absent}]
  BY <1>1, <1>2 DEF Tick, Held
<1>5. Ordered' /\ IsFiniteSet(Held)' /\ CacheBounded'
  BY <1>1, <1>3 DEF IInv, Ordered, CacheBounded
<1>6. ASSUME NEW k \in Keys
      PROVE  window'[k] \in Windows \cup {Closed} /\ (window'[k] # Closed => WindowKept(k)')
  <2>0. window[k] \in Windows \cup {Closed} /\ (window[k] # Closed => WindowKept(k))
    BY DEF IInv, TypeOK
  <2>1. window'[k] = Aged(window[k])
    BY DEF Tick
  <2>2. CASE window[k] = Closed \/ window[k].age + 1 = Ttl
    BY <2>1, <2>2 DEF Aged
  <2>3. CASE ~(window[k] = Closed \/ window[k].age + 1 = Ttl)
    <3>1. window[k] \in Windows /\ WindowKept(k) /\ window'[k] = [window[k] EXCEPT !.age = @ + 1]
      BY <2>0, <2>1, <2>3 DEF Aged
    <3>2. /\ window'[k] \in Windows /\ window[k].age \in Nat
          /\ window'[k].others = window[k].others /\ window'[k].age = window[k].age + 1
          /\ window'[k].body = window[k].body /\ window'[k].runs = window[k].runs
          /\ window'[k].restarts = window[k].restarts /\ window'[k].by = window[k].by
      BY <2>3, <3>1, IdempotencyAssumption DEF Windows
    <3>3. ASSUME window[k].by = "this"
          PROVE  /\ k \in Held' /\ cache'[k].body = window[k].body
                 /\ cache'[k].since <= window[k].others
                 /\ cache'[k].left + window'[k].age >= Ttl
      <4>1. /\ k \in Held /\ cache[k].body = window[k].body
            /\ cache[k].left + window[k].age >= Ttl /\ cache[k].since <= window[k].others
        BY <3>1, <3>3 DEF WindowKept
      <4> QED
        BY <1>1, <1>3, <3>2, <4>1, IdempotencyAssumption DEF Entries
    <3> QED
      BY <3>1, <3>2, <3>3 DEF WindowKept
  <2> QED
    BY <2>2, <2>3
<1>7. window' \in [Keys -> Windows \cup {Closed}] /\ inflight' = inflight /\ records' = records
  BY <1>6 DEF Tick
<1> QED
  BY <1>1, <1>3, <1>4, <1>5, <1>6, <1>7 DEF IInv, TypeOK

LEMMA RestartIInv ==
  ASSUME IInv, Restart
  PROVE  IInv'
<1>1. Held' = {}
  BY DEF Restart, Held
<1>2. IsFiniteSet(Held)' /\ CacheBounded'
  BY <1>1, FS_EmptySet, IdempotencyAssumption DEF CacheBounded
<1>3. ASSUME NEW k \in Keys
      PROVE  window'[k] \in Windows \cup {Closed} /\ (window'[k] # Closed => WindowKept(k)')
  <2>0. window[k] \in Windows \cup {Closed} /\ (window[k] # Closed => WindowKept(k))
    BY DEF IInv, TypeOK
  <2>1. window'[k] = Outlived(window[k])
    BY DEF Restart
  <2>2. CASE window[k] = Closed \/ window[k].restarts = MaxRestarts
    BY <2>1, <2>2 DEF Outlived
  <2>3. CASE ~(window[k] = Closed \/ window[k].restarts = MaxRestarts)
    <3>1. /\ window[k] \in Windows /\ WindowKept(k)
          /\ window'[k] = [window[k] EXCEPT !.restarts = @ + 1, !.by = "earlier"]
      BY <2>0, <2>1, <2>3 DEF Outlived
    <3>2. /\ window'[k] \in Windows /\ window'[k].by = "earlier"
          /\ window'[k].runs = window[k].runs /\ window'[k].restarts = window[k].restarts + 1
      <4>1. window[k].restarts + 1 \in 0..MaxRestarts
        BY <2>3, <3>1, IdempotencyAssumption DEF Windows
      <4>2. window'[k] \in Windows
        BY <3>1, <4>1 DEF Windows
      <4>3. window'[k].runs = window[k].runs /\ window'[k].by = "earlier"
        BY <3>1 DEF Windows
      <4>4. window'[k].restarts = window[k].restarts + 1
        BY <3>1 DEF Windows
      <4> QED
        BY <4>2, <4>3, <4>4
    <3>3. window[k].runs <= window[k].restarts + 1
      BY <3>1, IdempotencyAssumption DEF WindowKept, Windows
    <3> QED
      BY <3>1, <3>2, <3>3, IdempotencyAssumption DEF WindowKept, Windows
  <2> QED
    BY <2>2, <2>3
<1>4. TypeOK'
  BY <1>3 DEF IInv, TypeOK, Restart
<1> QED
  BY <1>1, <1>2, <1>3, <1>4 DEF IInv, Ordered

LEMMA StepIInv == IInv /\ [Next]_vars => IInv'
<1> SUFFICES ASSUME IInv, [Next]_vars
             PROVE  IInv'
  OBVIOUS
<1>1. ASSUME NEW c \in Clients, NEW k \in Keys, NEW b \in Bodies, Send(c, k, b)
      PROVE  IInv'
  <2>1. [stage |-> "open", key |-> k, body |-> b] \in [stage : {"open", "late"}, key : Keys, body : Bodies]
    OBVIOUS
  <2> QED
    BY <1>1, <2>1, QuietIInv DEF Send, IInv, TypeOK
<1>2. ASSUME NEW c \in Clients, Timeout(c)
      PROVE  IInv'
  <2>1. inflight[c] # Idle /\ inflight[c] \in [stage : {"open", "late"}, key : Keys, body : Bodies]
    BY <1>2 DEF Timeout, Idle, IInv, TypeOK
  <2> QED
    BY <1>2, <2>1, QuietIInv DEF Timeout, IInv, TypeOK
<1>3. ASSUME NEW c \in Clients, Abort(c) \/ Conflict(c) \/ Replay(c)
      PROVE  IInv'
  BY <1>3, QuietIInv DEF Abort, Conflict, Replay, Done, IInv, TypeOK
<1>4. ASSUME NEW c \in Clients, Execute(c)
      PROVE  IInv'
  BY <1>4, ExecuteIInv
<1>5. CASE Tick
  BY <1>5, TickIInv
<1>6. CASE Restart
  BY <1>6, RestartIInv
<1>7. CASE UNCHANGED vars
  BY <1>7, QuietIInv DEF vars, IInv, TypeOK
<1> QED
  BY <1>1, <1>2, <1>3, <1>4, <1>5, <1>6, <1>7 DEF Next

THEOREM Inductive == Spec => []IInv
BY InitIInv, StepIInv, PTL DEF Spec

\* Types, for any number of clients, keys and entries.
THEOREM TypeCorrect == Spec => []TypeOK
<1>1. IInv => TypeOK
  BY DEF IInv
<1> QED
  BY <1>1, Inductive, PTL

\* A keyed create runs once within its window, and once more at most per restart;
\* a repeat finds its answer (index.ts:555-668).
THEOREM RetriesAreSafe == Spec => []SafeRetry
<1>1. ASSUME IInv, NEW k \in Keys, window[k] # Closed
      PROVE  /\ window[k].runs <= 1 + window[k].restarts
             /\ window[k].by = "this" => Cached(k, window[k].body)
  <2>1. window[k] \in Windows /\ WindowKept(k)
    BY <1>1 DEF IInv, TypeOK
  <2>2. window[k].runs <= 1 + window[k].restarts
    BY <2>1, IdempotencyAssumption DEF WindowKept, Windows
  <2>3. ASSUME window[k].by = "this"
        PROVE  Cached(k, window[k].body)
    <3>1. k \in Held /\ cache[k] \in Entries /\ cache[k].left + window[k].age >= Ttl
      BY <1>1, <2>1, <2>3, HeldEntries DEF WindowKept, IInv
    <3> QED
      BY <2>1, <2>3, <3>1, IdempotencyAssumption DEF Cached, LiveKeys, WindowKept, Windows, Entries
  <2> QED
    BY <2>2, <2>3
<1>2. IInv => SafeRetry
  BY <1>1 DEF SafeRetry
<1> QED
  BY <1>2, Inductive, PTL

\* No replay vouches for a record that a restart undid (index.ts:555).
THEOREM ReplaysAreBacked == Spec => []ReplayIsBacked
<1>1. IInv => ReplayIsBacked
  BY DEF IInv, ReplayIsBacked, Cached, LiveKeys
<1> QED
  BY <1>1, Inductive, PTL

\* The cache never holds more than its maximum (index.ts:571-580).
THEOREM CacheStaysBounded == Spec => []CacheBounded
<1>1. IInv => CacheBounded
  BY DEF IInv
<1> QED
  BY <1>1, Inductive, PTL
=============================================================================
