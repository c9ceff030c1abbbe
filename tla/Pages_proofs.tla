----------------------------- MODULE Pages_proofs -----------------------------
(***************************************************************************)
(* Proofs about Pages: an event that is owed to a client stands at or      *)
(* beyond the offset of the next page, because recording pushes it further *)
(* out and eviction takes only older ones.                                 *)
(***************************************************************************)
EXTENDS Pages, FiniteSetTheorems, SequenceTheorems, WellFoundedInduction, TLAPS

\* A non-empty set of events has an oldest one.
LEMMA OldestExists ==
  ASSUME NEW l \in SUBSET Events, IsFiniteSet(l), l # {}
  PROVE  \E e \in l : \A f \in l : e.id <= f.id
<1> DEFINE UpTo(e) == {f \in l : f.id <= e.id}
           T == {UpTo(e) : e \in l}
<1>1. IsWellFoundedOn(StrictSubsetOrdering(l), SUBSET l)
  BY FS_StrictSubsetOrderingWellFounded, FS_FiniteSubsetsOfFinite
<1>2. T \subseteq SUBSET l /\ T # {}
  OBVIOUS
<1>3. \E x \in T : \A y \in T : ~(<<y, x>> \in StrictSubsetOrdering(l))
  <2> HIDE DEF T
  <2> QED
    BY <1>1, <1>2, WFMin
<1>4. PICK e \in l : \A f \in l : ~(<<UpTo(f), UpTo(e)>> \in StrictSubsetOrdering(l))
  BY <1>3
<1>5. ASSUME NEW f \in l, ~(e.id <= f.id)
      PROVE  FALSE
  <2>1. e.id \in Nat /\ f.id \in Nat /\ \A g \in l : g.id \in Nat
    BY ConfigAssumption DEF Events
  <2>2. UpTo(f) \subseteq UpTo(e) /\ e \in UpTo(e) /\ e \notin UpTo(f)
    BY <1>5, <2>1
  <2>3. <<UpTo(f), UpTo(e)>> \in StrictSubsetOrdering(l)
    BY <2>2 DEF StrictSubsetOrdering
  <2> QED
    BY <1>4, <2>3
<1> QED
  BY <1>5

\* Ranks are counts, and a longer list of newer entries gives a greater one.
LEMMA RankIsCount ==
  ASSUME NEW l, IsFiniteSet(l), NEW e
  PROVE  IsFiniteSet(From(l, e)) /\ Rank(l, e) \in Nat /\ Rank(l, e) <= Cardinality(l)
BY FS_Subset, FS_CardinalityType DEF From, Rank

LEMMA RankMonotone ==
  ASSUME NEW l, IsFiniteSet(l), NEW m, IsFiniteSet(m), NEW d, NEW e,
         From(l, d) \subseteq From(m, e)
  PROVE  Rank(l, d) <= Rank(m, e)
BY RankIsCount, FS_Subset DEF Rank

\* m keeps every entry of l that is newer than one that both have.
KeepsNewer(l, m) == \A e \in l \cap m, f \in l : f.id >= e.id => f \in m

\* What is newer than a kept entry is kept too: an entry's place in a filtered
\* list only moves away from the newest end.
LEMMA PlaceMovesOut ==
  ASSUME NEW l, IsFiniteSet(l), NEW m, IsFiniteSet(m), KeepsNewer(l, m),
         NEW q, NEW e \in View(l, q), e \in m
  PROVE  e \in View(m, q) /\ Rank(View(l, q), e) <= Rank(View(m, q), e)
<1>1. e \in View(m, q)
  BY DEF View
<1>2. IsFiniteSet(View(l, q)) /\ IsFiniteSet(View(m, q))
  BY FS_Subset DEF View
<1>3. From(View(l, q), e) \subseteq From(View(m, q), e)
  BY DEF From, View, KeepsNewer
<1> QED
  BY <1>1, <1>2, <1>3, RankMonotone

LEMMA NewestKeepsNewer ==
  ASSUME NEW l \in SUBSET Events, IsFiniteSet(l), NEW n \in Nat
  PROVE  /\ Newest(l, n) \subseteq l /\ IsFiniteSet(Newest(l, n))
         /\ KeepsNewer(l, Newest(l, n))
         /\ Cardinality(Newest(l, n)) <= n
<1>1. Newest(l, n) \subseteq l /\ IsFiniteSet(Newest(l, n))
  BY FS_Subset DEF Newest
<1>2. ASSUME NEW e \in l, e \in Newest(l, n), NEW f \in l, f.id >= e.id
      PROVE  f \in Newest(l, n)
  <2>1. From(l, f) \subseteq From(l, e)
    BY <1>2, ConfigAssumption DEF From, Events
  <2>2. Rank(l, f) <= Rank(l, e) /\ Rank(l, f) \in Nat /\ Rank(l, e) \in Nat
    BY <2>1, RankMonotone, RankIsCount
  <2> QED
    BY <1>2, <2>2 DEF Newest
<1>3. Cardinality(Newest(l, n)) <= n
  <2>1. CASE Newest(l, n) = {}
    BY <2>1, FS_EmptySet
  <2>2. CASE Newest(l, n) # {}
    <3>1. PICK e \in Newest(l, n) : \A f \in Newest(l, n) : e.id <= f.id
      BY <1>1, <2>2, OldestExists
    <3>2. Newest(l, n) \subseteq From(l, e)
      BY <1>1, <3>1, ConfigAssumption DEF From, Events
    <3>3. Cardinality(Newest(l, n)) <= Rank(l, e) /\ Rank(l, e) <= n
      BY <3>1, <3>2, RankIsCount, FS_Subset DEF Rank, Newest
    <3>4. Rank(l, e) \in Nat /\ Cardinality(Newest(l, n)) \in Nat
      BY <1>1, RankIsCount, FS_CardinalityType
    <3> QED
      BY <3>3, <3>4
  <2> QED
    BY <2>1, <2>2
<1> QED
  BY <1>1, <1>2, <1>3 DEF KeepsNewer

LEMMA PushKeepsNewer ==
  ASSUME NEW l \in SUBSET Events, IsFiniteSet(l), NEW e \in Events, NEW m,
         LET grown == l \cup {e}
         IN  m = grown \/ m = {f \in grown : \E g \in grown : g.id < f.id}
  PROVE  m \in SUBSET Events /\ IsFiniteSet(m) /\ KeepsNewer(l, m)
<1>1. l \cup {e} \in SUBSET Events /\ IsFiniteSet(l \cup {e})
  BY FS_AddElement
<1>2. m \subseteq l \cup {e} /\ IsFiniteSet(m)
  BY <1>1, FS_Subset
<1>3. ASSUME NEW c \in l \cap m, NEW f \in l, f.id >= c.id
      PROVE  f \in m
  <2>1. c.id \in Nat /\ f.id \in Nat /\ \A g \in l \cup {e} : g.id \in Nat
    BY ConfigAssumption, <1>1 DEF Events
  <2> QED
    BY <1>3, <2>1
<1> QED
  BY <1>1, <1>2, <1>3 DEF KeepsNewer

\* An eviction takes at least one entry, so a push never makes a log that is over
\* its cap any longer.
LEMMA PushBounded ==
  ASSUME NEW l \in SUBSET Events, IsFiniteSet(l), NEW e \in Events, NEW n \in Nat
  PROVE  LET grown == l \cup {e}
             m == IF Cardinality(grown) > n THEN {f \in grown : \E g \in grown : g.id < f.id} ELSE grown
         IN  Cardinality(m) > n => Cardinality(m) <= Cardinality(l)
<1> DEFINE grown == l \cup {e}
           rest == {f \in grown : \E g \in grown : g.id < f.id}
<1>1. /\ grown \in SUBSET Events /\ IsFiniteSet(grown) /\ grown # {}
      /\ Cardinality(grown) \in Nat /\ Cardinality(l) \in Nat
      /\ Cardinality(grown) <= Cardinality(l) + 1
  <2>1. /\ IsFiniteSet(l \cup {e})
        /\ Cardinality(l \cup {e}) = IF e \in l THEN Cardinality(l) ELSE Cardinality(l) + 1
    BY FS_AddElement
  <2>2. Cardinality(l) \in Nat /\ Cardinality(l \cup {e}) \in Nat
    BY <2>1, FS_CardinalityType
  <2> QED
    BY <2>1, <2>2
<1>2. PICK o \in grown : \A f \in grown : o.id <= f.id
  <2> HIDE DEF grown
  <2> QED
    BY <1>1, OldestExists
<1>3. rest \subseteq grown \ {o}
  BY <1>1, <1>2, ConfigAssumption DEF Events
<1>4. IsFiniteSet(grown \ {o}) /\ Cardinality(grown \ {o}) = Cardinality(grown) - 1
  <2> HIDE DEF grown
  <2> QED
    BY <1>1, <1>2, FS_RemoveElement
<1>5. Cardinality(rest) <= Cardinality(grown) - 1 /\ Cardinality(rest) \in Nat
  <2> HIDE DEF grown, rest
  <2> QED
    BY <1>3, <1>4, FS_Subset, FS_CardinalityType
<1> HIDE DEF grown, rest
<1>6. Cardinality(rest) <= Cardinality(l)
  BY <1>1, <1>5
<1>7. LET m == IF Cardinality(grown) > n THEN rest ELSE grown
      IN  Cardinality(m) > n => Cardinality(m) <= Cardinality(l)
  BY <1>1, <1>6
<1> QED
  BY <1>7 DEF grown, rest

\* Every change of the log keeps what is newer than what it keeps.
LEMMA RecordKeepsNewer ==
  ASSUME LogTypeOK, IsFiniteSet(log), NEW t \in Types, Record(t)
  PROVE  log' \in SUBSET Events /\ IsFiniteSet(log') /\ KeepsNewer(log, log')
<1>1. PICK n \in 1..MaxEvents : log' = PushAndShift([id |-> n, type |-> t])
  BY DEF Record
<1>2. [id |-> n, type |-> t] \in Events
  BY DEF Events
<1>3. log \in SUBSET Events
  BY DEF LogTypeOK
<1> QED
  BY <1>1, <1>2, <1>3, PushKeepsNewer DEF PushAndShift

LEMMA AppliedAcceptable ==
  ASSUME NEW b \in Bodies, NEW k \in Applied(b)
  PROVE  k \in ConfigKeys /\ b[k] \in Nat /\ 0 < b[k] /\ b[k] <= Ceiling[k]
<1>1. PICK i \in 1..6 : k = Allowed[i] /\ Allowed[i] \in DOMAIN b /\ \A h \in BadAt(b) : i < h
  BY DEF Applied
<1>2. i \notin BadAt(b)
  BY <1>1
<1>3. k \in ConfigKeys
  BY <1>1 DEF ConfigKeys
<1>4. Acceptable(k, b[k])
  BY <1>1, <1>2 DEF BadAt
<1> QED
  BY <1>1, <1>3, <1>4, ConfigAssumption DEF Acceptable

LEMMA PatchKeepsNewer ==
  ASSUME LogTypeOK, IsFiniteSet(log), NEW b \in Bodies, PatchConfig(b)
  PROVE  LogTypeOK' /\ IsFiniteSet(log') /\ KeepsNewer(log, log')
<1>1. config' \in Configs
  BY AppliedAcceptable, ConfigAssumption DEF PatchConfig, LogTypeOK, Configs
<1>2. answer' \in {"none", "accepted", "refused"}
  BY DEF PatchConfig
<1>3. log' \in SUBSET Events /\ IsFiniteSet(log') /\ KeepsNewer(log, log')
  <2>1. CASE "eventLogCap" \in Applied(b)
    <3>1. b["eventLogCap"] \in Nat /\ log' = Newest(log, b["eventLogCap"])
      BY <2>1, AppliedAcceptable DEF PatchConfig, Trimmed
    <3> QED
      BY <3>1, NewestKeepsNewer DEF LogTypeOK
  <2>2. CASE "eventLogCap" \notin Applied(b)
    BY <2>2 DEF PatchConfig, Trimmed, KeepsNewer, LogTypeOK
  <2> QED
    BY <2>1, <2>2
<1> QED
  BY <1>1, <1>2, <1>3 DEF LogTypeOK

-----------------------------------------------------------------------------
(* The inductive invariant.                                                *)

LEMMA InitIInv == Init => IInv
<1> SUFFICES ASSUME Init
             PROVE  IInv
  OBVIOUS
<1>1. PICK n \in 0..MaxEvents : \E s \in [1..n -> Types] : log = {[id |-> i, type |-> s[i]] : i \in 1..n}
  BY DEF Init, InitLog
<1>2. PICK s \in [1..n -> Types] : log = {[id |-> i, type |-> s[i]] : i \in 1..n}
  BY <1>1
<1>3. log \in SUBSET Events
  BY <1>1, <1>2, ConfigAssumption DEF Events
<1>4. IsFiniteSet(log)
  <2>1. IsFiniteSet(1..n)
    BY FS_Interval
  <2> DEFINE f == [i \in 1..n |-> [id |-> i, type |-> s[i]]]
  <2>2. f \in Surjection(1..n, log)
    BY <1>2 DEF Surjection
  <2> HIDE DEF f
  <2> QED
    BY <2>1, <2>2, FS_Surjection
<1> QED
  BY <1>3, <1>4, ConfigAssumption DEF Init, InitLog, InitHooks, IInv, LogTypeOK, NoEventMissed, OwedAhead

\* The walk is left alone by whoever changes the lists.
LEMMA ForgetIInv ==
  ASSUME IInv, LogTypeOK', IsFiniteSet(log'), KeepsNewer(log, log'), Forget
  PROVE  IInv'
<1>1. query' \in Queries /\ cursor' \in Nat /\ owed' \in SUBSET log' /\ NoEventMissed'
  BY DEF IInv, Forget, NoEventMissed
<1>2. ASSUME walking' = "events", NEW e \in owed'
      PROVE  e \in View(log', query') /\ Rank(View(log', query'), e) > cursor'
  <2>1. e \in View(log, query) /\ Rank(View(log, query), e) > cursor /\ e \in log'
    BY <1>2 DEF IInv, OwedAhead, Forget
  <2>2. e \in View(log', query) /\ Rank(View(log, query), e) <= Rank(View(log', query), e)
    BY <2>1, PlaceMovesOut DEF IInv
  <2>3. /\ Rank(View(log, query), e) \in Nat /\ Rank(View(log', query), e) \in Nat
        /\ cursor \in Nat
    BY RankIsCount, FS_Subset DEF IInv, View
  <2> QED
    BY <2>1, <2>2, <2>3 DEF Forget
<1> QED
  BY <1>1, <1>2 DEF IInv, OwedAhead

LEMMA ReadEventsIInv ==
  ASSUME IInv, NEW q \in Queries, NEW offset \in Nat, NEW due \in SUBSET View(log, q),
         \A e \in due : Rank(View(log, q), e) > offset,
         ReadEvents(q, offset, due), Read
  PROVE  IInv'
<1> DEFINE limit == Clamp(q.limit)
           size == Cardinality(View(log, q))
<1>1. limit \in Nat \ {0}
  BY PagesAssumption DEF Clamp
<1>2. IsFiniteSet(View(log, q)) /\ size \in Nat
  BY FS_Subset, FS_CardinalityType DEF IInv, View
<1>3. LogTypeOK' /\ IsFiniteSet(log') /\ log' = log
  BY DEF IInv, Read, LogTypeOK
<1>4. query' = q /\ owed' = due \ EventPage(q, offset, limit)
  BY DEF ReadEvents
<1>5. owed' \in SUBSET log'
  BY <1>3, <1>4 DEF View
<1>6. walking' = (IF offset + limit < size THEN "events" ELSE "no")
      /\ cursor' = IF offset + limit < size THEN offset + limit ELSE 0
  BY DEF ReadEvents, Advance
<1>7. ASSUME NEW e \in owed'
      PROVE  /\ e \in View(log, q) /\ Rank(View(log, q), e) > offset + limit
             /\ Rank(View(log, q), e) <= size
  <2>1. e \in View(log, q) /\ Rank(View(log, q), e) > offset /\ e \notin EventPage(q, offset, limit)
    BY <1>4, <1>7
  <2>2. Rank(View(log, q), e) \in Nat /\ Rank(View(log, q), e) <= size
    BY <1>2, RankIsCount
  <2> HIDE DEF limit
  <2> QED
    BY <1>1, <2>1, <2>2 DEF EventPage
<1> HIDE DEF limit, size
<1>8. cursor' \in Nat
  BY <1>1, <1>6
<1>9. NoEventMissed'
  <2>1. ASSUME walking' # "events", NEW e \in owed'
        PROVE  FALSE
    <3>1. Rank(View(log, q), e) \in Nat
      BY <1>2, RankIsCount
    <3> QED
      BY <1>1, <1>2, <1>6, <1>7, <2>1, <3>1
  <2> QED
    BY <2>1 DEF NoEventMissed
<1>10. OwedAhead'
  BY <1>3, <1>4, <1>6, <1>7 DEF OwedAhead
<1> QED
  BY <1>3, <1>4, <1>5, <1>8, <1>9, <1>10 DEF IInv

\* Pages of the other list leave the walk through the events where it was: none.
LEMMA ReadHooksIInv ==
  ASSUME IInv, NEW q \in Queries, NEW offset \in Nat, NEW given,
         walking # "events", ReadHooks(q, offset, given), Read
  PROVE  IInv'
<1>1. Clamp(q.limit) \in Nat
  BY PagesAssumption DEF Clamp
<1>2. cursor' \in Nat /\ walking' # "events" /\ query' = q /\ owed' = {}
  BY <1>1 DEF ReadHooks, Advance, IInv, NoEventMissed
<1> QED
  BY <1>2 DEF IInv, Read, LogTypeOK, NoEventMissed, OwedAhead

LEMMA StepIInv == IInv /\ [Next]_vars => IInv'
<1> SUFFICES ASSUME IInv, [Next]_vars
             PROVE  IInv'
  OBVIOUS
<1>1. ASSUME NEW t \in Types, Post(t)
      PROVE  IInv'
  <2>1. Record(t) /\ Forget /\ config' = config /\ answer' = "none"
    BY <1>1 DEF Post
  <2>2. log' \in SUBSET Events /\ IsFiniteSet(log') /\ KeepsNewer(log, log')
    BY <2>1, RecordKeepsNewer DEF IInv
  <2> QED
    BY <2>1, <2>2, ForgetIInv DEF IInv, LogTypeOK
<1>2. ASSUME NEW b \in Bodies, Patch(b)
      PROVE  IInv'
  BY <1>2, PatchKeepsNewer, ForgetIInv DEF IInv, Patch
<1>3. ASSUME NEW v \in Subscriptions, Create(v)
      PROVE  IInv'
  <2>1. Record("webhook.created") /\ Forget /\ config' = config /\ answer' = "none"
    BY <1>3 DEF Create, CreateWebhook
  <2>2. log' \in SUBSET Events /\ IsFiniteSet(log') /\ KeepsNewer(log, log')
    BY <2>1, RecordKeepsNewer, HookAssumption DEF IInv
  <2> QED
    BY <2>1, <2>2, ForgetIInv DEF IInv, LogTypeOK
<1>4. ASSUME NEW id \in 1..MaxHooks, NEW v \in Subscriptions, Update(id, v)
      PROVE  IInv'
  <2>1. Forget /\ config' = config /\ answer' = "none" /\ log' = log
    BY <1>4 DEF Update, PatchWebhook
  <2>2. KeepsNewer(log, log')
    BY <2>1 DEF KeepsNewer
  <2> QED
    BY <2>1, <2>2, ForgetIInv DEF IInv, LogTypeOK
<1>5. ASSUME NEW id \in 1..MaxHooks, Delete(id)
      PROVE  IInv'
  <2>1. Record("webhook.deleted") /\ Forget /\ config' = config /\ answer' = "none"
    BY <1>5 DEF Delete, DeleteWebhook
  <2>2. log' \in SUBSET Events /\ IsFiniteSet(log') /\ KeepsNewer(log, log')
    BY <2>1, RecordKeepsNewer, HookAssumption DEF IInv
  <2> QED
    BY <2>1, <2>2, ForgetIInv DEF IInv, LogTypeOK
<1>6. ASSUME NEW q \in Queries, FirstEvents(q)
      PROVE  IInv'
  <2>1. \A e \in View(log, q) : Rank(View(log, q), e) > 0
    <3> SUFFICES ASSUME NEW e \in View(log, q)
                 PROVE  Rank(View(log, q), e) > 0
      OBVIOUS
    <3>1. e \in From(View(log, q), e)
      BY ConfigAssumption DEF From, View, IInv, LogTypeOK, Events
    <3>2. IsFiniteSet(View(log, q))
      BY FS_Subset DEF View, IInv
    <3> QED
      BY <3>1, <3>2, RankIsCount, FS_EmptySet DEF Rank
  <2> QED
    BY <1>6, <2>1, ReadEventsIInv DEF FirstEvents
<1>7. ASSUME NextEvents
      PROVE  IInv'
  BY <1>7, ReadEventsIInv DEF NextEvents, IInv, OwedAhead
<1>8. ASSUME NEW q \in Queries, FirstHooks(q)
      PROVE  IInv'
  BY <1>8, ReadHooksIInv DEF FirstHooks
<1>9. ASSUME NextHooks
      PROVE  IInv'
  BY <1>9, ReadHooksIInv DEF NextHooks, IInv
<1>10. CASE UNCHANGED vars
  BY <1>10 DEF vars, walk, IInv, LogTypeOK, NoEventMissed, OwedAhead
<1> QED
  BY <1>1, <1>2, <1>3, <1>4, <1>5, <1>6, <1>7, <1>8, <1>9, <1>10 DEF Next

THEOREM Inductive == Spec => []IInv
BY InitIInv, StepIInv, PTL DEF Spec

\* Whatever is recorded, evicted or trimmed while a client pages through the
\* events, the last page leaves nothing out (index.ts:1263, stores.ts:302).
THEOREM PagesMissNothing == Spec => []NoEventMissed
<1>1. IInv => NoEventMissed
  BY DEF IInv
<1> QED
  BY <1>1, Inductive, PTL

\* What a step does to the log, with respect to its cap.
Enforced ==
  /\ config'["eventLogCap"] # config["eventLogCap"] => Cardinality(log') <= config'["eventLogCap"]
  /\ Cardinality(log') > config'["eventLogCap"] => Cardinality(log') <= Cardinality(log)

LEMMA StepEnforced ==
  ASSUME IInv, [Next]_vars
  PROVE  Enforced
<1>0. log \in SUBSET Events /\ IsFiniteSet(log) /\ Cardinality(log) \in Nat
  BY FS_CardinalityType DEF IInv, LogTypeOK
<1>1. ASSUME log' = log, config' = config
      PROVE  Enforced
  BY <1>0, <1>1 DEF Enforced
<1>2. ASSUME NEW t \in Types, Record(t), config' = config
      PROVE  Enforced
  <2>1. PICK n \in 1..MaxEvents : log' = PushAndShift([id |-> n, type |-> t])
    BY <1>2 DEF Record
  <2>2. [id |-> n, type |-> t] \in Events
    BY DEF Events
  <2>3. config["eventLogCap"] \in Nat
    BY DEF IInv, LogTypeOK, Configs, ConfigKeys, Allowed
  <2> QED
    BY <1>0, <1>2, <2>1, <2>2, <2>3, PushBounded DEF PushAndShift, Enforced
<1>3. ASSUME NEW b \in Bodies, PatchConfig(b)
      PROVE  Enforced
  <2>0. "eventLogCap" \in ConfigKeys
    BY DEF ConfigKeys, Allowed
  <2>1. CASE "eventLogCap" \in Applied(b)
    <3>1. /\ b["eventLogCap"] \in Nat /\ log' = Newest(log, b["eventLogCap"])
          /\ config'["eventLogCap"] = b["eventLogCap"]
      BY <1>3, <2>0, <2>1, AppliedAcceptable DEF PatchConfig, Trimmed
    <3>2. Cardinality(log') <= b["eventLogCap"] /\ IsFiniteSet(log')
      BY <1>0, <3>1, NewestKeepsNewer
    <3>3. Cardinality(log') \in Nat
      BY <3>2, FS_CardinalityType
    <3> QED
      BY <3>1, <3>2, <3>3 DEF Enforced
  <2>2. CASE "eventLogCap" \notin Applied(b)
    <3>1. log' = log /\ config'["eventLogCap"] = config["eventLogCap"]
      BY <1>3, <2>0, <2>2 DEF PatchConfig, Trimmed
    <3> QED
      BY <1>0, <3>1 DEF Enforced
  <2> QED
    BY <2>1, <2>2
<1>4. CASE UNCHANGED vars
  BY <1>1, <1>4 DEF vars
<1>5. CASE Next
  BY <1>1, <1>2, <1>3, <1>5, HookAssumption
  DEF Next, Post, Patch, Create, Update, Delete, CreateWebhook, PatchWebhook, DeleteWebhook,
      FirstEvents, NextEvents, FirstHooks, NextHooks, Read
<1> QED
  BY <1>4, <1>5
\* The cap of the log is enforced by every step, a refused PATCH included
\* (stores.ts:275-317, index.ts:2534).
THEOREM CapAlwaysEnforced == Spec => CapEnforced
<1>1. IInv /\ [Next]_vars => [Enforced]_vars
  BY StepEnforced
<1> QED
  BY <1>1, Inductive, PTL DEF Spec, CapEnforced, Enforced

-----------------------------------------------------------------------------
(* A walk through the events comes to an end: its offset grows and is bounded. *)

\* The log stays below EVENT_LOG_CAP_MAX, whatever was hydrated.
LogBounded == Cardinality(log) <= Ceiling["eventLogCap"]

\* So does the offset of a walk that goes on.
WalkBounded == walking = "events" => cursor < Ceiling["eventLogCap"]

LEMMA CeilingType == "eventLogCap" \in ConfigKeys /\ Ceiling["eventLogCap"] \in Nat
<1>1. "eventLogCap" \in ConfigKeys
  BY DEF ConfigKeys, Allowed
<1> QED
  BY <1>1, ConfigAssumption

LEMMA InitBounded == Init => LogBounded /\ WalkBounded
<1> SUFFICES ASSUME Init
             PROVE  LogBounded
  BY DEF Init, WalkBounded
<1>1. PICK n \in 0..MaxEvents :
        /\ n <= Ceiling["eventLogCap"]
        /\ \E s \in [1..n -> Types] : log = {[id |-> i, type |-> s[i]] : i \in 1..n}
  BY DEF Init, InitLog
<1>2. PICK s \in [1..n -> Types] : log = {[id |-> i, type |-> s[i]] : i \in 1..n}
  BY <1>1
<1> DEFINE f == [i \in 1..n |-> [id |-> i, type |-> s[i]]]
<1>3. f \in Surjection(1..n, log)
  BY <1>2 DEF Surjection
<1>4. n \in Nat /\ IsFiniteSet(1..n) /\ Cardinality(1..n) = n
  BY FS_Interval, ConfigAssumption
<1> HIDE DEF f
<1>5. IsFiniteSet(log) /\ Cardinality(log) <= n
  BY <1>3, <1>4, FS_Surjection
<1>6. Cardinality(log) \in Nat
  BY <1>5, FS_CardinalityType
<1> QED
  BY <1>1, <1>4, <1>5, <1>6, CeilingType DEF LogBounded

LEMMA StepBounded ==
  ASSUME IInv, IInv', LogBounded, WalkBounded, [Next]_vars
  PROVE  LogBounded' /\ WalkBounded'
<1>1. /\ Cardinality(log) \in Nat /\ Cardinality(log') \in Nat
      /\ config'["eventLogCap"] \in Nat /\ config'["eventLogCap"] <= Ceiling["eventLogCap"]
  BY FS_CardinalityType, CeilingType DEF IInv, LogTypeOK, Configs
<1>2. LogBounded'
  BY <1>1, StepEnforced, CeilingType DEF LogBounded, Enforced
<1>3. ASSUME NEW q \in Queries, NEW offset \in Nat, NEW due, ReadEvents(q, offset, due)
      PROVE  WalkBounded'
  <2>1. Clamp(q.limit) \in Nat
    BY PagesAssumption DEF Clamp
  <2>2. /\ Cardinality(View(log, q)) \in Nat
        /\ Cardinality(View(log, q)) <= Cardinality(log)
    BY FS_Subset, FS_CardinalityType DEF IInv, View
  <2>3. walking' = "events" =>
          cursor' = offset + Clamp(q.limit) /\ offset + Clamp(q.limit) < Cardinality(View(log, q))
    BY <1>3 DEF ReadEvents, Advance
  <2> QED
    BY <1>1, <2>1, <2>2, <2>3, CeilingType DEF LogBounded, WalkBounded
<1>4. ASSUME NEW q, NEW offset, NEW given, ReadHooks(q, offset, given)
      PROVE  WalkBounded'
  BY <1>4 DEF ReadHooks, Advance, WalkBounded
<1>5. ASSUME UNCHANGED <<walking, cursor>>
      PROVE  WalkBounded'
  BY <1>5 DEF WalkBounded
<1>6. ASSUME Next
      PROVE  WalkBounded'
  BY <1>3, <1>4, <1>5, <1>6
  DEF Next, Post, Patch, Create, Update, Delete, Forget, FirstEvents, NextEvents, FirstHooks,
      NextHooks, IInv
<1>7. ASSUME UNCHANGED vars
      PROVE  WalkBounded'
  BY <1>5, <1>7 DEF vars, walk
<1> QED
  BY <1>2, <1>6, <1>7

\* The log, hydrated or recorded, and the offset of a walk through it stay below
\* EVENT_LOG_CAP_MAX (stores.ts:275-317, index.ts:1265-1275).
THEOREM WalkStaysBounded == Spec => [](LogBounded /\ WalkBounded)
<1>1. IInv /\ IInv' /\ LogBounded /\ WalkBounded /\ [Next]_vars => LogBounded' /\ WalkBounded'
  BY StepBounded
<1> QED
  BY <1>1, InitBounded, Inductive, PTL DEF Spec

\* Each page of a walk that goes on moves the offset, and nobody else moves it: so
\* a walk has no more pages than the ceiling of the log, which is why it ends.
THEOREM PagesAdvance ==
  Spec => [][walking = "events" /\ walking' = "events"
               => cursor' >= cursor /\ (NextEvents => cursor' > cursor)]_vars
<1>1. ASSUME IInv, Next, walking = "events", walking' = "events"
      PROVE  cursor' >= cursor /\ (NextEvents => cursor' > cursor)
  <2>1. ASSUME NextEvents
        PROVE  cursor' > cursor
    <3>1. Clamp(query.limit) \in Nat \ {0} /\ cursor \in Nat
      BY <1>1, PagesAssumption DEF Clamp, IInv
    <3>2. cursor' = cursor + Clamp(query.limit)
      BY <1>1, <2>1 DEF NextEvents, ReadEvents, Advance
    <3> QED
      BY <3>1, <3>2
  <2>2. cursor' = cursor \/ NextEvents
    BY <1>1
    DEF Next, Post, Patch, Create, Update, Delete, Forget, FirstEvents, FirstHooks, NextHooks
  <2>3. cursor \in Nat /\ cursor' \in Nat
    <3>1. Clamp(query.limit) \in Nat
      BY <1>1, PagesAssumption DEF Clamp, IInv
    <3> QED
      BY <1>1, <2>2, <3>1 DEF IInv, NextEvents, ReadEvents, Advance
  <2>4. cursor' >= cursor
    BY <2>1, <2>2, <2>3
  <2> QED
    BY <2>1, <2>4
<1>2. IInv /\ [Next]_vars
        => [walking = "events" /\ walking' = "events"
              => cursor' >= cursor /\ (NextEvents => cursor' > cursor)]_vars
  BY <1>1
<1> QED
  BY <1>2, Inductive, PTL DEF Spec

-----------------------------------------------------------------------------
(* The webhooks and the client that pages through them.                    *)

\* An entry of webhookStore.
Registration == [id : 1..MaxHooks, events : Subscriptions]

\* What the three handlers do to the Map.
LEMMA MapAppends ==
  ASSUME HookInv, NEW v \in Subscriptions, drawn < MaxHooks
  PROVE  /\ MapSet(hooks, drawn + 1, v) \in Seq(Registration)
         /\ Len(MapSet(hooks, drawn + 1, v)) = Len(hooks) + 1
         /\ MapSet(hooks, drawn + 1, v)[Len(hooks) + 1].id = drawn + 1
         /\ \A i \in 1..Len(hooks) : MapSet(hooks, drawn + 1, v)[i] = hooks[i]
<1> DEFINE new == [id |-> drawn + 1, events |-> v]
<1>1. hooks \in Seq(Registration) /\ drawn \in 0..MaxHooks /\ MaxHooks \in Nat
  BY HookAssumption DEF HookInv, HooksTypeOK, Registration
<1>2. \A i \in 1..Len(hooks) : hooks[i].id # drawn + 1
  <2> SUFFICES ASSUME NEW i \in 1..Len(hooks)
               PROVE  hooks[i].id # drawn + 1
    OBVIOUS
  <2>1. hooks[i] \in Registration
    BY <1>1, ElementOfSeq
  <2> QED
    BY <1>1, <2>1 DEF HookInv, Registration
<1>3. MapSet(hooks, drawn + 1, v) = Append(hooks, new)
  BY <1>2 DEF MapSet
<1>4. new \in Registration /\ new.id = drawn + 1
  BY <1>1 DEF Registration
<1> HIDE DEF new
<1> QED
  BY <1>1, <1>3, <1>4

LEMMA MapKeepsPlaces ==
  ASSUME NEW m \in Seq(Registration), NEW id \in 1..MaxHooks, NEW v \in Subscriptions,
         NEW k \in 1..Len(m), m[k].id = id
  PROVE  /\ MapSet(m, id, v) \in Seq(Registration)
         /\ Len(MapSet(m, id, v)) = Len(m)
         /\ \A i \in 1..Len(m) : MapSet(m, id, v)[i].id = m[i].id
<1> DEFINE set == [i \in 1..Len(m) |-> IF m[i].id = id THEN [id |-> id, events |-> v] ELSE m[i]]
<1>1. MapSet(m, id, v) = set
  BY DEF MapSet
<1>2. Len(m) \in Nat /\ \A i \in 1..Len(m) : m[i] \in Registration
  BY ElementOfSeq
<1>3. \A i \in 1..Len(m) : set[i] \in Registration /\ set[i].id = m[i].id
  BY <1>2 DEF Registration
<1>4. set \in [1..Len(m) -> Registration]
  BY <1>3
<1>5. set \in Seq(Registration) /\ Len(set) = Len(m)
  <2> HIDE DEF set
  <2>1. set \in Seq(Registration)
    BY <1>2, <1>4, SeqDef
  <2>2. DOMAIN set = 1..Len(m) /\ DOMAIN set = 1..Len(set) /\ Len(set) \in Nat
    BY <1>4, <2>1, LenProperties
  <2> QED
    BY <1>2, <2>1, <2>2
<1> QED
  BY <1>1, <1>3, <1>5

LEMMA MapClosesGap ==
  ASSUME NEW m \in Seq(Registration), NEW id, NEW k \in 1..Len(m), m[k].id = id
  PROVE  \E at \in 1..Len(m) :
           /\ MapDelete(m, id) \in Seq(Registration)
           /\ Len(MapDelete(m, id)) = Len(m) - 1
           /\ \A i \in 1..Len(m) - 1 : MapDelete(m, id)[i] = IF i < at THEN m[i] ELSE m[i + 1]
<1> DEFINE at == CHOOSE i \in 1..Len(m) : m[i].id = id
           left == [i \in 1..Len(m) - 1 |-> IF i < at THEN m[i] ELSE m[i + 1]]
<1>1. at \in 1..Len(m)
  OBVIOUS
<1>2. MapDelete(m, id) = left
  BY DEF MapDelete
<1>3. Len(m) \in Nat /\ Len(m) > 0 /\ \A i \in 1..Len(m) : m[i] \in Registration
  BY ElementOfSeq
<1> HIDE DEF at
<1>4. \A i \in 1..Len(m) - 1 : left[i] \in Registration
  BY <1>1, <1>3
<1>5. left \in [1..Len(m) - 1 -> Registration]
  BY <1>4
<1>6. left \in Seq(Registration) /\ Len(left) = Len(m) - 1
  <2> HIDE DEF left
  <2>1. left \in Seq(Registration)
    BY <1>3, <1>5, SeqDef
  <2>2. DOMAIN left = 1..Len(m) - 1 /\ DOMAIN left = 1..Len(left) /\ Len(left) \in Nat
    BY <1>5, <2>1, LenProperties
  <2> QED
    BY <1>3, <2>1, <2>2
<1> QED
  BY <1>1, <1>2, <1>6

LEMMA InitHookInv == Init => HookInv
<1> SUFFICES ASSUME Init
             PROVE  HookInv
  OBVIOUS
<1>1. hooks = <<>> /\ drawn = 0 /\ walking = "no" /\ seen = {}
  BY DEF Init, InitHooks
<1>2. Len(hooks) = 0 /\ HooksTypeOK
  BY <1>1, HookAssumption DEF HooksTypeOK
<1> QED
  BY <1>1, <1>2 DEF HookInv, NoEntryRepeated

\* A page of webhooks: what it gives stands before the offset of the next one.
LEMMA ReadHooksHookInv ==
  ASSUME HookInv, NEW q \in Queries, NEW offset \in Nat, NEW given \in SUBSET seen,
         \A i \in 1..Len(hooks) : i > offset => hooks[i].id \notin given,
         ReadHooks(q, offset, given), Read
  PROVE  HookInv'
<1> DEFINE limit == Clamp(q.limit)
<1>1. limit \in Nat \ {0}
  BY PagesAssumption DEF Clamp
<1>2. /\ hooks' = hooks /\ drawn' = drawn
      /\ walking' \in {"webhooks", "no"}
      /\ walking' = "webhooks" => cursor' = offset + limit /\ seen' = given \cup HookPage(offset, limit)
      /\ walking' = "no" => seen' = {}
  BY DEF ReadHooks, Advance, Read
<1>3. hooks \in Seq(Registration) /\ drawn \in 0..MaxHooks /\ Len(hooks) \in Nat
  BY DEF HookInv, HooksTypeOK, Registration
<1>4. \A i \in 1..Len(hooks) : hooks[i].id \in 1..MaxHooks /\ hooks[i].id <= drawn
  <2> SUFFICES ASSUME NEW i \in 1..Len(hooks)
               PROVE  hooks[i].id \in 1..MaxHooks /\ hooks[i].id <= drawn
    OBVIOUS
  <2>1. hooks[i] \in Registration
    BY <1>3, ElementOfSeq
  <2> QED
    BY <2>1 DEF HookInv, Registration
<1> HIDE DEF limit
<1>5. seen' \subseteq 1..drawn
  <2>1. HookPage(offset, limit) \subseteq 1..drawn
    BY <1>3, <1>4, HookAssumption DEF HookPage
  <2> QED
    BY <1>2, <2>1 DEF HookInv
<1>6. ASSUME walking' = "webhooks", NEW i \in 1..Len(hooks), i > offset + limit
      PROVE  hooks[i].id \notin seen'
  <2>1. hooks[i].id \notin given
    BY <1>1, <1>3, <1>6
  <2>2. ASSUME NEW j \in 1..Len(hooks), offset < j, j <= offset + limit
        PROVE  hooks[j].id # hooks[i].id
    <3>1. j < i
      BY <1>1, <1>3, <1>6, <2>2
    <3>2. hooks[j].id < hooks[i].id
      BY <3>1 DEF HookInv
    <3> QED
      BY <1>4, <3>2, HookAssumption
  <2> QED
    BY <1>2, <1>6, <2>1, <2>2 DEF HookPage
<1>7. NoEntryRepeated'
  BY <1>2, <1>6 DEF NoEntryRepeated
<1> QED
  BY <1>2, <1>5, <1>7 DEF HookInv, HooksTypeOK

LEMMA StepHookInv == IInv /\ HookInv /\ [Next]_vars => HookInv'
<1> SUFFICES ASSUME IInv, HookInv, [Next]_vars
             PROVE  HookInv'
  OBVIOUS
<1>0. /\ hooks \in Seq(Registration) /\ drawn \in Nat /\ drawn \in 0..MaxHooks
      /\ Len(hooks) \in Nat /\ MaxHooks \in Nat
      /\ \A i \in 1..Len(hooks) : hooks[i].id \in Nat /\ hooks[i].id <= drawn
  <2>1. hooks \in Seq(Registration) /\ drawn \in 0..MaxHooks /\ MaxHooks \in Nat
    BY HookAssumption DEF HookInv, HooksTypeOK, Registration
  <2>2. \A i \in 1..Len(hooks) : hooks[i].id \in Nat
    <3> SUFFICES ASSUME NEW i \in 1..Len(hooks)
                 PROVE  hooks[i].id \in Nat
      OBVIOUS
    <3>1. hooks[i] \in Registration
      BY <2>1, ElementOfSeq
    <3> QED
      BY <2>1, <3>1 DEF Registration
  <2> QED
    BY <2>1, <2>2 DEF HookInv
<1>1. ASSUME UNCHANGED <<hooks, drawn, walking, cursor, seen>>
      PROVE  HookInv'
  BY <1>1 DEF HookInv, HooksTypeOK, NoEntryRepeated
<1>2. ASSUME NEW v \in Subscriptions, Create(v)
      PROVE  HookInv'
  <2>1. /\ drawn < MaxHooks /\ drawn' = drawn + 1
        /\ hooks' = MapSet(hooks, drawn + 1, v)
        /\ UNCHANGED <<walking, cursor, seen>>
    BY <1>2 DEF Create, CreateWebhook, Forget
  <2>2. /\ hooks' \in Seq(Registration) /\ Len(hooks') = Len(hooks) + 1
        /\ hooks'[Len(hooks) + 1].id = drawn + 1
        /\ \A i \in 1..Len(hooks) : hooks'[i] = hooks[i]
    BY <2>1, MapAppends
  <2>3. \A i \in 1..Len(hooks') : \/ i \in 1..Len(hooks) /\ hooks'[i] = hooks[i]
                                  \/ i = Len(hooks) + 1 /\ hooks'[i].id = drawn + 1
    BY <1>0, <2>2
  <2>4. drawn' \in 0..MaxHooks /\ seen' \subseteq 1..drawn' /\ walking' \in {"no", "events", "webhooks"}
    BY <1>0, <2>1 DEF HookInv
  <2>5. \A i \in 1..Len(hooks') : hooks'[i].id <= drawn'
    BY <1>0, <2>1, <2>3
  <2>6. ASSUME NEW i \in 1..Len(hooks'), NEW j \in 1..Len(hooks'), i < j
        PROVE  hooks'[i].id < hooks'[j].id
    <3>1. i \in 1..Len(hooks) /\ hooks'[i] = hooks[i]
      BY <1>0, <2>2, <2>6
    <3>2. CASE j \in 1..Len(hooks) /\ hooks'[j] = hooks[j]
      BY <2>6, <3>1, <3>2 DEF HookInv
    <3>3. CASE hooks'[j].id = drawn + 1
      BY <1>0, <3>1, <3>3
    <3> QED
      BY <2>3, <3>2, <3>3
  <2>7. NoEntryRepeated'
    BY <1>0, <2>1, <2>3 DEF HookInv, NoEntryRepeated
  <2> QED
    BY <2>2, <2>4, <2>5, <2>6, <2>7 DEF HookInv, HooksTypeOK, Registration
<1>3. ASSUME NEW id \in 1..MaxHooks, NEW v \in Subscriptions, Update(id, v)
      PROVE  HookInv'
  <2>1. /\ id \in Ids /\ hooks' = MapSet(hooks, id, v)
        /\ UNCHANGED <<drawn, walking, cursor, seen>>
    BY <1>3 DEF Update, PatchWebhook, Forget
  <2>2. PICK k \in 1..Len(hooks) : hooks[k].id = id
    BY <2>1 DEF Ids
  <2>3. /\ hooks' \in Seq(Registration) /\ Len(hooks') = Len(hooks)
        /\ \A i \in 1..Len(hooks) : hooks'[i].id = hooks[i].id
    BY <1>0, <2>1, <2>2, MapKeepsPlaces
  <2> QED
    BY <2>1, <2>3 DEF HookInv, HooksTypeOK, Registration, NoEntryRepeated
<1>4. ASSUME NEW id \in 1..MaxHooks, Delete(id)
      PROVE  HookInv'
  <2>1. /\ id \in Ids /\ hooks' = MapDelete(hooks, id)
        /\ UNCHANGED <<drawn, walking, cursor, seen>>
    BY <1>4 DEF Delete, DeleteWebhook, Forget
  <2>2. PICK k \in 1..Len(hooks) : hooks[k].id = id
    BY <2>1 DEF Ids
  <2>3. PICK at \in 1..Len(hooks) :
          /\ hooks' \in Seq(Registration) /\ Len(hooks') = Len(hooks) - 1
          /\ \A i \in 1..Len(hooks) - 1 : hooks'[i] = IF i < at THEN hooks[i] ELSE hooks[i + 1]
    BY <1>0, <2>1, <2>2, MapClosesGap
  <2>4. \A i \in 1..Len(hooks') : \/ i < at /\ i \in 1..Len(hooks) /\ hooks'[i] = hooks[i]
                                  \/ ~(i < at) /\ i + 1 \in 1..Len(hooks) /\ hooks'[i] = hooks[i + 1]
    BY <1>0, <2>3
  <2>5. \A i \in 1..Len(hooks') : hooks'[i].id <= drawn'
    BY <2>1, <2>4 DEF HookInv
  <2>6. ASSUME NEW i \in 1..Len(hooks'), NEW j \in 1..Len(hooks'), i < j
        PROVE  hooks'[i].id < hooks'[j].id
    <3>1. PICK p \in 1..Len(hooks) : \/ i < at /\ p = i /\ hooks'[i] = hooks[p]
                                     \/ ~(i < at) /\ p = i + 1 /\ hooks'[i] = hooks[p]
      BY <2>4
    <3>2. PICK r \in 1..Len(hooks) : \/ j < at /\ r = j /\ hooks'[j] = hooks[r]
                                     \/ ~(j < at) /\ r = j + 1 /\ hooks'[j] = hooks[r]
      BY <2>4
    <3>3. p < r
      BY <2>6, <3>1, <3>2
    <3>4. hooks[p].id < hooks[r].id
      BY <3>3 DEF HookInv
    <3> QED
      BY <3>1, <3>2, <3>4
  <2>7. ASSUME walking' = "webhooks", NEW i \in 1..Len(hooks'), i > cursor'
        PROVE  hooks'[i].id \notin seen'
    <3>1. cursor \in Nat
      BY DEF IInv
    <3> QED
      BY <1>0, <2>1, <2>3, <2>4, <2>7, <3>1 DEF HookInv, NoEntryRepeated
  <2> QED
    BY <2>1, <2>3, <2>5, <2>6, <2>7 DEF HookInv, HooksTypeOK, Registration, NoEntryRepeated
<1>5. ASSUME NEW q \in Queries, FirstHooks(q)
      PROVE  HookInv'
  BY <1>5, ReadHooksHookInv DEF FirstHooks
<1>6. ASSUME NextHooks
      PROVE  HookInv'
  BY <1>6, ReadHooksHookInv DEF NextHooks, IInv, HookInv, NoEntryRepeated
<1>7. ASSUME NEW q, NEW offset, NEW due, walking # "webhooks", ReadEvents(q, offset, due), Read
      PROVE  HookInv'
  <2>1. walking' \in {"no", "events"} /\ UNCHANGED <<hooks, drawn, seen>>
    BY <1>7 DEF ReadEvents, Advance, Read
  <2> QED
    BY <2>1 DEF HookInv, HooksTypeOK, NoEntryRepeated
<1>8. CASE UNCHANGED vars
  BY <1>1, <1>8 DEF vars, walk
<1>9. CASE Next
  BY <1>1, <1>2, <1>3, <1>4, <1>5, <1>6, <1>7, <1>9
  DEF Next, Post, Patch, Forget, FirstEvents, NextEvents
<1> QED
  BY <1>8, <1>9

\* Insertion order, the ids drawn and the pages given agree in every state.
THEOREM HooksInductive == Spec => []HookInv
BY InitHookInv, StepHookInv, Inductive, PTL DEF Spec

\* Types of configuration, log, registrations and walk.
THEOREM TypeCorrect == Spec => []TypeOK
<1>1. IInv /\ HookInv => TypeOK
  <2> SUFFICES ASSUME IInv, HookInv
               PROVE  TypeOK
    OBVIOUS
  <2>1. seen \in SUBSET (1..MaxHooks)
    BY HookAssumption DEF HookInv, HooksTypeOK
  <2> QED
    BY <2>1 DEF IInv, HookInv, TypeOK
<1> QED
  BY <1>1, Inductive, HooksInductive, PTL

\* No webhook is given twice to a client that follows the cursors
\* (index.ts:1865-1893): deletion only moves entries towards the pages already
\* read, and a new one goes to the end.
THEOREM PagesRepeatNothing == Spec => []NoEntryRepeated
<1>1. HookInv => NoEntryRepeated
  BY DEF HookInv
<1> QED
  BY <1>1, HooksInductive, PTL

-----------------------------------------------------------------------------
(* Where a PATCH is atomic.                                                *)

\* A body is refused with nothing applied if it brings no writable key that the
\* handler takes before the first bad one.
LEMMA RefusedWhole ==
  ASSUME NEW b \in Bodies, Refused(b), Applied(b) = {}, LogTypeOK, PatchConfig(b)
  PROVE  UNCHANGED <<config, log>>
<1>1. log' = log
  BY DEF PatchConfig, Trimmed
<1>2. config' = [k \in ConfigKeys |-> config[k]]
  BY DEF PatchConfig
<1>3. config = [k \in ConfigKeys |-> config[k]]
  BY DEF LogTypeOK, Configs
<1> QED
  BY <1>1, <1>2, <1>3

LEMMA OneKeyAppliesNothing ==
  ASSUME NEW b \in Bodies, NEW key, DOMAIN b \subseteq {key}, Refused(b)
  PROVE  Applied(b) = {}
<1> SUFFICES ASSUME NEW j \in 1..6, Allowed[j] \in DOMAIN b, ~Unknown(b), \A h \in BadAt(b) : j < h
             PROVE  FALSE
  BY DEF Applied
<1>1. PICK i \in BadAt(b) : TRUE
  BY DEF Refused
<1>2. i \in 1..6 /\ Allowed[i] = key /\ Allowed[j] = key
  BY <1>1 DEF BadAt
<1>3. i = j
  BY <1>2 DEF Allowed
<1> QED
  BY <1>1, <1>2, <1>3

\* The promise of openapi.ts:149 holds for clients that change one key per PATCH
\* (index.ts:2491-2541).
THEOREM OneKeyPatchIsAtomic ==
  ASSUME \A b \in Bodies : \E key : DOMAIN b \subseteq {key}
  PROVE  Spec => PatchAtomic
<1>1. ASSUME IInv, Next, answer' = "refused"
      PROVE  UNCHANGED <<config, log>>
  <2>1. PICK b \in Bodies : Patch(b)
    BY <1>1
    DEF Next, Post, Create, Update, Delete, CreateWebhook, PatchWebhook, DeleteWebhook,
        FirstEvents, NextEvents, FirstHooks, NextHooks, Read
  <2>2. PatchConfig(b) /\ Refused(b)
    BY <1>1, <2>1 DEF Patch, PatchConfig
  <2>3. Applied(b) = {}
    BY <2>2, OneKeyAppliesNothing
  <2> QED
    BY <1>1, <2>2, <2>3, RefusedWhole DEF IInv
<1>2. IInv /\ [Next]_vars => [answer' = "refused" => UNCHANGED <<config, log>>]_vars
  BY <1>1
<1> QED
  BY <1>2, Inductive, PTL DEF Spec, PatchAtomic
=============================================================================
