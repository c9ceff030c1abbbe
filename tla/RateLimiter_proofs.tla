-------------------------- MODULE RateLimiter_proofs --------------------------
(***************************************************************************)
(* Proofs about RateLimiter, for any IPs, ceiling, interval, limits and    *)
(* windows.  Sweeping the Map only removes IPs and stale hits; what is     *)
(* left keeps its order, its numbering and every hit that still counts.    *)
(***************************************************************************)
EXTENDS RateLimiter, FiniteSetTheorems, WellFoundedInduction, TLAPS

LEMMA Positive ==
  /\ MaxIps \in Nat /\ MaxIps > 0 /\ GcInterval \in Nat /\ GcInterval > 0
  /\ MaxLimit \in Nat /\ MaxLimit > 0 /\ MaxWindow \in Nat /\ MaxWindow > 0
BY RateLimiterAssumption

-----------------------------------------------------------------------------
(* Lemmas about buckets.                                                   *)

LEMMA HitsFinite == IsFiniteSet(Hits)
<1> DEFINE D == (0..MaxWindow) \X (0..MaxLimit - 1)
           f == [d \in D |-> [age |-> d[1], since |-> d[2]]]
<1>1. IsFiniteSet(0..MaxWindow) /\ IsFiniteSet(0..MaxLimit - 1)
  BY FS_Interval, Positive
<1>2. IsFiniteSet(D)
  BY <1>1, FS_Product
<1>3. f \in Surjection(D, Hits)
  <2>1. \A h \in Hits : <<h.age, h.since>> \in D /\ f[<<h.age, h.since>>] = h
    BY DEF Hits
  <2>2. f \in [D -> Hits]
    BY DEF Hits
  <2> QED
    BY <2>1, <2>2 DEF Surjection
<1> QED
  BY <1>2, <1>3, FS_Surjection

\* A filter of the younger hits leaves the numbering without gaps.
LEMMA LiveNumbered ==
  ASSUME NEW b \in SUBSET Hits, Numbered(b), NEW w \in Nat
  PROVE  Live(b, w) \in SUBSET Hits /\ Numbered(Live(b, w))
<1>1. ASSUME NEW h \in Live(b, w), NEW i \in 0..h.since
      PROVE  \E g \in Live(b, w) : g.since = i /\ g.age <= h.age
  <2>1. PICK g \in b : g.since = i /\ g.age <= h.age
    BY DEF Live, Numbered
  <2>2. g.age < w
    BY <2>1, Positive DEF Live, Hits
  <2> QED
    BY <2>1, <2>2 DEF Live
<1> QED
  BY <1>1 DEF Live, Numbered

\* A hit has at least as many companions as its place says.
LEMMA PlaceBelowSize ==
  ASSUME NEW b \in SUBSET Hits, Numbered(b), NEW h \in b
  PROVE  h.since < Cardinality(b)
<1> DEFINE f == [i \in 0..h.since |-> CHOOSE g \in b : g.since = i]
<1>1. h.since \in Nat
  BY Positive DEF Hits
<1>2. \A i \in 0..h.since : f[i] \in b /\ f[i].since = i
  BY DEF Numbered
<1>3. IsFiniteSet(b) /\ Cardinality(b) \in Nat
  BY HitsFinite, FS_Subset, FS_CardinalityType
<1>4. f \in Injection(0..h.since, b)
  <2>1. \A i, j \in 0..h.since : f[i] = f[j] => i = j
    BY <1>2
  <2>2. f \in [0..h.since -> b]
    BY <1>2
  <2> QED
    BY <2>1, <2>2 DEF Injection, IsInjective
<1>5. Cardinality(0..h.since) <= Cardinality(b)
  BY <1>3, <1>4, FS_Injection
<1>6. Cardinality(0..h.since) = h.since + 1
  BY <1>1, FS_Interval
<1> QED
  BY <1>1, <1>3, <1>5, <1>6

\* A bucket below a limit takes one more hit.
LEMMA PushedNumbered ==
  ASSUME NEW b \in SUBSET Hits, Numbered(b), NEW l \in 1..MaxLimit, Cardinality(b) < l
  PROVE  Pushed(b) \in SUBSET Hits /\ Numbered(Pushed(b))
<1> DEFINE new == [age |-> 0, since |-> 0]
<1>1. \A h \in b : h.since \in Nat /\ h.since + 1 <= MaxLimit - 1 /\ h.age \in 0..MaxWindow
  <2>1. Cardinality(b) \in Nat
    BY HitsFinite, FS_Subset, FS_CardinalityType
  <2> QED
    BY <2>1, PlaceBelowSize, Positive DEF Hits
<1>2. new \in Hits
  BY Positive DEF Hits
<1>3. \A h \in b : [h EXCEPT !.since = @ + 1] \in Hits
  BY <1>1, Positive DEF Hits
<1>4. Pushed(b) \in SUBSET Hits
  BY <1>2, <1>3 DEF Pushed
<1>5. ASSUME NEW g \in Pushed(b), NEW h \in Pushed(b), g.since = h.since
      PROVE  g = h
  <2>1. CASE g = new \/ h = new
    BY <1>1, <1>5, <2>1 DEF Pushed, Hits
  <2>2. CASE g # new /\ h # new
    <3>1. PICK x \in b, y \in b : g = [x EXCEPT !.since = @ + 1] /\ h = [y EXCEPT !.since = @ + 1]
      BY <2>2 DEF Pushed
    <3>2. x.since = y.since
      BY <1>1, <1>5, <3>1 DEF Hits
    <3> QED
      BY <3>1, <3>2 DEF Numbered
  <2> QED
    BY <2>1, <2>2
<1>6. ASSUME NEW h \in Pushed(b), NEW i \in 0..h.since
      PROVE  \E g \in Pushed(b) : g.since = i /\ g.age <= h.age
  <2>1. CASE i = 0
    <3>1. h.age >= 0
      BY <1>4, Positive DEF Hits
    <3>2. new \in Pushed(b)
      BY DEF Pushed
    <3>3. new.since = i /\ new.age <= h.age
      BY <2>1, <3>1
    <3> HIDE DEF new
    <3> QED
      BY <3>2, <3>3
  <2>2. CASE i # 0
    <3>1. PICK x \in b : h = [x EXCEPT !.since = @ + 1]
      BY <2>2 DEF Pushed
    <3>2. i - 1 \in 0..x.since /\ h.age = x.age
      BY <1>1, <2>2, <3>1 DEF Hits
    <3>3. PICK y \in b : y.since = i - 1 /\ y.age <= x.age
      BY <3>2 DEF Numbered
    <3>4. [y EXCEPT !.since = @ + 1].since = i /\ [y EXCEPT !.since = @ + 1].age = y.age
      BY <3>3 DEF Hits
    <3> QED
      BY <3>2, <3>3, <3>4 DEF Pushed
  <2> QED
    BY <2>1, <2>2
<1> QED
  BY <1>4, <1>5, <1>6 DEF Numbered

LEMMA AgedNumbered ==
  ASSUME NEW b \in SUBSET Hits, Numbered(b)
  PROVE  Aged(b) \in SUBSET Hits /\ Numbered(Aged(b))
<1>1. \A a, c \in 0..MaxWindow : Elapse(a) \in 0..MaxWindow /\ (a <= c => Elapse(a) <= Elapse(c))
  BY Positive DEF Elapse
<1>2. \A h \in b : LET o == [h EXCEPT !.age = Elapse(@)]
                   IN  o \in Hits /\ o.since = h.since /\ o.age = Elapse(h.age)
  BY <1>1 DEF Hits
<1>3. ASSUME NEW g \in Aged(b), NEW h \in Aged(b), g.since = h.since
      PROVE  g = h
  <2>1. PICK x \in b, y \in b : g = [x EXCEPT !.age = Elapse(@)] /\ h = [y EXCEPT !.age = Elapse(@)]
    BY DEF Aged
  <2>2. x.since = y.since
    BY <1>2, <1>3, <2>1
  <2> QED
    BY <2>1, <2>2 DEF Numbered
<1>4. ASSUME NEW h \in Aged(b), NEW i \in 0..h.since
      PROVE  \E g \in Aged(b) : g.since = i /\ g.age <= h.age
  <2>1. PICK x \in b : h = [x EXCEPT !.age = Elapse(@)]
    BY DEF Aged
  <2>2. PICK y \in b : y.since = i /\ y.age <= x.age
    BY <1>2, <2>1 DEF Numbered
  <2>3. [y EXCEPT !.age = Elapse(@)].since = i /\ [y EXCEPT !.age = Elapse(@)].age <= h.age
    BY <1>1, <1>2, <2>1, <2>2 DEF Hits
  <2> QED
    BY <2>3 DEF Aged
<1>5. Aged(b) \in SUBSET Hits
  BY <1>2 DEF Aged
<1> QED
  BY <1>3, <1>4, <1>5 DEF Numbered

-----------------------------------------------------------------------------
(* Lemmas about the insertion order.                                       *)

\* An order that was strict and total stays so on fewer IPs.
LEMMA OrderRestricts ==
  ASSUME NEW s, Inserted(before, s), NEW t \in SUBSET s
  PROVE  Inserted(Among(t), t)
BY DEF Inserted, Among

\* A new key goes to the end.
LEMMA OrderAppends ==
  ASSUME NEW s, Inserted(before, s), NEW t \in SUBSET s, NEW ip, ip \notin t
  PROVE  Inserted(Among(t) \cup (t \X {ip}), t \cup {ip})
<1> DEFINE order == Among(t) \cup (t \X {ip})
<1>1. \A p, q : <<p, q>> \in order <=>
                  \/ p \in t /\ q \in t /\ <<p, q>> \in before
                  \/ p \in t /\ q = ip
  BY DEF Among
<1>2. order \subseteq (t \cup {ip}) \X (t \cup {ip})
  BY DEF Among
<1> HIDE DEF order
<1>3. \A p \in t \cup {ip} : <<p, p>> \notin order
  BY <1>1 DEF Inserted
<1>4. \A p, q \in t \cup {ip} : p # q => <<p, q>> \in order \/ <<q, p>> \in order
  BY <1>1 DEF Inserted
<1>5. \A p, q, r \in t \cup {ip} : <<p, q>> \in order /\ <<q, r>> \in order => <<p, r>> \in order
  BY <1>1 DEF Inserted
<1> QED
  BY <1>2, <1>3, <1>4, <1>5 DEF Inserted, order

\* Some tracked IP was inserted before all others.
LEMMA FirstExists ==
  ASSUME NEW m, IsFiniteSet(Tracked(m)), Tracked(m) # {}, NEW s, Inserted(before, s), Tracked(m) \subseteq s
  PROVE  First(m) # {}
<1> DEFINE T == Tracked(m)
           Upto(p) == {q \in T : q = p \/ <<q, p>> \in before}
           U == {Upto(p) : p \in T}
<1>1. IsWellFoundedOn(StrictSubsetOrdering(T), SUBSET T)
  BY FS_StrictSubsetOrderingWellFounded, FS_FiniteSubsetsOfFinite
<1>2. U \subseteq SUBSET T /\ U # {}
  OBVIOUS
<1>3. \E x \in U : \A y \in U : ~(<<y, x>> \in StrictSubsetOrdering(T))
  <2> HIDE DEF T, U
  <2> QED
    BY <1>1, <1>2, WFMin
<1>4. PICK p \in T : \A q \in T : ~(<<Upto(q), Upto(p)>> \in StrictSubsetOrdering(T))
  BY <1>3
<1>5. ASSUME NEW q \in T, <<q, p>> \in before
      PROVE  FALSE
  <2>1. p \in s /\ q \in s /\ p # q /\ <<p, q>> \notin before
    BY <1>5 DEF Inserted
  <2>2. Upto(q) \subseteq Upto(p) /\ p \in Upto(p) /\ p \notin Upto(q)
    BY <1>5, <2>1 DEF Inserted
  <2>3. <<Upto(q), Upto(p)>> \in StrictSubsetOrdering(T)
    BY <2>2 DEF StrictSubsetOrdering
  <2> QED
    BY <1>4, <2>3
<1> QED
  BY <1>4, <1>5 DEF First

-----------------------------------------------------------------------------
(* Lemmas about sweeping the Map.                                          *)

\* The garbage collection keeps every live hit.
LEMMA PruneKeeps ==
  ASSUME IInv, NEW m, m = pruneExpiredRateBuckets(rateBuckets)
  PROVE  /\ m \in [Ips -> SUBSET Hits]
         /\ \A q \in Ips : Numbered(m[q]) /\ m[q] \subseteq rateBuckets[q]
         /\ \A q \in Ips : Live(rateBuckets[q], windowMs) \subseteq m[q]
         /\ Tracked(m) \subseteq Tracked(rateBuckets)
         /\ IsFiniteSet(Tracked(m)) /\ Cardinality(Tracked(m)) \in Nat
         /\ Cardinality(Tracked(m)) <= MaxIps
<1>1. /\ rateBuckets \in [Ips -> SUBSET Hits] /\ windowMs \in Nat
      /\ \A q \in Ips : Numbered(rateBuckets[q])
      /\ IsFiniteSet(Tracked(rateBuckets)) /\ Cardinality(Tracked(rateBuckets)) <= MaxIps
  BY Positive DEF IInv, TypeOK, MapBounded
<1>2. \A q \in Ips : /\ Live(rateBuckets[q], windowMs) \in SUBSET Hits
                     /\ Numbered(Live(rateBuckets[q], windowMs))
                     /\ Live(rateBuckets[q], windowMs) \subseteq rateBuckets[q]
  <2> TAKE q \in Ips
  <2>1. rateBuckets[q] \in SUBSET Hits /\ Numbered(rateBuckets[q])
    BY <1>1
  <2> QED
    BY <1>1, <2>1, LiveNumbered DEF Live
<1>3. m = rateBuckets \/ m = [q \in Ips |-> Live(rateBuckets[q], windowMs)]
  BY DEF pruneExpiredRateBuckets
<1>4. /\ m \in [Ips -> SUBSET Hits]
      /\ \A q \in Ips : Numbered(m[q]) /\ m[q] \subseteq rateBuckets[q]
      /\ \A q \in Ips : Live(rateBuckets[q], windowMs) \subseteq m[q]
  BY <1>1, <1>2, <1>3
<1>5. Tracked(m) \subseteq Tracked(rateBuckets)
  BY <1>4 DEF Tracked
<1>6. IsFiniteSet(Tracked(m)) /\ Cardinality(Tracked(m)) <= Cardinality(Tracked(rateBuckets))
  BY <1>1, <1>5, FS_Subset
<1>7. Cardinality(Tracked(m)) \in Nat /\ Cardinality(Tracked(rateBuckets)) \in Nat
  BY <1>1, <1>6, FS_CardinalityType
<1> QED
  BY <1>1, <1>4, <1>5, <1>6, <1>7, Positive

\* Making room keeps every live hit of the IPs it does not drop, drops no IP
\* that asks, and leaves a place for one that is new.
LEMMA SweptKeeps ==
  ASSUME IInv, NEW ip \in Ips
  PROVE  /\ Swept(ip) \in [Ips -> SUBSET Hits]
         /\ \A q \in Ips : Numbered(Swept(ip)[q]) /\ Swept(ip)[q] \subseteq rateBuckets[q]
         /\ \A q \in Ips \ Dropped(ip) : Live(rateBuckets[q], windowMs) \subseteq Swept(ip)[q]
         /\ ip \notin Dropped(ip)
         /\ Tracked(Swept(ip)) \subseteq Tracked(rateBuckets)
         /\ IsFiniteSet(Tracked(Swept(ip))) /\ Cardinality(Tracked(Swept(ip))) \in Nat
         /\ Cardinality(Tracked(Swept(ip))) <= MaxIps
         /\ ip \notin Tracked(Swept(ip)) => Cardinality(Tracked(Swept(ip))) < MaxIps
<1> DEFINE m == pruneExpiredRateBuckets(rateBuckets)
<1>1. /\ m \in [Ips -> SUBSET Hits]
      /\ \A q \in Ips : Numbered(m[q]) /\ m[q] \subseteq rateBuckets[q]
      /\ \A q \in Ips : Live(rateBuckets[q], windowMs) \subseteq m[q]
      /\ Tracked(m) \subseteq Tracked(rateBuckets)
      /\ IsFiniteSet(Tracked(m)) /\ Cardinality(Tracked(m)) \in Nat
      /\ Cardinality(Tracked(m)) <= MaxIps
  BY PruneKeeps
<1>2. Swept(ip) = Room(m, ip) /\ Dropped(ip) = Tracked(m) \ Tracked(Swept(ip))
  BY DEF Swept, Dropped
<1>3. Inserted(before, Tracked(rateBuckets))
  BY DEF IInv
<1> HIDE DEF m
<1>4. CASE ip \in Tracked(m) \/ Cardinality(Tracked(m)) < MaxIps
  <2>1. Swept(ip) = m
    BY <1>1, <1>2, <1>4, Positive DEF Room
  <2> QED
    BY <1>1, <1>2, <1>4, <2>1
<1>5. CASE ip \notin Tracked(m) /\ Cardinality(Tracked(m)) >= MaxIps
  <2>1. Swept(ip) = [q \in Ips |-> IF q \in First(m) THEN {} ELSE m[q]]
    BY <1>2, <1>5 DEF Room
  <2>2. Tracked(Swept(ip)) = Tracked(m) \ First(m)
    BY <2>1 DEF Tracked
  <2>3. Tracked(m) # {}
    BY <1>5, Positive, FS_EmptySet
  <2>4. First(m) # {} /\ First(m) \subseteq Tracked(m)
    BY <1>1, <1>3, <2>3, FirstExists DEF First
  <2>5. /\ IsFiniteSet(Tracked(Swept(ip)))
        /\ Cardinality(Tracked(Swept(ip))) <= Cardinality(Tracked(m))
        /\ Cardinality(Tracked(Swept(ip))) # Cardinality(Tracked(m))
    BY <1>1, <2>2, <2>4, FS_Subset
  <2>6. Cardinality(Tracked(Swept(ip))) \in Nat
    BY <2>5, FS_CardinalityType
  <2>7. Cardinality(Tracked(Swept(ip))) < MaxIps
    BY <1>1, <2>5, <2>6, Positive
  <2>8. Numbered({})
    BY DEF Numbered
  <2>9. \A q \in Ips : \/ q \in First(m) /\ Swept(ip)[q] = {}
                       \/ q \notin First(m) /\ Swept(ip)[q] = m[q]
    BY <2>1
  <2>10. \A q \in Ips \ Dropped(ip) : Live(rateBuckets[q], windowMs) \subseteq Swept(ip)[q]
    BY <1>1, <1>2, <2>2, <2>4, <2>9
  <2>11. Swept(ip) \in [Ips -> SUBSET Hits]
    BY <1>1, <2>1
  <2>12. \A q \in Ips : Numbered(Swept(ip)[q]) /\ Swept(ip)[q] \subseteq rateBuckets[q]
    BY <1>1, <2>8, <2>9
  <2> QED
    BY <1>1, <1>2, <1>5, <2>2, <2>5, <2>6, <2>7, <2>10, <2>11, <2>12, Positive
<1> QED
  BY <1>1, <1>4, <1>5, Positive

\* What is left of an IP's recent hits is in the bucket its next request sees.
LEMMA RecentCounted ==
  ASSUME IInv, NEW ip \in Ips
  PROVE  /\ \A q \in Ips : Forget(ip)[q] \subseteq Live(Swept(ip)[q], windowMs)
         /\ Forget(ip)[ip] = recent[ip]
         /\ recent[ip] \subseteq LiveBucket(ip)
         /\ Forget(ip) \in [Ips -> SUBSET Hits]
<1>1. \A q \in Ips : recent[q] \subseteq Live(rateBuckets[q], windowMs)
  BY DEF IInv
<1>2. \A q \in Ips \ Dropped(ip) : Live(rateBuckets[q], windowMs) \subseteq Live(Swept(ip)[q], windowMs)
  <2>1. \A q \in Ips \ Dropped(ip) : Live(rateBuckets[q], windowMs) \subseteq Swept(ip)[q]
    BY SweptKeeps
  <2> QED
    BY <2>1 DEF Live
<1>3. \A q \in Ips : Forget(ip)[q] = IF q \in Dropped(ip) THEN {} ELSE recent[q]
  BY DEF Forget
<1>4. ip \notin Dropped(ip)
  BY SweptKeeps
<1>5. Forget(ip) \in [Ips -> SUBSET Hits]
  BY DEF Forget, IInv, TypeOK
<1> QED
  BY <1>1, <1>2, <1>3, <1>4, <1>5 DEF LiveBucket

-----------------------------------------------------------------------------
(* The inductive invariant.                                                *)

LEMMA PushedLive ==
  ASSUME NEW b, NEW w \in Nat \ {0}, NEW r \in SUBSET b, \A h \in r : h \in Hits /\ h.age < w
  PROVE  Pushed(r) \subseteq Live(Pushed(b), w)
<1>1. Pushed(r) \subseteq Pushed(b)
  BY DEF Pushed
<1>2. \A h \in r : [h EXCEPT !.since = @ + 1].age < w
  BY DEF Hits
<1>3. ASSUME NEW h \in Pushed(r)
      PROVE  h.age < w
  <2>1. CASE h = [age |-> 0, since |-> 0]
    BY <2>1
  <2>2. CASE \E g \in r : h = [g EXCEPT !.since = @ + 1]
    BY <1>2, <2>2
  <2> QED
    BY <2>1, <2>2 DEF Pushed
<1> QED
  BY <1>1, <1>3 DEF Live

LEMMA InitIInv == Init => IInv
<1> SUFFICES ASSUME Init
             PROVE  IInv
  OBVIOUS
<1>1. Tracked(rateBuckets) = {}
  BY DEF Init, Tracked
<1>2. IsFiniteSet(Tracked(rateBuckets)) /\ Cardinality(Tracked(rateBuckets)) = 0
  BY <1>1, FS_EmptySet
<1>3. TypeOK
  BY Positive DEF Init, TypeOK
<1>4. MapBounded
  BY <1>2, Positive DEF MapBounded
<1>5. Inserted(before, Tracked(rateBuckets))
  <2>1. before = {}
    BY DEF Init
  <2> QED
    BY <1>1, <2>1 DEF Inserted
<1>6. \A ip \in Ips : Numbered(rateBuckets[ip]) /\ recent[ip] \subseteq Live(rateBuckets[ip], windowMs)
  BY DEF Init, Numbered
<1>7. \A ip \in Ips : Waited(ip)
  BY DEF Init, Waited
<1> QED
  BY <1>2, <1>3, <1>4, <1>5, <1>6, <1>7 DEF IInv

LEMMA AdmitIInv ==
  ASSUME IInv, NEW ip \in Ips, Admit(ip)
  PROVE  IInv'
<1> DEFINE S == Swept(ip)
           LB == LiveBucket(ip)
           stays == Tracked([S EXCEPT ![ip] = LB])
<1>1. /\ S \in [Ips -> SUBSET Hits]
      /\ \A q \in Ips : Numbered(S[q]) /\ S[q] \subseteq rateBuckets[q]
      /\ Tracked(S) \subseteq Tracked(rateBuckets)
      /\ IsFiniteSet(Tracked(S)) /\ Cardinality(Tracked(S)) \in Nat
      /\ Cardinality(Tracked(S)) <= MaxIps
      /\ ip \notin Tracked(S) => Cardinality(Tracked(S)) < MaxIps
  BY SweptKeeps
<1>2. /\ \A q \in Ips : Forget(ip)[q] \subseteq Live(S[q], windowMs)
      /\ Forget(ip)[ip] = recent[ip] /\ recent[ip] \subseteq LB
      /\ Forget(ip) \in [Ips -> SUBSET Hits]
  BY RecentCounted
<1>3. TypeOK /\ Inserted(before, Tracked(rateBuckets)) /\ \A q \in Ips : Waited(q)
  BY DEF IInv
<1>4. /\ windowMs \in Nat \ {0} /\ limit \in 1..MaxLimit
      /\ LB \in SUBSET Hits /\ Numbered(LB) /\ Cardinality(LB) < limit
      /\ LB \subseteq S[ip] /\ \A h \in LB : h.age < windowMs
  <2>1. windowMs \in Nat \ {0} /\ limit \in 1..MaxLimit
    BY <1>3, Positive DEF TypeOK
  <2>2. S[ip] \in SUBSET Hits /\ Numbered(S[ip]) /\ LB = Live(S[ip], windowMs)
    BY <1>1 DEF LiveBucket
  <2>3. LB \in SUBSET Hits /\ Numbered(LB)
    BY <2>1, <2>2, LiveNumbered
  <2>4. LB \subseteq S[ip] /\ \A h \in LB : h.age < windowMs
    BY <2>2 DEF Live
  <2> QED
    BY <2>1, <2>3, <2>4 DEF Admit, Accepts
<1>5. Pushed(LB) \in SUBSET Hits /\ Numbered(Pushed(LB)) /\ Pushed(LB) # {}
  <2>1. Pushed(LB) \in SUBSET Hits /\ Numbered(Pushed(LB))
    BY <1>4, PushedNumbered
  <2> QED
    BY <2>1 DEF Pushed
<1>6. /\ rateBuckets' = [S EXCEPT ![ip] = Pushed(LB)]
      /\ before' = Among(stays) \cup (IF ip \in stays THEN {} ELSE stays \X {ip})
      /\ recent' = [Forget(ip) EXCEPT ![ip] = Pushed(@)]
      /\ promise' = [promise EXCEPT ![ip] = None]
      /\ limit' = limit /\ windowMs' = windowMs
      /\ sinceGc' \in {sinceGc, 0}
  BY DEF Admit, Collected
<1> HIDE DEF S, LB
<1>7. Pushed(recent[ip]) \subseteq Live(Pushed(LB), windowMs)
  BY <1>2, <1>4, PushedLive
<1>8. stays \subseteq Tracked(S) /\ Tracked(rateBuckets') = stays \cup {ip}
  BY <1>1, <1>4, <1>5, <1>6 DEF Tracked
<1>9. stays \in SUBSET Tracked(rateBuckets) /\ stays \subseteq Ips
  BY <1>1, <1>8 DEF Tracked
<1> HIDE DEF stays
<1>10. Inserted(before', Tracked(rateBuckets'))
  <2>1. CASE ip \in stays
    <3>1. Tracked(rateBuckets') = stays /\ before' = Among(stays)
      BY <1>6, <1>8, <2>1
    <3>2. Inserted(Among(stays), stays)
      BY <1>3, <1>9, OrderRestricts
    <3> QED
      BY <3>1, <3>2
  <2>2. CASE ip \notin stays
    BY <1>3, <1>6, <1>8, <1>9, <2>2, OrderAppends
  <2> QED
    BY <2>1, <2>2
<1>11. IsFiniteSet(Tracked(rateBuckets')) /\ Cardinality(Tracked(rateBuckets')) <= MaxIps
  <2>1. /\ IsFiniteSet(Tracked(S) \cup {ip})
        /\ Cardinality(Tracked(S) \cup {ip}) <= MaxIps
    <3>1. /\ IsFiniteSet(Tracked(S) \cup {ip})
          /\ Cardinality(Tracked(S) \cup {ip})
               = IF ip \in Tracked(S) THEN Cardinality(Tracked(S)) ELSE Cardinality(Tracked(S)) + 1
      BY <1>1, FS_AddElement
    <3> QED
      BY <1>1, <3>1, Positive
  <2>2. Tracked(rateBuckets') \in SUBSET (Tracked(S) \cup {ip})
    BY <1>8
  <2>3. /\ IsFiniteSet(Tracked(rateBuckets'))
        /\ Cardinality(Tracked(rateBuckets')) <= Cardinality(Tracked(S) \cup {ip})
    BY <2>1, <2>2, FS_Subset
  <2>4. Cardinality(Tracked(rateBuckets')) \in Nat /\ Cardinality(Tracked(S) \cup {ip}) \in Nat
    BY <2>1, <2>3, FS_CardinalityType
  <2> QED
    BY <2>1, <2>3, <2>4, Positive
<1>12. \A q \in Ips : /\ rateBuckets'[q] = IF q = ip THEN Pushed(LB) ELSE S[q]
                      /\ recent'[q] = IF q = ip THEN Pushed(recent[ip]) ELSE Forget(ip)[q]
                      /\ promise'[q] = IF q = ip THEN None ELSE promise[q]
  BY <1>1, <1>2, <1>3, <1>6 DEF TypeOK
<1>13. \A q \in Ips : recent'[q] \subseteq Live(rateBuckets'[q], windowMs')
  BY <1>2, <1>6, <1>7, <1>12
<1>14. before' \in SUBSET (Ips \X Ips)
  BY <1>9, <1>6 DEF Among
<1>15. Pushed(recent[ip]) \in SUBSET Hits
  BY <1>5, <1>7 DEF Live
<1>16. TypeOK'
  <2>1. rateBuckets' \in [Ips -> SUBSET Hits]
    BY <1>1, <1>5, <1>6
  <2>2. recent' \in [Ips -> SUBSET Hits]
    BY <1>2, <1>6, <1>15
  <2>3. promise' \in [Ips -> {None} \cup 0..MaxWindow]
    BY <1>3, <1>6 DEF TypeOK
  <2>4. sinceGc' \in 0..GcInterval
    BY <1>3, <1>6, Positive DEF TypeOK
  <2> QED
    BY <1>3, <1>6, <1>14, <2>1, <2>2, <2>3, <2>4 DEF TypeOK
<1>17. \A q \in Ips : Numbered(rateBuckets'[q])
  BY <1>1, <1>5, <1>12
<1>18. \A q \in Ips : Waited(q)'
  BY <1>1, <1>3, <1>6, <1>12 DEF Waited
<1> QED
  BY <1>10, <1>11, <1>13, <1>16, <1>17, <1>18 DEF IInv, MapBounded, Tracked

LEMMA RefuseIInv ==
  ASSUME IInv, NEW ip \in Ips, Refuse(ip)
  PROVE  IInv'
<1> DEFINE S == Swept(ip)
<1>1. /\ S \in [Ips -> SUBSET Hits]
      /\ \A q \in Ips : Numbered(S[q]) /\ S[q] \subseteq rateBuckets[q]
      /\ Tracked(S) \subseteq Tracked(rateBuckets)
      /\ IsFiniteSet(Tracked(S)) /\ Cardinality(Tracked(S)) <= MaxIps
  BY SweptKeeps
<1>2. /\ \A q \in Ips : Forget(ip)[q] \subseteq Live(S[q], windowMs)
      /\ Forget(ip) \in [Ips -> SUBSET Hits]
  BY RecentCounted
<1>3. TypeOK /\ Inserted(before, Tracked(rateBuckets)) /\ \A q \in Ips : Waited(q)
  BY DEF IInv
<1>4. /\ rateBuckets' = S /\ before' = Among(Tracked(S)) /\ recent' = Forget(ip)
      /\ promise' = [promise EXCEPT ![ip] = IF @ = None THEN windowMs ELSE @]
      /\ limit' = limit /\ windowMs' = windowMs
      /\ sinceGc' \in {sinceGc, 0}
  BY DEF Refuse, Collected
<1> HIDE DEF S
<1>5. Inserted(before', Tracked(rateBuckets'))
  BY <1>1, <1>3, <1>4, OrderRestricts
<1>6. IsFiniteSet(Tracked(rateBuckets')) /\ Cardinality(Tracked(rateBuckets')) <= MaxIps
  BY <1>1, <1>4
<1>7. TypeOK'
  <2>1. before' \in SUBSET (Ips \X Ips)
    BY <1>4 DEF Among, Tracked
  <2>2. promise' \in [Ips -> {None} \cup 0..MaxWindow]
    BY <1>3, <1>4, Positive DEF TypeOK
  <2>3. sinceGc' \in 0..GcInterval
    BY <1>3, <1>4, Positive DEF TypeOK
  <2> QED
    BY <1>1, <1>2, <1>3, <1>4, <2>1, <2>2, <2>3 DEF TypeOK
<1>8. ASSUME NEW q \in Ips
      PROVE  Waited(q)'
  <2>1. promise'[q] = promise[q] \/ promise'[q] = windowMs
    BY <1>3, <1>4 DEF TypeOK
  <2>2. \A h \in rateBuckets'[q] : h \in rateBuckets[q] /\ h.age \in 0..MaxWindow
    BY <1>1, <1>4 DEF Hits
  <2>3. windowMs \in Nat
    BY <1>3, Positive DEF TypeOK
  <2> QED
    BY <1>3, <1>4, <2>1, <2>2, <2>3, Positive DEF Waited
<1> QED
  BY <1>1, <1>2, <1>4, <1>5, <1>6, <1>7, <1>8 DEF IInv, MapBounded, Tracked

LEMMA TickIInv ==
  ASSUME IInv, Tick
  PROVE  IInv'
<1>1. /\ TypeOK /\ Inserted(before, Tracked(rateBuckets)) /\ \A q \in Ips : Waited(q)
      /\ \A q \in Ips : Numbered(rateBuckets[q]) /\ recent[q] \subseteq Live(rateBuckets[q], windowMs)
      /\ IsFiniteSet(Tracked(rateBuckets)) /\ Cardinality(Tracked(rateBuckets)) <= MaxIps
  BY DEF IInv, MapBounded
<1>2. /\ rateBuckets' = [q \in Ips |-> Aged(rateBuckets[q])]
      /\ recent' = [q \in Ips |-> Live(Aged(recent[q]), windowMs)]
      /\ promise' = [q \in Ips |-> IF promise[q] > 0 THEN promise[q] - 1 ELSE promise[q]]
      /\ before' = before /\ limit' = limit /\ windowMs' = windowMs
      /\ sinceGc' = IF sinceGc < GcInterval THEN sinceGc + 1 ELSE sinceGc
  BY DEF Tick
<1>3. \A q \in Ips : Aged(rateBuckets[q]) \in SUBSET Hits /\ Numbered(Aged(rateBuckets[q]))
  BY <1>1, AgedNumbered DEF TypeOK
<1>4. Tracked(rateBuckets') = Tracked(rateBuckets)
  BY <1>2 DEF Tracked, Aged
<1>5. \A q \in Ips : Live(Aged(recent[q]), windowMs) \subseteq Live(Aged(rateBuckets[q]), windowMs)
  BY <1>1 DEF Live, Aged
<1>6. TypeOK'
  <2>1. recent' \in [Ips -> SUBSET Hits]
    BY <1>2, <1>3, <1>5 DEF Live
  <2>2. promise' \in [Ips -> {None} \cup 0..MaxWindow]
    BY <1>1, <1>2, Positive DEF TypeOK, None
  <2>3. sinceGc' \in 0..GcInterval
    BY <1>1, <1>2, Positive DEF TypeOK
  <2> QED
    BY <1>1, <1>2, <1>3, <2>1, <2>2, <2>3 DEF TypeOK
<1>7. ASSUME NEW q \in Ips
      PROVE  Waited(q)'
  <2>1. /\ promise[q] \in {None} \cup 0..MaxWindow /\ windowMs \in 1..MaxWindow
        /\ \A h \in rateBuckets[q] : h.age \in 0..MaxWindow
    BY <1>1 DEF TypeOK, Hits
  <2>2. promise'[q] = IF promise[q] > 0 THEN promise[q] - 1 ELSE promise[q]
    BY <1>2
  <2>3. ASSUME promise'[q] # None, NEW h \in rateBuckets'[q]
        PROVE  h.age + promise'[q] >= windowMs
    <3>1. PICK g \in rateBuckets[q] : h = [g EXCEPT !.age = Elapse(@)]
      BY <1>2 DEF Aged
    <3>2. g \in Hits /\ h.age = Elapse(g.age)
      BY <1>1, <3>1 DEF TypeOK, Hits
    <3>3. promise[q] # None /\ promise[q] \in 0..MaxWindow /\ g.age + promise[q] >= windowMs
      BY <1>1, <2>1, <2>2, <2>3, Positive DEF Waited, None
    <3>4. h.age = IF g.age < MaxWindow THEN g.age + 1 ELSE MaxWindow
      BY <3>2 DEF Elapse
    <3> QED
      BY <2>1, <2>2, <3>3, <3>4, Positive
  <2> QED
    BY <1>2, <2>3 DEF Waited
<1> QED
  BY <1>1, <1>2, <1>3, <1>4, <1>5, <1>6, <1>7 DEF IInv, MapBounded, Tracked

LEMMA ConfigureIInv ==
  ASSUME IInv, NEW l \in 1..MaxLimit, NEW w \in 1..MaxWindow, Configure(l, w)
  PROVE  IInv'
<1>1. /\ TypeOK /\ \A q \in Ips : recent[q] \subseteq Live(rateBuckets[q], windowMs)
      /\ Inserted(before, Tracked(rateBuckets)) /\ \A q \in Ips : Numbered(rateBuckets[q])
      /\ IsFiniteSet(Tracked(rateBuckets)) /\ MapBounded
  BY DEF IInv
<1>2. /\ limit' = l /\ windowMs' = w
      /\ recent' = [q \in Ips |-> Live(recent[q], w)]
      /\ promise' = [q \in Ips |-> None]
      /\ rateBuckets' = rateBuckets /\ before' = before /\ sinceGc' = sinceGc
  BY DEF Configure
<1>3. \A q \in Ips : Live(recent[q], w) \subseteq Live(rateBuckets[q], w)
  BY <1>1 DEF Live
<1>4. recent' \in [Ips -> SUBSET Hits]
  BY <1>1, <1>2 DEF TypeOK, Live
<1>5. TypeOK'
  BY <1>1, <1>2, <1>4 DEF TypeOK
<1>6. \A q \in Ips : Waited(q)'
  BY <1>2 DEF Waited
<1> QED
  BY <1>1, <1>2, <1>3, <1>5, <1>6 DEF IInv, MapBounded, Tracked

\* A process that restarts is in an initial state again.
LEMMA RestartIInv ==
  ASSUME Restart
  PROVE  IInv'
<1>1. Tracked(rateBuckets') = {}
  BY DEF Restart, Tracked
<1>2. IsFiniteSet(Tracked(rateBuckets')) /\ Cardinality(Tracked(rateBuckets')) = 0
  BY <1>1, FS_EmptySet
<1>3. TypeOK'
  BY Positive DEF Restart, TypeOK
<1>4. Inserted(before', Tracked(rateBuckets'))
  <2>1. before' = {}
    BY DEF Restart
  <2> QED
    BY <1>1, <2>1 DEF Inserted
<1>5. \A ip \in Ips : Numbered(rateBuckets'[ip]) /\ recent'[ip] \subseteq Live(rateBuckets'[ip], windowMs')
  BY DEF Restart, Numbered
<1>6. \A ip \in Ips : Waited(ip)'
  BY DEF Restart, Waited
<1> QED
  BY <1>2, <1>3, <1>4, <1>5, <1>6, Positive DEF IInv, MapBounded, Tracked

LEMMA NextIInv == IInv /\ [Next]_vars => IInv'
<1> SUFFICES ASSUME IInv, [Next]_vars
             PROVE  IInv'
  OBVIOUS
<1>1. CASE UNCHANGED vars
  BY <1>1 DEF vars, IInv, TypeOK, MapBounded, Tracked, Waited
<1>2. CASE \E ip \in Ips : Admit(ip) \/ Refuse(ip)
  BY <1>2, AdmitIInv, RefuseIInv
<1>3. CASE Tick
  BY <1>3, TickIInv
<1>4. CASE \E l \in 1..MaxLimit, w \in 1..MaxWindow : Configure(l, w)
  BY <1>4, ConfigureIInv
<1>5. CASE Restart
  BY <1>5, RestartIInv
<1> QED
  BY <1>1, <1>2, <1>3, <1>4, <1>5 DEF Next

-----------------------------------------------------------------------------
(* Theorems.                                                               *)

THEOREM Inductive == Spec => []IInv
BY InitIInv, NextIInv, PTL DEF Spec

\* Types of the Map, of its order and of the history.
THEOREM TypeCorrect == Spec => []TypeOK
<1>1. IInv => TypeOK
  BY DEF IInv
<1> QED
  BY <1>1, Inductive, PTL

\* The Map never outgrows RATE_BUCKETS_MAX_IPS (index.ts:917-921).
THEOREM MapStaysBounded == Spec => []MapBounded
<1>1. IInv => MapBounded
  BY DEF IInv
<1> QED
  BY <1>1, Inductive, PTL

\* A request that finds room below the limit counts every hit admitted in the
\* window (index.ts:938-953).
THEOREM QuotaHolds == Spec => []QuotaKept
<1>1. ASSUME IInv, NEW ip \in Ips, Accepts(ip)
      PROVE  Cardinality(recent[ip]) < limit
  <2>1. recent[ip] \subseteq LiveBucket(ip)
    BY <1>1, RecentCounted
  <2>2. LiveBucket(ip) \in SUBSET Hits
    BY <1>1, SweptKeeps DEF LiveBucket, Live
  <2>3. IsFiniteSet(LiveBucket(ip)) /\ IsFiniteSet(recent[ip])
    BY <2>1, <2>2, HitsFinite, FS_Subset
  <2>4. /\ Cardinality(recent[ip]) <= Cardinality(LiveBucket(ip))
        /\ Cardinality(LiveBucket(ip)) \in Nat /\ Cardinality(recent[ip]) \in Nat
    BY <2>1, <2>3, FS_Subset, FS_CardinalityType
  <2>5. limit \in Nat
    BY <1>1, Positive DEF IInv, TypeOK
  <2> QED
    BY <1>1, <2>4, <2>5 DEF Accepts
<1>2. IInv => QuotaKept
  BY <1>1 DEF QuotaKept
<1> QED
  BY <1>2, Inductive, PTL

\* An IP that waited for the Retry-After it was given is admitted
\* (index.ts:942-951).
THEOREM RetryAfterKept == Spec => []RetryAfterHonoured
<1>1. ASSUME IInv, NEW ip \in Ips, promise[ip] = 0
      PROVE  Accepts(ip)
  <2>1. Swept(ip)[ip] \subseteq rateBuckets[ip] /\ Swept(ip)[ip] \in SUBSET Hits
    BY <1>1, SweptKeeps
  <2>2. windowMs \in Nat /\ limit \in Nat /\ limit > 0
    BY <1>1, Positive DEF IInv, TypeOK
  <2>3. \A h \in Swept(ip)[ip] : h.age >= windowMs /\ h.age \in Int
    BY <1>1, <2>1, <2>2, Positive DEF IInv, Waited, None, Hits
  <2>4. LiveBucket(ip) = {}
    BY <2>2, <2>3 DEF LiveBucket, Live
  <2> QED
    BY <2>2, <2>4, FS_EmptySet DEF Accepts
<1>2. IInv => RetryAfterHonoured
  BY <1>1 DEF RetryAfterHonoured
<1> QED
  BY <1>2, Inductive, PTL

\* The quota knows one exception, an IP dropped at the ceiling; it does not occur
\* while no more IPs than RATE_BUCKETS_MAX_IPS send requests (index.ts:917-921).
THEOREM NobodyDropped ==
  ASSUME IsFiniteSet(Ips), Cardinality(Ips) <= MaxIps
  PROVE  Spec => [](\A ip \in Ips : Dropped(ip) = {})
<1>1. ASSUME IInv, NEW ip \in Ips
      PROVE  Dropped(ip) = {}
  <2> DEFINE m == pruneExpiredRateBuckets(rateBuckets)
  <2>1. IsFiniteSet(Tracked(m)) /\ Cardinality(Tracked(m)) \in Nat
    BY <1>1, PruneKeeps
  <2> HIDE DEF m
  <2>2. ASSUME ip \notin Tracked(m)
        PROVE  Cardinality(Tracked(m)) < MaxIps
    <3>1. Tracked(m) \in SUBSET Ips /\ Tracked(m) # Ips
      BY <1>1, <2>2 DEF Tracked
    <3>2. Cardinality(Tracked(m)) <= Cardinality(Ips) /\ Cardinality(Tracked(m)) # Cardinality(Ips)
      BY <3>1, FS_Subset
    <3>3. Cardinality(Ips) \in Nat
      BY FS_CardinalityType
    <3> QED
      BY <2>1, <3>2, <3>3, Positive
  <2>3. Room(m, ip) = m
    BY <2>1, <2>2, Positive DEF Room
  <2> QED
    BY <2>3 DEF Dropped, Swept, m
<1>2. IInv => \A ip \in Ips : Dropped(ip) = {}
  BY <1>1
<1> QED
  BY <1>2, Inductive, PTL
=============================================================================
