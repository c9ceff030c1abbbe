-------------------------- MODULE PairQuotes_proofs --------------------------
(***************************************************************************)
(* Proofs about PairQuotes.  Every entry of the cache is the price of now, *)
(* because each handler that changes metadata drops the entries of its     *)
(* pair, and the minimum of a pair stays within its other bounds, because  *)
(* each patch is checked against the fields that the others set.           *)
(***************************************************************************)
EXTENDS PairQuotes, TLAPS

\* A share of an amount is a whole number between nothing and all of it, so a
\* fee leaves a net amount and slippage leaves something that is not negative.
LEMMA ShareWithinAmount ==
  ASSUME NEW amount \in Nat, NEW bps \in 0..BpsScale
  PROVE  Share(amount, bps) \in 0..amount
<1>1. BpsScale \in Nat \ {0}
  BY QuoteAssumption
<1> DEFINE product == amount * bps
           share == product \div BpsScale
<1>2. product \in Nat
  BY <1>1
<1>3. product <= amount * BpsScale
  BY <1>1
<1>4. amount * BpsScale \in Nat
  BY <1>1
<1>5. share \in Int /\ share * BpsScale <= product /\ product < (share + 1) * BpsScale
  BY <1>1, <1>2
<1>6. share >= 0
  <2> HIDE DEF share, product
  <2>1. SUFFICES ASSUME share < 0 PROVE FALSE
    BY <1>5
  <2>2. (share + 1) * BpsScale <= 0
    BY <2>1, <1>5, <1>1
  <2> QED
    BY <2>2, <1>5, <1>2, <1>1
<1>7. share <= amount
  <2> HIDE DEF share, product
  <2>1. SUFFICES ASSUME share >= amount + 1 PROVE FALSE
    BY <1>5
  <2>2. share * BpsScale >= (amount + 1) * BpsScale
    BY <2>1, <1>5, <1>1
  <2>3. (amount + 1) * BpsScale = amount * BpsScale + BpsScale
    BY <1>1
  <2> QED
    BY <2>2, <2>3, <1>3, <1>4, <1>5, <1>2, <1>1
<1> QED
  BY <1>5, <1>6, <1>7 DEF Share

-----------------------------------------------------------------------------
(* The inductive invariant.                                                *)

LEMMA InitIInv == Init => IInv
<1> SUFFICES ASSUME Init PROVE IInv
  OBVIOUS
<1>1. defaultMeta \in Meta
  BY QuoteAssumption DEF defaultMeta, Meta
<1>2. TypeOK
  BY <1>1, QuoteAssumption DEF Init, TypeOK
<1>3. \A p \in Pairs : MinWithinBounds(meta[p])
  BY DEF Init, defaultMeta, MinWithinBounds
<1> QED
  BY <1>2, <1>3 DEF IInv, Init, NoDeadEntries

\* Dropping the entries of the one pair whose metadata may have changed keeps
\* every remaining entry current and correctly priced.
LEMMA InvalidationKeeps ==
  ASSUME IInv, NEW p \in Pairs, invalidateQuoteCache(p),
         \A q \in Pairs \ {p} : meta'[q] = meta[q]
  PROVE  /\ version' \in [Pairs -> 0..MaxVersion]
         /\ cache' \in SUBSET Entries
         /\ NoDeadEntries'
         /\ \A e \in cache' : PricedNow(e)'
<1>1. version' \in [Pairs -> 0..MaxVersion]
  BY QuoteAssumption DEF IInv, TypeOK, invalidateQuoteCache
<1>2. cache' \subseteq cache /\ cache' \in SUBSET Entries
  BY DEF IInv, TypeOK, invalidateQuoteCache
<1>3. ASSUME NEW e \in cache' PROVE e.pair \in Pairs \ {p} /\ version'[e.pair] = version[e.pair]
  BY <1>2, <1>3 DEF IInv, TypeOK, invalidateQuoteCache, Entries
<1>4. NoDeadEntries'
  BY <1>2, <1>3 DEF IInv, NoDeadEntries
<1>5. \A e \in cache' : PricedNow(e)'
  BY <1>2, <1>3 DEF IInv, PricedNow
<1> QED
  BY <1>1, <1>2, <1>4, <1>5

\* The handlers that give a registered pair other metadata.
LEMMA SetMetaKeeps ==
  ASSUME IInv, NEW p \in Pairs, NEW m \in Meta, MinWithinBounds(m), SetMeta(p, m)
  PROVE  IInv'
<1>1. meta' \in [Pairs -> Meta] /\ (\A q \in Pairs \ {p} : meta'[q] = meta[q]) /\ meta'[p] = m
  BY DEF IInv, TypeOK, SetMeta
<1>2. invalidateQuoteCache(p)
  BY DEF SetMeta
<1>3. \A q \in Pairs : MinWithinBounds(meta'[q])
  BY <1>1 DEF IInv
<1>4. registry' \in SUBSET Pairs /\ ttl' \in 1..MaxTtl /\ allowUnregistered' \in BOOLEAN
  BY DEF IInv, TypeOK, SetMeta
<1> QED
  BY <1>1, <1>2, <1>3, <1>4, InvalidationKeeps DEF IInv, TypeOK

\* One patch changes one field, and the check it passes is what keeps the
\* minimum within the bounds.
LEMMA PatchMetaKeeps ==
  ASSUME IInv, NEW p \in Pairs, PatchMeta(p)
  PROVE  IInv'
<1> DEFINE m == meta[p]
<1>1. m \in Meta /\ MinWithinBounds(m)
  BY DEF IInv, TypeOK
<1>2. m.minAmount \in Nat /\ m.maxAmount \in Nat /\ m.liquidity \in Nat
  BY <1>1, QuoteAssumption DEF Meta
<1> HIDE DEF m
<1>3. CASE \E v \in Fees : PatchFee(p, v)
  <2> PICK v \in Fees : PatchFee(p, v)
    BY <1>3
  <2> DEFINE n == [m EXCEPT !.feeBps = v]
  <2>1. n \in Meta /\ MinWithinBounds(n)
    BY <1>1 DEF Meta, MinWithinBounds
  <2>2. SetMeta(p, n)
    BY DEF PatchFee, m
  <2> HIDE DEF n
  <2> QED
    BY <2>1, <2>2, SetMetaKeeps
<1>4. CASE \E v \in Bounds : PatchMin(p, v)
  <2> PICK v \in Bounds : PatchMin(p, v)
    BY <1>4
  <2> DEFINE n == [m EXCEPT !.minAmount = v]
  <2>1. checkMinAgainstMax(m, v) /\ checkMinAgainstLiquidity(m, v) /\ SetMeta(p, n)
    BY DEF PatchMin, m
  <2>2. n \in Meta /\ n.minAmount = v /\ n.maxAmount = m.maxAmount /\ n.liquidity = m.liquidity
    BY <1>1 DEF Meta
  <2> HIDE DEF n
  <2>3. MinWithinBounds(n)
    BY <2>1, <2>2 DEF MinWithinBounds, checkMinAgainstMax, checkMinAgainstLiquidity
  <2> QED
    BY <2>1, <2>2, <2>3, SetMetaKeeps
<1>5. CASE \E v \in Bounds : PatchMax(p, v)
  <2> PICK v \in Bounds : PatchMax(p, v)
    BY <1>5
  <2> DEFINE n == [m EXCEPT !.maxAmount = v]
  <2>1. checkMaxAgainstMin(m, v) /\ SetMeta(p, n)
    BY DEF PatchMax, m
  <2>2. n \in Meta /\ n.minAmount = m.minAmount /\ n.maxAmount = v /\ n.liquidity = m.liquidity
    BY <1>1 DEF Meta
  <2>3. v \in Nat
    BY QuoteAssumption
  <2> HIDE DEF n
  <2>4. MinWithinBounds(n)
    BY <1>1, <1>2, <2>1, <2>2, <2>3 DEF MinWithinBounds, checkMaxAgainstMin
  <2> QED
    BY <2>1, <2>2, <2>4, SetMetaKeeps
<1>6. CASE \E v \in Bounds : PatchLiquidity(p, v)
  <2> PICK v \in Bounds : PatchLiquidity(p, v)
    BY <1>6
  <2> DEFINE n == [m EXCEPT !.liquidity = v]
  <2>1. checkLiquidityAgainstMin(m, v) /\ SetMeta(p, n)
    BY DEF PatchLiquidity, m
  <2>2. n \in Meta /\ n.minAmount = m.minAmount /\ n.maxAmount = m.maxAmount /\ n.liquidity = v
    BY <1>1 DEF Meta
  <2>3. v \in Nat
    BY QuoteAssumption
  <2> HIDE DEF n
  <2>4. MinWithinBounds(n)
    BY <1>1, <1>2, <2>1, <2>2, <2>3 DEF MinWithinBounds, checkLiquidityAgainstMin
  <2> QED
    BY <2>1, <2>2, <2>4, SetMetaKeeps
<1>7. CASE \E v \in BOOLEAN : PatchEnabled(p, v)
  <2> PICK v \in BOOLEAN : PatchEnabled(p, v)
    BY <1>7
  <2> DEFINE n == [m EXCEPT !.enabled = v]
  <2>1. n \in Meta /\ MinWithinBounds(n)
    BY <1>1 DEF Meta, MinWithinBounds
  <2>2. SetMeta(p, n)
    BY DEF PatchEnabled, m
  <2> HIDE DEF n
  <2> QED
    BY <2>1, <2>2, SetMetaKeeps
<1> QED
  BY <1>3, <1>4, <1>5, <1>6, <1>7 DEF PatchMeta

\* Registering and unregistering leave the metadata as it is.
LEMMA RegistrationKeeps ==
  ASSUME IInv, NEW p \in Pairs, Register(p) \/ Unregister(p)
  PROVE  IInv'
<1>1. invalidateQuoteCache(p) /\ meta' = meta /\ ttl' = ttl
      /\ registry' \in SUBSET Pairs /\ allowUnregistered' = allowUnregistered
  BY DEF Register, Unregister, IInv, TypeOK
<1>2. /\ version' \in [Pairs -> 0..MaxVersion] /\ cache' \in SUBSET Entries
      /\ NoDeadEntries' /\ \A e \in cache' : PricedNow(e)'
  BY <1>1, InvalidationKeeps
<1> QED
  BY <1>1, <1>2 DEF IInv, TypeOK

\* A miss puts the price of now in the place of an expired entry.
LEMMA QuoteMissKeeps ==
  ASSUME IInv, NEW p \in Pairs, NEW amount \in Amounts, QuoteMiss(p, amount)
  PROVE  IInv'
<1> DEFINE fee == meta[p].feeBps
           priced == applyFee(amount, fee)
           fresh == [pair |-> p, amount |-> amount, version |-> version[p],
                     feeBps |-> fee, feeAmount |-> priced.feeAmount,
                     netAmount |-> priced.netAmount, left |-> ttl]
           older == {e \in cache : e.pair = p /\ e.amount = amount /\ e.version = version[p]}
<1>1. cache' = (cache \ older) \cup {fresh} /\ UNCHANGED <<registry, meta, version, ttl, allowUnregistered>>
  BY DEF QuoteMiss
<1>2. amount \in Nat /\ fee \in Fees /\ fee \in 0..BpsScale
  BY QuoteAssumption DEF IInv, TypeOK, Meta
<1> HIDE DEF fee
<1>3. Share(amount, fee) \in 0..amount
  BY <1>2, ShareWithinAmount
<1>4. priced.feeAmount = Share(amount, fee) /\ priced.netAmount = amount - Share(amount, fee)
  BY DEF applyFee
<1> HIDE DEF priced
<1>5. priced.feeAmount \in Nat /\ priced.netAmount \in Nat
  BY <1>2, <1>3, <1>4
<1>6. version[p] \in 0..MaxVersion /\ ttl \in 0..MaxTtl
  BY QuoteAssumption DEF IInv, TypeOK
<1>7. fresh \in Entries
  BY <1>2, <1>5, <1>6 DEF Entries
<1>8. /\ fresh.pair = p /\ fresh.amount = amount /\ fresh.version = version[p]
      /\ fresh.feeBps = fee /\ fresh.feeAmount = priced.feeAmount /\ fresh.netAmount = priced.netAmount
  OBVIOUS
<1> HIDE DEF fresh
<1>9. cache' \in SUBSET Entries
  BY <1>1, <1>7 DEF IInv, TypeOK
<1>10. NoDeadEntries'
  BY <1>1, <1>8 DEF IInv, NoDeadEntries
<1>11. PricedNow(fresh)
  BY <1>4, <1>8 DEF PricedNow, fee
<1>12. \A e \in cache' : PricedNow(e)'
  BY <1>1, <1>11 DEF IInv, PricedNow
<1> QED
  BY <1>1, <1>9, <1>10, <1>12 DEF IInv, TypeOK

\* Time only changes what is left to an entry.
LEMMA TickKeeps ==
  ASSUME IInv, Tick
  PROVE  IInv'
<1>1. ASSUME NEW e \in Entries
      PROVE  /\ Age(e) \in Entries
             /\ Age(e).pair = e.pair /\ Age(e).amount = e.amount /\ Age(e).version = e.version
             /\ Age(e).feeBps = e.feeBps /\ Age(e).feeAmount = e.feeAmount
             /\ Age(e).netAmount = e.netAmount
  BY <1>1, QuoteAssumption DEF Entries, Age
<1>2. cache' = {Age(e) : e \in cache} /\ UNCHANGED <<registry, meta, version, ttl, allowUnregistered>>
  BY DEF Tick
<1>3. cache \subseteq Entries
  BY DEF IInv, TypeOK
<1>4. cache' \in SUBSET Entries
  BY <1>1, <1>2, <1>3
<1>5. NoDeadEntries'
  BY <1>1, <1>2, <1>3 DEF IInv, NoDeadEntries
<1>6. \A e \in cache' : PricedNow(e)'
  BY <1>1, <1>2, <1>3 DEF IInv, PricedNow
<1> QED
  BY <1>2, <1>4, <1>5, <1>6 DEF IInv, TypeOK

LEMMA NextIInv == IInv /\ [Next]_vars => IInv'
<1> SUFFICES ASSUME IInv, [Next]_vars PROVE IInv'
  OBVIOUS
<1>1. ASSUME NEW p \in Pairs, Register(p) \/ Unregister(p) PROVE IInv'
  BY <1>1, RegistrationKeeps
<1>2. ASSUME NEW p \in Pairs, PatchMeta(p) PROVE IInv'
  BY <1>2, PatchMetaKeeps
<1>3. ASSUME NEW p \in Pairs, Reset(p) PROVE IInv'
  <2>1. defaultMeta \in Meta /\ MinWithinBounds(defaultMeta)
    BY QuoteAssumption DEF defaultMeta, Meta, MinWithinBounds
  <2> QED
    BY <1>3, <2>1, SetMetaKeeps DEF Reset
<1>4. ASSUME NEW p \in Pairs, NEW amount \in Amounts, QuoteMiss(p, amount) PROVE IInv'
  BY <1>4, QuoteMissKeeps
<1>5. ASSUME NEW n \in 1..MaxTtl, PatchTtl(n) PROVE IInv'
  BY <1>5 DEF PatchTtl, IInv, TypeOK, NoDeadEntries, PricedNow
<1>6. CASE Tick
  BY <1>6, TickKeeps
<1>7. CASE Restart
  <2>1. Init'
    BY <1>7 DEF Restart, Init
  <2> QED
    BY <2>1, InitIInv, PTL
<1>8. CASE UNCHANGED vars
  BY <1>8 DEF vars, IInv, TypeOK, NoDeadEntries, PricedNow
<1> QED
  BY <1>1, <1>2, <1>3, <1>4, <1>5, <1>6, <1>7, <1>8 DEF Next

\* Every reachable state satisfies the inductive invariant.
THEOREM Inductive == Spec => []IInv
BY InitIInv, NextIInv, PTL DEF Spec

-----------------------------------------------------------------------------
(* What it gives.                                                          *)

\* The state of index.ts and stores.ts that quotes are made from has its type.
THEOREM TypeCorrect == Spec => []TypeOK
<1>1. IInv => TypeOK
  BY DEF IInv
<1> QED
  BY <1>1, Inductive, PTL

\* A reachable cache never changes what GET /quote answers.
LEMMA FreshFromInvariant == IInv => QuotesAreFresh
<1> SUFFICES ASSUME IInv, NEW p \in Pairs, NEW amount \in Amounts, NEW bps \in Slippages
             PROVE  Quote(p, amount, bps) = priceQuote(meta[p], amount, bps)
  BY DEF QuotesAreFresh
<1>1. CASE Hits(p, amount) # {}
  <2> DEFINE e == CHOOSE d \in cache : IsHit(d, p, amount)
  <2>1. e \in cache /\ IsHit(e, p, amount)
    BY <1>1 DEF Hits
  <2>2. Quote(p, amount, bps) = FromCache(e, bps)
    BY <1>1 DEF Quote
  <2> HIDE DEF e
  <2>3. /\ e.feeBps = meta[p].feeBps
        /\ e.feeAmount = Share(amount, meta[p].feeBps)
        /\ e.netAmount = amount - Share(amount, meta[p].feeBps)
    BY <2>1 DEF IInv, PricedNow, IsHit
  <2> QED
    BY <2>2, <2>3 DEF FromCache, priceQuote, applyFee
<1>2. CASE Hits(p, amount) = {}
  BY <1>2 DEF Quote
<1> QED
  BY <1>1, <1>2

\* GET /quote answers as if there were no cache, for all pairs, amounts, fees,
\* slippages and lifetimes.
THEOREM CacheInvisible == Spec => []QuotesAreFresh
BY FreshFromInvariant, Inductive, PTL

\* The cache holds at most one entry per pair and amount, of the pair's current version.
THEOREM CacheBounded == Spec => []NoDeadEntries
<1>1. IInv => NoDeadEntries
  BY DEF IInv
<1> QED
  BY <1>1, Inductive, PTL

\* No order of accepted patches makes a pair advertise a minimum it refuses.
THEOREM MinimumTradable == Spec => []MinimumIsFillable
<1>1. IInv => MinimumIsFillable
  <2> SUFFICES ASSUME IInv, NEW p \in Pairs PROVE checkQuoteBounds(meta[p], meta[p].minAmount) = "none"
    BY DEF MinimumIsFillable
  <2>1. /\ meta[p].minAmount \in Nat /\ meta[p].maxAmount \in Nat /\ meta[p].liquidity \in Nat
        /\ MinWithinBounds(meta[p])
    BY QuoteAssumption DEF IInv, TypeOK, Meta
  <2> QED
    BY <2>1 DEF checkQuoteBounds, MinWithinBounds
<1> QED
  BY <1>1, Inductive, PTL

\* The single and the bulk endpoint give an enabled registered pair one price.
THEOREM EndpointsAgree == Spec => []BulkAgreesWithSingle
<1>1. IInv => BulkAgreesWithSingle
  <2> SUFFICES ASSUME IInv, NEW p \in registry, NEW amount \in Amounts, meta[p].enabled
               PROVE  /\ BulkRefusal(p, amount) = "none" <=> Refusal(p, amount) = "none"
                      /\ Refusal(p, amount) = "none"
                           => priceQuote(meta[p], amount, 0) = Quote(p, amount, 0)
    BY DEF BulkAgreesWithSingle
  <2>1. p \in Pairs /\ Quotable(p)
    BY DEF IInv, TypeOK, Quotable
  <2>2. BulkRefusal(p, amount) = "none" <=> Refusal(p, amount) = "none"
    BY <2>1 DEF BulkRefusal, Refusal
  <2>3. QuotesAreFresh /\ 0 \in Slippages
    BY FreshFromInvariant, QuoteAssumption
  <2> QED
    BY <2>1, <2>2, <2>3 DEF QuotesAreFresh
<1> QED
  BY <1>1, Inductive, PTL
=============================================================================
