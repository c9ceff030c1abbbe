----------------------------- MODULE PairQuotes -----------------------------
(***************************************************************************)
(* Pairs, their metadata and the three quote endpoints, with the cache     *)
(* that GET /api/v1/quote keeps in front of the pricing functions.  Every  *)
(* handler is one step: nothing in them awaits.                            *)
(*                                                                         *)
(* The pair's rate is left out: like feeBps it is patched, reset, priced   *)
(* and cached, and takes no part in the arithmetic.  Quotes that change    *)
(* nothing (hits, refusals, reverse and bulk quotes) are operators here,   *)
(* not steps.                                                              *)
(***************************************************************************)
EXTENDS Integers

CONSTANTS
  Pairs,              \* pair keys
  Amounts,            \* amounts a client may quote
  Fees,               \* values of feeBps
  Bounds,             \* values of minAmount, maxAmount and liquidity; 0 is "unset"
  Slippages,          \* values of slippage_bps
  BpsScale,           \* basis points in one: 10 000
  MaxTtl,             \* largest quote_ttl_ms, in ticks
  MaxVersion          \* bound on the version counter of a pair

ASSUME QuoteAssumption ==
  /\ BpsScale \in Nat \ {0}
  /\ Amounts \subseteq Nat \ {0}
  /\ Bounds \subseteq Nat /\ 0 \in Bounds
  /\ Fees \subseteq 0..BpsScale /\ 0 \in Fees
  /\ Slippages \subseteq 0..BpsScale /\ 0 \in Slippages
  /\ MaxTtl \in Nat \ {0}
  /\ MaxVersion \in Nat

VARIABLES
  registry,  \* stores.ts: pairRegistry
  meta,      \* stores.ts: pairMeta; a pair it has no entry for reads as defaultMeta
  version,   \* index.ts: pairMetaVersions, 0 where it has no entry
  cache,     \* index.ts: quoteCache, a set of entries with distinct keys
  ttl,       \* stores.ts: config.quote_ttl_ms, in ticks
  allowUnregistered  \* ALLOW_UNREGISTERED_QUOTES of this process

vars == <<registry, meta, version, cache, ttl, allowUnregistered>>

Meta == [feeBps : Fees, minAmount : Bounds, maxAmount : Bounds, liquidity : Bounds,
         enabled : BOOLEAN]

\* left is expiresAt - now, floored at 0.
Entries == [pair : Pairs, amount : Amounts, version : 0..MaxVersion,
            feeBps : Fees, feeAmount : Nat, netAmount : Nat, left : 0..MaxTtl]

TypeOK ==
  /\ registry \in SUBSET Pairs
  /\ meta \in [Pairs -> Meta]
  /\ version \in [Pairs -> 0..MaxVersion]
  /\ cache \in SUBSET Entries
  /\ ttl \in 1..MaxTtl
  /\ allowUnregistered \in BOOLEAN

defaultMeta == [feeBps |-> 0, minAmount |-> 0, maxAmount |-> 0, liquidity |-> 0,
                enabled |-> TRUE]

-----------------------------------------------------------------------------
(* Pricing (src/pricing.ts).                                               *)

\* Rounded down, for fees and for slippage.
Share(amount, bps) == (amount * bps) \div BpsScale

applyFee(amount, bps) == [feeAmount |-> Share(amount, bps), netAmount |-> amount - Share(amount, bps)]

applySlippage(amount, bps) == amount - Share(amount, bps)

\* The quote for an amount: fee first, then slippage on what is left.
priceQuote(m, amount, bps) ==
  LET priced == applyFee(amount, m.feeBps)
  IN  [feeBps      |-> m.feeBps,
       feeAmount   |-> priced.feeAmount,
       netAmount   |-> priced.netAmount,
       minReceived |-> applySlippage(priced.netAmount, bps)]

priceReverseQuote(m, target) == [requiredInput |-> target]

\* The first bound that amount is out of, or "none".
checkQuoteBounds(m, amount) ==
  CASE m.minAmount # 0 /\ amount < m.minAmount -> "below_min"
    [] m.maxAmount # 0 /\ amount > m.maxAmount -> "above_max"
    [] m.liquidity # 0 /\ amount > m.liquidity -> "insufficient_liquidity"
    [] OTHER -> "none"

-----------------------------------------------------------------------------
(* The quote endpoints.                                                    *)

Quotable(p) == allowUnregistered \/ p \in registry

\* Why GET /api/v1/quote refuses; `enabled` is not looked at.
Refusal(p, amount) ==
  IF ~Quotable(p) THEN "pair_not_registered" ELSE checkQuoteBounds(meta[p], amount)

IsHit(e, p, amount) ==
  e.pair = p /\ e.amount = amount /\ e.version = version[p] /\ e.left > 0

Hits(p, amount) == {e \in cache : IsHit(e, p, amount)}

\* Mutant: the slippage of the caller who filled the cache is answered to all.
FromCacheNoSlippage(e, bps) ==
  [feeBps |-> e.feeBps, feeAmount |-> e.feeAmount, netAmount |-> e.netAmount,
   minReceived |-> e.netAmount]

\* A hit: the caller's own slippage on the cached net amount.
FromCache(e, bps) ==
  [feeBps |-> e.feeBps, feeAmount |-> e.feeAmount, netAmount |-> e.netAmount,
   minReceived |-> applySlippage(e.netAmount, bps)]

\* What GET /api/v1/quote answers when it does not refuse.
Quote(p, amount, bps) ==
  IF Hits(p, amount) # {}
  THEN FromCache(CHOOSE e \in cache : IsHit(e, p, amount), bps)
  ELSE priceQuote(meta[p], amount, bps)

\* Mutant: bounds are left to the single-quote endpoint.
BulkRefusalNoBounds(p, amount) ==
  CASE ~Quotable(p) -> "pair_not_registered"
    [] p \in registry /\ ~meta[p].enabled -> "pair_disabled"
    [] OTHER -> "none"

\* POST /api/v1/quote/bulk, per item; an accepted item is priced uncached, without slippage.
BulkRefusal(p, amount) ==
  CASE ~Quotable(p) -> "pair_not_registered"
    [] p \in registry /\ ~meta[p].enabled -> "pair_disabled"
    [] p \in registry /\ checkQuoteBounds(meta[p], amount) # "none" -> "out_of_bounds"
    [] OTHER -> "none"

\* GET /api/v1/quote/reverse looks at the registration only.
ReverseRefusal(p) == IF ~Quotable(p) THEN "pair_not_registered" ELSE "none"

-----------------------------------------------------------------------------
(* Handlers.                                                               *)

\* Mutant: the version is bumped, the entries are left to expire.
BumpVersion(p) ==
  /\ version[p] < MaxVersion
  /\ version' = [version EXCEPT ![p] = @ + 1]
  /\ UNCHANGED cache

invalidateQuoteCache(p) ==
  /\ version[p] < MaxVersion
  /\ version' = [version EXCEPT ![p] = @ + 1]
  /\ cache' = {e \in cache : e.pair # p}

\* POST /api/v1/pairs, and each valid item of POST /api/v1/pairs/bulk.
Register(p) ==
  /\ registry' = registry \cup {p}
  /\ invalidateQuoteCache(p)
  /\ UNCHANGED <<meta, ttl, allowUnregistered>>

\* The metadata stays behind.
Unregister(p) ==
  /\ p \in registry
  /\ registry' = registry \ {p}
  /\ invalidateQuoteCache(p)
  /\ UNCHANGED <<meta, ttl, allowUnregistered>>

\* The tail that the metadata handlers share.
SetMeta(p, m) ==
  /\ p \in registry
  /\ meta' = [meta EXCEPT ![p] = m]
  /\ invalidateQuoteCache(p)
  /\ UNCHANGED <<registry, ttl, allowUnregistered>>

checkMinAgainstMax(m, v) == m.maxAmount # 0 => v <= m.maxAmount

checkMaxAgainstMin(m, v) == m.minAmount # 0 => v >= m.minAmount

\* Mutant: liquidity is accepted as it comes.
LiquidityUnchecked(m, v) == TRUE

checkLiquidityAgainstMin(m, v) == v # 0 /\ m.minAmount # 0 => v >= m.minAmount

checkMinAgainstLiquidity(m, v) == m.liquidity # 0 => v <= m.liquidity

PatchFee(p, v) == SetMeta(p, [meta[p] EXCEPT !.feeBps = v])

PatchMin(p, v) ==
  /\ checkMinAgainstMax(meta[p], v) /\ checkMinAgainstLiquidity(meta[p], v)
  /\ SetMeta(p, [meta[p] EXCEPT !.minAmount = v])

PatchMax(p, v) ==
  /\ v # 0
  /\ checkMaxAgainstMin(meta[p], v)
  /\ SetMeta(p, [meta[p] EXCEPT !.maxAmount = v])

PatchLiquidity(p, v) ==
  /\ checkLiquidityAgainstMin(meta[p], v)
  /\ SetMeta(p, [meta[p] EXCEPT !.liquidity = v])

PatchEnabled(p, v) == SetMeta(p, [meta[p] EXCEPT !.enabled = v])

\* Mutant: the cache is forgotten.
ResetStale(p) ==
  /\ p \in registry
  /\ meta' = [meta EXCEPT ![p] = defaultMeta]
  /\ UNCHANGED <<registry, version, cache, ttl, allowUnregistered>>

Reset(p) == SetMeta(p, defaultMeta)

\* GET /api/v1/quote that is not refused and finds no live entry.
QuoteMiss(p, amount) ==
  /\ Refusal(p, amount) = "none"
  /\ Hits(p, amount) = {}
  /\ LET priced == applyFee(amount, meta[p].feeBps)
         fresh  == [pair |-> p, amount |-> amount, version |-> version[p],
                    feeBps |-> meta[p].feeBps, feeAmount |-> priced.feeAmount,
                    netAmount |-> priced.netAmount, left |-> ttl]
         older  == {e \in cache : e.pair = p /\ e.amount = amount /\ e.version = version[p]}
     IN  cache' = (cache \ older) \cup {fresh}
  /\ UNCHANGED <<registry, meta, version, ttl, allowUnregistered>>

\* PATCH /api/v1/config with quote_ttl_ms; cached entries keep their deadline.
PatchTtl(n) == ttl' = n /\ UNCHANGED <<registry, meta, version, cache, allowUnregistered>>

\* Mutant: deadlines run on below zero.
AgeRaw(e) == [e EXCEPT !.left = @ - 1]

\* An expired entry stays in the cache.
Age(e) == [e EXCEPT !.left = IF @ > 0 THEN @ - 1 ELSE 0]

Tick ==
  /\ cache' = {Age(e) : e \in cache}
  /\ UNCHANGED <<registry, meta, version, ttl, allowUnregistered>>

Init ==
  /\ registry = {}
  /\ meta = [p \in Pairs |-> defaultMeta]
  /\ version = [p \in Pairs |-> 0]
  /\ cache = {}
  /\ ttl = MaxTtl
  /\ allowUnregistered \in BOOLEAN

\* A new process without a snapshot (PERSIST_PATH unset).  With one it begins
\* from a registry and metadata of an earlier state, and an empty cache: what
\* follows is a behaviour from here that omits the later handlers.
Restart ==
  /\ registry' = {}
  /\ meta' = [p \in Pairs |-> defaultMeta]
  /\ version' = [p \in Pairs |-> 0]
  /\ cache' = {}
  /\ ttl' = MaxTtl
  /\ allowUnregistered' \in BOOLEAN

PatchMeta(p) ==
  \/ \E v \in Fees : PatchFee(p, v)
  \/ \E v \in Bounds : PatchMin(p, v)
  \/ \E v \in Bounds : PatchMax(p, v)
  \/ \E v \in Bounds : PatchLiquidity(p, v)
  \/ \E v \in BOOLEAN : PatchEnabled(p, v)

Next ==
  \/ \E p \in Pairs : Register(p)
  \/ \E p \in Pairs : Unregister(p)
  \/ \E p \in Pairs : PatchMeta(p)
  \/ \E p \in Pairs : Reset(p)
  \/ \E p \in Pairs, amount \in Amounts : QuoteMiss(p, amount)
  \/ \E n \in 1..MaxTtl : PatchTtl(n)
  \/ Tick
  \/ Restart

Spec == Init /\ [][Next]_vars

-----------------------------------------------------------------------------
(* Properties.                                                             *)

\* The cache is invisible: for every pair, amount and slippage, what GET /quote
\* would answer now is what pricing from the metadata of now gives, whatever
\* sequence of patches, resets, deletions, re-registrations, TTL changes and
\* quotes by other callers led here.
QuotesAreFresh ==
  \A p \in Pairs, amount \in Amounts, bps \in Slippages :
    Refusal(p, amount) = "none"
      => Quote(p, amount, bps) = priceQuote(meta[p], amount, bps)

\* No entry outlives the version it was made under, so each pair holds at most
\* one entry per amount: nothing ever evicts expired entries, and only this
\* keeps them from piling up at every metadata change.
NoDeadEntries ==
  /\ \A e \in cache : e.version = version[e.pair]
  /\ \A d, e \in cache : d.pair = e.pair /\ d.amount = e.amount => d = e

\* The minimum a pair advertises can be traded, whatever the order of the
\* patches ("a pair that advertises a minimum it can never fill",
\* docs/api.md:322-323); it holds for the metadata a deleted pair leaves too.
MinimumIsFillable ==
  \A p \in Pairs : meta[p].minAmount # 0 => checkQuoteBounds(meta[p], meta[p].minAmount) = "none"

\* The single and the bulk endpoint, which check separately, accept the same
\* amounts for a registered pair that is enabled, at the same price.
BulkAgreesWithSingle ==
  \A p \in registry, amount \in Amounts :
    meta[p].enabled =>
      /\ BulkRefusal(p, amount) = "none" <=> Refusal(p, amount) = "none"
      /\ Refusal(p, amount) = "none" => priceQuote(meta[p], amount, 0) = Quote(p, amount, 0)

\* Inductive strengthening: every entry is the price of now, and the bounds of
\* a pair are consistent with its minimum.
PricedNow(e) ==
  /\ e.feeBps = meta[e.pair].feeBps
  /\ e.feeAmount = Share(e.amount, e.feeBps)
  /\ e.netAmount = e.amount - e.feeAmount

MinWithinBounds(m) ==
  /\ m.maxAmount # 0 => m.minAmount <= m.maxAmount
  /\ m.liquidity # 0 => m.minAmount <= m.liquidity

IInv ==
  /\ TypeOK
  /\ NoDeadEntries
  /\ \A e \in cache : PricedNow(e)
  /\ \A p \in Pairs : MinWithinBounds(meta[p])
=============================================================================
