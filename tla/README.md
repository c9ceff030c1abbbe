# Verification of the StableRoute backend

TLA+ modules, TLC runs and TLAPS proofs about the code in `src/src/`. One Node.js
process serves an HTTP API (Express) that registers asset pairs, prices quotes for
them, keeps an event log, API keys and webhook registrations in memory, and may save
all of it to one JSON file.

Paths below are relative to `src/src/`. `PROJECT.json` has the exact lines behind every
definition, the runs, one mutant per property, the findings and the hazards.

## 1. Inventory

JavaScript runs one callback at a time, so a handler without an `await` is atomic, and
every handler of this service is. What can interleave is everything around handlers:
bodies that arrive after the headers, timers, signals, microtasks, system calls between
which the process can die, and the order in which clients, admins and operators send
legal requests.

| Component | State | Operations | What is hard | What makes it correct |
|---|---|---|---|---|
| Admin modes (`index.ts` guards and `/admin/*`, `stores.ts`, `pauseState.ts`) | `paused`, `readOnly`, pause-state file | pause, unpause, read-only, read-write; two guards in front of every handler; load at start | crossing admins, non-atomic file write, swallowed errors, crash between memory and file | operators are never locked out; an answered mode survives crashes; a pause freezes the stores |
| Stores, event log, snapshots (`stores.ts`, `persistence.ts`) | four collections, `eventLog`, save timer, write queue, snapshot file | every mutating handler, debounce, save, hydration | crash between stages, failed writes, mutation during a save, cap changes, unreadable file | the file is one whole state; nothing is lost at rest; log and registry agree; the log is bounded |
| Server lifecycle (`server.ts`) | HTTP server, grace timer, flush | start, SIGTERM/SIGINT, drain, flush, exit | signals during a drain, clients that never leave, flush against exit | exit 0 loses nothing; every signal ends the process |
| Pairs and metadata (`index.ts`) | `pairRegistry`, `pairMeta` | register, delete, reset, PATCH of one field | cross-field checks against stored values, metadata that survives a deletion | the advertised minimum can be traded |
| Pricing and quotes (`pricing.ts`, `index.ts`) | `quoteCache`, `pairMetaVersions` | single, reverse and bulk quote | stale cache, rounding, three endpoints with their own checks | the cache is invisible; single and bulk quotes agree on enabled, registered pairs |
| Idempotency guard, request timer (`index.ts`) | `idempotencyCache`, one timer per request | replay, conflict, execute, prune, 503 | repeats whose bodies come in any order, late bodies after a 503, eviction, expiry, a restart that keeps records and loses the cache | a keyed create runs once in its window, per process; a replay vouches for a record that exists |
| API keys (`index.ts`, `stores.ts`) | `apiKeyStore` by prefix | mint, delete, rotate, authenticate | prefix collisions, grace windows, restart from an older snapshot | deleted keys stay out; a key works as long as its client was told, over the whole grace window of a rotation; rotation retires the old key |
| Rate limiter (`index.ts`, `utils/clientIp.ts`) | `rateBuckets`, `lastRateBucketGcAt` | admit or refuse, collect, evict | reconfiguration under live buckets, ceiling, collection interval | quota kept; Retry-After honoured; Map bounded |
| Runtime configuration (`index.ts`) | `config` | PATCH of up to six keys | keys are assigned one by one before the next is checked; the cap reaches into the log | a cap is in force at once, and no step outgrows it |
| Event reads and lists (`index.ts`) | none of their own; the client's cursor | filter, page by offset | the list is pushed, shifted, trimmed, created in and deleted from between two pages | nothing that stays is missed (events); nothing is repeated (webhooks); a walk ends |
| Webhooks (`index.ts`, `utils/webhookUrl.ts`) | `webhookStore` | create, get, list, patch, delete | a PATCH of one webhook while others are listed; nothing delivers to them in this commit | its place in the list |
| Storage adapter (`store/adapter.ts`) | four keyed collections and the events, in memory and in one file | set, delete, append, trim, flush, clear, load | a save that throws after memory has changed; a crash inside a save | what a returned call told stays true; the file is one whole state |
| Metrics, health, version, docs, errors, CORS, headers, logging | none, or counters that are only read | — | — | stateless; `GET /health/deep` arms the save timer and is modelled for that |
| `ci/audit.ts` | — | — | — | a command-line check in CI, not part of the service |

How they interact: the guards stand in front of every handler, in the order request
timer, body, content type, pause, read-only, rate limiter, idempotency, handler. Every
handler that mutates a wrapped collection arms the one save timer of the stores.
Handlers of pairs invalidate the quote cache. PATCH `/config` reaches into the event
log, the quote lifetime, the rate limiter and the request timer. Shutdown calls the
save directly. A restart empties everything but the two files.

## 2. Modules

| Module | Models | Composes |
|---|---|---|
| `AdminModes` | the two modes, guards, pause file | |
| `DurableStore` | abstract: what a `StoreAdapter` promises | |
| `SnapshotStore` | stores, event log, debounce, staged write, hydration | implements `DurableStore` |
| `Shutdown` | process life: boot, drain, signals, flush, exit | extends `SnapshotStore`, implements `DurableStore` |
| `PairQuotes` | pairs, metadata, pricing, quote endpoints, quote cache | |
| `Idempotency` | Idempotency-Key guard and request timer | |
| `ApiKeys` | key records, rotation, snapshot and restart | |
| `RateLimiter` | buckets, collection, ceiling, reconfiguration | |
| `RuntimeConfig` | PATCH `/config`, the event log with its cap | |
| `Webhooks` | registrations in insertion order, and the events they record | extends `RuntimeConfig` |
| `Pages` | a client that pages through events or webhooks while everybody else changes them | extends `Webhooks` |
| `StorageAdapter` | `JsonFileAdapter`: synchronous saves, errors, crash, load | implements `DurableStore` |
| `MC*` | instances for TLC | |
| `*_proofs` | theorems | extend their component; `Shutdown_proofs` is about `SnapshotStore` too, `Pages_proofs` about all of `RuntimeConfig`, `Webhooks` and `Pages` |

Operators marked "Mutant" are plausible bugs of the definition that follows; no
specification uses them. They show that each property can fail.

**AdminModes.** A request `Arrive`s (headers read, `express.json` waiting) and later has
its guards and handler run in one step, so a mode can change in between. `Pause` and
`Unpause` are `setPaused`: memory first, then `savePausedState`, whose system calls
(`OpenPauseFile` truncates, `WritePauseFile`, `UnlinkPauseFile`) are steps, with
`FailSave` for an error, which the code swallows. `step` blocks other requests
meanwhile, as the synchronous calls do. `agreed` is history: the mode the last admin
answer promised. It becomes "unknown" when the file operation failed or when another
admin has asked for the opposite; nothing can be promised then. Admins are a fixed set;
with no `ADMIN_TOKEN` every client is one.

**SnapshotStore.** `pairRegistry` stands for the four wrapped collections (`wrapSet`,
`wrapMap` and `wrapArray` do the same). `RegisterPair`, `UnregisterPair`, `PostEvent`,
`DeepHealth` and `SetEventLogCap` are handlers; `TriggerSnapshot` arms the timer;
`TimerFires` is `saveSnapshotImmediately`; `WriteTemp`, `Rename`, `FailWrite` are
`writeSnapshot`. Between `TimerFires` and the end of the write nothing else runs,
because the queued write is a microtask and its file calls are synchronous, but the
process can die. A bulk registration is a sequence of `RegisterPair` whose intermediate
states no client sees. `Start` hydrates; `StartUnreadable` is a file that cannot be
read, parsed or migrated. `cap` is configuration, is not saved, and is the default
after a restart. The unit tests' `resetStores` is not modelled. `PERSIST_PATH` is set;
without it the adapter does nothing and there is nothing to check.

**Shutdown.** `Signal` is `handleShutdown`: each signal adds a grace timer and a close
callback. Node emits `close` once both hold: close was called and no connection is left;
`Turn` is a callback of the event loop, which comes after a due `close`. `Drained` starts
the flush, `FlushSettles` exits 0, also after a failed write. `DrainedTwice` is the error
path of a second callback. The flush timeout is absent: the flush is done in a microtask
before any timer can fire.

**PairQuotes.** One step per handler that changes something. Quotes that change nothing
(hits, refusals, bulk, reverse) are operators that the invariants evaluate in every
state. A cached entry carries the ticks left to it, 0 once expired; it is not removed
then, as in the code. The rate is left out (patched, reset, copied and cached like the
fee, in no arithmetic). Invalid requests change nothing and are left out. `Restart`
is a process without a snapshot.

**Idempotency.** `Send`, then either the body is complete in time or `Timeout` answers
503; a late body still runs the guard and the handler (its `res.json` caches before it
fails to send). The Map is a function from keys to entries; `since`, the number of
entries cached after one, stands for the insertion order. `Restart` empties the cache
and leaves any subset of `records`, the keys whose create has left a record: which of
them the last snapshot had depends on when it was saved, and `SnapshotStore` has shown
that it is some whole earlier state. `window` is history: it opens with the first run
of a key, counts the runs and the restarts since, and closes when the entry's lifetime
is over, when as many other keys as the cache holds have run, or after `MaxRestarts`
restarts. Requests without a key bypass all this.

**ApiKeys.** The store maps prefixes to records, and raw keys are drawn at most once.
Deadlines are ticks left, -1 once passed. `Restart` goes back to the last snapshot and
may undo a deletion that was not saved; `buried` has the deletions that were. Rotating
keeps nothing of the predecessor's expiry for the successor. `promised` is history: how
long the answers to clients said each raw key would work (`expiresAt` of a create,
`graceExpiresAt` of a rotation unless the key's own life ends before it, no end for a
successor). It runs down by itself with every tick, so `NoKeyDiesEarly` holds the records
against a second clock; `kept` is what `promised` was when the file was written.

**RateLimiter.** The Map is a function from IPs to buckets (no hits: no entry, since the
code deletes a bucket that becomes empty) with its insertion order as a relation, `before`.
A hit is its age and its place in the bucket, counted from the newest (`since`).
`Admit` and `Refuse` do all the middleware does: collection when the interval is over,
the ceiling, the filter, deletion of an empty bucket, `Map.set`. `recent` and `promise`
are history: what a client may hold the service to.

**RuntimeConfig, Webhooks, Pages.** `Applied(body)` has the keys the loop of the handler
has assigned when it answers: those before the first bad one, in the order of `Allowed`.
The log is a set of numbered events; the number is the order of recording and stands for
the timestamp that `since` compares. `Newest(log, n)` is what `trimEventLog` leaves.
`hooks` is the Map as a sequence; `MapSet` keeps the place of a key that is set again.
A page changes nothing in the service, so one walk at a time stands for any number of
clients: `FirstEvents` and `FirstHooks` begin one, `NextEvents` and `NextHooks` continue
at the cursor, and `Advance` is `paginate`. `owed` and `seen` are history: what the
client must still be given, and what it has been given. A malformed cursor, limit or
type answers 400 and changes nothing; it is left out. What the pages promise holds
within one life of the process.

**StorageAdapter.** A call changes memory, then `WriteTemp` (open, write, sync, close) and
`Rename`; `Throw` is an error at either stage, which the call passes on while memory keeps
the change. Calls are synchronous, so none begins before the other is over, but the
process can die anywhere. `told` is history: what the calls that returned have told their
callers, until another call on the same key or event contradicts it. A failed call takes
back what was known of its key (the file may have it or not after the next save), but of
no other. A file that does not parse loads as an empty store with a warning; it cannot
come from `_save`, so `LoadUnreadable` is somebody else's doing and ends all promises.

## 3. Plan

Done, in this order: AdminModes, SnapshotStore and DurableStore, Shutdown, PairQuotes,
Idempotency, ApiKeys, RateLimiter; then RuntimeConfig, Webhooks and Pages, Idempotency
with restarts and records, StorageAdapter. Proofs of all of them: every invariant and every
action property that a passing run checks is a theorem.

Left, in order of worth:

1. More of what delimits the findings: which bodies of several keys are applied whole or
   not at all, and what is lost when a second signal comes.
2. Lists of API keys and pairs, which share `paginate` with the lists modelled here, and
   their ETags. Keys are listed in insertion order like webhooks, so `NoEntryRepeated`
   carries over as long as no key is hydrated between two pages.
3. Scopes and `lastUsedAt` of API keys, once a route requires a scope.

## 4. Runs

Sizes are distinct states. Every run keeps deadlock checking on.

| Run | States | What it shows |
|---|---|---|
| `MCAdminModes` | 20 thousand | no lock-out, promises kept over crashes, frozen while paused, recovery happens |
| `MCSnapshotStore` | 252 437 | durability, whole file, audit trail against registry, ceiling of the log, eventual save |
| `MCShutdown` | 2 716 | exit 0 saves, signals end the process, whole file |
| `MCShutdownTwice` | — | finding: a second signal skips the flush |
| `MCPairQuotes` | 1 096 162 | cache invisible, no dead entries, minimum tradable, single and bulk quotes agree on enabled, registered pairs |
| `MCIdempotency` | 806 468 | creates run once per process, replays are backed by records, cache bounded, every request answered |
| `MCApiKeys` | 178 844 | deleted keys stay out, no key dies before what its client was told, rotation retires |
| `MCDeadStaysDead` | — | finding: rotating a dead key revives it |
| `MCRateLimiter` | 99 972 | quota, Retry-After, bounded Map |
| `MCPages` | 114 626 | no event missed, no webhook repeated, cap in force at once, walks end |
| `MCPatchAtomic` | — | finding: a refused PATCH stays half applied |
| `MCStorageAdapter` | 86 670 | what was told is durable and answered, whole file |

Bounds, and why they are enough:

- AdminModes: two admins whose requests cross and one client without the token. The
  modes are two bits and each request is independent of the others, so a third admin
  adds no new crossing. No other bound: the state space is finite.
- SnapshotStore: two pairs, `DefaultCap` 1 below `MaxCap` 2, so that the cap can be
  raised, lowered and forgotten, and an eviction can remove the last word on one pair
  and not on the other; a timer of one tick, so that a mutation can hit it armed, due
  and off. Log and file are bounded by the caps themselves.
- Shutdown: one pair and a log of one tell a saved state from a stale one; `MaxConns` 2,
  `MaxSignals` 2.
- PairQuotes: two pairs, a scale of 4 instead of 10 000, so that fees and slippage of
  small amounts round; bounds 0, 2, 3 on both sides of each other and of the amounts 2
  and 3; lifetimes up to 2 ticks; `MaxVersion` 3 changes of each pair between two
  restarts: enough to cache, change, cache and change back.
- Idempotency: two clients whose requests overlap while their bodies are under way
  (guard, handler and insertion are one turn), three keys for a cache of two, two
  bodies of which one is valid, a lifetime of two ticks; a window is followed over
  `MaxRestarts` 1 restart, while restarts themselves are unbounded.
- ApiKeys: four raw keys under three prefixes, so that one prefix is freed and taken
  again and a key is rotated twice; own life up to 1 tick and grace 2 ticks, so
  that a window has an inside, is rotated again within and can outlast the key's own life.
- RateLimiter: three IPs for a Map of two, limits and windows up to 3, a collection
  interval of 2, shorter and longer than the window. IPs are symmetric (`Permutations`);
  the run has invariants only.
- Pages: six events ever, a default cap of 2 and a ceiling of 3, so that the log is
  trimmed, shifted and hydrated above its cap; a page clamp of 2, so that limits lie
  below, at and above the clamps and a walk has several pages; three webhooks ever, so
  that one is created and one deleted between two pages. The bodies of a PATCH have a
  bad key before or after a cap that is good, bad or above its ceiling. `MaxEvents` and
  `MaxHooks` bound the run; `MaxEvents` also ends the recording that a walk chases, but
  `WalkEnds` does not lean on it: each page moves the offset and the log is bounded by
  its cap.
- StorageAdapter: two keys, so that one call can fail between two calls on the other; two
  values, so that a key can be set again; three events to append and trim.

Fairness, and what in the code justifies it:

- AdminModes: a supervisor restarts the process (weak); a handler that has begun goes on
  (weak); each client's request is served if it keeps getting its turn (strong, since
  crashes interrupt); admins who want the service back repeat the recovery requests
  (strong). The last is a premise about operators, not about code, and is what
  `OperatorRecovers` is about.
- SnapshotStore: timers expire, microtasks run, a supervisor restarts (weak).
  `SettledStoreIsSaved` has its own premise, that clients stop: under traffic that never
  pauses for 100 ms the debounce is re-armed for ever and nothing is saved.
- Shutdown: saves, close callbacks and flushes run (weak); the grace timer is armed once
  and never re-armed, so it expires although requests keep taking the turn (strong).
  Clients owe nothing.
- Idempotency: the request timer fires (weak); bodies need not arrive.
- ApiKeys: the clock goes on (weak).
- Pages: a client that was given a cursor asks for its next page sooner or later (weak,
  `NextEvents`). This is a premise about the client, and `WalkEnds` is about what it gets.
- PairQuotes, RateLimiter and StorageAdapter have no liveness properties and no fairness.

## 5. Proofs

Each theorem holds for every value of the constants that meets the module's assumptions.
The pattern is the same throughout: `Init => IInv`, `IInv /\ [Next]_vars => IInv'` by one
lemma or step per action, and `IInv => property`; the last step is temporal (PTL).

- `AdminModes_proofs`. `RecoveryReachable` and `AgreedModeDurable` are not inductive:
  they need that the two modes are never on together (a paused service refuses
  `read-only`, a read-only service refuses `pause`), that an agreed pause has an intact
  file which nothing is about to touch, and that the file operation under way follows
  what memory holds. `FrozenWhileAgreed` is proved from the same invariant.
  Assumption: admins are clients.
- `Shutdown_proofs`, the stores. `AtRestDurable` needs that a save under way holds exactly what
  the stores hold (`SaveIsCurrent`), which is true because nothing runs during it.
  `AuditAgreesWithRegistry` needs the same of the file, and a lemma that dropping the
  oldest entries of a log keeps the last words of what is left. `Refinement` maps every
  save to the one step in which the file is replaced. Assumptions: the caps are positive
  and ordered; the debounce is a natural number.
- `PairQuotes_proofs`. `QuotesAreFresh` needs that every entry, expired or not, is priced
  from the metadata of now, which needs `NoDeadEntries`; `MinimumIsFillable` is made
  inductive by stating the bounds as inequalities (`MinWithinBounds`). Lemmas bound the
  share of an amount (`0 <= Share <= amount`). Assumptions: `QuoteAssumption`.
- `ApiKeys_proofs`. A record sits under the prefix of its raw key, and that key is
  issued and not deleted, in the store and in the snapshot (`Placed`); what a client was
  told is no longer than the deadlines of that record (`Honoured`), which a tick shortens
  by as much. A fresh key takes an empty prefix, so it disturbs neither (`MintKeeps`):
  that gives `PromisesKept`. Colliding prefixes are allowed. What a step does to a record that it does not rotate (lemma
  `RecordStep`) gives `GraceRunsOut`, the safety half of `RotatedKeysDie`: only a rotation
  or a restart moves the end of a grace window away, and every tick brings it closer.
  Assumptions: `ApiKeyAssumption`.
- `Idempotency_proofs`. `SafeRetry` needs that an entry has lasted no longer, and has been
  followed by no more others, than the window of its key says (`WindowKept`). Eviction
  then spares it by counting: the entries cached after it have distinct positions below
  its own (`Ordered`), so fewer than `MaxEntries` of them exist and it is not the oldest
  of a full cache (lemma `RecentStays`). `CacheBounded` is inductive with `Ordered`.
  Assumptions: `IdempotencyAssumption`.
- `Pages_proofs`. `NoEventMissed` needs that every event the client is owed lies beyond its
  cursor (`OwedAhead`): what is recorded goes in front of the list and moves the others
  outwards, and what is shifted or trimmed goes from its far end (lemma `PlaceMovesOut`).
  `CapEnforced` follows from lemmas on what `PushAndShift` and `Newest` leave, and with it
  that the log and the offset of a walk stay below the ceiling of the cap
  (`WalkStaysBounded`); each page moves the offset (`PagesAdvance`). The two are the safety
  half of `WalkEnds`: a walk has no more pages than the ceiling.
  `NoEntryRepeated` needs the order of the Map (`HookInv`): ids grow along it and are at
  most `drawn`, and so are the ids given to the client. A deletion then only moves entries
  towards the pages already read, a new entry has an id the client cannot have, and a
  page has other ids than all places behind it.
  Assumptions: those of `RuntimeConfig`, `Webhooks` and `Pages`.
- `RateLimiter_proofs`. The buckets need that places are numbered without gaps, the newer
  the younger (`Numbered`); then a filter by age keeps the numbering, and a bucket below
  the limit has room for one more place (lemmas `LiveNumbered`, `PushedNumbered`). The Map
  needs that `before` is a strict total order of the tracked IPs (`Inserted`): a finite one
  has a first element (lemma `FirstExists`), so making room for a new IP really removes one,
  and `MapBounded` is inductive. `QuotaKept` needs that every recent hit is in the bucket
  and live under the window of now; it survives collection, which only takes stale hits,
  and reconfiguration, after which hits too old for the new window are recent no more.
  `RetryAfterHonoured` needs that the age of every hit and what is left of the promise
  make up the window (`Waited`): a refusal adds no hit and time takes from the one what it
  gives to the other. `NobodyDropped` says when the exception in the quota does not occur.
  Assumption: `RateLimiterAssumption`.
- `Shutdown_proofs`, the process. The steps of a process's life on the stores are steps of
  `SnapshotStore`, so its invariant and its refinement carry over; `CleanExitSaves` needs
  that after the start of the flush nothing changes the stores (`FlushIsLast`).
- `StorageAdapter_proofs`. `ToldIsDurable` is not inductive: it needs that memory agrees
  with what was told as well (`ToldIsAnswered`), because a later call on another key writes
  all of memory, and that what the call under way will tell is already in memory.
  Assumption: `AdapterAssumption`.

What delimits the findings. The runs that refute a promise show one way to break it; three
theorems show that it is the only one, for every value of the constants:
`FlushedAfterOneSignal` (with at most one signal a drained process has flushed before it
exits), `DeadUnlessRotatedAgain` (a key over its grace window stays out unless it is rotated
again, or a restart goes back to an older snapshot), `OneKeyPatchIsAtomic` (a refused PATCH
of one key changes nothing). Their premises are about clients and operators, not about the
code: a single signal, no rotation of a dead key, bodies of one key.

Before a proof, its invariant (`IInv`, `HookInv`, `LInv`) was checked by TLC on the instance
of the run; the runs list the properties only.

Only model-checked: all liveness (`OperatorRecovers`, `SettledStoreIsSaved`,
`SignalEndsProcess`, `AlwaysAnswered`, `RotatedKeysDie`, `WalkEnds`), which the prover does
not reach: it has no rules for fairness and ENABLED, and the step from a bound that shrinks
to an end that comes is an induction it cannot instantiate. Of `WalkEnds` and
`RotatedKeysDie` the safety half is proved, of `OperatorRecovers` that the way out is always
open (`NoLockout`), of `SettledStoreIsSaved` that a store that differs from its file has a
timer, a write or a failure (`NoLostMutation`). No module has a recursive definition, and
none of the proofs needs induction over data. The types of ApiKeys and Shutdown are proved
and not checked by a run.

## 6. Findings

1. A second signal during a drain exits 1 before the flush (`server.ts:215`).
2. Rotating a key whose grace window is over revives it (`index.ts:1831`).
3. A PATCH of the configuration that is refused with 400 stays half applied, and may have
   trimmed the event log; `openapi.ts:149` calls it atomic (`index.ts:2534`).

Smaller disagreements of the docs with the code, met on the way and not made runs:

- `stores.ts:166` calls the cap of the event log hard; hydration does not trim and the cap
  is not saved, so a log can stay above it after a restart (`stores.ts:315`), up to the
  ceiling (`EventLogWithinCeiling`) and without growing (`CapEnforced`).
- `stores.ts:63` says `enabled` decides whether a pair is quoted; only the bulk endpoint
  looks at it (`index.ts:2986`, `index.ts:3106`).
- `docs/api.md:124-125` calls the eviction of tracked IPs least-recently-active; it is by
  first admission (`index.ts:919`). `docs/api.md:123` puts the ceiling at 50 000, the code
  at 10 000.
- `docs/events.md:127` lists events oldest first; they come newest first, which is what
  `NoEventMissed` rests on.
- `docs/api.md` allows `bulkMaxItems` up to 100 000; the code refuses more than 10 000.
- `store/adapter.ts:208` has state written on every mutation; a delete repeated after its
  save failed finds nothing in memory, returns false without saving, and the key is back
  after a restart (`adapter.ts:293`).
- `docs/quote-bounds.md:9-10` orders minAmount, maxAmount and liquidity, but maxAmount and
  liquidity are never compared.
- `README.md:92` and `.env.example:72` call the idempotency cache LRU, but a replay does not
  refresh an entry; `docs/idempotency.md` lists three guarded endpoints and `POST /events`
  is a fourth.
- The comment at `index.ts:1657` calls a prefix collision astronomically unlikely, but four
  hexadecimal digits give 65 536 prefixes.

## 7. Not modelled, and why

Request validation and error bodies (stateless), the lists of pairs and keys, CSV and ETag
(reads), delivery to webhooks (there is none), the check of webhook URLs (a pure predicate
on one string), metrics, headers and logging (no state that
anything depends on), `lastUsedAt` and scopes (no route requires a scope in this
commit), the schema migration (a pure rewrite before hydration; a file it refuses is
`StartUnreadable`), bind errors at start, and the loss of file-system writes that were
synced or renamed.
