------------------------------- MODULE ApiKeys -------------------------------
(***************************************************************************)
(* The life of API keys: minting, expiry, rotation with a grace window,    *)
(* deletion, and what a restart does to them.  The store holds a record    *)
(* per prefix; the raw key is never kept, but only the raw key that a      *)
(* record was made for verifies against it.                                *)
(*                                                                         *)
(* A deadline is kept as the ticks left to it, -1 once it has passed.      *)
(* Labels, scopes and lastUsedAt, which no decision here depends on, are   *)
(* left out; requireScope changes nothing else and is the operator         *)
(* Authenticates.                                                          *)
(***************************************************************************)
EXTENDS Integers

CONSTANTS
  Raws,      \* raw keys that can be drawn, each at most once
  Prefixes,  \* what apiKeyPrefix cuts from them
  PrefixOf,  \* apiKeyPrefix, which can collide
  MaxLife,   \* bound on expiresInSeconds, in ticks
  Grace      \* ROTATION_GRACE_MS, in ticks

ASSUME ApiKeyAssumption ==
  /\ PrefixOf \in [Raws -> Prefixes]
  /\ MaxLife \in Nat
  /\ Grace \in Nat

VARIABLES
  store,    \* apiKeyStore
  saved,    \* apiKeyStore in the snapshot file
  issued,   \* raw keys returned to a client (history)
  deleted,  \* raw keys whose deletion this process or the file knows of (history)
  buried,   \* those whose deletion is in the file (history)
  promised, \* ticks for which this process told clients a raw key would work (history)
  kept      \* the same of the process that wrote the file (history)

told == <<deleted, promised>>
filed == <<saved, buried, kept>>
vars == <<store, issued, told, filed>>

Never == -2
Past == -1
Deadlines(n) == {Never} \cup Past..n

NoRecord == [life |-> Never]
Records == [raw : Raws, life : Deadlines(MaxLife), grace : Deadlines(Grace)]
Stores == [Prefixes -> Records \cup {NoRecord}]
Promises == [Raws -> Deadlines(MaxLife) \cup Deadlines(Grace)]

TypeOK ==
  /\ store \in Stores
  /\ saved \in Stores
  /\ issued \in SUBSET Raws
  /\ deleted \in SUBSET issued
  /\ buried \in SUBSET deleted
  /\ promised \in Promises
  /\ kept \in Promises

-----------------------------------------------------------------------------
\* A deadline stands until the clock is past it.
Stands(left) == left = Never \/ left >= 0

\* Only a rotated key has a grace deadline.
isKeyValid(r) == Stands(r.life) /\ Stands(r.grace)

\* Mutant: the prefix is taken for the key.
AuthenticatesByPrefix(raw) ==
  LET r == store[PrefixOf[raw]] IN r # NoRecord /\ isKeyValid(r)

\* requireScope lets raw key `raw` through, scopes apart.
Authenticates(raw) ==
  LET r == store[PrefixOf[raw]] IN r # NoRecord /\ isKeyValid(r) /\ r.raw = raw

\* mintApiKey: a key not drawn before, drawn again while its prefix is taken.
Mintable(raw, taken) == raw \notin issued /\ taken[PrefixOf[raw]] = NoRecord

Record(raw, life) == [raw |-> raw, life |-> life, grace |-> Never]

Create(raw, life) ==
  /\ Mintable(raw, store)
  /\ store' = [store EXCEPT ![PrefixOf[raw]] = Record(raw, life)]
  /\ issued' = issued \cup {raw}
  /\ promised' = [promised EXCEPT ![raw] = life]
  /\ UNCHANGED <<deleted, filed>>

Shorter(m, n) == IF m = Never \/ (n # Never /\ n < m) THEN n ELSE m

\* What the answer to a rotation tells: the predecessor works until graceExpiresAt,
\* but not beyond its own life, and the successor without end.
Promise(p, raw) ==
  promised' = [promised EXCEPT ![store[p].raw] = Shorter(store[p].life, Grace), ![raw] = Never]

\* Mutant: the predecessor is stamped with now, not with now + ROTATION_GRACE_MS.
RotateAtOnce(p, raw) ==
  /\ store[p] # NoRecord
  /\ Mintable(raw, store)
  /\ store' = [store EXCEPT ![p].grace = 0, ![PrefixOf[raw]] = Record(raw, Never)]
  /\ issued' = issued \cup {raw}
  /\ Promise(p, raw)
  /\ UNCHANGED <<deleted, filed>>

\* The predecessor is stamped whatever state it is in; the successor never expires.
Rotate(p, raw) ==
  /\ store[p] # NoRecord
  /\ Mintable(raw, store)
  /\ store' = [store EXCEPT ![p].grace = Grace, ![PrefixOf[raw]] = Record(raw, Never)]
  /\ issued' = issued \cup {raw}
  /\ Promise(p, raw)
  /\ UNCHANGED <<deleted, filed>>

Delete(p) ==
  /\ store[p] # NoRecord
  /\ store' = [store EXCEPT ![p] = NoRecord]
  /\ deleted' = deleted \cup {store[p].raw}
  /\ promised' = [promised EXCEPT ![store[p].raw] = Past]
  /\ UNCHANGED <<issued, filed>>

-----------------------------------------------------------------------------
(* Time, snapshots, restarts.                                              *)

\* Mutant: the clock stops one tick short of a deadline.
ElapseShort(left) == IF left > 0 THEN left - 1 ELSE left

Elapse(left) == IF left >= 0 THEN left - 1 ELSE left

Older(r) ==
  IF r = NoRecord THEN r ELSE [r EXCEPT !.life = Elapse(@), !.grace = Elapse(@)]

\* A promise runs down by itself, not by what the records make of time.
RunDown(promises) ==
  [raw \in Raws |-> IF promises[raw] >= 0 THEN promises[raw] - 1 ELSE promises[raw]]

Tick ==
  /\ store' = [p \in Prefixes |-> Older(store[p])]
  /\ saved' = [p \in Prefixes |-> Older(saved[p])]
  /\ promised' = RunDown(promised)
  /\ kept' = RunDown(kept)
  /\ UNCHANGED <<issued, deleted, buried>>

Save ==
  /\ saved' = store
  /\ buried' = deleted
  /\ kept' = promised
  /\ UNCHANGED <<store, issued, told>>

\* What was done after the last save is undone, deletions included.
Restart ==
  /\ store' = saved
  /\ deleted' = buried
  /\ promised' = kept
  /\ UNCHANGED <<issued, filed>>

Init ==
  /\ store = [p \in Prefixes |-> NoRecord]
  /\ saved = store
  /\ issued = {}
  /\ deleted = {}
  /\ buried = {}
  /\ promised = [raw \in Raws |-> Past]
  /\ kept = promised

Next ==
  \/ \E raw \in Raws, life \in {Never} \cup 1..MaxLife : Create(raw, life)
  \/ \E p \in Prefixes, raw \in Raws : Rotate(p, raw)
  \/ \E p \in Prefixes : Delete(p)
  \/ Tick
  \/ Save
  \/ Restart

Spec == Init /\ [][Next]_vars

\* The clock goes on.
FairSpec == Spec /\ WF_vars(Tick)

-----------------------------------------------------------------------------
(* Properties.                                                             *)

\* A deleted key is out for good: another key minted under its prefix does not
\* let it in again, nor does a restart once a snapshot has the deletion.
DeletedStaysOut == \A raw \in deleted : ~Authenticates(raw)

\* No key dies early, and rotation has no gap: a key works for as long as its client
\* was told, its successor without end and itself until graceExpiresAt or the end of
\* its own life, whatever is minted, rotated or deleted beside it.  A restart goes
\* back to what was told when the file was written.
NoKeyDiesEarly == \A raw \in Raws : promised[raw] # Past => Authenticates(raw)

\* Rotation retires: when no key is rotated any more and no restart undoes a
\* rotation, every rotated key ends up dead, its own life unlimited or not.
RotatedKeysDie ==
  <>[][~Restart /\ \A p \in Prefixes, raw \in Raws : ~Rotate(p, raw)]_vars
    => <>[](\A p \in Prefixes :
              store[p] # NoRecord /\ store[p].grace # Never => ~isKeyValid(store[p]))

\* "Absolute epoch-ms deadline after which a rotated (predecessor) key is
\* considered invalid" (stores.ts:98-99): refuted, rotating the dead predecessor
\* again moves the deadline and it authenticates once more.
DeadStaysDead ==
  [][\A p \in Prefixes, raw \in Raws :
       store[p] # NoRecord /\ store[p].raw = raw /\ store[p].grace = Past /\ ~Restart
         => ~Authenticates(raw)']_vars

\* Inductive strengthening: a record sits under the prefix of its raw key, which
\* was issued and is not among the deleted ones.
Placed(st, gone) ==
  \A p \in Prefixes : st[p] # NoRecord =>
    PrefixOf[st[p].raw] = p /\ st[p].raw \in issued \ gone

\* And a promise is no longer than the deadlines of the record it is about.
Within(n, deadline) == deadline = Never \/ (n # Never /\ n <= deadline)

Honoured(st, promises) ==
  \A raw \in Raws : promises[raw] # Past =>
    LET r == st[PrefixOf[raw]]
    IN  r # NoRecord /\ r.raw = raw
        /\ Within(promises[raw], r.life) /\ Within(promises[raw], r.grace)

IInv ==
  /\ TypeOK
  /\ Placed(store, deleted) /\ Placed(saved, buried)
  /\ Honoured(store, promised) /\ Honoured(saved, kept)
=============================================================================
