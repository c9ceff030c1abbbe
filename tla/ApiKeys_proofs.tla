--------------------------- MODULE ApiKeys_proofs ---------------------------
(***************************************************************************)
(* Proofs about ApiKeys: a raw key is issued once and its record sits      *)
(* under its prefix until it is deleted, so a deleted key can meet neither *)
(* its own record nor one that it verifies against, and nothing takes a    *)
(* record away before what its client was told has run down.               *)
(***************************************************************************)
EXTENDS ApiKeys, TLAPS

LEMMA InitIInv == Init => IInv
<1> SUFFICES ASSUME Init PROVE IInv
  OBVIOUS
<1>1. TypeOK
  BY ApiKeyAssumption DEF Init, TypeOK, Stores, Promises, Deadlines, Past
<1>2. Placed(store, deleted) /\ Placed(saved, buried)
  BY DEF Init, Placed
<1>3. Honoured(store, promised) /\ Honoured(saved, kept)
  BY DEF Init, Honoured
<1> QED
  BY <1>1, <1>2, <1>3 DEF IInv

\* A record is not the absence of one.
LEMMA RecordExists ==
  ASSUME NEW r \in Records
  PROVE  r # NoRecord
<1>1. DOMAIN r = {"raw", "life", "grace"}
  BY DEF Records
<1>2. DOMAIN NoRecord = {"life"}
  BY DEF NoRecord
<1> QED
  BY <1>1, <1>2

\* The shorter of a life and a window is within both, if it has not passed.
LEMMA ShorterWithin ==
  ASSUME NEW life \in Deadlines(MaxLife)
  PROVE  /\ Shorter(life, Grace) \in Deadlines(MaxLife) \cup Deadlines(Grace)
         /\ Shorter(life, Grace) # Past =>
              Within(Shorter(life, Grace), life) /\ Within(Shorter(life, Grace), Grace)
BY ApiKeyAssumption DEF Deadlines, Shorter, Within, Never, Past

\* The deadlines a clock tick leaves.
LEMMA ElapseType ==
  ASSUME NEW n \in Nat, NEW left \in Deadlines(n)
  PROVE  Elapse(left) \in Deadlines(n)
BY DEF Deadlines, Elapse, Never, Past

LEMMA NewRecordType ==
  ASSUME NEW raw \in Raws, NEW life \in {Never} \cup 1..MaxLife
  PROVE  /\ Record(raw, life) \in Records
         /\ Record(raw, life).raw = raw
         /\ Record(raw, life).life = life /\ Record(raw, life).grace = Never
BY ApiKeyAssumption DEF Record, Records, Deadlines, Past

\* A fresh key takes an empty place, so it disturbs no record and no promise.
LEMMA MintKeeps ==
  ASSUME IInv, NEW raw \in Raws, Mintable(raw, store),
         NEW r \in Records, r.raw = raw, r.grace = Never,
         NEW st \in Stores, Placed(st, deleted), st[PrefixOf[raw]] = NoRecord,
         NEW pr \in Promises, Honoured(st, pr),
         NEW m \in Deadlines(MaxLife), Within(m, r.life),
         store' = [st EXCEPT ![PrefixOf[raw]] = r],
         issued' = issued \cup {raw}, promised' = [pr EXCEPT ![raw] = m],
         UNCHANGED <<deleted, filed>>
  PROVE  IInv'
<1>1. /\ PrefixOf[raw] \in Prefixes /\ raw \notin issued
      /\ \A raw2 \in Raws : PrefixOf[raw2] \in Prefixes
  BY ApiKeyAssumption DEF Mintable
<1>2. TypeOK'
  BY <1>1 DEF IInv, TypeOK, Stores, Promises, filed
<1>3. Placed(store, deleted)'
  <2> SUFFICES ASSUME NEW p \in Prefixes, store'[p] # NoRecord
               PROVE  PrefixOf[store'[p].raw] = p /\ store'[p].raw \in issued' \ deleted
    BY DEF Placed
  <2>1. CASE p = PrefixOf[raw]
    BY <1>1, <2>1 DEF Stores, IInv, TypeOK
  <2>2. CASE p # PrefixOf[raw]
    BY <2>2 DEF Stores, Placed
  <2> QED
    BY <2>1, <2>2
<1>4. Honoured(store, promised)'
  <2> SUFFICES ASSUME NEW raw2 \in Raws, promised'[raw2] # Past
               PROVE  /\ store'[PrefixOf[raw2]] # NoRecord
                      /\ store'[PrefixOf[raw2]].raw = raw2
                      /\ Within(promised'[raw2], store'[PrefixOf[raw2]].life)
                      /\ Within(promised'[raw2], store'[PrefixOf[raw2]].grace)
    BY DEF Honoured
  <2>1. CASE raw2 = raw
    <3>1. store'[PrefixOf[raw]] = r /\ promised'[raw] = m
      BY <1>1 DEF Stores, Promises
    <3>2. Within(m, r.grace)
      BY DEF Within
    <3> QED
      BY <2>1, <3>1, <3>2, RecordExists
  <2>2. CASE raw2 # raw
    <3>1. promised'[raw2] = pr[raw2]
      BY <2>2 DEF Promises
    <3>2. PrefixOf[raw2] # PrefixOf[raw]
      BY <3>1 DEF Honoured
    <3>3. store'[PrefixOf[raw2]] = st[PrefixOf[raw2]]
      BY <1>1, <3>2 DEF Stores
    <3> QED
      BY <3>1, <3>3 DEF Honoured
  <2> QED
    BY <2>1, <2>2
<1>5. (Placed(saved, buried) /\ Honoured(saved, kept))'
  BY DEF IInv, Placed, Honoured, filed
<1> QED
  BY <1>2, <1>3, <1>4, <1>5 DEF IInv

\* Stamping the predecessor leaves every record where it is, and its stamp is as
\* long as the promise that goes with it.
LEMMA StampKeeps ==
  ASSUME IInv, NEW p \in Prefixes, store[p] # NoRecord
  PROVE  LET st == [store EXCEPT ![p].grace = Grace]
             pr == [promised EXCEPT ![store[p].raw] = Shorter(store[p].life, Grace)]
         IN  st \in Stores /\ Placed(st, deleted) /\ pr \in Promises /\ Honoured(st, pr)
<1> DEFINE st == [store EXCEPT ![p].grace = Grace]
           old == store[p].raw
           told1 == Shorter(store[p].life, Grace)
           pr == [promised EXCEPT ![old] = told1]
<1>1. store \in Stores /\ store[p] \in Records /\ promised \in Promises
  BY DEF IInv, TypeOK, Stores
<1>2. Grace \in Deadlines(Grace)
  BY ApiKeyAssumption DEF Deadlines, Past
<1>3. /\ [store[p] EXCEPT !.grace = Grace] \in Records
      /\ [store[p] EXCEPT !.grace = Grace].raw = old
      /\ [store[p] EXCEPT !.grace = Grace].life = store[p].life
      /\ [store[p] EXCEPT !.grace = Grace].grace = Grace
  BY <1>1, <1>2 DEF Records
<1>4. st = [store EXCEPT ![p] = [store[p] EXCEPT !.grace = Grace]]
  OBVIOUS
<1>5. st \in Stores
  BY <1>1, <1>3, <1>4 DEF Stores
<1>6. Placed(st, deleted)
  BY <1>1, <1>3, <1>4 DEF IInv, Placed, Stores
<1>7. old \in Raws /\ PrefixOf[old] = p /\ store[p].life \in Deadlines(MaxLife)
  BY <1>1 DEF Records, IInv, Placed
<1>8. told1 \in Deadlines(MaxLife) \cup Deadlines(Grace)
      /\ (told1 # Past => Within(told1, store[p].life) /\ Within(told1, Grace))
  BY <1>7, ShorterWithin
<1>9. pr \in Promises
  BY <1>1, <1>7, <1>8 DEF Promises
<1>10. Honoured(st, pr)
  <2> SUFFICES ASSUME NEW raw2 \in Raws, pr[raw2] # Past
               PROVE  /\ st[PrefixOf[raw2]] # NoRecord
                      /\ st[PrefixOf[raw2]].raw = raw2
                      /\ Within(pr[raw2], st[PrefixOf[raw2]].life)
                      /\ Within(pr[raw2], st[PrefixOf[raw2]].grace)
    BY DEF Honoured
  <2>1. CASE raw2 = old
    <3>1. pr[raw2] = told1
      BY <1>1, <1>7, <2>1 DEF Promises
    <3>2. st[p] = [store[p] EXCEPT !.grace = Grace]
      BY <1>1, <1>4 DEF Stores
    <3>3. st[p] # NoRecord
      BY <1>3, <3>2, RecordExists
    <3> HIDE DEF st, pr, told1, old
    <3> QED
      BY <1>3, <1>7, <1>8, <2>1, <3>1, <3>2, <3>3
  <2>2. CASE raw2 # old
    <3>1. pr[raw2] = promised[raw2]
      BY <1>1, <2>2 DEF Promises
    <3>2. PrefixOf[raw2] # p
      BY <2>2, <3>1 DEF IInv, Honoured
    <3>3. st[PrefixOf[raw2]] = store[PrefixOf[raw2]]
      BY <1>1, <3>2, ApiKeyAssumption DEF Stores
    <3> HIDE DEF st, pr
    <3> QED
      BY <3>1, <3>3 DEF IInv, Honoured
  <2> QED
    BY <2>1, <2>2
<1> HIDE DEF st, pr
<1> QED
  BY <1>5, <1>6, <1>9, <1>10 DEF st, pr

LEMMA RotateKeeps ==
  ASSUME IInv, NEW p \in Prefixes, NEW raw \in Raws, Rotate(p, raw)
  PROVE  IInv'
<1> DEFINE st == [store EXCEPT ![p].grace = Grace]
           pr == [promised EXCEPT ![store[p].raw] = Shorter(store[p].life, Grace)]
<1>1. st \in Stores /\ Placed(st, deleted) /\ pr \in Promises /\ Honoured(st, pr)
  BY StampKeeps DEF Rotate
<1>2. /\ Mintable(raw, store)
      /\ store' = [st EXCEPT ![PrefixOf[raw]] = Record(raw, Never)]
      /\ issued' = issued \cup {raw} /\ UNCHANGED <<deleted, filed>>
      /\ promised' = [pr EXCEPT ![raw] = Never]
  BY DEF Rotate, Promise
<1>3. /\ Record(raw, Never) \in Records /\ Record(raw, Never).raw = raw
      /\ Record(raw, Never).life = Never /\ Record(raw, Never).grace = Never
  BY NewRecordType
<1>4. Never \in Deadlines(MaxLife) /\ Within(Never, Never)
  BY DEF Deadlines, Within
<1>5. st[PrefixOf[raw]] = NoRecord
  <2>1. PrefixOf[raw] # p
    BY <1>2 DEF Mintable, Rotate
  <2>2. store \in Stores /\ PrefixOf[raw] \in Prefixes
    BY ApiKeyAssumption DEF IInv, TypeOK
  <2> QED
    BY <1>2, <2>1, <2>2 DEF Mintable, Stores
<1> HIDE DEF st, pr
<1> QED
  BY <1>1, <1>2, <1>3, <1>4, <1>5, MintKeeps

\* Time takes as much from a promise as from the deadlines it is within.
LEMMA RunDownWithin ==
  ASSUME NEW n \in Deadlines(MaxLife) \cup Deadlines(Grace),
         NEW left \in Deadlines(MaxLife) \cup Deadlines(Grace),
         Within(n, left), n # Past
  PROVE  LET m == IF n >= 0 THEN n - 1 ELSE n
         IN  m # Past => Within(m, Elapse(left))
BY ApiKeyAssumption DEF Deadlines, Within, Elapse, Never, Past

LEMMA RunDownType ==
  ASSUME NEW pr \in Promises
  PROVE  RunDown(pr) \in Promises
<1>1. ASSUME NEW n \in Deadlines(MaxLife) \cup Deadlines(Grace)
      PROVE  (IF n >= 0 THEN n - 1 ELSE n) \in Deadlines(MaxLife) \cup Deadlines(Grace)
  BY ApiKeyAssumption DEF Deadlines, Never, Past
<1> QED
  BY <1>1 DEF RunDown, Promises

\* A tick over a store and its promises.
LEMMA TickHonours ==
  ASSUME NEW st \in Stores, NEW pr \in Promises, Honoured(st, pr)
  PROVE  Honoured([p \in Prefixes |-> Older(st[p])], RunDown(pr))
<1> DEFINE older == [p \in Prefixes |-> Older(st[p])]
<1> SUFFICES ASSUME NEW raw \in Raws, RunDown(pr)[raw] # Past
             PROVE  /\ older[PrefixOf[raw]] # NoRecord
                    /\ older[PrefixOf[raw]].raw = raw
                    /\ Within(RunDown(pr)[raw], older[PrefixOf[raw]].life)
                    /\ Within(RunDown(pr)[raw], older[PrefixOf[raw]].grace)
  BY DEF Honoured
<1> DEFINE n == pr[raw]
           r == st[PrefixOf[raw]]
           aged == [r EXCEPT !.life = Elapse(@), !.grace = Elapse(@)]
<1>1. RunDown(pr)[raw] = (IF n >= 0 THEN n - 1 ELSE n)
  BY DEF RunDown
<1>2. n \in Deadlines(MaxLife) \cup Deadlines(Grace) /\ n # Past
  BY <1>1 DEF Promises, Past
<1>3. /\ PrefixOf[raw] \in Prefixes
      /\ r # NoRecord /\ r.raw = raw /\ Within(n, r.life) /\ Within(n, r.grace)
  BY <1>2, ApiKeyAssumption DEF Honoured
<1>4. r \in Records /\ r.life \in Deadlines(MaxLife) /\ r.grace \in Deadlines(Grace)
  BY <1>3 DEF Stores, Records
<1>5. older[PrefixOf[raw]] = aged
  BY <1>3 DEF Older
<1>6. /\ aged \in Records /\ aged.raw = raw
      /\ aged.life = Elapse(r.life) /\ aged.grace = Elapse(r.grace)
  BY <1>3, <1>4, ElapseType, ApiKeyAssumption DEF Records
<1>7. aged # NoRecord
  BY <1>6, RecordExists
<1> HIDE DEF older, aged, n, r
<1>8. /\ Within(RunDown(pr)[raw], Elapse(r.life))
      /\ Within(RunDown(pr)[raw], Elapse(r.grace))
  BY <1>1, <1>2, <1>3, <1>4, RunDownWithin
<1> QED
  BY <1>5, <1>6, <1>7, <1>8

LEMMA TickKeeps ==
  ASSUME IInv, Tick
  PROVE  IInv'
<1>1. ASSUME NEW r \in Records
      PROVE  [r EXCEPT !.life = Elapse(@), !.grace = Elapse(@)] \in Records
             /\ [r EXCEPT !.life = Elapse(@), !.grace = Elapse(@)].raw = r.raw
  BY ElapseType, ApiKeyAssumption DEF Records
<1>2. ASSUME NEW r \in Records \cup {NoRecord}
      PROVE  /\ Older(r) \in Records \cup {NoRecord}
             /\ Older(r) # NoRecord => r # NoRecord /\ Older(r).raw = r.raw
  BY <1>1 DEF Older
<1>3. /\ store' = [p \in Prefixes |-> Older(store[p])]
      /\ saved' = [p \in Prefixes |-> Older(saved[p])]
      /\ promised' = RunDown(promised) /\ kept' = RunDown(kept)
      /\ UNCHANGED <<issued, deleted, buried>>
  BY DEF Tick
<1>4. TypeOK'
  BY <1>2, <1>3, RunDownType DEF IInv, TypeOK, Stores
<1>5. Placed(store, deleted)' /\ Placed(saved, buried)'
  BY <1>2, <1>3 DEF IInv, TypeOK, Stores, Placed
<1>6. Honoured(store, promised)' /\ Honoured(saved, kept)'
  <2>1. /\ Honoured([p \in Prefixes |-> Older(store[p])], RunDown(promised))
        /\ Honoured([p \in Prefixes |-> Older(saved[p])], RunDown(kept))
    BY TickHonours DEF IInv, TypeOK
  <2> QED
    BY <1>3, <2>1 DEF Honoured
<1> QED
  BY <1>4, <1>5, <1>6 DEF IInv

LEMMA NextIInv == IInv /\ [Next]_vars => IInv'
<1> SUFFICES ASSUME IInv, [Next]_vars PROVE IInv'
  OBVIOUS
<1>1. ASSUME NEW raw \in Raws, NEW life \in {Never} \cup 1..MaxLife, Create(raw, life)
      PROVE  IInv'
  <2>1. /\ Record(raw, life) \in Records /\ Record(raw, life).raw = raw
        /\ Record(raw, life).life = life /\ Record(raw, life).grace = Never
    BY NewRecordType
  <2>2. /\ store \in Stores /\ Placed(store, deleted)
        /\ promised \in Promises /\ Honoured(store, promised)
    BY DEF IInv, TypeOK
  <2>3. life \in Deadlines(MaxLife) /\ Within(life, life)
    BY ApiKeyAssumption DEF Deadlines, Within, Never, Past
  <2>4. /\ Mintable(raw, store) /\ store[PrefixOf[raw]] = NoRecord
        /\ store' = [store EXCEPT ![PrefixOf[raw]] = Record(raw, life)]
        /\ issued' = issued \cup {raw} /\ promised' = [promised EXCEPT ![raw] = life]
        /\ UNCHANGED <<deleted, filed>>
    BY <1>1 DEF Create, Mintable
  <2> QED
    BY <2>1, <2>2, <2>3, <2>4, MintKeeps
<1>2. ASSUME NEW p \in Prefixes, NEW raw \in Raws, Rotate(p, raw) PROVE IInv'
  BY <1>2, RotateKeeps
<1>3. ASSUME NEW p \in Prefixes, Delete(p) PROVE IInv'
  <2>1. store[p].raw \in issued /\ PrefixOf[store[p].raw] = p
    BY <1>3 DEF Delete, IInv, Placed
  <2>2. TypeOK'
    <3>1. Past \in Deadlines(MaxLife)
      BY ApiKeyAssumption DEF Deadlines, Past
    <3>2. promised' \in Promises
      BY <1>3, <3>1 DEF Delete, IInv, TypeOK, Promises
    <3>3. store' \in Stores /\ deleted' \in SUBSET issued
      BY <1>3, <2>1 DEF Delete, IInv, TypeOK, Stores
    <3> QED
      BY <1>3, <3>2, <3>3 DEF Delete, filed, IInv, TypeOK
  <2>3. Placed(store, deleted)'
    BY <1>3, <2>1 DEF Delete, IInv, TypeOK, Stores, Placed
  <2>4. (Placed(saved, buried) /\ Honoured(saved, kept))'
    BY <1>3 DEF Delete, IInv, Placed, Honoured, filed
  <2>5. Honoured(store, promised)'
    <3> SUFFICES ASSUME NEW raw \in Raws, promised'[raw] # Past
                 PROVE  promised'[raw] = promised[raw]
                        /\ store'[PrefixOf[raw]] = store[PrefixOf[raw]]
      BY DEF IInv, Honoured
    <3>1. raw # store[p].raw /\ promised'[raw] = promised[raw]
      BY <1>3 DEF Delete, IInv, TypeOK, Promises
    <3>2. PrefixOf[raw] # p
      BY <3>1 DEF IInv, Honoured
    <3> QED
      BY <1>3, <3>1, <3>2, ApiKeyAssumption DEF Delete, IInv, TypeOK, Stores
  <2> QED
    BY <2>2, <2>3, <2>4, <2>5 DEF IInv
<1>4. CASE Tick
  BY <1>4, TickKeeps
<1>5. CASE Save
  BY <1>5 DEF Save, told, IInv, TypeOK, Placed, Honoured
<1>6. CASE Restart
  BY <1>6 DEF Restart, filed, IInv, TypeOK, Placed, Honoured
<1>7. CASE UNCHANGED vars
  BY <1>7 DEF vars, told, filed, IInv, TypeOK, Placed, Honoured
<1> QED
  BY <1>1, <1>2, <1>3, <1>4, <1>5, <1>6, <1>7 DEF Next

\* Every reachable state satisfies the inductive invariant.
THEOREM Inductive == Spec => []IInv
BY InitIInv, NextIInv, PTL DEF Spec

-----------------------------------------------------------------------------
(* What it gives.                                                          *)

\* apiKeyStore and its snapshot have their types.
THEOREM TypeCorrect == Spec => []TypeOK
<1>1. IInv => TypeOK
  BY DEF IInv
<1> QED
  BY <1>1, Inductive, PTL

\* No deleted key is let in by requireScope, whatever is minted under its prefix
\* and whichever snapshot that has the deletion a restart begins from.
THEOREM DeletionIsFinal == Spec => []DeletedStaysOut
<1>1. IInv => DeletedStaysOut
  <2> SUFFICES ASSUME IInv, NEW raw \in deleted, Authenticates(raw) PROVE FALSE
    BY DEF DeletedStaysOut
  <2>1. PrefixOf[raw] \in Prefixes
    BY ApiKeyAssumption DEF IInv, TypeOK
  <2> QED
    BY <2>1 DEF Authenticates, IInv, Placed
<1> QED
  BY <1>1, Inductive, PTL

\* Every key works for as long as its client was told, for every grace window and
\* however prefixes collide: a rotation shortens the life of the old key to the
\* grace window at most, and nothing else shortens one but its own deletion.
THEOREM PromisesKept == Spec => []NoKeyDiesEarly
<1>1. IInv => NoKeyDiesEarly
  <2> SUFFICES ASSUME IInv, NEW raw \in Raws, promised[raw] # Past
               PROVE  Authenticates(raw)
    BY DEF NoKeyDiesEarly
  <2> DEFINE r == store[PrefixOf[raw]]
  <2>1. r # NoRecord /\ r.raw = raw
        /\ Within(promised[raw], r.life) /\ Within(promised[raw], r.grace)
    BY DEF IInv, Honoured
  <2>2. promised[raw] = Never \/ promised[raw] \in Nat
    BY ApiKeyAssumption DEF IInv, TypeOK, Promises, Deadlines, Past
  <2>3. r.life \in Deadlines(MaxLife) /\ r.grace \in Deadlines(Grace)
    BY <2>1, ApiKeyAssumption DEF IInv, TypeOK, Stores, Records
  <2>4. Stands(r.life) /\ Stands(r.grace)
    BY <2>1, <2>2, <2>3, ApiKeyAssumption DEF Within, Stands, Deadlines, Never, Past
  <2> QED
    BY <2>1, <2>4 DEF Authenticates, isKeyValid
<1> QED
  BY <1>1, Inductive, PTL

-----------------------------------------------------------------------------
(* Deadlines of rotated keys.                                              *)

\* What can become of a record that is not rotated in a step.
LEMMA RecordStep ==
  ASSUME IInv, Next, ~Restart, NEW p \in Prefixes, store[p] # NoRecord,
         \A raw \in Raws : ~Rotate(p, raw)
  PROVE  /\ store'[p] \in {store[p], NoRecord, Older(store[p])}
         /\ Tick => store'[p] = Older(store[p])
<1>1. store \in Stores /\ store[p] \in Records
  BY DEF IInv, TypeOK, Stores
<1>2. Tick => store'[p] = Older(store[p])
  BY DEF Tick
<1>3. ASSUME NEW new \in Raws, Mintable(new, store)
      PROVE  PrefixOf[new] \in Prefixes /\ PrefixOf[new] # p
  BY <1>3, ApiKeyAssumption DEF Mintable
<1>4. ASSUME NEW new \in Raws, NEW life \in {Never} \cup 1..MaxLife, Create(new, life)
      PROVE  store'[p] = store[p]
  BY <1>1, <1>3, <1>4 DEF Create, Stores
<1>5. ASSUME NEW q \in Prefixes, NEW new \in Raws, Rotate(q, new)
      PROVE  store'[p] = store[p]
  <2>1. q # p
    BY <1>5
  <2> QED
    BY <1>1, <1>3, <1>5, <2>1 DEF Rotate, Stores
<1>6. ASSUME NEW q \in Prefixes, Delete(q)
      PROVE  store'[p] \in {store[p], NoRecord}
  BY <1>1, <1>6 DEF Delete, Stores
<1>7. Save => store'[p] = store[p]
  BY DEF Save
<1> QED
  BY <1>2, <1>4, <1>5, <1>6, <1>7 DEF Next

\* A key that is over its grace window stays out as long as nobody rotates it once
\* more: that call alone, and a restart on an older snapshot, lets it in again
\* (stores.ts:98-99, index.ts:1822-1838).
THEOREM DeadUnlessRotatedAgain ==
  Spec /\ [][\A p \in Prefixes, raw \in Raws : Rotate(p, raw) => store[p].grace # Past]_vars
    => DeadStaysDead
<1> DEFINE Usable == \A p \in Prefixes, raw \in Raws : Rotate(p, raw) => store[p].grace # Past
           Dead == \A p \in Prefixes, raw \in Raws :
             store[p] # NoRecord /\ store[p].raw = raw /\ store[p].grace = Past /\ ~Restart
               => ~Authenticates(raw)'
<1>1. ASSUME IInv, Next, Usable, NEW p \in Prefixes, NEW raw \in Raws,
             store[p] # NoRecord, store[p].raw = raw, store[p].grace = Past, ~Restart
      PROVE  ~Authenticates(raw)'
  <2>1. store[p] \in Records /\ PrefixOf[raw] = p
    BY <1>1 DEF IInv, TypeOK, Stores, Placed
  <2>2. store'[p] \in {store[p], NoRecord, Older(store[p])}
    <3>1. \A new \in Raws : ~Rotate(p, new)
      BY <1>1
    <3> QED
      BY <1>1, <3>1, RecordStep
  <2>3. Older(store[p]).grace = Past
    BY <1>1, <2>1 DEF Records, Older, Elapse, Past
  <2>4. store'[p] = NoRecord \/ store'[p].grace = Past
    BY <1>1, <2>2, <2>3
  <2> QED
    BY <2>1, <2>4 DEF Authenticates, isKeyValid, Stands, Never, Past
<1>2. ASSUME IInv, [Next]_vars, [Usable]_vars
      PROVE  [Dead]_vars
  <2>1. CASE UNCHANGED vars
    BY <2>1
  <2>2. CASE ~UNCHANGED vars
    BY <1>1, <1>2, <2>2
  <2> QED
    BY <2>1, <2>2
<1> QED
  BY <1>2, Inductive, PTL DEF Spec, DeadStaysDead

\* The grace window of a rotated key runs out: only another rotation or a restart
\* moves its end away, and every tick brings it closer until it has passed.  So the
\* ticks left to it, at most Grace, bound how long it takes to die.
THEOREM GraceRunsOut ==
  Spec => [][\A p \in Prefixes :
               /\ store[p] # NoRecord /\ store[p].grace # Never
               /\ ~Restart /\ \A raw \in Raws : ~Rotate(p, raw)
               => \/ store'[p] = NoRecord
                  \/ /\ store'[p].grace \in Past..store[p].grace
                     /\ Tick => store'[p].grace = Past \/ store'[p].grace < store[p].grace]_vars
<1> DEFINE Runs == \A p \in Prefixes :
             /\ store[p] # NoRecord /\ store[p].grace # Never
             /\ ~Restart /\ \A raw \in Raws : ~Rotate(p, raw)
             => \/ store'[p] = NoRecord
                \/ /\ store'[p].grace \in Past..store[p].grace
                   /\ Tick => store'[p].grace = Past \/ store'[p].grace < store[p].grace
<1>1. ASSUME IInv, Next, NEW p \in Prefixes, store[p] # NoRecord, store[p].grace # Never,
             ~Restart, \A raw \in Raws : ~Rotate(p, raw), store'[p] # NoRecord
      PROVE  /\ store'[p].grace \in Past..store[p].grace
             /\ Tick => store'[p].grace = Past \/ store'[p].grace < store[p].grace
  <2>1. store[p] \in Records /\ store[p].grace \in Past..Grace /\ Grace \in Nat
    BY <1>1, ApiKeyAssumption DEF IInv, TypeOK, Stores, Records, Deadlines
  <2>2. store'[p] \in {store[p], Older(store[p])} /\ (Tick => store'[p] = Older(store[p]))
    BY <1>1, RecordStep
  <2>3. Older(store[p]).grace = IF store[p].grace >= 0 THEN store[p].grace - 1 ELSE store[p].grace
    BY <1>1, <2>1 DEF Records, Older, Elapse, Past
  <2>4. store'[p].grace \in {store[p].grace, Older(store[p]).grace}
    BY <2>2
  <2>5. store'[p].grace \in Past..store[p].grace
    BY <2>1, <2>3, <2>4 DEF Past
  <2>6. Tick => store'[p].grace = Past \/ store'[p].grace < store[p].grace
    BY <2>1, <2>2, <2>3 DEF Past
  <2> QED
    BY <2>5, <2>6
<1>2. IInv /\ [Next]_vars => [Runs]_vars
  BY <1>1
<1> QED
  BY <1>2, Inductive, PTL DEF Spec
=============================================================================
