--------------------------- MODULE Shutdown_proofs ---------------------------
(***************************************************************************)
(* Proofs about SnapshotStore, for any pairs, caps and debounce delay, and *)
(* about Shutdown, the process around it.                                  *)
(*                                                                         *)
(* IInv says, beyond the invariants the runs check, that a save under way  *)
(* carries the current stores (nothing runs between the two) and that the  *)
(* file obeys what the stores obey, so that hydration re-establishes it.   *)
(* What the process does to its stores are steps of SnapshotStore, plus    *)
(* the flush, which takes a snapshot without its timer; so IInv carries    *)
(* over, and what is added is that nothing can arm the timer again while   *)
(* the flush is under way.                                                 *)
(***************************************************************************)
EXTENDS Shutdown, SequenceTheorems, TLAPS

-----------------------------------------------------------------------------
(* Lemmas about the event log.                                             *)

\* Dropping a prefix of the log keeps registry and log in agreement.
LEMMA SuffixAgrees ==
  ASSUME NEW ps, NEW l \in Seq(Events), NEW m \in Seq(Events), NEW d \in Nat,
         Len(l) = Len(m) + d, \A i \in 1..Len(m) : m[i] = l[i + d],
         Agrees(ps, l)
  PROVE  Agrees(ps, m)
<1> SUFFICES ASSUME NEW i \in 1..Len(m), LastWord(m, i)
             PROVE  m[i].pair \in ps <=> m[i].type # "unregistered"
  BY DEF Agrees
<1>1. Len(m) \in Nat /\ Len(l) \in Nat
  OBVIOUS
<1>2. i + d \in 1..Len(l) /\ l[i + d] = m[i]
  BY <1>1
<1>3. ASSUME NEW j \in 1..Len(l), j > i + d, l[j].pair = m[i].pair PROVE l[j].type = "client"
  <2>1. j - d \in 1..Len(m) /\ j - d > i /\ (j - d) + d = j
    BY <1>1, <1>3
  <2>2. m[j - d] = l[j]
    BY <2>1
  <2> QED
    BY <1>3, <2>1, <2>2 DEF LastWord
<1>4. LastWord(l, i + d)
  BY <1>2, <1>3 DEF LastWord
<1> QED
  BY <1>2, <1>4 DEF Agrees

\* An event and the registry change it reports keep them in agreement.
LEMMA AppendAgrees ==
  ASSUME NEW ps, NEW qs, NEW l \in Seq(Events), NEW e \in Events,
         \A p : p # e.pair => (p \in qs <=> p \in ps),
         e.type # "client" => (e.pair \in qs <=> e.type # "unregistered"),
         e.type = "client" => qs = ps,
         Agrees(ps, l)
  PROVE  Agrees(qs, Append(l, e))
<1> DEFINE m == Append(l, e)
<1>1. Len(m) = Len(l) + 1 /\ m[Len(l) + 1] = e /\ \A i \in 1..Len(l) : m[i] = l[i]
  OBVIOUS
<1> HIDE DEF m
<1> SUFFICES ASSUME NEW i \in 1..Len(m), LastWord(m, i)
             PROVE  m[i].pair \in qs <=> m[i].type # "unregistered"
  BY DEF Agrees, m
<1>2. CASE i = Len(l) + 1
  BY <1>1, <1>2 DEF LastWord
<1>3. CASE i \in 1..Len(l)
  <2>1. e.pair = l[i].pair => e.type = "client"
    BY <1>1, <1>3 DEF LastWord
  <2>2. LastWord(l, i)
    BY <1>1, <1>3 DEF LastWord
  <2>3. l[i].pair \in ps <=> l[i].type # "unregistered"
    BY <1>3, <2>2 DEF Agrees
  <2> QED
    BY <1>1, <1>3, <2>1, <2>3
<1> QED
  BY <1>1, <1>2, <1>3

\* recordEvent keeps the log typed and under the ceiling, and together with the
\* registry change it reports keeps the two in agreement.
LEMMA RecordEvent ==
  ASSUME NEW ps, NEW qs, NEW l \in Seq(Events), NEW e \in Events,
         cap \in 1..MaxCap, Len(l) <= MaxCap,
         \A p : p # e.pair => (p \in qs <=> p \in ps),
         e.type # "client" => (e.pair \in qs <=> e.type # "unregistered"),
         e.type = "client" => qs = ps,
         Agrees(ps, l)
  PROVE  /\ PushAndShift(l, e) \in Seq(Events)
         /\ Len(PushAndShift(l, e)) <= MaxCap
         /\ Agrees(qs, PushAndShift(l, e))
<1> DEFINE g == Append(l, e)
<1>1. g \in Seq(Events) /\ Len(g) = Len(l) + 1 /\ g # <<>>
  OBVIOUS
<1>2. Agrees(qs, g)
  BY AppendAgrees
<1>3. CASE Len(g) > cap
  <2>1. /\ Tail(g) \in Seq(Events)
        /\ Len(Tail(g)) = Len(g) - 1
        /\ \A i \in 1..Len(Tail(g)) : Tail(g)[i] = g[i + 1]
    BY <1>1, HeadTailProperties
  <2> DEFINE t == Tail(g)
  <2> HIDE DEF g, t
  <2>2. Agrees(qs, t)
    <3>1. t \in Seq(Events) /\ Len(g) = Len(t) + 1 /\ \A i \in 1..Len(t) : t[i] = g[i + 1]
      BY <1>1, <2>1 DEF t
    <3> QED
      BY <1>1, <1>2, <3>1, SuffixAgrees
  <2> QED
    BY <1>1, <1>3, <2>1, <2>2 DEF PushAndShift, g, t
<1>4. CASE ~(Len(g) > cap)
  BY <1>1, <1>2, <1>4, CapsAssumption DEF PushAndShift
<1> QED
  BY <1>3, <1>4

\* trimEventLog keeps the newest entries, in agreement with the registry.
LEMMA TrimEventLog ==
  ASSUME NEW ps, NEW l \in Seq(Events), NEW n \in 1..MaxCap, Agrees(ps, l), Len(l) <= MaxCap
  PROVE  Newest(l, n) \in Seq(Events) /\ Len(Newest(l, n)) <= MaxCap /\ Agrees(ps, Newest(l, n))
<1>1. CASE Len(l) > n
  <2> DEFINE d == Len(l) - n
             m == SubSeq(l, d + 1, Len(l))
  <2>1. d \in Nat /\ Len(l) \in Nat /\ n \in Nat
    BY <1>1, CapsAssumption
  <2>2. \A i \in (d + 1)..Len(l) : l[i] \in Events
    BY <2>1, ElementOfSeq
  <2>3. m \in Seq(Events) /\ Len(m) = n /\ \A i \in 1..n : m[i] = l[i + d]
    BY <2>1, <2>2, SubSeqProperties
  <2> HIDE DEF d, m
  <2>4. Agrees(ps, m)
    <3>1. Len(l) = Len(m) + d /\ \A i \in 1..Len(m) : m[i] = l[i + d]
      BY <2>1, <2>3 DEF d
    <3> QED
      BY <2>1, <2>3, <3>1, SuffixAgrees
  <2> QED
    BY <1>1, <2>1, <2>3, <2>4, CapsAssumption DEF Newest, d, m
<1>2. CASE ~(Len(l) > n)
  BY <1>2 DEF Newest
<1> QED
  BY <1>1, <1>2

-----------------------------------------------------------------------------
(* The inductive invariant.                                                *)

\* What a handler that changes registry and log has to establish.
HandlerKeeps == /\ pairs' \in SUBSET Pairs /\ log' \in Seq(Events)
                /\ Agrees(pairs', log') /\ Len(log') <= MaxCap /\ cap' \in 1..MaxCap

\* A new process with nothing in its stores satisfies the invariant.
LEMMA InitIInv == Init => IInv
<1> SUFFICES ASSUME Init PROVE IInv
  OBVIOUS
<1>1. Empty \in Snapshots /\ Mem = Empty /\ Len(log) = 0 /\ file = Empty
  BY DEF Init, Empty, Snapshots, Mem
<1>2. TypeOK
  <2>1. log \in Seq(Events) /\ cap \in 1..MaxCap /\ timer \in Off..Debounce
    BY CapsAssumption, DebounceAssumption DEF Init, Off
  <2>2. snap \in Snapshots /\ file \in Snapshots
    BY <1>1 DEF Init
  <2> QED
    BY <2>1, <2>2 DEF Init, TypeOK
<1>3. Agrees(pairs, log) /\ Agrees(file.pairs, file.log)
  BY <1>1 DEF Init, Agrees, Empty
<1> QED
  BY <1>1, <1>2, <1>3, CapsAssumption
  DEF Init, IInv, SaveIsCurrent, DownIsEmpty, AtRestDurable, AuditAgreesWithRegistry,
      EventLogWithinCeiling, Empty

\* Every request handler leaves log and registry in agreement and in bounds.
LEMMA MutateKeeps == IInv /\ Mutate => HandlerKeeps
<1> SUFFICES ASSUME IInv, Mutate PROVE HandlerKeeps
  OBVIOUS
<1>0. /\ pairs \in SUBSET Pairs /\ log \in Seq(Events) /\ cap \in 1..MaxCap
      /\ Agrees(pairs, log) /\ Len(log) <= MaxCap
  BY DEF IInv, TypeOK, AuditAgreesWithRegistry, EventLogWithinCeiling
<1>1. ASSUME NEW p \in Pairs, RegisterPair(p) PROVE HandlerKeeps
  <2> DEFINE e == Event(IF p \in pairs THEN "refreshed" ELSE "registered", p)
             qs == pairs \cup {p}
  <2>1. e \in Events /\ e.pair = p /\ e.type \notin {"client", "unregistered"}
    BY DEF Event, Events
  <2>3. \A q : q # p => (q \in qs <=> q \in pairs)
    OBVIOUS
  <2>2. pairs' = qs /\ log' = PushAndShift(log, e) /\ cap' = cap
    BY <1>1 DEF RegisterPair
  <2>4. qs \in SUBSET Pairs /\ p \in qs
    BY <1>0
  <2> HIDE DEF e, qs
  <2> QED
    BY <1>0, <2>1, <2>2, <2>3, <2>4, RecordEvent DEF HandlerKeeps
<1>2. ASSUME NEW p \in Pairs, UnregisterPair(p) PROVE HandlerKeeps
  <2> DEFINE e == Event("unregistered", p)
             qs == pairs \ {p}
  <2>1. e \in Events /\ e.pair = p /\ e.type = "unregistered"
    BY DEF Event, Events
  <2>3. \A q : q # p => (q \in qs <=> q \in pairs)
    OBVIOUS
  <2>2. pairs' = qs /\ log' = PushAndShift(log, e) /\ cap' = cap
    BY <1>2 DEF UnregisterPair
  <2>4. qs \in SUBSET Pairs /\ p \notin qs
    BY <1>0
  <2> HIDE DEF e, qs
  <2> QED
    BY <1>0, <2>1, <2>2, <2>3, <2>4, RecordEvent DEF HandlerKeeps
<1>3. ASSUME NEW p \in Pairs, PostEvent(p) PROVE HandlerKeeps
  <2> DEFINE e == Event("client", p)
  <2>1. e \in Events /\ e.pair = p /\ e.type = "client"
    BY DEF Event, Events
  <2>2. pairs' = pairs /\ log' = PushAndShift(log, e) /\ cap' = cap
    BY <1>3 DEF PostEvent
  <2> HIDE DEF e
  <2> QED
    BY <1>0, <2>1, <2>2, RecordEvent DEF HandlerKeeps
<1>4. CASE DeepHealth
  BY <1>0, <1>4 DEF DeepHealth, HandlerKeeps
<1>5. ASSUME NEW n \in 1..MaxCap, SetEventLogCap(n) PROVE HandlerKeeps
  BY <1>0, <1>5, TrimEventLog DEF SetEventLogCap, HandlerKeeps
<1> QED
  BY <1>1, <1>2, <1>3, <1>4, <1>5 DEF Mutate

\* What every request handler leaves alone, and when it arms the timer.
LEMMA MutateFrame ==
  Mutate => /\ up /\ write = "idle" /\ UNCHANGED <<up, write, snap, file, fault>>
            /\ timer' = Debounce \/ (timer' = timer /\ Mem' = Mem)
  BY DEF Mutate, RegisterPair, UnregisterPair, PostEvent, DeepHealth, SetEventLogCap,
         Handler, Running, TriggerSnapshot, Mem

\* Taking a snapshot preserves the inductive invariant, whatever asked for it: the
\* timer, or the flush of a shutdown.
LEMMA BeginSaveIInv == IInv /\ Running /\ BeginSave => IInv'
<1> SUFFICES ASSUME IInv, Running, BeginSave PROVE IInv'
  OBVIOUS
<1>1. /\ UNCHANGED <<up, pairs, log, cap, file, fault>>
      /\ up /\ timer' = Off /\ snap' = Mem /\ write' = "temp"
  BY DEF BeginSave, Running
<1>2. Mem \in Snapshots /\ Mem' = Mem
  BY <1>1 DEF Mem, Snapshots, IInv, TypeOK
<1>3. TypeOK'
  BY <1>1, <1>2, DebounceAssumption DEF IInv, TypeOK, Off
<1>4. Agrees(pairs, log)' /\ Agrees(file.pairs, file.log)'
  BY <1>1 DEF Agrees, LastWord, IInv, AuditAgreesWithRegistry
<1> QED
  BY <1>1, <1>2, <1>3, <1>4
  DEF IInv, SaveIsCurrent, DownIsEmpty, AtRestDurable, AuditAgreesWithRegistry, EventLogWithinCeiling

\* Every step preserves the inductive invariant.
LEMMA NextIInv == IInv /\ [Next]_vars => IInv'
<1> SUFFICES ASSUME IInv, [Next]_vars PROVE IInv'
  OBVIOUS
<1>0. /\ TypeOK /\ SaveIsCurrent /\ DownIsEmpty /\ AtRestDurable /\ EventLogWithinCeiling
      /\ Agrees(pairs, log) /\ Agrees(file.pairs, file.log)
  BY DEF IInv, AuditAgreesWithRegistry
<1>1. CASE Mutate
  <2>1. HandlerKeeps
    BY <1>1, MutateKeeps
  <2>2. /\ up /\ write = "idle" /\ UNCHANGED <<up, write, snap, file, fault>>
        /\ timer' = Debounce \/ (timer' = timer /\ Mem' = Mem)
    BY <1>1, MutateFrame
  <2>3. TypeOK'
    BY <1>0, <2>1, <2>2, DebounceAssumption DEF TypeOK, HandlerKeeps, Off
  <2>4. SaveIsCurrent' /\ DownIsEmpty'
    BY <2>2 DEF SaveIsCurrent, DownIsEmpty
  <2>5. AtRestDurable'
    BY <1>0, <2>2, DebounceAssumption DEF AtRestDurable, Off
  <2>6. AuditAgreesWithRegistry' /\ Agrees(file.pairs, file.log)' /\ EventLogWithinCeiling'
    BY <1>0, <2>1, <2>2 DEF AuditAgreesWithRegistry, EventLogWithinCeiling, HandlerKeeps, Agrees, LastWord
  <2> QED
    BY <2>3, <2>4, <2>5, <2>6 DEF IInv
<1> USE <1>0 DEF IInv, TypeOK, SaveIsCurrent, DownIsEmpty, AtRestDurable, AuditAgreesWithRegistry,
                 EventLogWithinCeiling, Off
<1>2. CASE Tick
  BY <1>2, DebounceAssumption DEF Tick, Running, Mem, Agrees, LastWord
<1>3. CASE TimerFires
  BY <1>3, BeginSaveIInv DEF TimerFires
<1>4. CASE WriteTemp
  BY <1>4 DEF WriteTemp, Mem, Agrees, LastWord
<1>5. CASE Rename
  <2>1. /\ UNCHANGED <<up, pairs, log, cap, timer>>
        /\ up /\ file' = Mem /\ snap' = Empty /\ write' = "idle" /\ fault' = FALSE
    BY <1>5 DEF Rename
  <2>2. /\ Mem \in Snapshots /\ Mem' = Mem /\ Empty \in Snapshots
        /\ Mem.pairs = pairs /\ Mem.log = log
    BY <2>1 DEF Mem, Snapshots, Empty
  <2>3. TypeOK'
    BY <2>1, <2>2
  <2>4. Agrees(pairs, log)' /\ Agrees(file.pairs, file.log)'
    BY <2>1, <2>2 DEF Agrees, LastWord
  <2> QED
    BY <2>1, <2>2, <2>3, <2>4
<1>6. CASE FailWrite
  <2>1. /\ UNCHANGED <<up, pairs, log, cap, timer, file>>
        /\ up /\ snap' = Empty /\ write' = "idle" /\ fault' = TRUE
    BY <1>6 DEF FailWrite
  <2>2. TypeOK'
    BY <2>1 DEF Empty, Snapshots
  <2>3. Agrees(pairs, log)' /\ Agrees(file.pairs, file.log)'
    BY <2>1 DEF Agrees, LastWord
  <2> QED
    BY <2>1, <2>2, <2>3
<1>7. CASE Crash
  <2>1. /\ UNCHANGED file /\ up' = FALSE /\ pairs' = {} /\ log' = <<>> /\ cap' = DefaultCap
        /\ timer' = Off /\ write' = "idle" /\ snap' = Empty /\ fault' = FALSE
    BY <1>7 DEF Crash, Stop
  <2>2. TypeOK'
    <3>1. Empty \in Snapshots /\ <<>> \in Seq(Events)
      BY DEF Empty, Snapshots
    <3>2. DefaultCap \in 1..MaxCap /\ Off \in Off..Debounce
      BY CapsAssumption, DebounceAssumption
    <3> QED
      BY <2>1, <3>1, <3>2
  <2>3. Agrees(pairs, log)' /\ Agrees(file.pairs, file.log)' /\ (Mem = Empty)'
    BY <2>1 DEF Agrees, LastWord, Mem, Empty
  <2> QED
    BY <2>1, <2>2, <2>3, CapsAssumption
<1>8. CASE Start
  BY <1>8 DEF Start, Hydrate, Mem, Empty, Snapshots, Agrees, LastWord
<1>9. CASE StartUnreadable
  BY <1>9 DEF StartUnreadable, Hydrate, Mem, Empty, Snapshots, Agrees, LastWord
<1>10. CASE UNCHANGED vars
  BY <1>10 DEF vars, Mem, Agrees, LastWord
<1> QED
  BY <1>1, <1>2, <1>3, <1>4, <1>5, <1>6, <1>7, <1>8, <1>9, <1>10 DEF Next

-----------------------------------------------------------------------------
(* The results.                                                            *)

\* The inductive invariant holds in every reachable state.
THEOREM Inductive == Spec => []IInv
<1> QED
  BY InitIInv, NextIInv, PTL DEF Spec

\* The variables keep their types; the event log stays a finite sequence.
THEOREM TypeCorrect == Spec => []TypeOK
<1>1. IInv => TypeOK
  BY DEF IInv
<1> QED
  BY <1>1, Inductive, PTL

\* With nothing pending and no failure, the file is up to date.
THEOREM NoLostMutation == Spec => []AtRestDurable
<1>1. IInv => AtRestDurable
  BY DEF IInv
<1> QED
  BY <1>1, Inductive, PTL

\* The audit trail and the registry agree, across crashes and evictions.
THEOREM AuditConsistent == Spec => []AuditAgreesWithRegistry
<1>1. IInv => AuditAgreesWithRegistry
  BY DEF IInv
<1> QED
  BY <1>1, Inductive, PTL

\* No sequence of cap changes and restarts takes the log over the ceiling.
THEOREM LogCeiling == Spec => []EventLogWithinCeiling
<1>1. IInv => EventLogWithinCeiling
  BY DEF IInv
<1> QED
  BY <1>1, Inductive, PTL

\* Every step is a step of the abstract store, or changes nothing it shows.
LEMMA StepRefines == IInv /\ IInv' /\ [Next]_vars => [Durable!Next]_<<up, Mem, file>>
<1> SUFFICES ASSUME IInv, IInv', [Next]_vars
             PROVE Durable!Next \/ UNCHANGED <<up, Mem, file>>
  OBVIOUS
<1>1. CASE Mutate
  <2>1. up /\ UNCHANGED <<up, file>>
    BY <1>1, MutateFrame
  <2>2. Mem' \in Snapshots
    BY DEF IInv, TypeOK, Mem, Snapshots
  <2> QED
    BY <2>1, <2>2 DEF Durable!Next, Durable!Change
<1>2. CASE Rename
  BY <1>2 DEF Rename, IInv, SaveIsCurrent, Durable!Next, Durable!Save, Mem
<1>3. CASE Crash
  BY <1>3 DEF Crash, Stop, Durable!Next, Durable!Stop, Mem, Empty
<1>4. CASE Start
  <2>1. file = [pairs |-> file.pairs, log |-> file.log]
    BY DEF IInv, TypeOK, Snapshots
  <2> QED
    BY <1>4, <2>1 DEF Start, Hydrate, Durable!Next, Durable!Start, Mem
<1>5. CASE StartUnreadable
  BY <1>5 DEF StartUnreadable, Hydrate, Durable!Next, Durable!Start, Mem, Empty
<1>6. CASE Tick \/ TimerFires \/ WriteTemp \/ FailWrite \/ UNCHANGED vars
  BY <1>6 DEF Tick, TimerFires, BeginSave, WriteTemp, FailWrite, vars, Mem
<1> QED
  BY <1>1, <1>2, <1>3, <1>4, <1>5, <1>6 DEF Next

\* The file is always one whole state of the stores: the debounced, staged save
\* implements the abstract store that saves at once.
THEOREM Refinement == Spec => ImplementsDurableStore
<1>1. Init => Durable!Init
  BY DEF Init, Durable!Init, Mem, Empty
<1> QED
  BY <1>1, StepRefines, Inductive, PTL DEF Spec, ImplementsDurableStore, Durable!Spec

-----------------------------------------------------------------------------
(* The process around the stores.                                          *)

FlushIsLast == flushing => up /\ timer = Off /\ conns = 0 /\ Draining

LInv == IInv /\ ShutdownTypeOK /\ FlushIsLast

\* What a step of the process does to the stores.
LEMMA StoreStep ==
  ASSUME [ShutdownNext]_allVars
  PROVE  [Next]_vars \/ (Running /\ BeginSave)
BY DEF ShutdownNext, Connect, Disconnect, Request, Save, Signal, Drained, DrainedTwice,
       FlushSettles, GraceExpires, Kill, Boot, Exit, Crash, Next, allVars

LEMMA InitLInv == ShutdownInit => LInv
<1> SUFFICES ASSUME ShutdownInit
             PROVE  LInv
  OBVIOUS
<1>1. IInv
  BY InitIInv DEF ShutdownInit
<1>2. TypeOK
  BY <1>1 DEF IInv
<1>3. 0 \in 0..MaxConns /\ 0 \in 0..MaxSignals
  BY BoundsAssumption
<1>4. conns = 0 /\ signals = 0 /\ flushing = FALSE /\ exit = "killed"
  BY DEF ShutdownInit
<1>5. FlushIsLast
  BY <1>4 DEF FlushIsLast
<1>6. ShutdownTypeOK
  BY <1>2, <1>3, <1>4 DEF ShutdownTypeOK
<1> QED
  BY <1>1, <1>5, <1>6 DEF LInv

LEMMA StepLInv == LInv /\ [ShutdownNext]_allVars => LInv'
<1> SUFFICES ASSUME LInv, [ShutdownNext]_allVars
             PROVE  LInv'
  OBVIOUS
<1>0. IInv'
  BY StoreStep, NextIInv, BeginSaveIInv DEF LInv
<1>1. TypeOK'
  BY <1>0 DEF IInv
<1>2. ShutdownTypeOK /\ FlushIsLast
  BY DEF LInv
<1>3. ASSUME NEW code \in {"0", "1", "killed"}, Exit(code)
      PROVE  LInv'
  <2>1. conns' = 0 /\ signals' = 0 /\ flushing' = FALSE /\ exit' = code
    BY <1>3 DEF Exit
  <2>2. 0 \in 0..MaxConns /\ 0 \in 0..MaxSignals
    BY BoundsAssumption
  <2>3. FlushIsLast'
    BY <2>1 DEF FlushIsLast
  <2>4. ShutdownTypeOK'
    BY <1>1, <1>3, <2>1, <2>2 DEF ShutdownTypeOK
  <2> QED
    BY <1>0, <2>3, <2>4 DEF LInv
<1>4. CASE Connect \/ Disconnect
  BY <1>0, <1>1, <1>2, <1>4, BoundsAssumption
  DEF Connect, Disconnect, Turn, vars, LInv, ShutdownTypeOK, FlushIsLast
<1>5. CASE Request
  BY <1>0, <1>1, <1>2, <1>5 DEF Request, Turn, lifeVars, LInv, ShutdownTypeOK, FlushIsLast
<1>6. CASE Save
  <2>1. UNCHANGED lifeVars /\ (flushing => up' = up /\ timer' = timer)
    BY <1>6 DEF Save, Turn, WriteTemp, Rename, FailWrite
  <2> QED
    BY <1>0, <1>1, <1>2, <2>1 DEF lifeVars, Draining, LInv, ShutdownTypeOK, FlushIsLast
<1>7. CASE Signal
  BY <1>0, <1>1, <1>2, <1>7, BoundsAssumption DEF Signal, Turn, LInv, ShutdownTypeOK, FlushIsLast
<1>8. CASE Drained
  <2>1. up' /\ timer' = Off /\ conns' = 0 /\ signals' = 1 /\ flushing' = TRUE /\ exit' = exit
    BY <1>8 DEF Drained, Running, BeginSave, ClosePending
  <2>2. conns' \in 0..MaxConns /\ signals' \in 0..MaxSignals
    BY <1>2, <1>8 DEF Drained, ShutdownTypeOK
  <2> QED
    BY <1>0, <1>1, <1>2, <2>1, <2>2 DEF Draining, LInv, ShutdownTypeOK, FlushIsLast
<1>9. CASE Boot
  <2>1. /\ ~up /\ exit' = "running" /\ UNCHANGED <<conns, signals, flushing>>
    BY <1>9 DEF Boot, Start, StartUnreadable, Hydrate
  <2> QED
    BY <1>0, <1>1, <1>2, <2>1 DEF LInv, ShutdownTypeOK, FlushIsLast
<1>10. CASE UNCHANGED allVars
  BY <1>0, <1>1, <1>2, <1>10
  DEF allVars, vars, lifeVars, Draining, LInv, ShutdownTypeOK, FlushIsLast
<1> QED
  BY <1>3, <1>4, <1>5, <1>6, <1>7, <1>8, <1>9, <1>10
  DEF ShutdownNext, DrainedTwice, FlushSettles, GraceExpires, Kill

THEOREM LifeInductive == ShutdownSpec => []LInv
BY InitLInv, StepLInv, PTL DEF ShutdownSpec

\* Types, for any number of connections and signals.
THEOREM LifeTypeCorrect == ShutdownSpec => []ShutdownTypeOK
<1>1. LInv => ShutdownTypeOK
  BY DEF LInv
<1> QED
  BY <1>1, LifeInductive, PTL

\* A process that exits 0 has its stores in the file, unless the write failed
\* (server.ts:150-215).
THEOREM CleanExit == ShutdownSpec => CleanExitSaves
<1>1. ASSUME LInv, [ShutdownNext]_allVars, exit # "0", exit' = "0"
      PROVE  fault \/ file = Mem
  <2>1. CASE FlushSettles
    <3>1. up /\ timer = Off /\ write = "idle"
      BY <1>1, <2>1 DEF FlushSettles, LInv, FlushIsLast
    <3> QED
      BY <1>1, <3>1 DEF LInv, IInv, AtRestDurable
  <2>2. CASE ~FlushSettles
    BY <1>1, <2>2
    DEF ShutdownNext, Connect, Disconnect, Request, Save, Signal, Drained, DrainedTwice,
        GraceExpires, Kill, Boot, Exit, allVars, lifeVars
  <2> QED
    BY <2>1, <2>2
<1>2. LInv /\ [ShutdownNext]_allVars => [exit # "0" /\ exit' = "0" => fault \/ file = Mem]_allVars
  BY <1>1
<1> QED
  BY <1>2, LifeInductive, PTL DEF ShutdownSpec, CleanExitSaves

\* Drain, flush and every way to end the process leave the file one whole state.
THEOREM LifeRefinement == ShutdownSpec => ShutdownImplementsDurableStore
<1>1. ShutdownInit => Durable!Init
  BY DEF ShutdownInit, Init, Durable!Init, Mem, Empty
<1>2. LInv /\ LInv' /\ [ShutdownNext]_allVars => [Durable!Next]_<<up, Mem, file>>
  <2>1. Running /\ BeginSave => UNCHANGED <<up, Mem, file>>
    BY DEF BeginSave, Mem
  <2> QED
    BY <2>1, StoreStep, StepRefines DEF LInv
<1> QED
  BY <1>1, <1>2, LifeInductive, PTL DEF ShutdownSpec, ShutdownImplementsDurableStore, Durable!Spec

\* With one signal the promise of server.ts:150 holds: a drained process exits
\* with its stores flushed, also when the grace timer is armed meanwhile.  The
\* run that refutes it needs a second signal.
THEOREM FlushedAfterOneSignal == ShutdownSpec /\ [](signals <= 1) => FlushedBeforeExit
<1>1. ASSUME LInv, signals <= 1, [ShutdownNext]_allVars, up, ~up', ClosePending, exit' # "killed"
      PROVE  fault \/ file = Mem
  <2>1. CASE FlushSettles
    <3>1. up /\ timer = Off /\ write = "idle"
      BY <1>1, <2>1 DEF FlushSettles, LInv, FlushIsLast
    <3> QED
      BY <1>1, <3>1 DEF LInv, IInv, AtRestDurable
  <2>2. ~DrainedTwice /\ ~GraceExpires
    BY <1>1 DEF DrainedTwice, GraceExpires, Turn, LInv, ShutdownTypeOK
  <2>3. CASE ~FlushSettles
    BY <1>1, <2>2, <2>3
    DEF ShutdownNext, Connect, Disconnect, Request, Save, Signal, Drained, Kill, Boot, Exit,
        Turn, WriteTemp, Rename, FailWrite, BeginSave, Start, StartUnreadable, Hydrate,
        Running, Tick, TimerFires, Mutate, RegisterPair, UnregisterPair, PostEvent, DeepHealth,
        SetEventLogCap, Handler, allVars, vars
  <2> QED
    BY <2>1, <2>3
<1>2. LInv /\ signals <= 1 /\ [ShutdownNext]_allVars
        => [up /\ ~up' /\ ClosePending /\ exit' # "killed" => fault \/ file = Mem]_allVars
  BY <1>1
<1> QED
  BY <1>2, LifeInductive, PTL DEF ShutdownSpec, FlushedBeforeExit
=============================================================================
