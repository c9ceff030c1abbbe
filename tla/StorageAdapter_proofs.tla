------------------------ MODULE StorageAdapter_proofs ------------------------
(***************************************************************************)
(* Proofs about StorageAdapter: what a call will tell is in memory before  *)
(* it is written, a write takes all of memory, and nothing that has been   *)
(* told leaves memory without being revoked.                               *)
(***************************************************************************)
EXTENDS StorageAdapter, TLAPS

LEMMA FreshContents ==
  Fresh \in Contents /\ InOrder(Fresh) /\ EventsOf(Fresh) = {} /\ Nothing \in Knowledge
BY DEF Fresh, Contents, InOrder, EventsOf, Nothing, Knowledge

LEMMA ElementTyped ==
  ASSUME NEW S, NEW s \in Seq(S), NEW i \in 1..Len(s)
  PROVE  s[i] \in S
OBVIOUS

LEMMA EventsTyped ==
  ASSUME NEW c \in Contents
  PROVE  EventsOf(c) \subseteq 1..MaxEvents /\ \A e \in EventsOf(c) : e \in Nat
<1>1. c.events \in Seq(1..MaxEvents)
  BY DEF Contents
<1>2. \A i \in 1..Len(c.events) : c.events[i] \in 1..MaxEvents
  BY <1>1, ElementTyped
<1> QED
  BY <1>2, AdapterAssumption DEF EventsOf

LEMMA NothingVouched ==
  ASSUME NEW c
  PROVE  Vouched(c, Nothing)
BY DEF Vouched, Nothing

LEMMA WithContents ==
  ASSUME NEW c \in Contents, InOrder(c), NEW k \in Keys, NEW v \in Values \cup {Absent}
  PROVE  /\ With(c, k, v) \in Contents /\ InOrder(With(c, k, v))
         /\ EventsOf(With(c, k, v)) = EventsOf(c)
         /\ With(c, k, v).map[k] = v
         /\ \A q \in Keys \ {k} : With(c, k, v).map[q] = c.map[q]
BY DEF With, Contents, InOrder, EventsOf

LEMMA PushedContents ==
  ASSUME NEW c \in Contents, InOrder(c), NEW e \in 1..MaxEvents, \A f \in EventsOf(c) : f < e
  PROVE  /\ Pushed(c, e) \in Contents /\ InOrder(Pushed(c, e))
         /\ EventsOf(Pushed(c, e)) = EventsOf(c) \cup {e}
         /\ Pushed(c, e).map = c.map
<1> DEFINE s == c.events
           t == Append(s, e)
<1>1. s \in Seq(1..MaxEvents) /\ t \in Seq(1..MaxEvents)
  BY DEF Contents
<1>2. /\ Len(t) = Len(s) + 1 /\ t[Len(s) + 1] = e /\ Len(s) \in Nat
      /\ \A i \in 1..Len(s) : t[i] = s[i] /\ s[i] \in 1..MaxEvents
  <2> HIDE DEF s
  <2>1. Len(t) = Len(s) + 1 /\ t[Len(s) + 1] = e /\ Len(s) \in Nat
    BY <1>1
  <2>2. \A i \in 1..Len(s) : t[i] = s[i]
    BY <1>1
  <2>3. \A i \in 1..Len(s) : s[i] \in 1..MaxEvents
    BY <1>1, ElementTyped
  <2> QED
    BY <2>1, <2>2, <2>3
<1>3. Pushed(c, e) = [c EXCEPT !.events = t]
  BY DEF Pushed
<1>4. Pushed(c, e) \in Contents /\ Pushed(c, e).events = t /\ Pushed(c, e).map = c.map
  BY <1>1, <1>3 DEF Contents
<1>5. \A i \in 1..Len(s) : s[i] < e
  BY DEF EventsOf
<1> HIDE DEF t
<1>6. InOrder(Pushed(c, e))
  <2> SUFFICES ASSUME NEW i \in 1..Len(t), NEW j \in 1..Len(t), i < j
               PROVE  t[i] < t[j]
    BY <1>4 DEF InOrder
  <2>1. CASE j = Len(s) + 1
    BY <1>2, <1>5, <2>1
  <2>2. CASE j # Len(s) + 1
    <3>1. i \in 1..Len(s) /\ j \in 1..Len(s)
      BY <1>2, <2>2
    <3> QED
      BY <1>2, <3>1 DEF InOrder
  <2> QED
    BY <2>1, <2>2
<1>7. EventsOf(Pushed(c, e)) = EventsOf(c) \cup {e}
  <2>1. 1..Len(t) = 1..Len(s) \cup {Len(s) + 1}
    BY <1>2
  <2> QED
    BY <1>2, <1>4, <2>1 DEF EventsOf
<1> QED
  BY <1>4, <1>6, <1>7

LEMMA TrimmedContents ==
  ASSUME NEW c \in Contents, InOrder(c), NEW n \in Nat, Len(c.events) > n
  PROVE  /\ Trimmed(c, n) \in Contents /\ InOrder(Trimmed(c, n))
         /\ EventsOf(Trimmed(c, n)) \subseteq EventsOf(c)
         /\ Trimmed(c, n).map = c.map
<1> DEFINE s == c.events
           d == Len(s) - n
           t == SubSeq(s, d + 1, Len(s))
<1>1. s \in Seq(1..MaxEvents) /\ Len(s) \in Nat /\ d \in Nat /\ d + n = Len(s)
  BY DEF Contents
<1>2. /\ t \in Seq(1..MaxEvents) /\ Len(t) = n
      /\ \A i \in 1..n : t[i] = s[i + d] /\ i + d \in 1..Len(s)
  <2> HIDE DEF s, d
  <2>1. t \in Seq(1..MaxEvents)
    <3>1. \A i \in 1..Len(s) : s[i] \in 1..MaxEvents
      BY <1>1, ElementTyped
    <3> QED
      BY <1>1, <3>1
  <2>2. Len(t) = n
    BY <1>1
  <2>3. \A i \in 1..n : t[i] = s[i + d]
    BY <1>1
  <2>4. \A i \in 1..n : i + d \in 1..Len(s)
    BY <1>1
  <2> QED
    BY <2>1, <2>2, <2>3, <2>4
<1>3. Trimmed(c, n) = [c EXCEPT !.events = t]
  BY DEF Trimmed
<1>4. Trimmed(c, n) \in Contents /\ Trimmed(c, n).events = t /\ Trimmed(c, n).map = c.map
  BY <1>2, <1>3 DEF Contents
<1> HIDE DEF t, d
<1>5. InOrder(Trimmed(c, n))
  <2> SUFFICES ASSUME NEW i \in 1..n, NEW j \in 1..n, i < j
               PROVE  t[i] < t[j]
    BY <1>2, <1>4 DEF InOrder
  <2>1. i + d \in 1..Len(s) /\ j + d \in 1..Len(s) /\ i + d < j + d
    BY <1>1, <1>2
  <2>2. s[i + d] < s[j + d]
    BY <2>1 DEF InOrder
  <2> QED
    BY <1>2, <2>2
<1>6. EventsOf(Trimmed(c, n)) \subseteq EventsOf(c)
  <2> SUFFICES ASSUME NEW i \in 1..n
               PROVE  t[i] \in EventsOf(c)
    BY <1>2, <1>4 DEF EventsOf
  <2>1. t[i] = s[i + d] /\ i + d \in 1..Len(s)
    BY <1>2
  <2> QED
    BY <2>1 DEF EventsOf
<1> QED
  BY <1>4, <1>5, <1>6

-----------------------------------------------------------------------------
(* The inductive invariant.                                                *)

LEMMA InitIInv == Init => IInv
<1> SUFFICES ASSUME Init
             PROVE  IInv
  OBVIOUS
<1>1. /\ up = FALSE /\ mem = Fresh /\ file = Fresh /\ save = "idle" /\ call = Nothing
      /\ appended = 0 /\ told = Nothing
  BY DEF Init
<1>2. 0 \in 0..MaxEvents
  BY AdapterAssumption
<1>3. TypeOK
  BY <1>1, <1>2, FreshContents DEF TypeOK
<1>4. Vouched(file, told) /\ Vouched(mem, told)
  BY <1>1, NothingVouched
<1> QED
  BY <1>1, <1>3, <1>4, FreshContents DEF IInv, ToldIsDurable, ToldIsAnswered

\* What any call has to see to.
LEMMA BeginIInv ==
  ASSUME IInv, Idle, NEW c, NEW still, NEW news, Begin(c, still, news),
         c \in Contents, InOrder(c), still \in Knowledge, news \in Knowledge,
         appended' \in 0..MaxEvents, appended <= appended', \A e \in EventsOf(c) : e <= appended',
         Vouched(file, still), Vouched(c, still), Vouched(c, news)
  PROVE  IInv'
<1>1. /\ up' = up /\ up /\ mem' = c /\ file' = file /\ save' = "temp"
      /\ told' = still /\ call' = news
  BY DEF Begin, Idle
<1>2. TypeOK'
  BY <1>1 DEF IInv, TypeOK, InOrder
<1>3. Vouched(file, told)' /\ Vouched(mem, told)' /\ Vouched(mem, call)'
  BY <1>1 DEF Vouched, EventsOf
<1>4. \A e \in EventsOf(file) : e \in Int
  BY EventsTyped DEF IInv, TypeOK
<1>5. \A e \in EventsOf(mem') \cup EventsOf(file') : e <= appended'
  BY <1>1, <1>4 DEF IInv, TypeOK
<1> QED
  BY <1>1, <1>2, <1>3, <1>5 DEF IInv, ToldIsDurable, ToldIsAnswered, EventsOf

LEMMA KeyIInv ==
  ASSUME IInv, Idle, NEW k \in Keys, NEW v \in Values \cup {Absent}, appended' = appended,
         Begin(With(mem, k, v), [told EXCEPT !.map[k] = Unknown], [Nothing EXCEPT !.map[k] = v])
  PROVE  IInv'
<1> DEFINE c == With(mem, k, v)
           still == [told EXCEPT !.map[k] = Unknown]
           news == [Nothing EXCEPT !.map[k] = v]
<1>1. mem \in Contents /\ InOrder(mem) /\ told \in Knowledge /\ appended \in 0..MaxEvents
  BY DEF IInv, TypeOK
<1>2. c \in Contents /\ InOrder(c) /\ EventsOf(c) = EventsOf(mem)
  BY <1>1, WithContents
<1>3. /\ still \in Knowledge /\ still.events = told.events
      /\ \A q \in Keys : still.map[q] = IF q = k THEN Unknown ELSE told.map[q]
  BY <1>1 DEF Knowledge
<1>4. /\ news \in Knowledge /\ news.events = {}
      /\ \A q \in Keys : news.map[q] = IF q = k THEN v ELSE Unknown
  BY DEF Knowledge, Nothing
<1>5. /\ c.map[k] = v /\ \A q \in Keys \ {k} : c.map[q] = mem.map[q]
  BY <1>1, WithContents
<1>6. Vouched(file, told) /\ Vouched(mem, told)
  BY DEF IInv, ToldIsDurable, ToldIsAnswered, Idle
<1>7. Vouched(file, still)
  BY <1>3, <1>6 DEF Vouched
<1>8. Vouched(c, still)
  <2> HIDE DEF c, still
  <2> QED
    BY <1>2, <1>3, <1>5, <1>6 DEF Vouched
<1>9. Vouched(c, news)
  <2> HIDE DEF c, news
  <2> QED
    BY <1>4, <1>5 DEF Vouched
<1>10. \A e \in EventsOf(c) : e <= appended'
  BY <1>2 DEF IInv
<1>11. Begin(c, still, news) /\ appended' \in 0..MaxEvents /\ appended <= appended'
  BY <1>1
<1> HIDE DEF c, still, news
<1> QED
  BY <1>2, <1>3, <1>4, <1>7, <1>8, <1>9, <1>10, <1>11, BeginIInv

LEMMA AppendIInv ==
  ASSUME IInv, EventsAppend
  PROVE  IInv'
<1> DEFINE e == appended + 1
           c == Pushed(mem, e)
           news == [Nothing EXCEPT !.events = {e}]
<1>1. /\ mem \in Contents /\ InOrder(mem) /\ told \in Knowledge /\ appended \in 0..MaxEvents
      /\ e \in 1..MaxEvents /\ appended' = e /\ Idle /\ Begin(c, told, news)
  BY AdapterAssumption DEF IInv, TypeOK, EventsAppend
<1>2. \A f \in EventsOf(mem) : f \in Nat /\ f <= appended
  BY <1>1, EventsTyped DEF IInv
<1>3. \A f \in EventsOf(mem) : f < e
  BY <1>1, <1>2
<1>4. /\ c \in Contents /\ InOrder(c) /\ EventsOf(c) = EventsOf(mem) \cup {e} /\ c.map = mem.map
  BY <1>1, <1>3, PushedContents
<1>5. news \in Knowledge /\ news.events = {e} /\ \A k \in Keys : news.map[k] = Unknown
  BY <1>1 DEF Knowledge, Nothing
<1>6. Vouched(file, told) /\ Vouched(mem, told)
  BY <1>1 DEF IInv, ToldIsDurable, ToldIsAnswered, Idle
<1> HIDE DEF c, news
<1>7. Vouched(c, told) /\ Vouched(c, news)
  BY <1>4, <1>5, <1>6 DEF Vouched
<1>8. \A f \in EventsOf(c) : f <= appended'
  BY <1>1, <1>2, <1>4
<1> QED
  BY <1>1, <1>4, <1>5, <1>6, <1>7, <1>8, BeginIInv

LEMMA TrimIInv ==
  ASSUME IInv, NEW n \in 0..MaxEvents, EventsTrim(n)
  PROVE  IInv'
<1> DEFINE c == Trimmed(mem, n)
           still == [told EXCEPT !.events = @ \cap EventsOf(c)]
<1>1. /\ mem \in Contents /\ InOrder(mem) /\ told \in Knowledge /\ appended \in 0..MaxEvents
      /\ appended' = appended /\ Idle /\ Begin(c, still, Nothing) /\ Len(mem.events) > n /\ n \in Nat
  BY AdapterAssumption DEF IInv, TypeOK, EventsTrim
<1>2. /\ c \in Contents /\ InOrder(c) /\ EventsOf(c) \subseteq EventsOf(mem) /\ c.map = mem.map
  BY <1>1, TrimmedContents
<1>3. Vouched(file, told) /\ Vouched(mem, told)
  BY <1>1 DEF IInv, ToldIsDurable, ToldIsAnswered, Idle
<1> HIDE DEF c
<1>4. still \in Knowledge /\ still.map = told.map /\ still.events = told.events \cap EventsOf(c)
  BY <1>1 DEF Knowledge
<1> HIDE DEF still
<1>5. Vouched(file, still) /\ Vouched(c, still)
  BY <1>2, <1>3, <1>4 DEF Vouched
<1>6. \A e \in EventsOf(c) : e <= appended'
  BY <1>1, <1>2 DEF IInv
<1> QED
  BY <1>1, <1>2, <1>4, <1>5, <1>6, FreshContents, NothingVouched, BeginIInv

LEMMA StepIInv == IInv /\ [Next]_vars => IInv'
<1> SUFFICES ASSUME IInv, [Next]_vars
             PROVE  IInv'
  OBVIOUS
<1>0. /\ TypeOK /\ Vouched(file, told) /\ (up => Vouched(mem, told))
      /\ save # "idle" => up /\ Vouched(mem, call)
      /\ ~up => mem = Fresh
      /\ \A e \in EventsOf(mem) \cup EventsOf(file) : e <= appended
  BY DEF IInv, ToldIsDurable, ToldIsAnswered
<1>1. ASSUME NEW k \in Keys, NEW v \in Values, Set(k, v)
      PROVE  IInv'
  BY <1>1, KeyIInv DEF Set
<1>2. ASSUME NEW k \in Keys, Delete(k)
      PROVE  IInv'
  BY <1>2, KeyIInv DEF Delete
<1>3. CASE EventsAppend
  BY <1>3, AppendIInv
<1>4. ASSUME NEW n \in 0..MaxEvents, EventsTrim(n)
      PROVE  IInv'
  BY <1>4, TrimIInv
<1>5. CASE Flush
  <2>1. Idle /\ Begin(mem, told, Nothing) /\ appended' = appended
    BY <1>5 DEF Flush
  <2>2. /\ mem \in Contents /\ InOrder(mem) /\ told \in Knowledge /\ Vouched(mem, told)
        /\ appended' \in 0..MaxEvents /\ appended <= appended'
    BY <1>0, <2>1 DEF TypeOK, Idle
  <2> QED
    BY <1>0, <2>1, <2>2, FreshContents, NothingVouched, BeginIInv
<1>6. CASE Clear
  <2> DEFINE news == [map |-> Fresh.map, events |-> {}]
  <2>1. Idle /\ Begin(Fresh, Nothing, news) /\ appended' = appended
    BY <1>6 DEF Clear
  <2>2. news \in Knowledge /\ Vouched(Fresh, news)
    BY DEF Knowledge, Fresh, Vouched
  <2>3. appended' \in 0..MaxEvents /\ appended <= appended'
    BY <1>0, <2>1 DEF TypeOK
  <2> HIDE DEF news
  <2> QED
    BY <2>1, <2>2, <2>3, FreshContents, NothingVouched, BeginIInv
<1>7. CASE WriteTemp
  BY <1>0, <1>7
  DEF WriteTemp, IInv, TypeOK, ToldIsDurable, ToldIsAnswered, Vouched, EventsOf, InOrder
<1>8. CASE Rename
  <2>1. /\ up /\ up' = up /\ mem' = mem /\ file' = mem /\ save' = "idle" /\ appended' = appended
        /\ told' = Learnt /\ call' = Nothing /\ Vouched(mem, told) /\ Vouched(mem, call)
    BY <1>0, <1>8 DEF Rename
  <2>2. Learnt \in Knowledge /\ Vouched(mem, Learnt)
    BY <1>0, <2>1 DEF Learnt, Knowledge, TypeOK, Vouched
  <2>3. TypeOK'
    BY <1>0, <2>1, <2>2, FreshContents DEF TypeOK, InOrder
  <2> QED
    BY <1>0, <2>1, <2>2, <2>3 DEF IInv, ToldIsDurable, ToldIsAnswered, Vouched, EventsOf
<1>9. CASE Throw
  BY <1>0, <1>9, FreshContents
  DEF Throw, IInv, TypeOK, ToldIsDurable, ToldIsAnswered, Vouched, EventsOf, InOrder
<1>10. CASE Crash
  <2>1. /\ up' = FALSE /\ mem' = Fresh /\ save' = "idle" /\ call' = Nothing
        /\ UNCHANGED <<file, appended, told>>
    BY <1>10 DEF Crash
  <2>2. TypeOK' /\ EventsOf(mem') = {}
    BY <1>0, <2>1, FreshContents DEF TypeOK, InOrder
  <2> QED
    BY <1>0, <2>1, <2>2 DEF IInv, ToldIsDurable, ToldIsAnswered, Vouched, EventsOf
<1>11. CASE Load
  BY <1>0, <1>11
  DEF Load, IInv, TypeOK, ToldIsDurable, ToldIsAnswered, Vouched, EventsOf, InOrder
<1>12. CASE LoadUnreadable
  <2>1. /\ ~up /\ up' = TRUE /\ mem' = Fresh /\ told' = Nothing
        /\ UNCHANGED <<file, save, call, appended>>
    BY <1>12 DEF LoadUnreadable
  <2>2. TypeOK' /\ EventsOf(mem') = {}
    BY <1>0, <2>1, FreshContents DEF TypeOK, InOrder
  <2>3. Vouched(file, Nothing) /\ Vouched(Fresh, Nothing)
    BY NothingVouched
  <2> QED
    BY <1>0, <2>1, <2>2, <2>3 DEF IInv, ToldIsDurable, ToldIsAnswered, Vouched, EventsOf
<1>13. CASE UNCHANGED vars
  BY <1>0, <1>13
  DEF vars, IInv, TypeOK, ToldIsDurable, ToldIsAnswered, Vouched, EventsOf, InOrder
<1> QED
  BY <1>1, <1>2, <1>3, <1>4, <1>5, <1>6, <1>7, <1>8, <1>9, <1>10, <1>11, <1>12, <1>13 DEF Next

THEOREM Inductive == Spec => []IInv
BY InitIInv, StepIInv, PTL DEF Spec

\* Types, and the events of memory and file in the order of their appends.
THEOREM TypeCorrect == Spec => []TypeOK
<1>1. IInv => TypeOK
  BY DEF IInv
<1> QED
  BY <1>1, Inductive, PTL

\* What a call that returned has told stays in the file (adapter.ts:240-365).
THEOREM DurableWhenTold == Spec => []ToldIsDurable
<1>1. IInv => ToldIsDurable
  BY DEF IInv
<1> QED
  BY <1>1, Inductive, PTL

\* ... and is what the adapter answers, after any restart (adapter.ts:214-222).
THEOREM AnsweredAsTold == Spec => []ToldIsAnswered
<1>1. IInv => ToldIsAnswered
  BY DEF IInv
<1> QED
  BY <1>1, Inductive, PTL

\* The file of the adapter is always one whole state (adapter.ts:239-265).
THEOREM Refinement == Spec => ImplementsDurableStore
<1>1. Init => Durable!Init
  BY DEF Init, Durable!Init
<1>2. IInv /\ IInv' /\ [Next]_vars => [Durable!Next]_<<up, mem, file>>
  <2> SUFFICES ASSUME IInv, IInv', [Next]_vars
               PROVE  Durable!Next \/ UNCHANGED <<up, mem, file>>
    OBVIOUS
  <2>1. mem' \in Contents
    BY DEF IInv, TypeOK
  <2>2. ASSUME NEW c, NEW still, NEW news, Idle, Begin(c, still, news)
        PROVE  Durable!Next
    BY <2>1, <2>2 DEF Idle, Begin, Durable!Next, Durable!Change
  <2>3. CASE \/ \E k \in Keys, v \in Values : Set(k, v)
             \/ \E k \in Keys : Delete(k)
             \/ EventsAppend
             \/ \E n \in 0..MaxEvents : EventsTrim(n)
             \/ Flush \/ Clear
    BY <2>2, <2>3 DEF Set, Delete, EventsAppend, EventsTrim, Flush, Clear
  <2>4. CASE Rename
    BY <2>4 DEF Rename, Durable!Next, Durable!Save
  <2>5. CASE Crash
    BY <2>5 DEF Crash, Durable!Next, Durable!Stop
  <2>6. CASE Load \/ LoadUnreadable
    BY <2>6 DEF Load, LoadUnreadable, Durable!Next, Durable!Start
  <2>7. CASE WriteTemp \/ Throw \/ UNCHANGED vars
    BY <2>7 DEF WriteTemp, Throw, vars
  <2> QED
    BY <2>3, <2>4, <2>5, <2>6, <2>7 DEF Next
<1> QED
  BY <1>1, <1>2, Inductive, PTL DEF Spec, ImplementsDurableStore, Durable!Spec
=============================================================================
