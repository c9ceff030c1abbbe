---------------------------- MODULE SnapshotStore ----------------------------
(***************************************************************************)
(* The in-memory stores of src/stores.ts, the debounced snapshot that      *)
(* follows every mutation, the atomic file write of src/persistence.ts and *)
(* the hydration of a new process from that file.                          *)
(*                                                                         *)
(* pairRegistry stands for the four wrapped collections (they are wrapped  *)
(* alike); eventLog is kept as the bounded log it is.  The configuration   *)
(* is not part of a snapshot.  A handler is one step; so is each stage of  *)
(* a save, between which the process can die but nothing else can run,     *)
(* because the write is a microtask of the timer callback.                 *)
(***************************************************************************)
EXTENDS Integers, Sequences

CONSTANTS
  Pairs,       \* asset pairs
  DefaultCap,  \* EVENT_LOG_CAP
  MaxCap,      \* EVENT_LOG_CAP_MAX
  Debounce     \* delay of the save timer, in ticks

ASSUME CapsAssumption == DefaultCap \in Nat /\ MaxCap \in Nat /\ 0 < DefaultCap /\ DefaultCap <= MaxCap
ASSUME DebounceAssumption == Debounce \in Nat

VARIABLES
  up,     \* is there a process
  pairs,  \* stores.ts: pairRegistry
  log,    \* stores.ts: eventLog, oldest first
  cap,    \* stores.ts: config.eventLogCap
  timer,  \* stores.ts: saveTimeout: ticks left, or Off
  write,  \* stage of writeSnapshot: "idle", "temp" or "rename"
  snap,   \* the snapshot being written (Empty when none is)
  file,   \* the file at PERSIST_PATH
  fault   \* did the last save or load of this process fail (history)

vars == <<up, pairs, log, cap, timer, write, snap, file, fault>>

Off == -1

\* "client" is an event of POST /api/v1/events, whatever type it claims.
Events == [type : {"registered", "refreshed", "unregistered", "client"}, pair : Pairs]

Snapshots == [pairs : SUBSET Pairs, log : Seq(Events)]

\* Fresh stores.  An absent file loads as this, so it also stands for one.
Empty == [pairs |-> {}, log |-> <<>>]

\* getSnapshot: what the serializable stores hold now.
Mem == [pairs |-> pairs, log |-> log]

TypeOK ==
  /\ up \in BOOLEAN
  /\ pairs \in SUBSET Pairs
  /\ log \in Seq(Events)
  /\ cap \in 1..MaxCap
  /\ timer \in Off..Debounce
  /\ write \in {"idle", "temp", "rename"}
  /\ snap \in Snapshots
  /\ file \in Snapshots
  /\ fault \in BOOLEAN

-----------------------------------------------------------------------------
(* The event log.                                                          *)

\* The newest n entries of l.
Newest(l, n) == IF Len(l) > n THEN SubSeq(l, Len(l) - n + 1, Len(l)) ELSE l

\* Mutant: nothing is evicted.
PushOnly(l, e) == Append(l, e)

\* recordEvent: push, then one shift at most.
PushAndShift(l, e) ==
  LET grown == Append(l, e)
  IN  IF Len(grown) > cap THEN Tail(grown) ELSE grown

Event(type, p) == [type |-> type, pair |-> p]

-----------------------------------------------------------------------------
(* Handlers.                                                               *)

\* No handler runs while a save is under way.
Running == up /\ write = "idle"

\* Mutant: only a timer that is armed already is armed again.
TriggerIfArmed == timer' = IF timer = Off THEN Off ELSE Debounce

\* triggerSnapshot, called by every wrapped mutator: (re)arms the timer.
TriggerSnapshot == timer' = Debounce

Handler == Running /\ TriggerSnapshot /\ UNCHANGED <<up, write, snap, file, fault>>

RegisterPair(p) ==
  /\ Handler
  /\ pairs' = pairs \cup {p}
  /\ log' = PushAndShift(log, Event(IF p \in pairs THEN "refreshed" ELSE "registered", p))
  /\ UNCHANGED cap

UnregisterPair(p) ==
  /\ p \in pairs
  /\ Handler
  /\ pairs' = pairs \ {p}
  /\ log' = PushAndShift(log, Event("unregistered", p))
  /\ UNCHANGED cap

PostEvent(p) ==
  /\ Handler
  /\ log' = PushAndShift(log, Event("client", p))
  /\ UNCHANGED <<pairs, cap>>

\* GET /api/v1/health/deep writes a probe entry and deletes it again.
DeepHealth ==
  /\ Handler
  /\ UNCHANGED <<pairs, log, cap>>

\* PATCH /api/v1/config with eventLogCap; only a trim touches a store.
SetEventLogCap(n) ==
  /\ Running
  /\ cap' = n
  /\ log' = Newest(log, n)
  /\ IF log' # log THEN TriggerSnapshot ELSE UNCHANGED timer
  /\ UNCHANGED <<up, pairs, write, snap, file, fault>>

Mutate ==
  \/ \E p \in Pairs : RegisterPair(p)
  \/ \E p \in Pairs : UnregisterPair(p)
  \/ \E p \in Pairs : PostEvent(p)
  \/ DeepHealth
  \/ \E n \in 1..MaxCap : SetEventLogCap(n)

-----------------------------------------------------------------------------
(* Saving.                                                                 *)

\* Mutant: ticks are counted with no timer armed.
TickUnarmed ==
  /\ Running
  /\ timer' = timer - 1
  /\ UNCHANGED <<up, pairs, log, cap, write, snap, file, fault>>

Tick ==
  /\ Running /\ timer > 0
  /\ timer' = timer - 1
  /\ UNCHANGED <<up, pairs, log, cap, write, snap, file, fault>>

\* saveSnapshotImmediately: cancel the timer, take the snapshot, queue the write.
BeginSave ==
  /\ timer' = Off
  /\ snap' = Mem
  /\ write' = "temp"
  /\ UNCHANGED <<up, pairs, log, cap, file, fault>>

TimerFires == Running /\ timer = 0 /\ BeginSave

\* Mutant: the target itself is opened and truncated.
WriteInPlace ==
  /\ up /\ write = "temp"
  /\ write' = "rename"
  /\ file' = Empty
  /\ UNCHANGED <<up, pairs, log, cap, timer, snap, fault>>

\* The temporary file is written and synced; nothing ever reads it.
WriteTemp ==
  /\ up /\ write = "temp"
  /\ write' = "rename"
  /\ UNCHANGED <<up, pairs, log, cap, timer, snap, file, fault>>

Rename ==
  /\ up /\ write = "rename"
  /\ write' = "idle"
  /\ file' = snap
  /\ fault' = FALSE
  /\ snap' = Empty
  /\ UNCHANGED <<up, pairs, log, cap, timer>>

\* Either stage can throw; the error is logged and the save is not retried.
FailWrite ==
  /\ up /\ write # "idle"
  /\ write' = "idle"
  /\ fault' = TRUE
  /\ snap' = Empty
  /\ UNCHANGED <<up, pairs, log, cap, timer, file>>

-----------------------------------------------------------------------------
(* The process.                                                            *)

\* The process ends and takes its memory with it.
Stop ==
  /\ up' = FALSE
  /\ pairs' = {}
  /\ log' = <<>>
  /\ cap' = DefaultCap
  /\ timer' = Off
  /\ write' = "idle"
  /\ snap' = Empty
  /\ fault' = FALSE
  /\ UNCHANGED file

Crash == up /\ Stop

\* Hydration with snapshot s; mutations during it do not arm the timer.
Hydrate(s) ==
  /\ ~up
  /\ up' = TRUE
  /\ pairs' = s.pairs
  /\ log' = s.log
  /\ UNCHANGED <<cap, timer, write, snap, file>>

\* Mutant: the registry is left out of the hydration.
StartWithoutRegistry == Hydrate([file EXCEPT !.pairs = {}]) /\ UNCHANGED fault

Start == Hydrate(file) /\ UNCHANGED fault

\* The file cannot be read, parsed or migrated: the service starts empty.
StartUnreadable == Hydrate(Empty) /\ fault' = TRUE

Init ==
  /\ up = FALSE
  /\ pairs = {}
  /\ log = <<>>
  /\ cap = DefaultCap
  /\ timer = Off
  /\ write = "idle"
  /\ snap = Empty
  /\ file = Empty
  /\ fault = FALSE

Next ==
  \/ Mutate
  \/ Tick
  \/ TimerFires
  \/ WriteTemp
  \/ Rename
  \/ FailWrite
  \/ Crash
  \/ Start
  \/ StartUnreadable

Spec == Init /\ [][Next]_vars

\* Timers expire, queued microtasks run and a supervisor restarts the process.
Fairness == WF_vars(Tick) /\ WF_vars(TimerFires) /\ WF_vars(WriteTemp \/ Rename) /\ WF_vars(Start)

FairSpec == Spec /\ Fairness

-----------------------------------------------------------------------------
(* Properties.                                                             *)

\* Entry i is the last one in l that the server recorded about its pair.
LastWord(l, i) ==
  /\ l[i].type # "client"
  /\ \A j \in 1..Len(l) : j > i /\ l[j].pair = l[i].pair => l[j].type = "client"

\* Registry ps is what the last words of l say.
Agrees(ps, l) ==
  \A i \in 1..Len(l) : LastWord(l, i) => (l[i].pair \in ps <=> l[i].type # "unregistered")

\* When no save is pending or under way, the file holds exactly what the
\* stores hold, unless the last save or load failed: no handler mutates a store
\* behind the wrappers' back, and no save can miss a change made before it.
AtRestDurable ==
  up /\ timer = Off /\ write = "idle" /\ ~fault => file = Mem

\* For every pair, the last event the server recorded about it that is still in
\* the log tells whether it is registered: across evictions, cap changes, saves
\* at any moment, crashes and restarts, because one snapshot covers both.
AuditAgreesWithRegistry == Agrees(pairs, log)

\* The log never outgrows the largest cap an operator can set, not even when a
\* restart forgets the cap under which it was written.
EventLogWithinCeiling == Len(log) <= MaxCap /\ Len(file.log) <= MaxCap

\* The file is always one whole state of the stores.
Durable == INSTANCE DurableStore WITH States <- Snapshots, mem <- Mem
ImplementsDurableStore == Durable!Spec

\* Inductive strengthening: a save holds what the stores hold, a dead process
\* holds nothing, and the file obeys what the stores obey.
SaveIsCurrent == write # "idle" => up /\ snap = Mem /\ timer = Off

DownIsEmpty == ~up => Mem = Empty /\ timer = Off /\ write = "idle"

IInv ==
  /\ TypeOK
  /\ SaveIsCurrent
  /\ DownIsEmpty
  /\ AtRestDurable
  /\ AuditAgreesWithRegistry /\ Agrees(file.pairs, file.log)
  /\ EventLogWithinCeiling

\* Once clients stop and nothing fails or crashes any more, the file catches up
\* with the stores and stays so; only a failed last save can leave it behind.
SettledStoreIsSaved ==
  <>[][~(Mutate \/ Crash \/ FailWrite \/ StartUnreadable)]_vars
    => <>[](up /\ (fault \/ file = Mem))
=============================================================================
