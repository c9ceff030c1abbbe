--------------------------- MODULE StorageAdapter ---------------------------
(***************************************************************************)
(* JsonFileAdapter of src/store/adapter.ts.  Every call that changes a     *)
(* collection changes memory first and then writes the whole store to the  *)
(* file before it returns; when the write throws, so does the call, and    *)
(* memory keeps the change.  Calls are synchronous: none begins before the *)
(* one before it is over, but the process can die in between.              *)
(*                                                                         *)
(* The four keyed collections (pairs, metadata, keys, webhooks) are alike  *)
(* and are one map here.                                                   *)
(***************************************************************************)
EXTENDS Integers, Sequences

CONSTANTS
  Keys,      \* keys of the map
  Values,    \* records stored under them
  MaxEvents  \* bound on the events ever appended

Absent == "absent"

\* Of what a caller knows of a key.
Unknown == "unknown"

ASSUME AdapterAssumption == MaxEvents \in Nat /\ Absent \notin Values /\ Unknown \notin Values

VARIABLES
  up,       \* is there a process
  mem,      \* contents of the adapter's collections
  file,     \* contents of the file; an absent file loads as Fresh
  save,     \* stage of _save: "idle", "temp" or "rename"
  call,     \* what the call under way will tell its caller
  appended, \* number of events ever appended (history)
  told      \* what calls that returned have told, until another contradicts it (history)

vars == <<up, mem, file, save, call, appended, told>>

Contents == [map : [Keys -> Values \cup {Absent}], events : Seq(1..MaxEvents)]

Fresh == [map |-> [k \in Keys |-> Absent], events |-> <<>>]

\* Per key the record it was set to, or that it was deleted; events that were appended.
Knowledge ==
  [map : [Keys -> Values \cup {Absent, Unknown}], events : SUBSET (1..MaxEvents)]

Nothing == [map |-> [k \in Keys |-> Unknown], events |-> {}]

\* Events are kept in the order in which they were appended.
InOrder(c) == \A i, j \in 1..Len(c.events) : i < j => c.events[i] < c.events[j]

TypeOK ==
  /\ up \in BOOLEAN
  /\ mem \in Contents /\ InOrder(mem)
  /\ file \in Contents /\ InOrder(file)
  /\ save \in {"idle", "temp", "rename"}
  /\ call \in Knowledge
  /\ appended \in 0..MaxEvents
  /\ told \in Knowledge

-----------------------------------------------------------------------------
(* What the calls do to the collections, as in InMemoryAdapter.            *)

With(c, k, v) == [c EXCEPT !.map[k] = v]

\* Mutant: the newest event goes to the front.
Unshifted(c, e) == [c EXCEPT !.events = <<e>> \o @]

Pushed(c, e) == [c EXCEPT !.events = Append(@, e)]

\* splice from the front: the newest n stay.
Trimmed(c, n) ==
  [c EXCEPT !.events = IF Len(@) > n THEN SubSeq(@, Len(@) - n + 1, Len(@)) ELSE @]

EventsOf(c) == {c.events[i] : i \in 1..Len(c.events)}

-----------------------------------------------------------------------------
(* Calls.                                                                  *)

Idle == up /\ save = "idle"

\* Memory becomes c and _save begins.  Of what was known, only `still` is left from
\* here on; the caller will be told `news` if the call returns.
Begin(c, still, news) ==
  /\ mem' = c
  /\ save' = "temp"
  /\ told' = still
  /\ call' = news
  /\ UNCHANGED <<up, file>>

Set(k, v) ==
  /\ Idle
  /\ Begin(With(mem, k, v), [told EXCEPT !.map[k] = Unknown], [Nothing EXCEPT !.map[k] = v])
  /\ UNCHANGED appended

\* A key that is not in memory is not deleted from the file either.
Delete(k) ==
  /\ Idle
  /\ mem.map[k] # Absent
  /\ Begin(With(mem, k, Absent),
           [told EXCEPT !.map[k] = Unknown], [Nothing EXCEPT !.map[k] = Absent])
  /\ UNCHANGED appended

EventsAppend ==
  /\ Idle
  /\ appended < MaxEvents
  /\ appended' = appended + 1
  /\ Begin(Pushed(mem, appended + 1), told, [Nothing EXCEPT !.events = {appended + 1}])

EventsTrim(n) ==
  /\ Idle
  /\ Len(mem.events) > n
  /\ LET c == Trimmed(mem, n)
     IN  Begin(c, [told EXCEPT !.events = @ \cap EventsOf(c)], Nothing)
  /\ UNCHANGED appended

Flush == Idle /\ Begin(mem, told, Nothing) /\ UNCHANGED appended

Clear ==
  /\ Idle
  /\ Begin(Fresh, Nothing, [map |-> Fresh.map, events |-> {}])
  /\ UNCHANGED appended

-----------------------------------------------------------------------------
(* _save.                                                                  *)

\* Mutant: the file itself is opened for writing, which truncates it.
WriteInPlace ==
  /\ up /\ save = "temp"
  /\ save' = "rename"
  /\ file' = Fresh
  /\ UNCHANGED <<up, mem, call, appended, told>>

\* The temporary file is written, synced and closed; a stale one is truncated.
WriteTemp ==
  /\ up /\ save = "temp"
  /\ save' = "rename"
  /\ UNCHANGED <<up, mem, file, call, appended, told>>

Learnt ==
  [map |-> [k \in Keys |-> IF call.map[k] = Unknown THEN told.map[k] ELSE call.map[k]],
   events |-> told.events \cup call.events]

\* The call returns.
Rename ==
  /\ up /\ save = "rename"
  /\ file' = mem
  /\ save' = "idle"
  /\ told' = Learnt
  /\ call' = Nothing
  /\ UNCHANGED <<up, mem, appended>>

\* Mutant: the error is logged, and the call returns as if nothing had happened.
ThrowSwallowed ==
  /\ up /\ save # "idle"
  /\ save' = "idle"
  /\ told' = Learnt
  /\ call' = Nothing
  /\ UNCHANGED <<up, mem, file, appended>>

\* Either stage throws: the temporary file is unlinked and the call throws.
Throw ==
  /\ up /\ save # "idle"
  /\ save' = "idle"
  /\ call' = Nothing
  /\ UNCHANGED <<up, mem, file, appended, told>>

-----------------------------------------------------------------------------
(* The process.                                                            *)

Crash ==
  /\ up
  /\ up' = FALSE
  /\ mem' = Fresh
  /\ save' = "idle"
  /\ call' = Nothing
  /\ UNCHANGED <<file, appended, told>>

\* Mutant: the events are left out of what is loaded.
LoadWithoutEvents ==
  /\ ~up
  /\ up' = TRUE
  /\ mem' = [file EXCEPT !.events = <<>>]
  /\ UNCHANGED <<file, save, call, appended, told>>

\* The constructor.
Load ==
  /\ ~up
  /\ up' = TRUE
  /\ mem' = file
  /\ UNCHANGED <<file, save, call, appended, told>>

\* The file does not parse: a warning, and the first save replaces it.
LoadUnreadable ==
  /\ ~up
  /\ up' = TRUE
  /\ mem' = Fresh
  /\ told' = Nothing
  /\ UNCHANGED <<file, save, call, appended>>

Init ==
  /\ up = FALSE
  /\ mem = Fresh
  /\ file = Fresh
  /\ save = "idle"
  /\ call = Nothing
  /\ appended = 0
  /\ told = Nothing

Next ==
  \/ \E k \in Keys, v \in Values : Set(k, v)
  \/ \E k \in Keys : Delete(k)
  \/ EventsAppend
  \/ \E n \in 0..MaxEvents : EventsTrim(n)
  \/ Flush
  \/ Clear
  \/ WriteTemp
  \/ Rename
  \/ Throw
  \/ Crash
  \/ Load
  \/ LoadUnreadable

Spec == Init /\ [][Next]_vars

-----------------------------------------------------------------------------
(* Properties.                                                             *)

Vouched(c, known) ==
  /\ \A k \in Keys : known.map[k] # Unknown => c.map[k] = known.map[k]
  /\ known.events \subseteq EventsOf(c)

\* What a caller was told stays in the file until a later call on the same key or
\* event begins: whatever other calls throw, wherever the process dies, and
\* although a call that throws leaves memory ahead of the file.
ToldIsDurable == Vouched(file, told)

\* What a caller was told is also what the adapter answers, after any restart.
ToldIsAnswered == up => Vouched(mem, told)

\* The file is always one whole state of the collections, never a torn write.
Durable == INSTANCE DurableStore WITH States <- Contents, Empty <- Fresh
ImplementsDurableStore == Durable!Spec

\* Inductive strengthening: what a call will tell is in memory before it is written.
IInv ==
  /\ TypeOK
  /\ ToldIsDurable /\ ToldIsAnswered
  /\ save # "idle" => up /\ Vouched(mem, call)
  /\ ~up => mem = Fresh
  /\ \A e \in EventsOf(mem) \cup EventsOf(file) : e <= appended
=============================================================================
