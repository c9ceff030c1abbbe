------------------------------ MODULE Shutdown ------------------------------
(***************************************************************************)
(* The life of the server process around its stores (src/server.ts): it    *)
(* hydrates, listens, is told to stop by SIGTERM or SIGINT, drains its     *)
(* connections, flushes the snapshot and exits; or a grace timer, or a     *)
(* kill, ends it first.  The stores and their debounced saves are those of *)
(* SnapshotStore and keep working while connections drain.                 *)
(*                                                                         *)
(* Connections are Node's: once closed to new ones, a server still serves  *)
(* the open ones, and emits 'close' in the same turn of the event loop in  *)
(* which it has been told to close and the last of them is gone.           *)
(***************************************************************************)
EXTENDS SnapshotStore

CONSTANTS
  MaxConns,   \* bound on open connections
  MaxSignals  \* bound on the termination signals one process gets

ASSUME BoundsAssumption == MaxConns \in Nat /\ MaxSignals \in Nat

VARIABLES
  conns,     \* open client connections
  signals,   \* calls of handleShutdown in this process, each with a close callback
  flushing,  \* has the close callback called flushAdapter
  exit       \* "running", exit code "0" or "1", or "killed"

lifeVars == <<conns, signals, flushing, exit>>
allVars == <<vars, lifeVars>>

ShutdownTypeOK ==
  /\ TypeOK
  /\ conns \in 0..MaxConns
  /\ signals \in 0..MaxSignals
  /\ flushing \in BOOLEAN
  /\ exit \in {"running", "0", "1", "killed"}

-----------------------------------------------------------------------------
Draining == signals > 0

\* 'close' is emitted before any other callback of the event loop runs.
ClosePending == Draining /\ conns = 0

\* A callback can run: no save or flush is under way and no 'close' is due.
Turn == Running /\ ~flushing /\ ~ClosePending

Connect ==
  /\ Turn /\ ~Draining
  /\ conns < MaxConns
  /\ conns' = conns + 1
  /\ UNCHANGED <<vars, signals, flushing, exit>>

\* The client leaves, or its idle time (keepAliveTimeout) is over.
Disconnect ==
  /\ Turn /\ conns > 0
  /\ conns' = conns - 1
  /\ UNCHANGED <<vars, signals, flushing, exit>>

\* A request on an open connection, draining or not.
Request == Turn /\ conns > 0 /\ Mutate /\ UNCHANGED lifeVars

\* The timer part of SnapshotStore.
Save ==
  /\ \/ Turn /\ (Tick \/ TimerFires)
     \/ WriteTemp
     \/ Rename
     \/ FailWrite
  /\ UNCHANGED lifeVars

\* SIGTERM or SIGINT: arm a grace timer and register one more close callback.
Signal ==
  /\ Turn /\ signals < MaxSignals
  /\ signals' = signals + 1
  /\ UNCHANGED <<vars, conns, flushing, exit>>

\* Mutant: the close callback exits without waiting for the flush.
DrainedNoFlush ==
  /\ Running /\ ClosePending /\ ~flushing
  /\ signals = 1
  /\ flushing' = TRUE
  /\ UNCHANGED <<vars, conns, signals, exit>>

\* The only close callback starts the flush, which cancels the save timer.
Drained ==
  /\ Running /\ ClosePending /\ ~flushing
  /\ signals = 1
  /\ BeginSave
  /\ flushing' = TRUE
  /\ UNCHANGED <<conns, signals, exit>>

Exit(code) == up /\ Stop /\ exit' = code /\ conns' = 0 /\ signals' = 0 /\ flushing' = FALSE

\* With two callbacks on one 'close', the second gets ERR_SERVER_NOT_RUNNING
\* and exits at once: the flush the first began is still a queued microtask.
DrainedTwice ==
  /\ Running /\ ClosePending /\ ~flushing
  /\ signals > 1
  /\ Exit("1")

\* The flush settled, well or not: its errors are swallowed.
FlushSettles == flushing /\ write = "idle" /\ Exit("0")

\* Mutant: only a second signal has a grace timer.
GraceAfterSecond == Turn /\ signals > 1 /\ Exit("1")

GraceExpires == Turn /\ Draining /\ Exit("1")

Kill == Exit("killed")

\* start(): hydration is awaited before the server listens and handles signals.
Boot ==
  /\ Start \/ StartUnreadable
  /\ exit' = "running"
  /\ UNCHANGED <<conns, signals, flushing>>

ShutdownInit == Init /\ conns = 0 /\ signals = 0 /\ flushing = FALSE /\ exit = "killed"

ShutdownNext ==
  \/ Connect
  \/ Disconnect
  \/ Request
  \/ Save
  \/ Signal
  \/ Drained
  \/ DrainedTwice
  \/ FlushSettles
  \/ GraceExpires
  \/ Kill
  \/ Boot

\* Timers fire and queued callbacks run; clients owe the server nothing.  The
\* grace timer is armed once and never re-armed, so it expires however often
\* requests and saves take the turn: strong fairness.
ShutdownFairness ==
  /\ WF_allVars(Save)
  /\ SF_allVars(GraceExpires)
  /\ WF_allVars(Drained \/ DrainedTwice)
  /\ WF_allVars(FlushSettles)

ShutdownSpec == ShutdownInit /\ [][ShutdownNext]_allVars /\ ShutdownFairness

-----------------------------------------------------------------------------
(* Properties.                                                             *)

\* A process that reports success (exit 0) has lost nothing: whatever was
\* accepted up to the last drained connection is in the file it leaves, unless
\* the write itself failed, which never turns the exit code.
CleanExitSaves ==
  [][exit # "0" /\ exit' = "0" => fault \/ file = Mem]_allVars

\* "Called after the HTTP server drains and before process.exit" (server.ts:150):
\* a drained process exits only with its stores flushed.  Refuted by a second
\* signal during the drain, as when an orchestrator's SIGTERM follows a Ctrl-C.
FlushedBeforeExit ==
  [][up /\ ~up' /\ ClosePending /\ exit' # "killed" => fault \/ file = Mem]_allVars

\* A signal always ends the process: clients that keep their connections open
\* are cut off by the grace timer, and a flush that has begun settles.
SignalEndsProcess == up /\ Draining ~> ~up

\* Saves during a drain, the flush and every way to end the process leave the
\* file one whole state of the stores.
ShutdownImplementsDurableStore == Durable!Spec
=============================================================================
