----------------------------- MODULE AdminModes -----------------------------
(***************************************************************************)
(* The two administrative modes of the service, `paused` and `readOnly`,   *)
(* the two guards of the middleware chain that read them, the file that    *)
(* carries `paused` over a restart, and the admin routes that set them.    *)
(*                                                                         *)
(* A request is two steps: it arrives (headers read, express.json waiting  *)
(* for the body) and, once the body is there, both guards and the handler  *)
(* run to completion on the one JavaScript thread.  The system calls of    *)
(* savePausedState are separate steps, because the process can die between *)
(* them; no other request is served while they run.                        *)
(***************************************************************************)
EXTENDS Naturals

CONSTANTS
  Clients,  \* who may have a request in flight
  Admins    \* the clients that present the admin token (all, when none is set)

ASSUME AdminsAreClients == Admins \subseteq Clients

VARIABLES
  up,         \* is the process running
  paused,     \* stores.ts: paused
  readOnly,   \* stores.ts: readOnly
  pauseFile,  \* the pause-state file: "absent", "torn" or "paused"
  inflight,   \* per client, the request whose body is still arriving
  step,       \* system call savePausedState makes next, or "idle"
  caller,     \* the client whose request is in savePausedState
  stores,     \* a bit that every accepted ordinary write flips
  agreed      \* mode the last durable admin answer promised (history)

vars == <<up, paused, readOnly, pauseFile, inflight, step, caller, stores, agreed>>

NoRequest == "none"
AdminRoutes == {"pause", "unpause", "read-only", "read-write"}
Requests == AdminRoutes \cup {"write", "quote"}

TypeOK ==
  /\ up \in BOOLEAN
  /\ paused \in BOOLEAN
  /\ readOnly \in BOOLEAN
  /\ pauseFile \in {"absent", "torn", "paused"}
  /\ inflight \in [Clients -> Requests \cup {NoRequest}]
  /\ step \in {"idle", "open", "write", "unlink"}
  /\ caller \in Clients
  /\ stores \in 0..1
  /\ agreed \in {"paused", "running", "unknown"}

-----------------------------------------------------------------------------
(* Guards and helpers.                                                     *)

\* Mutant: every admin route gets through the pause guard.
PauseGuardPassesAdmin(r) == ~paused \/ r \in AdminRoutes

PauseGuardPasses(r) == ~paused \/ r = "unpause"

\* Mutant: the recovery route is not exempt from the read-only guard.
ReadOnlyGuardNoRecovery(r) == ~readOnly \/ r = "quote"

ReadOnlyGuardPasses(r) == ~readOnly \/ r \in {"quote", "read-write"}

\* Mutant: passing either guard is enough.
AdmittedByEither(r) == PauseGuardPasses(r) \/ ReadOnlyGuardPasses(r)

Admitted(r) == PauseGuardPasses(r) /\ ReadOnlyGuardPasses(r)

Authorised(c, r) == r \in AdminRoutes => c \in Admins

\* What a starting process makes of the file: anything unreadable is "running".
LoadPausedState == pauseFile = "paused"

\* No client but `me` has an admin request r on its way.
NoneInflight(r, me) == \A c \in Admins \ {me} : inflight[c] # r

-----------------------------------------------------------------------------
(* Requests.                                                               *)

Answer(c) == inflight' = [inflight EXCEPT ![c] = NoRequest]

\* The one thread is between two handlers, and c's request r has its body.
Ready(c, r) == up /\ step = "idle" /\ inflight[c] = r

Arrive(c, r) ==
  /\ up
  /\ inflight[c] = NoRequest
  /\ inflight' = [inflight EXCEPT ![c] = r]
  /\ agreed' = IF c \in Admins /\ <<r, agreed>> \in {<<"unpause", "paused">>, <<"pause", "running">>}
               THEN "unknown" ELSE agreed
  /\ UNCHANGED <<up, paused, readOnly, pauseFile, step, caller, stores>>

\* 503 from a guard, or 401 from requireAdmin.
Refuse(c, r) ==
  /\ Ready(c, r)
  /\ ~Admitted(r) \/ ~Authorised(c, r)
  /\ Answer(c)
  /\ UNCHANGED <<up, paused, readOnly, pauseFile, step, caller, stores, agreed>>

Accept(c, r) == Ready(c, r) /\ Admitted(r) /\ Authorised(c, r)

\* setPaused(TRUE): memory first, then the file.
Pause(c) ==
  /\ Accept(c, "pause")
  /\ paused' = TRUE
  /\ step' = "open"
  /\ caller' = c
  /\ UNCHANGED <<up, readOnly, pauseFile, inflight, stores, agreed>>

\* setPaused(FALSE): memory first, then the file.
Unpause(c) ==
  /\ Accept(c, "unpause")
  /\ paused' = FALSE
  /\ step' = "unlink"
  /\ caller' = c
  /\ UNCHANGED <<up, readOnly, pauseFile, inflight, stores, agreed>>

SetReadOnly(c, r) ==
  /\ r \in {"read-only", "read-write"}
  /\ Accept(c, r)
  /\ readOnly' = (r = "read-only")
  /\ Answer(c)
  /\ UNCHANGED <<up, paused, pauseFile, step, caller, stores, agreed>>

Write(c) ==
  /\ Accept(c, "write")
  /\ stores' = 1 - stores
  /\ Answer(c)
  /\ UNCHANGED <<up, paused, readOnly, pauseFile, step, caller, agreed>>

Quote(c) ==
  /\ Accept(c, "quote")
  /\ Answer(c)
  /\ UNCHANGED <<up, paused, readOnly, pauseFile, step, caller, stores, agreed>>

-----------------------------------------------------------------------------
(* savePausedState, one system call at a time.                             *)

\* The handler records its event and answers the caller.  `mode` is what the
\* answer promises; it binds only if the file was updated and no other admin
\* is already asking for the opposite.
Respond(mode) ==
  /\ step' = "idle"
  /\ Answer(caller)
  /\ agreed' = mode

Promise(mode, opposite) == IF NoneInflight(opposite, caller) THEN mode ELSE "unknown"

\* writeFileSync opens with "w": the old content is gone before the new is there.
OpenPauseFile ==
  /\ up /\ step = "open"
  /\ pauseFile' = "torn"
  /\ step' = "write"
  /\ UNCHANGED <<up, paused, readOnly, inflight, caller, stores, agreed>>

WritePauseFile ==
  /\ up /\ step = "write"
  /\ pauseFile' = "paused"
  /\ Respond(Promise("paused", "unpause"))
  /\ UNCHANGED <<up, paused, readOnly, caller, stores>>

\* Mutant: the file stays, to say that the service runs.
WriteRunningFile ==
  /\ up /\ step = "unlink"
  /\ pauseFile' = "running"
  /\ Respond(Promise("running", "pause"))
  /\ UNCHANGED <<up, paused, readOnly, caller, stores>>

UnlinkPauseFile ==
  /\ up /\ step = "unlink"
  /\ pauseFile' = "absent"
  /\ Respond(Promise("running", "pause"))
  /\ UNCHANGED <<up, paused, readOnly, caller, stores>>

\* The system call fails; the error is swallowed and the caller gets its 200.
FailSave ==
  /\ up /\ step # "idle"
  /\ Respond("unknown")
  /\ UNCHANGED <<up, paused, readOnly, pauseFile, caller, stores>>

-----------------------------------------------------------------------------
(* The process.                                                            *)

Crash ==
  /\ up
  /\ up' = FALSE
  /\ paused' = FALSE
  /\ readOnly' = FALSE
  /\ inflight' = [c \in Clients |-> NoRequest]
  /\ step' = "idle"
  /\ UNCHANGED <<pauseFile, caller, stores, agreed>>

\* Mutant: a new process does not look at the file.
RestartBlank ==
  /\ ~up
  /\ up' = TRUE
  /\ paused' = FALSE
  /\ UNCHANGED <<readOnly, pauseFile, inflight, step, caller, stores, agreed>>

\* Module load of stores.ts.
Restart ==
  /\ ~up
  /\ up' = TRUE
  /\ paused' = LoadPausedState
  /\ UNCHANGED <<readOnly, pauseFile, inflight, step, caller, stores, agreed>>

Init ==
  /\ up = TRUE
  /\ pauseFile \in {"absent", "torn", "paused"}
  /\ paused = LoadPausedState
  /\ readOnly = FALSE
  /\ inflight = [c \in Clients |-> NoRequest]
  /\ step = "idle"
  /\ caller \in Clients
  /\ stores = 0
  /\ agreed = "unknown"

\* The guards and the handler of c's request.
Serve(c) ==
  \/ \E r \in Requests : Refuse(c, r)
  \/ Pause(c)
  \/ Unpause(c)
  \/ \E r \in Requests : SetReadOnly(c, r)
  \/ Write(c)
  \/ Quote(c)

\* The handler that is in savePausedState goes on.
ContinueSave == OpenPauseFile \/ WritePauseFile \/ UnlinkPauseFile \/ FailSave

Next ==
  \/ \E c \in Clients, r \in Requests : Arrive(c, r)
  \/ \E c \in Clients : Serve(c)
  \/ ContinueSave
  \/ Crash
  \/ Restart

\* A supervisor restarts the process, a handler that has started goes on and no
\* request waits for ever; admins who want the service back repeat the recovery
\* requests, and one of those that arrive is served before the next crash.
Fairness ==
  /\ WF_vars(Restart)
  /\ WF_vars(ContinueSave)
  /\ \A c \in Clients : SF_vars(Serve(c))
  /\ SF_vars(\E c \in Admins : Arrive(c, "unpause"))
  /\ SF_vars(\E c \in Admins : Arrive(c, "read-write"))
  /\ SF_vars(\E c \in Admins : Unpause(c))
  /\ SF_vars(\E c \in Admins : SetReadOnly(c, "read-write"))

Spec == Init /\ [][Next]_vars

FairSpec == Spec /\ Fairness

-----------------------------------------------------------------------------
(* Properties.                                                             *)

\* Whatever mode the running service is in, the request that leaves it passes
\* both guards: "so an operator can always recover" (index.ts:802-803, 821-822).
\* Each recovery route is exempt from its own guard only, so this rests on the
\* two modes never being on together.
RecoveryReachable ==
  up => /\ paused => Admitted("unpause")
        /\ readOnly => Admitted("read-write")

\* Once an admin has been told that the service is paused (or running) and the
\* file was updated, every later state of the running service agrees, over any
\* number of crashes and restarts, until an admin asks for the opposite.
\* writeFileSync is not atomic: this holds only because a paused service
\* refuses a second pause, which would tear the file.
AgreedModeDurable ==
  up => /\ agreed = "paused" => paused
        /\ agreed = "running" => ~paused

\* From the answer to a pause until somebody asks to unpause, no ordinary
\* write takes effect, not even one whose request arrived before the pause or
\* after a crash and restart.
FrozenWhileAgreed ==
  [][agreed = "paused" /\ agreed' = "paused" => stores' = stores]_vars

\* An operator who keeps asking gets a paused or read-only service back to
\* normal operation, crashes and failed file operations notwithstanding.
OperatorRecovers ==
  (up /\ (paused \/ readOnly)) ~> (up /\ ~paused /\ ~readOnly)

\* Inductive strengthening of the two invariants above.
ModesExclusive == ~(paused /\ readOnly)

NoAdminAsks(r) == \A c \in Admins : inflight[c] # r

AgreementGrounded ==
  /\ agreed = "paused" =>
       pauseFile = "paused" /\ (up => paused) /\ step = "idle" /\ NoAdminAsks("unpause")
  /\ agreed = "running" =>
       pauseFile = "absent" /\ ~paused /\ step \in {"idle", "unlink"} /\ NoAdminAsks("pause")

DownIsIdle == ~up => step = "idle" /\ ~paused /\ ~readOnly

SaveFollowsMemory ==
  /\ step \in {"open", "write"} => paused
  /\ step = "unlink" => ~paused

IInv == TypeOK /\ ModesExclusive /\ AgreementGrounded /\ DownIsIdle /\ SaveFollowsMemory
=============================================================================
