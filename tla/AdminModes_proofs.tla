-------------------------- MODULE AdminModes_proofs --------------------------
(***************************************************************************)
(* Proofs about AdminModes, for any sets of clients and admins.  IInv adds *)
(* to the two invariants what makes them inductive: the modes exclude each *)
(* other (each admin route is refused in the other mode), and a promised   *)
(* mode is backed by the file, with no system call or request on its way   *)
(* that could undo it.                                                     *)
(***************************************************************************)
EXTENDS AdminModes, TLAPS

\* Some process state satisfies the inductive invariant when the service starts.
LEMMA InitIInv == Init => IInv
<1> SUFFICES ASSUME Init PROVE IInv
  OBVIOUS
<1>1. paused \in BOOLEAN
  BY DEF Init, LoadPausedState
<1>2. TypeOK
  <2>1. stores \in 0..1 /\ inflight \in [Clients -> Requests \cup {NoRequest}]
    BY DEF Init
  <2> QED
    BY <1>1, <2>1, Zenon DEF Init, TypeOK
<1>3. ModesExclusive /\ AgreementGrounded /\ DownIsIdle /\ SaveFollowsMemory
  BY DEF Init, ModesExclusive, AgreementGrounded, DownIsIdle, SaveFollowsMemory
<1> QED
  BY <1>2, <1>3 DEF IInv

\* Every step of the service preserves the types of its variables.
LEMMA NextTypeOK == TypeOK /\ [Next]_vars => TypeOK'
<1> SUFFICES ASSUME TypeOK, [Next]_vars PROVE TypeOK'
  OBVIOUS
<1> USE DEF TypeOK
<1>1. ASSUME NEW c \in Clients, NEW r \in Requests, Arrive(c, r) PROVE TypeOK'
  BY <1>1 DEF Arrive, Requests
<1>2. ASSUME NEW c \in Clients, Serve(c) PROVE TypeOK'
  <2> USE DEF Accept, Ready, Answer
  <2>1. ASSUME NEW r \in Requests, Refuse(c, r) PROVE TypeOK'
    BY <2>1 DEF Refuse
  <2>2. CASE Pause(c)
    BY <2>2 DEF Pause
  <2>3. CASE Unpause(c)
    BY <2>3 DEF Unpause
  <2>4. ASSUME NEW r \in Requests, SetReadOnly(c, r) PROVE TypeOK'
    BY <2>4 DEF SetReadOnly
  <2>5. CASE Write(c)
    BY <2>5 DEF Write
  <2>6. CASE Quote(c)
    BY <2>6 DEF Quote
  <2> QED
    BY <1>2, <2>1, <2>2, <2>3, <2>4, <2>5, <2>6 DEF Serve
<1>3. CASE ContinueSave
  BY <1>3 DEF ContinueSave, OpenPauseFile, WritePauseFile, UnlinkPauseFile, FailSave,
              Respond, Promise, Answer
<1>4. CASE Crash
  BY <1>4 DEF Crash
<1>5. CASE Restart
  BY <1>5 DEF Restart, LoadPausedState
<1>6. CASE UNCHANGED vars
  BY <1>6 DEF vars
<1> QED
  BY <1>1, <1>2, <1>3, <1>4, <1>5, <1>6 DEF Next

\* Every step preserves the inductive invariant.
LEMMA NextIInv == IInv /\ [Next]_vars => IInv'
<1> SUFFICES ASSUME IInv, [Next]_vars PROVE IInv'
  OBVIOUS
<1>0. TypeOK'
  BY NextTypeOK DEF IInv
<1> DEFINE Rest == ModesExclusive /\ AgreementGrounded /\ DownIsIdle /\ SaveFollowsMemory
<1> USE AdminsAreClients DEF IInv, TypeOK, ModesExclusive, AgreementGrounded, DownIsIdle,
           SaveFollowsMemory, NoAdminAsks
<1>1. ASSUME NEW c \in Clients, NEW r \in Requests, Arrive(c, r) PROVE Rest'
  BY <1>1 DEF Arrive
<1>2. ASSUME NEW c \in Clients, Serve(c) PROVE Rest'
  <2> USE DEF Accept, Ready, Answer, Admitted, Authorised, PauseGuardPasses, ReadOnlyGuardPasses,
              NoRequest
  <2>1. ASSUME NEW r \in Requests, Refuse(c, r) PROVE Rest'
    BY <2>1 DEF Refuse
  <2>2. CASE Pause(c)
    BY <2>2 DEF Pause, AdminRoutes
  <2>3. CASE Unpause(c)
    BY <2>3 DEF Unpause, AdminRoutes
  <2>4. ASSUME NEW r \in Requests, SetReadOnly(c, r) PROVE Rest'
    BY <2>4 DEF SetReadOnly
  <2>5. CASE Write(c)
    BY <2>5 DEF Write
  <2>6. CASE Quote(c)
    BY <2>6 DEF Quote
  <2> QED
    BY <1>2, <2>1, <2>2, <2>3, <2>4, <2>5, <2>6 DEF Serve
<1>3. ASSUME ContinueSave PROVE Rest'
  <2> USE DEF Respond, Promise, Answer, NoneInflight, NoRequest
  <2>1. CASE OpenPauseFile
    BY <2>1 DEF OpenPauseFile
  <2>2. CASE WritePauseFile
    BY <2>2 DEF WritePauseFile
  <2>3. CASE UnlinkPauseFile
    BY <2>3 DEF UnlinkPauseFile
  <2>4. CASE FailSave
    BY <2>4 DEF FailSave
  <2> QED
    BY <1>3, <2>1, <2>2, <2>3, <2>4 DEF ContinueSave
<1>4. ASSUME Crash PROVE Rest'
  BY <1>4 DEF Crash, NoRequest
<1>5. ASSUME Restart PROVE Rest'
  BY <1>5 DEF Restart, LoadPausedState
<1>6. ASSUME UNCHANGED vars PROVE Rest'
  BY <1>6 DEF vars
<1>7. Rest'
  BY <1>1, <1>2, <1>3, <1>4, <1>5, <1>6 DEF Next
<1> QED
  BY <1>0, <1>7

\* The inductive invariant holds in every reachable state.
THEOREM Inductive == Spec => []IInv
<1>1. Init => IInv
  BY InitIInv
<1>2. IInv /\ [Next]_vars => IInv'
  BY NextIInv
<1> QED
  BY <1>1, <1>2, PTL DEF Spec

\* The variables keep their types.
THEOREM TypeCorrect == Spec => []TypeOK
<1>1. IInv => TypeOK
  BY DEF IInv
<1> QED
  BY <1>1, Inductive, PTL

\* No sequence of mode changes, crashes and restarts locks the operator out.
THEOREM NoLockout == Spec => []RecoveryReachable
<1>1. IInv => RecoveryReachable
  BY DEF IInv, ModesExclusive, TypeOK, RecoveryReachable, Admitted, PauseGuardPasses,
         ReadOnlyGuardPasses
<1> QED
  BY <1>1, Inductive, PTL

\* A mode an admin was promised outlives crashes until an admin undoes it.
THEOREM PromiseKept == Spec => []AgreedModeDurable
<1>1. IInv => AgreedModeDurable
  BY DEF IInv, AgreementGrounded, AgreedModeDurable
<1> QED
  BY <1>1, Inductive, PTL

\* Nothing is written while a pause is agreed.
THEOREM PauseFreezesStores == Spec => FrozenWhileAgreed
<1> DEFINE Frozen == agreed = "paused" /\ agreed' = "paused" => stores' = stores
<1>1. IInv /\ [Next]_vars => [Frozen]_vars
  <2> SUFFICES ASSUME IInv, Next, agreed = "paused", stores' # stores PROVE FALSE
    BY DEF vars
  <2>1. PICK c \in Clients : Write(c)
    BY DEF Next, Arrive, Serve, Refuse, Pause, Unpause, SetReadOnly, Quote, ContinueSave,
           OpenPauseFile, WritePauseFile, UnlinkPauseFile, FailSave, Respond, Crash, Restart
  <2> QED
    BY <2>1 DEF Write, Accept, Ready, Admitted, PauseGuardPasses, IInv, AgreementGrounded
<1> QED
  BY <1>1, Inductive, PTL DEF Spec, FrozenWhileAgreed
=============================================================================
