------------------------- MODULE PreTerminateProofs -------------------------
(***************************************************************************)
(* Theorems about PreTerminate, for every set of Machines, every number of *)
(* deletions, failures and faults, and every behaviour of the cache.       *)
(***************************************************************************)
EXTENDS PreTerminate, EtcdQuorumProofs

-----------------------------------------------------------------------------
(* What a reconcile picks exists *)

\* selectEtcdPeer and the identification of a member pick one of the machines given.
LEMMA MinNameType ==
  ASSUME NEW S \in SUBSET Machines, S # {}
  PROVE  MinName(S) \in S
<1>1. \E x \in S : \A y \in S : x <= y
  BY MinimumExists, MachinesAssumption
<1>. QED BY <1>1 DEF MinName

\* servicePreTerminateHooks picks one of the deleting machines, the first deleted,
\* and of those with the same timestamp the first by name.
LEMMA OldestType ==
  ASSUME TypeOK, NEW S \in SUBSET Machines, S # {}
  PROVE  /\ Oldest(S) \in S
         /\ \A n \in S : \/ cache.deletedAt[Oldest(S)] < cache.deletedAt[n]
                         \/ cache.deletedAt[Oldest(S)] = cache.deletedAt[n] /\ Oldest(S) <= n
<1>1. cache.deletedAt \in [Machines -> Nat]
  BY DEF TypeOK, CacheType
<1>. DEFINE T == {cache.deletedAt[m] : m \in S}
<1>2. T \subseteq Nat /\ T # {}
  BY <1>1
<1>3. PICK x \in T : \A y \in T : x <= y
  BY <1>2, MinimumExists
<1>. DEFINE F == {m \in S : cache.deletedAt[m] = x}
<1>4. F \subseteq Nat /\ F # {} /\ F \subseteq S
  BY <1>3, MachinesAssumption
<1>. HIDE DEF F
<1>5. PICK m \in F : \A n \in F : m <= n
  BY <1>4, MinimumExists
<1>6. ASSUME NEW n \in S
      PROVE  \/ cache.deletedAt[m] < cache.deletedAt[n]
             \/ cache.deletedAt[m] = cache.deletedAt[n] /\ m <= n
  <2>1. cache.deletedAt[m] = x /\ x \in Nat /\ cache.deletedAt[n] \in Nat
    BY <1>1, <1>2, <1>3, <1>5 DEF F
  <2>2. x <= cache.deletedAt[n]
    BY <1>3, <1>6
  <2>3. cache.deletedAt[n] = x => m <= n
    BY <1>5, <1>6 DEF F
  <2>. HIDE DEF T
  <2>. QED BY <2>1, <2>2, <2>3
<1>. DEFINE First(k) == \A n \in S : \/ cache.deletedAt[k] < cache.deletedAt[n]
                                     \/ cache.deletedAt[k] = cache.deletedAt[n] /\ k <= n
<1>7. \E k \in S : First(k)
  BY <1>4, <1>5, <1>6
<1>8. Oldest(S) = CHOOSE k \in S : First(k)
  BY DEF Oldest
<1>9. Oldest(S) \in S /\ First(Oldest(S))
  <2>. HIDE DEF First
  <2>. QED BY <1>7, <1>8
<1>. QED BY <1>9

\* servicePreTerminateHooks yields a machine, or none.
LEMMA ServicedType == ASSUME TypeOK PROVE Serviced \in Machines \cup {None}
<1>1. DeletingHooked \in SUBSET Machines
  BY DEF DeletingHooked, Listed
<1>2. CASE DeletingHooked = {}
  BY <1>2 DEF Serviced
<1>3. CASE DeletingHooked # {}
  BY <1>1, <1>3, OldestType DEF Serviced
<1>. QED BY <1>2, <1>3

-----------------------------------------------------------------------------
(* Type correctness *)

\* Every step keeps the types of the Machine objects, and with them of the cache.
LEMMA InformType ==
  ASSUME TypeOK, Inform,
         phase' \in [Machines -> Phases], deletedAt' \in [Machines -> Nat],
         hook' \subseteq Machines, anchor' \in [Machines -> Anchors],
         leaving' \subseteq Machines, nodeRef' \subseteq Machines
  PROVE  cache' \in CacheType
<1>1. Current' \in CacheType
  BY DEF Current, CacheType
<1>. QED BY <1>1 DEF TypeOK, Inform

\* The deletions requested are counted by a natural number.
LEMMA RequestedType == ASSUME TypeOK PROVE Requested \in Nat
<1>1. {m \in Machines : deletedAt[m] # 0} \in SUBSET Machines
  OBVIOUS
<1>. QED BY <1>1, MachinesAssumption, FS_Subset, FS_CardinalityType DEF Requested

\* A deletion sets a timestamp, and is recorded if the hook may intercept it.
LEMMA RequestDeletionType ==
  ASSUME TypeOK, NEW m \in Machines, RequestDeletion(m)
  PROVE  /\ phase' \in [Machines -> Phases] /\ deletedAt' \in [Machines -> Nat]
         /\ interceptable' \subseteq Machines
<1>1. PICK second \in 1 .. Requested + 1 : deletedAt' = [deletedAt EXCEPT ![m] = second]
  BY DEF RequestDeletion
<1>2. second \in Nat
  BY RequestedType
<1>. QED BY <1>1, <1>2 DEF RequestDeletion, TypeOK, Phases

\* The initial states are well typed.
LEMMA InitType == Init => TypeOK
<1>. SUFFICES ASSUME Init PROVE TypeOK
  OBVIOUS
<1>1. cache \in CacheType
  BY SubsetsAssumption DEF Init, Current, CacheType, Phases, Anchors
<1>. QED BY <1>1, SubsetsAssumption DEF Init, TypeOK, Phases, Anchors, Outcomes, HookSteps, None

\* Every step of reconcilePreTerminateHookForMachine keeps the types: each way on
\* keeps the victim, each way out forgets it.
LEMMA HandlerType == ASSUME TypeOK, Handler PROVE TypeOK'
<1>. USE DEF TypeOK, LeaveHandler, ForgetLocals, GoRelease, FailOpenOrRetry, Fault, NoFault,
            HookSteps, Outcomes, None
<1>. USE DEF objects, etcd, local, history
<1>1. CASE AnchorDeadline
  BY <1>1 DEF AnchorDeadline, Anchors
<1>2. CASE SkipCleanup
  BY <1>2 DEF SkipCleanup
<1>3. CASE PeerUnavailable
  BY <1>3 DEF PeerUnavailable
<1>4. CASE ListMembers
  <2>. DEFINE id == IdentifyEtcdMember(members, victim, Listed, Named, Matching)
  <2>1. id.member \in SUBSET Machines /\ members \subseteq Machines
    BY IdentifiedMembers DEF members
  <2>2. id.member # {} => MinName(id.member) \in Machines
    BY <2>1, MinNameType
  <2>. QED BY <1>4, <2>1, <2>2 DEF ListMembers
<1>5. CASE ProbeQuorum
  BY <1>5 DEF ProbeQuorum
<1>6. CASE HoldForQuorum
  BY <1>6 DEF HoldForQuorum, Anchors
<1>7. CASE MarkLeaving
  BY <1>7 DEF MarkLeaving
<1>8. CASE LeaveFromVictim
  BY <1>8 DEF LeaveFromVictim, RemoveMember
<1>9. CASE LeaveFails
  BY <1>9 DEF LeaveFails
<1>10. CASE ForceLeave
  BY <1>10 DEF ForceLeave, RemoveMember
<1>11. CASE ForceFails
  BY <1>11 DEF ForceFails
<1>12. CASE ReleaseHook
  BY <1>12 DEF ReleaseHook, Anchors
<1>13. CASE PatchFails
  BY <1>13 DEF PatchFails
<1>. QED
  BY <1>1, <1>2, <1>3, <1>4, <1>5, <1>6, <1>7, <1>8, <1>9, <1>10, <1>11, <1>12, <1>13
  DEF Handler

\* So does every other step of a reconcile, the audit and the teardown included.
LEMMA ReconcilerType == ASSUME TypeOK, Reconciler PROVE TypeOK'
<1>. USE DEF TypeOK, Fault, NoFault, HookSteps, Outcomes, None
<1>. USE DEF objects, etcd, local, history
<1>1. CASE Begin
  <2>1. Serviced \in Machines \cup {None}
    BY ServicedType
  <2>. QED BY <1>1, <2>1 DEF Begin, ToStamp, Listed
<1>2. CASE Handler
  BY <1>2, HandlerType
<1>3. CASE EndReconcile
  BY <1>3, InformType DEF EndReconcile
<1>4. CASE BeginTeardown
  BY <1>4 DEF BeginTeardown, Listed
<1>5. CASE TeardownFails
  BY <1>5, InformType DEF TeardownFails
<1>6. CASE EndTeardown
  BY <1>6, InformType DEF EndTeardown
<1>7. ASSUME NEW m \in Machines, AuditRemove(m) PROVE TypeOK'
  BY <1>7 DEF AuditRemove, RemoveMember
<1>8. ASSUME NEW m \in Machines, TeardownMachine(m) PROVE TypeOK'
  <2>1. /\ phase' \in [Machines -> Phases] /\ deletedAt' \in [Machines -> Nat]
        /\ interceptable' \subseteq Machines
    BY <1>8, RequestDeletionType DEF TeardownMachine
  <2>2. /\ hook' \subseteq Machines /\ anchor' \in [Machines -> Anchors]
        /\ leaving' \subseteq Machines /\ nodeRef' \subseteq Machines
    BY <1>8 DEF TeardownMachine, Anchors
  <2>3. cache' \in CacheType
    BY <1>8, <2>1, <2>2, InformType DEF TeardownMachine
  <2>. QED BY <1>8, <2>1, <2>2, <2>3 DEF TeardownMachine
<1>9. ASSUME NEW m \in Machines, Create(m) PROVE TypeOK'
  <2>1. phase' \in [Machines -> Phases] /\ hook' \subseteq Machines
    BY <1>9 DEF Create, Phases
  <2>. QED BY <1>9, <2>1, InformType DEF Create
<1>. QED
  BY <1>1, <1>2, <1>3, <1>4, <1>5, <1>6, <1>7, <1>8, <1>9 DEF Reconciler

\* So do the steps of the Machine controller, the nodes and the user.
LEMMA EnvironmentType ==
  ASSUME TypeOK, MachineController \/ Nodes \/ User \/ \E m \in Machines : Tick(m)
  PROVE  TypeOK'
<1>. USE DEF TypeOK, HookSteps, Outcomes, None
<1>. USE DEF objects, etcd, local, history
<1>1. ASSUME NEW m \in Machines, Drain(m) \/ Terminate(m) \/ Register(m) PROVE TypeOK'
  <2>1. phase' \in [Machines -> Phases] /\ nodeRef' \subseteq Machines
    BY <1>1 DEF Drain, Terminate, Register, Phases
  <2>. QED BY <1>1, <2>1, InformType DEF Drain, Terminate, Register
<1>2. ASSUME NEW m \in Machines, Gone(m) PROVE TypeOK'
  <2>1. /\ phase' \in [Machines -> Phases] /\ deletedAt' \in [Machines -> Nat]
        /\ hook' \subseteq Machines /\ anchor' \in [Machines -> Anchors]
        /\ leaving' \subseteq Machines /\ nodeRef' \subseteq Machines
    BY <1>2 DEF Gone, Phases, Anchors
  <2>. QED BY <1>2, <2>1, InformType DEF Gone, Disturb
<1>3. ASSUME NEW m \in Machines, Fail(m) \/ Recover(m) \/ Join(m) \/ Promote(m) PROVE TypeOK'
  <2>1. CASE Fail(m)
    BY <2>1 DEF Fail, Disturb
  <2>2. CASE Join(m)
    BY <2>2 DEF Join, Disturb
  <2>3. CASE Promote(m)
    BY <2>3 DEF Promote, Disturb
  <2>4. CASE Recover(m)
    BY <2>4 DEF Recover
  <2>. QED BY <1>3, <2>1, <2>2, <2>3, <2>4
<1>4. ASSUME NEW m \in Machines, Delete(m) PROVE TypeOK'
  <2>1. /\ phase' \in [Machines -> Phases] /\ deletedAt' \in [Machines -> Nat]
        /\ interceptable' \subseteq Machines
    BY <1>4, RequestDeletionType DEF Delete
  <2>. QED BY <1>4, <2>1, InformType DEF Delete
<1>5. ASSUME NEW m \in Machines, EscapeHatch(m) PROVE TypeOK'
  BY <1>5, InformType DEF EscapeHatch
<1>6. ASSUME NEW t \in Teardowns, StartTeardown(t) PROVE TypeOK'
  BY <1>6, SubsetsAssumption DEF StartTeardown
<1>7. ASSUME NEW m \in Machines, Tick(m) PROVE TypeOK'
  BY <1>7 DEF Tick, CacheType, Anchors
<1>. QED
  BY <1>1, <1>2, <1>3, <1>4, <1>5, <1>6, <1>7 DEF MachineController, Nodes, User

\* Every step keeps the types.
LEMMA NextType == ASSUME TypeOK, [Next]_vars PROVE TypeOK'
<1>1. CASE Reconciler
  BY <1>1, ReconcilerType
<1>2. CASE Crash
  BY <1>2, InformType
  DEF Crash, Fault, ForgetLocals, TypeOK, HookSteps, Outcomes, None, objects, etcd, history
<1>3. CASE Sync
  BY <1>3 DEF Sync, Current, CacheType, TypeOK, objects, etcd, local, history
<1>4. CASE MachineController \/ Nodes \/ User \/ \E m \in Machines : Tick(m)
  BY <1>4, EnvironmentType
<1>5. CASE UNCHANGED vars
  BY <1>5 DEF vars, objects, etcd, local, history, TypeOK
<1>. QED BY <1>1, <1>2, <1>3, <1>4, <1>5 DEF Next

\* Type correctness of the deletion workflow.  It includes that the hook handler
\* never runs without a machine to service.
THEOREM TypeCorrect == Spec => []TypeOK
<1>1. Init => TypeOK
  BY InitType
<1>2. TypeOK /\ [Next]_vars => TypeOK'
  BY NextType
<1>. QED BY <1>1, <1>2, PTL DEF Spec

-----------------------------------------------------------------------------
(* The cache may be late, never early *)

\* A Machine the cache has seen go is gone, and a Machine is in etcd only once the
\* cache has seen it: the strengthening that lets decisions taken from an outdated
\* list be about Machines that no longer exist.
CacheNotAhead == \A m \in Machines : cache.phase[m] = "gone" => phase[m] = "gone"
MembersKnown ==
    /\ members \subseteq joined
    /\ \A m \in Machines : phase[m] = "absent" => cache.phase[m] = "absent"
    /\ \A m \in joined : cache.phase[m] # "absent"

DeletionInv == TypeOK /\ CacheNotAhead /\ MembersKnown

\* No step brings a Machine back, and the cache only takes over what is there.
LEMMA GoneIsFinal ==
  ASSUME TypeOK, [Next]_vars
  PROVE  /\ \A m \in Machines : /\ phase[m] = "gone" => phase'[m] = "gone"
                                /\ phase'[m] = "absent" => phase[m] = "absent"
         /\ cache'.phase = cache.phase \/ cache'.phase = phase'
<1>. USE DEF objects, etcd, local, history, Current
<1>1. CASE Handler
  BY <1>1 DEF Handler, AnchorDeadline, SkipCleanup, PeerUnavailable, ListMembers, ProbeQuorum,
     HoldForQuorum, MarkLeaving, LeaveFromVictim, LeaveFails, ForceLeave, ForceFails,
     ReleaseHook, PatchFails
<1>2. CASE Begin \/ BeginTeardown
  BY <1>2 DEF Begin, BeginTeardown
<1>3. CASE EndReconcile \/ TeardownFails \/ EndTeardown \/ Crash
  BY <1>3 DEF EndReconcile, TeardownFails, EndTeardown, Crash, Inform
<1>4. CASE Sync
  BY <1>4 DEF Sync
<1>5. ASSUME NEW m \in Machines,
             Fail(m) \/ Recover(m) \/ Join(m) \/ Promote(m) \/ AuditRemove(m)
      PROVE  phase' = phase /\ cache' = cache
  BY <1>5 DEF Fail, Recover, Join, Promote, AuditRemove
<1>6. ASSUME NEW m \in Machines,
             \/ Drain(m) \/ Terminate(m) \/ Gone(m) \/ Register(m)
             \/ Delete(m) \/ EscapeHatch(m) \/ Create(m) \/ TeardownMachine(m)
      PROVE  /\ \A n \in Machines : /\ phase[n] = "gone" => phase'[n] = "gone"
                                    /\ phase'[n] = "absent" => phase[n] = "absent"
             /\ cache'.phase = cache.phase \/ cache'.phase = phase'
  BY <1>6 DEF TypeOK, Phases, Drain, Terminate, Gone, Register, Delete, EscapeHatch, Create,
     TeardownMachine, RequestDeletion, Inform
<1>7. ASSUME NEW t \in Teardowns, StartTeardown(t)
      PROVE  phase' = phase /\ cache' = cache
  BY <1>7 DEF StartTeardown
<1>8. ASSUME NEW m \in Machines, Tick(m)
      PROVE  phase' = phase /\ cache'.phase = cache.phase
  BY <1>8 DEF Tick, TypeOK, CacheType
<1>9. CASE UNCHANGED vars
  BY <1>9 DEF vars
<1>. QED
  BY <1>1, <1>2, <1>3, <1>4, <1>5, <1>6, <1>7, <1>8, <1>9
  DEF Next, Reconciler, MachineController, Nodes, User

\* A node joins only when the cache has its Machine, and a member has joined.
LEMMA JoinStep ==
  ASSUME TypeOK, [Next]_vars
  PROVE  /\ members' \subseteq members \cup joined'
         /\ joined \subseteq joined'
         /\ joined' # joined => /\ cache' = cache
                                /\ \A m \in joined' \ joined : cache.phase[m] # "absent"
<1>. USE DEF objects, etcd, local, history, members
<1>1. CASE Handler
  BY <1>1 DEF Handler, AnchorDeadline, SkipCleanup, PeerUnavailable, ListMembers, ProbeQuorum,
     HoldForQuorum, MarkLeaving, LeaveFromVictim, LeaveFails, ForceLeave, ForceFails,
     ReleaseHook, PatchFails, RemoveMember
<1>2. CASE Begin \/ BeginTeardown \/ EndReconcile \/ TeardownFails \/ EndTeardown \/ Crash \/ Sync
  BY <1>2 DEF Begin, BeginTeardown, EndReconcile, TeardownFails, EndTeardown, Crash, Sync
<1>3. ASSUME NEW m \in Machines, Join(m)
      PROVE  /\ members' = members \cup {m} /\ joined' = joined \cup {m}
             /\ cache' = cache /\ cache.phase[m] # "absent"
  BY <1>3 DEF Join
<1>4. ASSUME NEW m \in Machines, AuditRemove(m) \/ Fail(m) \/ Recover(m) \/ Promote(m)
      PROVE  members' \subseteq members /\ joined' = joined
  BY <1>4 DEF AuditRemove, RemoveMember, Fail, Recover, Promote
<1>5. ASSUME NEW m \in Machines,
             \/ Drain(m) \/ Terminate(m) \/ Gone(m) \/ Register(m) \/ Delete(m)
             \/ EscapeHatch(m) \/ Create(m) \/ TeardownMachine(m) \/ Tick(m)
      PROVE  members' = members /\ joined' = joined
  BY <1>5 DEF Drain, Terminate, Gone, Register, Delete, EscapeHatch, Create, TeardownMachine,
     Tick
<1>6. ASSUME NEW t \in Teardowns, StartTeardown(t) PROVE members' = members /\ joined' = joined
  BY <1>6 DEF StartTeardown
<1>7. CASE UNCHANGED vars
  BY <1>7 DEF vars
<1>. QED
  BY <1>1, <1>2, <1>3, <1>4, <1>5, <1>6, <1>7
  DEF Next, Reconciler, MachineController, Nodes, User

\* DeletionInv is inductive.
LEMMA DeletionInvInductive ==
  /\ Init => DeletionInv
  /\ DeletionInv /\ [Next]_vars => DeletionInv'
<1>1. Init => DeletionInv
  BY InitType, SubsetsAssumption
  DEF Init, Current, DeletionInv, CacheNotAhead, MembersKnown, members
<1>2. ASSUME DeletionInv, [Next]_vars PROVE DeletionInv'
  <2>. USE DEF DeletionInv
  <2>1. TypeOK'
    BY <1>2, NextType
  <2>. DEFINE old == cache.phase
              new == cache'.phase
  <2>2. /\ \A m \in Machines : phase[m] = "gone" => phase'[m] = "gone"
        /\ \A m \in Machines : phase'[m] = "absent" => phase[m] = "absent"
        /\ new = old \/ new = phase'
    BY <1>2, GoneIsFinal
  <2>. HIDE DEF old, new
  <2>3. /\ \A m \in Machines : old[m] = "gone" => phase[m] = "gone"
        /\ \A m \in Machines : phase[m] = "absent" => old[m] = "absent"
        /\ \A m \in joined : m \in Machines /\ old[m] # "absent"
    BY <1>2 DEF old, CacheNotAhead, MembersKnown, TypeOK
  <2>4. CacheNotAhead'
    <3>1. \A m \in Machines : new[m] = "gone" => phase'[m] = "gone"
      BY <2>2, <2>3
    <3>. QED BY <3>1 DEF CacheNotAhead, new
  <2>5. MembersKnown'
    <3>1. members' \subseteq joined'
      BY <1>2, JoinStep DEF MembersKnown
    <3>2. \A m \in Machines : phase'[m] = "absent" => new[m] = "absent"
      BY <2>2, <2>3
    <3>3. \A m \in joined : new[m] # "absent"
      BY <2>2, <2>3
    <3>4. \A m \in joined' \ joined : new[m] # "absent"
      BY <1>2, JoinStep DEF new
    <3>5. \A m \in joined' : new[m] # "absent"
      BY <3>3, <3>4
    <3>. QED BY <3>1, <3>2, <3>5 DEF MembersKnown, new
  <2>. QED BY <2>1, <2>4, <2>5
<1>. QED BY <1>1, <1>2

\* The finalizer goes only with the last Machine, except one the cache has not seen.
FinalizerLast ==
    [][finalizer /\ ~finalizer' => \A m \in Machines : Exists(m) => cache.phase[m] = "absent"]_vars

\* reconcileDelete, for any lag of the cache: a list that lags behind deletions
\* never costs a Machine its TalosControlPlane; one that lags behind a creation may.
THEOREM FinalizerSafe == Spec => FinalizerLast
<1>. DEFINE Last == finalizer /\ ~finalizer'
                      => \A m \in Machines : Exists(m) => cache.phase[m] = "absent"
<1>1. ASSUME DeletionInv, [Next]_vars, finalizer, ~finalizer'
      PROVE  \A m \in Machines : Exists(m) => cache.phase[m] = "absent"
  <2>1. BeginTeardown /\ Listed = {}
    BY <1>1 DEF vars, Next, Reconciler, Handler, MachineController, Nodes, User,
       Begin, AnchorDeadline, SkipCleanup, PeerUnavailable, ListMembers, ProbeQuorum,
       HoldForQuorum, MarkLeaving, LeaveFromVictim, LeaveFails, ForceLeave, ForceFails,
       ReleaseHook, PatchFails, EndReconcile, BeginTeardown, TeardownFails, EndTeardown,
       AuditRemove, Create, TeardownMachine, Crash, Sync, Drain, Terminate, Gone, Register,
       Fail, Recover, Join, Promote, Delete, EscapeHatch, StartTeardown, Tick
  <2>. QED BY <1>1, <2>1 DEF DeletionInv, CacheNotAhead, Listed, Exists
<1>2. DeletionInv /\ [Next]_vars => [Last]_vars
  BY <1>1
<1>3. Spec => [][Last]_vars
  BY <1>2, DeletionInvInductive, PTL DEF Spec
<1>. QED BY <1>3 DEF FinalizerLast

-----------------------------------------------------------------------------
(* The etcd audit *)

\* Within the audit, only a removal by the audit itself changes the member list.
LEMMA AuditStep ==
  ASSUME [Next]_vars, pc = "audit", pc' = "audit", NEW m \in members, m \notin members'
  PROVE  \E o \in Machines : AuditRemove(o) /\ m = o
<1>. USE DEF objects, etcd, local, history, members
<1>1. CASE Handler
  BY <1>1 DEF Handler, AnchorDeadline, SkipCleanup, PeerUnavailable, ListMembers, ProbeQuorum,
     HoldForQuorum, MarkLeaving, LeaveFromVictim, LeaveFails, ForceLeave, ForceFails,
     ReleaseHook, PatchFails
<1>2. CASE Begin \/ BeginTeardown \/ EndReconcile \/ TeardownFails \/ EndTeardown \/ Crash
  BY <1>2 DEF Begin, BeginTeardown, EndReconcile, TeardownFails, EndTeardown, Crash
<1>3. CASE Sync \/ \E t \in Teardowns : StartTeardown(t)
  BY <1>3 DEF Sync, StartTeardown
<1>4. ASSUME NEW n \in Machines, AuditRemove(n)
      PROVE  m = n
  BY <1>4 DEF AuditRemove, RemoveMember
<1>5. ASSUME NEW n \in Machines, Fail(n) \/ Recover(n) \/ Join(n) \/ Promote(n)
      PROVE  FALSE
  BY <1>5 DEF Fail, Recover, Join, Promote
<1>6. ASSUME NEW n \in Machines,
             \/ Drain(n) \/ Terminate(n) \/ Gone(n) \/ Register(n) \/ Delete(n)
             \/ EscapeHatch(n) \/ Create(n) \/ TeardownMachine(n) \/ Tick(n)
      PROVE  FALSE
  BY <1>6 DEF Drain, Terminate, Gone, Register, Delete, EscapeHatch, Create, TeardownMachine,
     Tick
<1>7. CASE UNCHANGED vars
  BY <1>7 DEF vars
<1>. QED
  BY <1>1, <1>2, <1>3, <1>4, <1>5, <1>6, <1>7
  DEF Next, Reconciler, MachineController, Nodes, User

\* auditEtcd: with every listed Machine holding a nodeRef, a member that matches
\* none of them belongs to a Machine that is not listed, and so, the cache never
\* being ahead, to one that is gone.
THEOREM AuditSafe == Spec => AuditSparesMachines
<1>. DEFINE Spared == \A m \in members :
                pc = "audit" /\ pc' = "audit" /\ m \notin members' => ~Exists(m)
<1>1. ASSUME DeletionInv, [Next]_vars PROVE Spared
  <2>. SUFFICES ASSUME NEW m \in members, pc = "audit", pc' = "audit", m \notin members'
                PROVE  ~Exists(m)
    OBVIOUS
  <2>1. AuditRemove(m) /\ m \in Machines
    BY <1>1, AuditStep
  <2>2. m \notin Listed
    BY <2>1 DEF AuditRemove, Matching
  <2>. QED BY <1>1, <2>1, <2>2 DEF DeletionInv, CacheNotAhead, MembersKnown, Listed, Exists
<1>2. DeletionInv /\ [Next]_vars => [Spared]_vars
  BY <1>1
<1>3. Spec => [][Spared]_vars
  BY <1>2, DeletionInvInductive, PTL DEF Spec
<1>. QED BY <1>3 DEF AuditSparesMachines

-----------------------------------------------------------------------------
(* The quorum safeguard *)

\* Only members run etcd.
UpAreMembers == up \subseteq members

\* From the reading of the member list on, as long as nothing else changes etcd:
\* the list read covers the members, it holds the target, and the target is the
\* victim unless the victim is no member and the target's Machine is not listed
\* or has another host name than its member.
TargetIdentified ==
    pc \in {"probe", "hold", "mark", "leave", "force"} /\ ~disturbed =>
        /\ members \subseteq seen /\ target \in seen
        /\ victim \in members => target = victim
        /\ target \in Listed => target = victim \/ target \in Misnamed

\* The only learners are those that leave, and elimination hit no other Machine.
OnlyVotersStay == learners \subseteq {victim, target}
RightTarget == target \in Misnamed => target = victim

\* From the probe on, a majority of what remains is up besides the machine that
\* leaves.
MajorityReserved ==
    pc \in {"mark", "leave", "force"} /\ ~disturbed /\ OnlyVotersStay /\ RightTarget =>
        Cardinality((up \cap voters) \ {victim, target}) >= Quorum(Cardinality(seen) - 1)

QuorumInv == TypeOK /\ UpAreMembers /\ TargetIdentified /\ MajorityReserved

\* The reserved majority is one of the voters without the target.
LEMMA ReservedIsMajority ==
  ASSUME TypeOK, NEW V \in SUBSET Machines, NEW U \in SUBSET Machines,
         NEW t \in seen, NEW v, V \subseteq seen,
         Cardinality((U \cap V) \ {v, t}) >= Quorum(Cardinality(seen) - 1)
  PROVE  HasMajority(V \ {t}, U \ {t})
<1>1. IsFiniteSet(seen) /\ IsFiniteSet(V \ {t})
  BY MachinesAssumption, FS_Subset DEF TypeOK
<1>2. Cardinality(seen \ {t}) = Cardinality(seen) - 1 /\ IsFiniteSet(seen \ {t})
  BY <1>1, FS_RemoveElement
<1>3. Cardinality(V \ {t}) <= Cardinality(seen) - 1
  <2>1. V \ {t} \in SUBSET (seen \ {t})
    OBVIOUS
  <2>. QED BY <1>2, <2>1, FS_Subset
<1>. DEFINE H == (U \cap V) \ {v, t}
            K == (V \ {t}) \cap (U \ {t})
<1>4. Cardinality(H) <= Cardinality(K)
  <2>1. H \in SUBSET K /\ K \in SUBSET (V \ {t})
    OBVIOUS
  <2>. QED BY <1>1, <2>1, FS_Subset
<1>5. /\ Cardinality(V \ {t}) \in Nat /\ Cardinality(seen) - 1 \in Nat
      /\ Cardinality(H) \in Nat /\ Cardinality(K) \in Nat
  <2>1. IsFiniteSet(H) /\ IsFiniteSet(K)
    BY MachinesAssumption, FS_Subset
  <2>. QED BY <1>1, <1>2, <2>1, FS_CardinalityType
<1>6. Quorum(Cardinality(V \ {t})) <= Quorum(Cardinality(seen) - 1)
  BY <1>3, <1>5, QuorumMonotone
<1>7. Quorum(Cardinality(V \ {t})) \in Nat /\ Quorum(Cardinality(seen) - 1) \in Nat
  BY <1>5, QuorumMonotone
<1>. HIDE DEF H, K
<1>8. Cardinality(K) >= Quorum(Cardinality(V \ {t}))
  <2>1. Cardinality(H) >= Quorum(Cardinality(seen) - 1)
    BY DEF H
  <2>. QED BY <1>4, <1>5, <1>6, <1>7, <2>1
<1>. QED BY <1>8 DEF HasMajority, K

\* A node that comes up is a member, and one that is removed goes down.
LEMMA UpAreMembersInductive ==
  ASSUME TypeOK, UpAreMembers, [Next]_vars
  PROVE  UpAreMembers'
<1>. USE DEF objects, etcd, local, history, UpAreMembers, members
<1>1. CASE Handler
  BY <1>1 DEF Handler, AnchorDeadline, SkipCleanup, PeerUnavailable, ListMembers, ProbeQuorum,
     HoldForQuorum, MarkLeaving, LeaveFromVictim, LeaveFails, ForceLeave, ForceFails,
     ReleaseHook, PatchFails, RemoveMember
<1>2. CASE Begin \/ BeginTeardown \/ EndReconcile \/ TeardownFails \/ EndTeardown \/ Crash \/ Sync
  BY <1>2 DEF Begin, BeginTeardown, EndReconcile, TeardownFails, EndTeardown, Crash, Sync
<1>3. ASSUME NEW m \in Machines, AuditRemove(m) \/ Fail(m) \/ Gone(m) PROVE UpAreMembers'
  BY <1>3 DEF AuditRemove, RemoveMember, Fail, Gone
<1>4. ASSUME NEW m \in Machines, Recover(m) \/ Join(m) \/ Promote(m) PROVE UpAreMembers'
  BY <1>4 DEF Recover, Join, Promote
<1>5. ASSUME NEW m \in Machines,
             \/ Drain(m) \/ Terminate(m) \/ Register(m) \/ Delete(m) \/ EscapeHatch(m)
             \/ Create(m) \/ TeardownMachine(m) \/ Tick(m)
      PROVE  UpAreMembers'
  BY <1>5 DEF Drain, Terminate, Register, Delete, EscapeHatch, Create, TeardownMachine, Tick
<1>6. ASSUME NEW t \in Teardowns, StartTeardown(t) PROVE UpAreMembers'
  BY <1>6 DEF StartTeardown
<1>7. CASE UNCHANGED vars
  BY <1>7 DEF vars
<1>. QED
  BY <1>1, <1>2, <1>3, <1>4, <1>5, <1>6, <1>7
  DEF Next, Reconciler, MachineController, Nodes, User

\* Outside the handler, a step ends the reconcile, reports that it changed etcd,
\* or leaves alone what the handler relies on; only Recover adds to what is up.
LEMMA HandlerUndisturbed ==
  ASSUME TypeOK, [Next]_vars, ~Handler, pc \in HookSteps, ~disturbed'
  PROVE  \/ pc' = "idle"
         \/ /\ UNCHANGED <<pc, voters, learners, victim, target, seen, disturbed>>
            /\ cache'.phase = cache.phase /\ up \subseteq up'
<1>. USE DEF objects, etcd, local, history, HookSteps
<1>1. CASE Begin \/ BeginTeardown \/ EndReconcile \/ TeardownFails \/ EndTeardown \/ Crash \/ Sync
  BY <1>1 DEF Begin, BeginTeardown, EndReconcile, TeardownFails, EndTeardown, Crash, Sync
<1>2. ASSUME NEW m \in Machines,
             \/ AuditRemove(m) \/ Create(m) \/ TeardownMachine(m) \/ Fail(m) \/ Gone(m)
             \/ Join(m) \/ Promote(m)
      PROVE  FALSE
  BY <1>2 DEF AuditRemove, Create, TeardownMachine, Fail, Gone, Join, Promote, Disturb
<1>3. ASSUME NEW m \in Machines, Recover(m)
      PROVE  /\ UNCHANGED <<pc, voters, learners, victim, target, seen, disturbed, cache>>
             /\ up \subseteq up'
  BY <1>3 DEF Recover
<1>4. ASSUME NEW m \in Machines,
             Drain(m) \/ Terminate(m) \/ Register(m) \/ Delete(m) \/ EscapeHatch(m)
      PROVE  UNCHANGED <<pc, voters, learners, victim, target, seen, disturbed, cache, up>>
  BY <1>4 DEF Drain, Terminate, Register, Delete, EscapeHatch, Inform
<1>5. ASSUME NEW m \in Machines, Tick(m)
      PROVE  UNCHANGED <<pc, voters, learners, victim, target, seen, disturbed, up>>
             /\ cache'.phase = cache.phase
  BY <1>5 DEF Tick, TypeOK, CacheType
<1>6. ASSUME NEW t \in Teardowns, StartTeardown(t) PROVE FALSE
  BY <1>6 DEF StartTeardown
<1>7. CASE UNCHANGED vars
  BY <1>7 DEF vars
<1>. QED
  BY <1>1, <1>2, <1>3, <1>4, <1>5, <1>6, <1>7
  DEF Next, Reconciler, MachineController, Nodes, User

\* Reading the list establishes TargetIdentified: by name the target is the
\* victim; by elimination every listed machine is ruled out, but the victim and
\* those whose names do not match.
LEMMA ListMembersIdentifies ==
  ASSUME TypeOK, ListMembers
  PROVE  TargetIdentified' /\ MajorityReserved'
<1>. DEFINE id == IdentifyEtcdMember(members, victim, Listed, Named, Matching)
<1>1. pc' \in {"release", "audit"} \/ pc' = "probe"
  BY DEF ListMembers, GoRelease
<1>2. CASE pc' # "probe"
  BY <1>1, <1>2 DEF TargetIdentified, MajorityReserved
<1>3. CASE pc' = "probe"
  <2>1. /\ id.known /\ id.member # {} /\ target' = MinName(id.member) /\ seen' = members
        /\ members' = members /\ victim' = victim /\ cache' = cache
    BY <1>3 DEF ListMembers, GoRelease, etcd, members
  <2>2. members \in SUBSET Machines
    BY DEF members, TypeOK
  <2>3. id.member \in SUBSET members
    BY <2>2, IdentifiedMembers
  <2>4. target' \in id.member
    BY <2>1, <2>2, <2>3, MinNameType
  <2>. HIDE DEF id
  <2>5. IsFiniteSet(members)
    BY <2>2, MachinesAssumption, FS_Subset
  <2>6. Matching \in SUBSET Named /\ Named \ Matching \subseteq Misnamed
    BY SubsetsAssumption DEF Named, Matching
  <2>7. /\ victim \in members /\ (victim \in Matching \/ victim \notin Named)
             => id.member = {victim}
        /\ victim \in Named \ Matching => id.member = {}
        /\ id.member \cap Listed \subseteq {victim} \cup (Named \ Matching)
    BY <2>1, <2>5, <2>6, IdentificationSound DEF id
  <2>8. /\ victim \in members => target' = victim
        /\ target' \in Listed => target' = victim \/ target' \in Misnamed
    BY <2>1, <2>4, <2>6, <2>7
  <2>9. Listed' = Listed
    BY <2>1 DEF Listed
  <2>. QED BY <1>3, <2>1, <2>3, <2>4, <2>8, <2>9 DEF TargetIdentified, MajorityReserved
<1>. QED BY <1>2, <1>3

\* The probe only counts machines that are listed, up and not the victim.
LEMMA ProbeReserves ==
  ASSUME TypeOK, UpAreMembers, TargetIdentified, ProbeQuorum
  PROVE  MajorityReserved'
<1>. SUFFICES ASSUME pc' = "mark", ~disturbed', OnlyVotersStay', RightTarget'
              PROVE  Cardinality((up' \cap voters') \ {victim', target'})
                       >= Quorum(Cardinality(seen') - 1)
  BY DEF ProbeQuorum, MajorityReserved
<1>1. /\ pc = "probe" /\ ~disturbed /\ OnlyVotersStay /\ RightTarget
      /\ UNCHANGED <<up, voters, victim, target, seen>>
  BY DEF ProbeQuorum, history, etcd, local, OnlyVotersStay, RightTarget
<1>2. PICK healthy \in SUBSET (QuorumCandidates(Listed, victim, cache.leaving) \cap up) :
          QuorumAfterRemoval(healthy, Cardinality(seen))
  BY DEF ProbeQuorum
<1>3. healthy \in SUBSET ((up \cap voters) \ {victim, target})
  BY <1>1, <1>2
  DEF QuorumCandidates, UpAreMembers, members, TargetIdentified, OnlyVotersStay, RightTarget
<1>. DEFINE R == (up \cap voters) \ {victim, target}
<1>4. IsFiniteSet(R)
  BY MachinesAssumption, FS_Subset DEF TypeOK
<1>5. Cardinality(healthy) <= Cardinality(R) /\ IsFiniteSet(healthy)
  BY <1>3, <1>4, FS_Subset
<1>6. Cardinality(healthy) \in Nat /\ Cardinality(R) \in Nat
  BY <1>4, <1>5, FS_CardinalityType
<1>7. Quorum(Cardinality(seen) - 1) \in Int
  <2>1. Cardinality(seen) \in Nat
    BY MachinesAssumption, FS_Subset, FS_CardinalityType DEF TypeOK
  <2>. QED BY <2>1 DEF Quorum
<1>. HIDE DEF R
<1>8. Cardinality(R) >= Quorum(Cardinality(seen) - 1)
  BY <1>2, <1>5, <1>6, <1>7 DEF QuorumAfterRemoval
<1>. QED BY <1>1, <1>8 DEF R

\* The handler's own steps keep QuorumInv: ListMembers and ProbeQuorum establish
\* it, the others leave etcd alone or end the handler.
LEMMA HandlerQuorum ==
  ASSUME QuorumInv, Handler
  PROVE  TargetIdentified' /\ MajorityReserved'
<1>. USE DEF QuorumInv
<1>1. CASE ListMembers
  BY <1>1, ListMembersIdentifies
<1>2. CASE ProbeQuorum
  <2>1. TargetIdentified'
    BY <1>2 DEF ProbeQuorum, TargetIdentified, Listed, members, etcd, local, history
  <2>. QED BY <1>2, <2>1, ProbeReserves
<1>3. CASE MarkLeaving \/ LeaveFails
  BY <1>3 DEF MarkLeaving, LeaveFails, TargetIdentified, MajorityReserved, OnlyVotersStay,
     RightTarget, Listed, members, etcd, local, history
<1>4. CASE LeaveFromVictim
  <2>1. CASE pc' # "force"
    BY <1>4, <2>1 DEF LeaveFromVictim, GoRelease, TargetIdentified, MajorityReserved
  <2>2. CASE pc' = "force"
    <3>1. /\ pc = "leave" /\ pc' = "force"
          /\ UNCHANGED <<victim, target, seen, disturbed, cache>>
          /\ voters' = voters \ {victim} /\ up' = up \ {victim}
          /\ learners' = learners \ {victim}
      BY <1>4, <2>2 DEF LeaveFromVictim, GoRelease, RemoveMember, history
    <3>2. (up' \cap voters') \ {victim', target'} = (up \cap voters) \ {victim, target}
      BY <3>1
    <3>3. Listed' = Listed
      BY <3>1 DEF Listed
    <3>4. OnlyVotersStay' => OnlyVotersStay
      BY <3>1 DEF OnlyVotersStay
    <3>5. MajorityReserved'
      BY <3>1, <3>2, <3>4 DEF MajorityReserved, RightTarget
    <3>. QED BY <3>1, <3>3, <3>5 DEF TargetIdentified, members
  <2>. QED BY <2>1, <2>2
<1>5. CASE \/ AnchorDeadline \/ SkipCleanup \/ PeerUnavailable \/ HoldForQuorum \/ ForceLeave
           \/ ForceFails \/ ReleaseHook \/ PatchFails
  <2>1. pc' \in {"decide", "release", "audit"}
    BY <1>5 DEF AnchorDeadline, SkipCleanup, PeerUnavailable, HoldForQuorum, ForceLeave,
       ForceFails, ReleaseHook, PatchFails, GoRelease, LeaveHandler, FailOpenOrRetry
  <2>. QED BY <2>1 DEF TargetIdentified, MajorityReserved
<1>. QED BY <1>1, <1>2, <1>3, <1>4, <1>5 DEF Handler

\* QuorumInv is inductive: what another actor does to etcd either keeps it or is
\* recorded in disturbed.
LEMMA QuorumInvInductive ==
  /\ Init => QuorumInv
  /\ QuorumInv /\ [Next]_vars => QuorumInv'
<1>1. Init => QuorumInv
  BY InitType DEF Init, QuorumInv, UpAreMembers, members, TargetIdentified, MajorityReserved
<1>2. ASSUME QuorumInv, [Next]_vars PROVE QuorumInv'
  <2>. USE DEF QuorumInv
  <2>1. TypeOK' /\ UpAreMembers'
    BY <1>2, NextType, UpAreMembersInductive
  <2>2. CASE Handler
    BY <1>2, <2>1, <2>2, HandlerQuorum
  <2>3. CASE ~Handler /\ pc \in HookSteps /\ ~disturbed' /\ pc' # "idle"
    <3>1. /\ UNCHANGED <<pc, voters, learners, victim, target, seen, disturbed>>
          /\ cache'.phase = cache.phase /\ up \subseteq up'
      BY <1>2, <2>3, HandlerUndisturbed
    <3>2. TargetIdentified'
      BY <1>2, <3>1 DEF TargetIdentified, Listed, members
    <3>. DEFINE R == (up \cap voters) \ {victim, target}
                S == (up' \cap voters') \ {victim', target'}
    <3>3. Cardinality(R) <= Cardinality(S) /\ Cardinality(R) \in Nat /\ Cardinality(S) \in Nat
      <4>1. R \in SUBSET S /\ S \in SUBSET Machines
        BY <1>2, <2>1, <3>1 DEF TypeOK
      <4>2. IsFiniteSet(S)
        BY <4>1, MachinesAssumption, FS_Subset
      <4>3. IsFiniteSet(R) /\ Cardinality(R) <= Cardinality(S)
        BY <4>1, <4>2, FS_Subset
      <4>. QED BY <4>2, <4>3, FS_CardinalityType
    <3>4. Quorum(Cardinality(seen) - 1) \in Int
      <4>1. Cardinality(seen) \in Nat
        BY <1>2, MachinesAssumption, FS_Subset, FS_CardinalityType DEF TypeOK
      <4>. QED BY <4>1 DEF Quorum
    <3>. HIDE DEF R, S
    <3>5. MajorityReserved'
      <4>. SUFFICES ASSUME pc' \in {"mark", "leave", "force"}, ~disturbed', OnlyVotersStay',
                           RightTarget'
                    PROVE  Cardinality(S) >= Quorum(Cardinality(seen') - 1)
        BY DEF MajorityReserved, S
      <4>1. Cardinality(R) >= Quorum(Cardinality(seen) - 1)
        BY <1>2, <3>1 DEF MajorityReserved, OnlyVotersStay, RightTarget, R
      <4>. QED BY <3>1, <3>3, <3>4, <4>1
    <3>. QED BY <2>1, <3>2, <3>5
  <2>4. CASE ~Handler /\ (pc \notin HookSteps \/ disturbed' \/ pc' = "idle")
    <3>1. CASE disturbed' \/ pc' = "idle"
      BY <2>1, <3>1 DEF TargetIdentified, MajorityReserved
    <3>2. CASE pc \notin HookSteps
      <4>1. pc' \notin {"probe", "hold", "mark", "leave", "force"}
        BY <1>2, <2>4, <3>2 DEF HookSteps, vars, Next, Reconciler, MachineController, Nodes,
           User, Begin, EndReconcile, BeginTeardown, TeardownFails, EndTeardown, AuditRemove,
           Create, TeardownMachine, Crash, Sync, Drain, Terminate, Gone, Register, Fail, Recover,
           Join, Promote, Delete, EscapeHatch, StartTeardown, Tick, local
      <4>. QED BY <2>1, <4>1 DEF TargetIdentified, MajorityReserved
    <3>. QED BY <2>4, <3>1, <3>2
  <2>. QED BY <2>2, <2>3, <2>4
<1>. QED BY <1>1, <1>2

\* No step takes the majority from an etcd nobody else changed since the member
\* list was read, if the list showed no learner that stays.
KeepsQuorumOfVoters ==
    [][(LeaveFromVictim \/ ForceLeave) /\ ~disturbed /\ OnlyVotersStay /\ RightTarget
         => voters' = {} \/ HasMajority(voters', up')]_vars

\* The quorum safeguard of the hook, for any number of machines and whether nodes
\* join as learners or as voters: a member it takes out of an etcd that nobody else
\* changed since the member list was read leaves a majority of the remaining voters
\* running, provided no learner stays and elimination picked no other machine's
\* member.
THEOREM HookSafeAmongVoters == Spec => KeepsQuorumOfVoters
<1>. DEFINE Kept == (LeaveFromVictim \/ ForceLeave) /\ ~disturbed /\ OnlyVotersStay /\ RightTarget
                      => voters' = {} \/ HasMajority(voters', up')
<1>1. ASSUME QuorumInv PROVE Kept
  <2>. SUFFICES ASSUME LeaveFromVictim \/ ForceLeave, ~disturbed, OnlyVotersStay, RightTarget
                PROVE  HasMajority(voters', up')
    OBVIOUS
  <2>1. voters' = voters \ {target} /\ up' = up \ {target}
    <3>1. CASE LeaveFromVictim
      <4>1. victim \in members /\ pc = "leave"
        BY <1>1, <3>1 DEF LeaveFromVictim, QuorumInv, UpAreMembers
      <4>2. victim = target
        BY <1>1, <4>1 DEF QuorumInv, TargetIdentified
      <4>. QED BY <3>1, <4>2 DEF LeaveFromVictim, RemoveMember
    <3>2. CASE ForceLeave
      BY <3>2 DEF ForceLeave, RemoveMember
    <3>. QED BY <3>1, <3>2
  <2>2. pc \in {"leave", "force"}
    BY DEF LeaveFromVictim, ForceLeave
  <2>3. /\ TypeOK /\ voters \subseteq seen /\ target \in seen
        /\ Cardinality((up \cap voters) \ {victim, target}) >= Quorum(Cardinality(seen) - 1)
    BY <1>1, <2>2 DEF QuorumInv, TargetIdentified, MajorityReserved, members
  <2>4. voters \in SUBSET Machines /\ up \in SUBSET Machines
    BY <2>3 DEF TypeOK
  <2>. QED BY <2>1, <2>3, <2>4, ReservedIsMajority
<1>2. QuorumInv /\ [Next]_vars => [Kept]_vars
  BY <1>1
<1>3. Spec => [][Kept]_vars
  BY <1>2, QuorumInvInductive, PTL DEF Spec
<1>. QED BY <1>3 DEF KeepsQuorumOfVoters

\* Where nodes join as voters, there is never a learner.
LEMMA NoLearners ==
  ASSUME LearnerJoin = FALSE, learners = {}, [Next]_vars
  PROVE  learners' = {}
<1>. USE DEF objects, etcd, local, history
<1>1. CASE Handler
  BY <1>1 DEF Handler, AnchorDeadline, SkipCleanup, PeerUnavailable, ListMembers, ProbeQuorum,
     HoldForQuorum, MarkLeaving, LeaveFromVictim, LeaveFails, ForceLeave, ForceFails,
     ReleaseHook, PatchFails, RemoveMember
<1>2. CASE Begin \/ BeginTeardown \/ EndReconcile \/ TeardownFails \/ EndTeardown \/ Crash \/ Sync
  BY <1>2 DEF Begin, BeginTeardown, EndReconcile, TeardownFails, EndTeardown, Crash, Sync
<1>3. ASSUME NEW m \in Machines,
             AuditRemove(m) \/ Fail(m) \/ Gone(m) \/ Recover(m) \/ Join(m) \/ Promote(m)
      PROVE  learners' = {}
  BY <1>3 DEF AuditRemove, RemoveMember, Fail, Gone, Recover, Join, Promote
<1>4. ASSUME NEW m \in Machines,
             \/ Drain(m) \/ Terminate(m) \/ Register(m) \/ Delete(m) \/ EscapeHatch(m)
             \/ Create(m) \/ TeardownMachine(m) \/ Tick(m)
      PROVE  learners' = {}
  BY <1>4 DEF Drain, Terminate, Register, Delete, EscapeHatch, Create, TeardownMachine, Tick
<1>5. ASSUME NEW t \in Teardowns, StartTeardown(t) PROVE learners' = {}
  BY <1>5 DEF StartTeardown
<1>6. CASE UNCHANGED vars
  BY <1>6 DEF vars
<1>. QED
  BY <1>1, <1>2, <1>3, <1>4, <1>5, <1>6
  DEF Next, Reconciler, MachineController, Nodes, User

\* The same as the runs check it, without a condition on learners: where nodes join
\* as voters.
THEOREM HookSafe ==
  ASSUME LearnerJoin = FALSE
  PROVE  Spec => HookKeepsQuorum
<1>. DEFINE Among == (LeaveFromVictim \/ ForceLeave) /\ ~disturbed /\ OnlyVotersStay /\ RightTarget
                       => voters' = {} \/ HasMajority(voters', up')
            Kept == (LeaveFromVictim \/ ForceLeave) /\ ~disturbed
                       /\ (target \in Misnamed => target = victim)
                       => voters' = {} \/ HasMajority(voters', up')
            Voting == learners = {}
<1>1. Init => Voting
  BY DEF Init
<1>2. Voting /\ [Next]_vars => Voting'
  BY NoLearners
<1>3. Voting /\ [Among]_vars => [Kept]_vars
  BY DEF OnlyVotersStay, RightTarget
<1>4. Spec => [][Among]_vars
  BY HookSafeAmongVoters DEF KeepsQuorumOfVoters
<1>. HIDE DEF Voting, Among, Kept
<1>5. Spec => [][Kept]_vars
  BY <1>1, <1>2, <1>3, <1>4, PTL DEF Spec
<1>. QED BY <1>5 DEF HookKeepsQuorum, Kept
=============================================================================
