------------------------ MODULE DeletionOrderProofs ------------------------
(***************************************************************************)
(* The order in which PreTerminate takes Machines out of etcd, and what a  *)
(* quorum hold does to the deadline.                                       *)
(***************************************************************************)
EXTENDS PreTerminateProofs

-----------------------------------------------------------------------------
(* One membership change at a time *)

\* The deletion of m was requested before that of n, or in the same second and m
\* comes first by name.
Before(m, n) ==
    /\ deletedAt[m] # 0
    /\ deletedAt[m] < deletedAt[n] \/ (deletedAt[m] = deletedAt[n] /\ m < n)

\* Exactly the Machines whose deletion was requested have a timestamp.
Ranked == \A m \in Machines : deletedAt[m] = 0 <=> phase[m] \in {"absent", "running"}

\* A Machine on its way out has had its node drained.
Early == {"absent", "running", "draining"}

\* The cache is what the Machines once were: where it shows a Machine that was
\* drained, it knows all the deletions of no later second.
CacheIsPrefix ==
    /\ \A m \in Machines :
         /\ cache.deletedAt[m] \in {0, deletedAt[m]}
         /\ cache.deletedAt[m] = 0 <=> cache.phase[m] \in {"absent", "running"}
         /\ cache.phase[m] \notin Early => phase[m] \notin Early
    /\ \A m, n \in Machines :
         cache.phase[n] \notin Early /\ deletedAt[m] # 0 /\ deletedAt[m] <= deletedAt[n]
           => cache.deletedAt[m] = deletedAt[m]

\* Machine n was drained, and whatever was deleted before it is gone.
NextToGo(n) ==
    /\ phase[n] \notin Early
    /\ \A m \in Machines : Before(m, n) => phase[m] = "gone"

\* The victim of the hook handler and the Machines marked as leaving are next to go.
OrderInv ==
    /\ TypeOK /\ CacheNotAhead /\ Ranked /\ CacheIsPrefix
    /\ pc \in HookSteps => NextToGo(victim)
    /\ \A n \in leaving : NextToGo(n)

\* What a step does to the deletions: nothing, or it requests one; and the cache
\* stays or takes over what there is.
LEMMA DeletionStep ==
  ASSUME TypeOK, [Next]_vars
  PROVE  /\ \/ /\ deletedAt' = deletedAt
               /\ \A m \in Machines :
                    phase'[m] \in {"absent", "running"} <=> phase[m] \in {"absent", "running"}
            \/ \E m \in Machines : phase[m] = "running" /\ RequestDeletion(m)
         /\ \A m \in Machines : phase[m] \notin Early => phase'[m] \notin Early
         /\ \/ cache'.phase = cache.phase /\ cache'.deletedAt = cache.deletedAt
            \/ cache'.phase = phase' /\ cache'.deletedAt = deletedAt'
<1>. USE DEF objects, etcd, local, history, Current, Early
<1>1. CASE Handler
  BY <1>1 DEF Handler, AnchorDeadline, SkipCleanup, PeerUnavailable, ListMembers, ProbeQuorum,
     HoldForQuorum, MarkLeaving, LeaveFromVictim, LeaveFails, ForceLeave, ForceFails,
     ReleaseHook, PatchFails
<1>2. CASE Begin \/ BeginTeardown
  BY <1>2 DEF Begin, BeginTeardown
<1>3. CASE EndReconcile \/ TeardownFails \/ EndTeardown \/ Crash \/ Sync
  BY <1>3 DEF EndReconcile, TeardownFails, EndTeardown, Crash, Sync, Inform
<1>4. ASSUME NEW m \in Machines,
             Fail(m) \/ Recover(m) \/ Join(m) \/ Promote(m) \/ AuditRemove(m)
      PROVE  UNCHANGED <<deletedAt, phase, cache>>
  BY <1>4 DEF Fail, Recover, Join, Promote, AuditRemove
<1>5. ASSUME NEW m \in Machines,
             \/ Drain(m) \/ Terminate(m) \/ Gone(m) \/ Register(m) \/ EscapeHatch(m)
             \/ Create(m)
      PROVE  /\ deletedAt' = deletedAt
             /\ \A n \in Machines :
                  /\ phase'[n] \in {"absent", "running"} <=> phase[n] \in {"absent", "running"}
                  /\ phase[n] \notin Early => phase'[n] \notin Early
             /\ \/ cache' = cache
                \/ cache'.phase = phase' /\ cache'.deletedAt = deletedAt'
  BY <1>5 DEF TypeOK, Drain, Terminate, Gone, Register, EscapeHatch, Create, Inform
<1>6. ASSUME NEW m \in Machines, Delete(m) \/ TeardownMachine(m)
      PROVE  /\ \/ deletedAt' = deletedAt /\ phase' = phase
                \/ phase[m] = "running" /\ RequestDeletion(m)
             /\ \/ cache' = cache
                \/ cache'.phase = phase' /\ cache'.deletedAt = deletedAt'
  BY <1>6 DEF Delete, TeardownMachine, Inform
<1>7. ASSUME NEW m \in Machines, phase[m] = "running", RequestDeletion(m), NEW n \in Machines,
             phase[n] \notin Early
      PROVE  phase'[n] \notin Early
  BY <1>7 DEF RequestDeletion, TypeOK
<1>8. ASSUME NEW t \in Teardowns, StartTeardown(t) PROVE UNCHANGED <<deletedAt, phase, cache>>
  BY <1>8 DEF StartTeardown
<1>9. ASSUME NEW m \in Machines, Tick(m)
      PROVE  /\ UNCHANGED <<deletedAt, phase>>
             /\ cache'.phase = cache.phase /\ cache'.deletedAt = cache.deletedAt
  BY <1>9 DEF Tick, TypeOK, CacheType
<1>10. CASE UNCHANGED vars
  BY <1>10 DEF vars
<1>. HIDE DEF Early
<1>. QED
  BY <1>1, <1>2, <1>3, <1>4, <1>5, <1>6, <1>7, <1>8, <1>9, <1>10
  DEF Next, Reconciler, MachineController, Nodes, User

\* A deletion gets a timestamp that is not earlier than any other, and later than
\* those of all the Machines that were drained.
LEMMA RequestRanks ==
  ASSUME TypeOK, Ranked, NEW m \in Machines, phase[m] = "running", RequestDeletion(m)
  PROVE  /\ deletedAt[m] = 0 /\ deletedAt'[m] \in Nat \ {0} /\ phase'[m] = "draining"
         /\ \A n \in Machines \ {m} : deletedAt'[n] = deletedAt[n] /\ phase'[n] = phase[n]
         /\ \A n \in Machines : phase[n] \notin Early => deletedAt[n] < deletedAt'[m]
<1>1. PICK second \in 1 .. Requested + 1 :
        /\ \A n \in Machines : /\ deletedAt[n] <= second
                               /\ deletedAt[n] = second => phase[n] = "draining"
        /\ deletedAt' = [deletedAt EXCEPT ![m] = second]
  BY DEF RequestDeletion
<1>2. second \in Nat \ {0}
  BY RequestedType
<1>3. phase' = [phase EXCEPT ![m] = "draining"]
  BY DEF RequestDeletion
<1>4. /\ deletedAt \in [Machines -> Nat] /\ phase \in [Machines -> Phases]
      /\ deletedAt[m] = 0 /\ deletedAt'[m] = second
  BY <1>1 DEF TypeOK, Ranked
<1>5. ASSUME NEW n \in Machines, phase[n] \notin Early PROVE deletedAt[n] < deletedAt'[m]
  BY <1>1, <1>2, <1>4, <1>5 DEF Early
<1>. QED BY <1>1, <1>2, <1>3, <1>4, <1>5

\* The timestamps and the cache's knowledge of them are kept, and who was next to
\* go still is.
LEMMA OrderStep ==
  ASSUME TypeOK, CacheNotAhead, Ranked, CacheIsPrefix, [Next]_vars
  PROVE  /\ Ranked' /\ CacheIsPrefix'
         /\ \A n \in Machines : NextToGo(n) => NextToGo(n)'
<1>. DEFINE Kept == \A n \in Machines : NextToGo(n) => NextToGo(n)'
            old == cache.phase
            new == cache'.phase
<1>1. /\ deletedAt \in [Machines -> Nat] /\ cache.deletedAt \in [Machines -> Nat]
      /\ \A m \in Machines : phase[m] = "gone" => phase'[m] = "gone"
      /\ \A m \in Machines : phase[m] \notin Early => phase'[m] \notin Early
  BY GoneIsFinal, DeletionStep DEF TypeOK, CacheType
<1>2. CASE /\ deletedAt' = deletedAt
           /\ \A m \in Machines :
                phase'[m] \in {"absent", "running"} <=> phase[m] \in {"absent", "running"}
  <2>1. Ranked'
    BY <1>2 DEF Ranked
  <2>2. Kept
    BY <1>1, <1>2 DEF NextToGo, Before
  <2>3. CASE cache'.phase = cache.phase /\ cache'.deletedAt = cache.deletedAt
    BY <1>1, <1>2, <2>1, <2>2, <2>3 DEF CacheIsPrefix
  <2>4. CASE cache'.phase = phase' /\ cache'.deletedAt = deletedAt'
    BY <1>2, <2>1, <2>2, <2>4 DEF CacheIsPrefix, Ranked
  <2>. QED BY <2>3, <2>4, DeletionStep
<1>3. ASSUME NEW m \in Machines, phase[m] = "running", RequestDeletion(m)
      PROVE  Ranked' /\ CacheIsPrefix' /\ Kept
  <2>1. /\ deletedAt[m] = 0 /\ deletedAt'[m] \in Nat \ {0} /\ phase'[m] = "draining"
        /\ \A n \in Machines \ {m} : deletedAt'[n] = deletedAt[n] /\ phase'[n] = phase[n]
        /\ \A n \in Machines : phase[n] \notin Early => deletedAt[n] < deletedAt'[m]
    BY <1>3, RequestRanks
  <2>2. Ranked'
    BY <2>1 DEF Ranked
  <2>3. ASSUME NEW n \in Machines, NextToGo(n) PROVE NextToGo(n)'
    <3>1. n # m /\ deletedAt'[n] = deletedAt[n] /\ phase'[n] \notin Early
      BY <1>1, <1>3, <2>1, <2>3 DEF NextToGo, Early
    <3>2. deletedAt'[n] < deletedAt'[m] /\ deletedAt'[n] \in Nat
      BY <1>1, <2>1, <2>3, <3>1 DEF NextToGo
    <3>3. ASSUME NEW k \in Machines, Before(k, n)' PROVE phase'[k] = "gone"
      <4>1. k # m
        BY <2>1, <3>2, <3>3 DEF Before
      <4>2. Before(k, n)
        BY <2>1, <3>1, <3>3, <4>1 DEF Before
      <4>. QED BY <1>1, <2>3, <4>2 DEF NextToGo
    <3>. QED BY <3>1, <3>3 DEF NextToGo
  <2>4. CASE cache'.phase = cache.phase /\ cache'.deletedAt = cache.deletedAt
    <3>1. cache.deletedAt[m] = 0 /\ cache.phase[m] \in {"absent", "running"}
      BY <2>1 DEF CacheIsPrefix
    <3>2. \A n \in Machines : /\ cache'.deletedAt[n] \in {0, deletedAt'[n]}
                              /\ cache'.deletedAt[n] = 0 <=> cache'.phase[n] \in {"absent", "running"}
                              /\ cache'.phase[n] \notin Early => phase'[n] \notin Early
      BY <1>1, <2>1, <2>4, <3>1 DEF CacheIsPrefix
    <3>3. ASSUME NEW k \in Machines, NEW n \in Machines, cache'.phase[n] \notin Early,
                 deletedAt'[k] # 0, deletedAt'[k] <= deletedAt'[n]
          PROVE  cache'.deletedAt[k] = deletedAt'[k]
      <4>1. n # m /\ phase[n] \notin Early /\ deletedAt'[n] = deletedAt[n]
        BY <2>1, <2>4, <3>1, <3>3 DEF CacheIsPrefix, Early
      <4>2. k # m /\ deletedAt'[k] = deletedAt[k]
        BY <1>1, <2>1, <3>3, <4>1
      <4>. QED BY <2>4, <3>3, <4>1, <4>2 DEF CacheIsPrefix
    <3>. QED BY <2>2, <2>3, <3>2, <3>3 DEF CacheIsPrefix
  <2>5. CASE cache'.phase = phase' /\ cache'.deletedAt = deletedAt'
    BY <2>2, <2>3, <2>5 DEF CacheIsPrefix, Ranked
  <2>. QED BY <2>4, <2>5, DeletionStep
<1>. QED BY <1>2, <1>3, DeletionStep

\* servicePreTerminateHooks: if no deleting machine lacks the hook, the oldest that
\* has it is next to go, however late the cache is.
LEMMA ServicedNextToGo ==
  ASSUME TypeOK, CacheNotAhead, Ranked, CacheIsPrefix, Serviced # None
  PROVE  NextToGo(Serviced)
<1>1. DeletingHooked \in SUBSET Machines
  BY DEF DeletingHooked, Listed
<1>2. /\ DeletingUnhooked = {} /\ DeletingHooked # {} /\ Serviced = Oldest(DeletingHooked)
      /\ cache.phase[Serviced] = "atHook"
  BY DEF Serviced
<1>3. /\ Serviced \in DeletingHooked
      /\ \A n \in DeletingHooked :
           \/ cache.deletedAt[Serviced] < cache.deletedAt[n]
           \/ cache.deletedAt[Serviced] = cache.deletedAt[n] /\ Serviced <= n
  BY <1>1, <1>2, OldestType
<1>. DEFINE s == Serviced
<1>. HIDE DEF s
<1>4. s \in Machines /\ cache.phase[s] = "atHook" /\ cache.phase[s] \notin Early
  BY <1>1, <1>2, <1>3 DEF s, Early
<1>5. cache.deletedAt[s] = deletedAt[s] /\ phase[s] \notin Early
  BY <1>4 DEF CacheIsPrefix
<1>6. ASSUME NEW m \in Machines, Before(m, s) PROVE phase[m] = "gone"
  <2>1. deletedAt[m] \in Nat /\ deletedAt[s] \in Nat /\ m \in Nat /\ s \in Nat
    BY <1>4, MachinesAssumption DEF TypeOK
  <2>2. deletedAt[m] # 0 /\ deletedAt[m] <= deletedAt[s]
    BY <1>6, <2>1 DEF Before
  <2>3. cache.deletedAt[m] = deletedAt[m] /\ cache.phase[m] \notin {"absent", "running"}
    BY <1>4, <2>2 DEF CacheIsPrefix
  <2>4. m \notin DeletingHooked
    BY <1>3, <1>5, <1>6, <2>1, <2>3 DEF s, Before
  <2>5. cache.phase[m] = "gone"
    BY <1>2, <2>3, <2>4
    DEF DeletingHooked, DeletingUnhooked, Listed, TypeOK, CacheType, Phases, Deleting
  <2>. QED BY <2>5 DEF CacheNotAhead
<1>. QED BY <1>5, <1>6 DEF s, NextToGo

\* Only the start of a reconcile picks a victim, and only the victim is marked.
LEMMA MarkStep ==
  ASSUME TypeOK, [Next]_vars
  PROVE  /\ pc' \in HookSteps => \/ pc \in HookSteps /\ victim' = victim
                                 \/ victim' = Serviced /\ Serviced # None
         /\ leaving' \subseteq leaving \cup {n \in {victim} : pc \in HookSteps}
<1>. USE DEF objects, etcd, local, history, HookSteps
<1>1. CASE Handler
  BY <1>1 DEF Handler, AnchorDeadline, SkipCleanup, PeerUnavailable, ListMembers, ProbeQuorum,
     HoldForQuorum, MarkLeaving, LeaveFromVictim, LeaveFails, ForceLeave, ForceFails,
     ReleaseHook, PatchFails, GoRelease, FailOpenOrRetry, LeaveHandler
<1>2. CASE Begin
  BY <1>2 DEF Begin
<1>3. CASE EndReconcile \/ BeginTeardown \/ TeardownFails \/ EndTeardown \/ Crash \/ Sync
  BY <1>3 DEF EndReconcile, BeginTeardown, TeardownFails, EndTeardown, Crash, Sync
<1>4. ASSUME NEW m \in Machines, AuditRemove(m) \/ Create(m) \/ TeardownMachine(m)
      PROVE  leaving' = leaving /\ pc' \notin HookSteps
  BY <1>4 DEF AuditRemove, Create, TeardownMachine
<1>5. ASSUME NEW m \in Machines,
             \/ Fail(m) \/ Recover(m) \/ Join(m) \/ Promote(m) \/ Tick(m)
             \/ Drain(m) \/ Terminate(m) \/ Gone(m) \/ Register(m) \/ Delete(m) \/ EscapeHatch(m)
      PROVE  leaving' \subseteq leaving /\ UNCHANGED <<pc, victim>>
  BY <1>5 DEF Fail, Recover, Join, Promote, Tick, Drain, Terminate, Gone, Register, Delete,
     EscapeHatch
<1>6. ASSUME NEW t \in Teardowns, StartTeardown(t) PROVE UNCHANGED <<leaving, pc, victim>>
  BY <1>6 DEF StartTeardown
<1>7. CASE UNCHANGED vars
  BY <1>7 DEF vars
<1>. QED
  BY <1>1, <1>2, <1>3, <1>4, <1>5, <1>6, <1>7
  DEF Next, Reconciler, MachineController, Nodes, User

\* OrderInv is inductive.
LEMMA OrderInvInductive ==
  /\ Init => OrderInv
  /\ OrderInv /\ [Next]_vars => OrderInv'
<1>1. ASSUME Init PROVE OrderInv
  <2>1. TypeOK /\ CacheNotAhead
    BY <1>1, InitType DEF Init, Current, CacheNotAhead
  <2>2. Ranked
    BY <1>1 DEF Init, Ranked
  <2>. QED BY <1>1, <2>1, <2>2 DEF Init, Current, OrderInv, CacheIsPrefix, Early, HookSteps
<1>2. ASSUME OrderInv, [Next]_vars PROVE OrderInv'
  <2>. USE DEF OrderInv
  <2>1. TypeOK' /\ CacheNotAhead'
    BY <1>2, NextType, GoneIsFinal DEF CacheNotAhead
  <2>2. Ranked' /\ CacheIsPrefix' /\ \A n \in Machines : NextToGo(n) => NextToGo(n)'
    BY <1>2, OrderStep
  <2>3. pc \in HookSteps => victim \in Machines
    BY <1>2 DEF TypeOK
  <2>4. ASSUME pc' \in HookSteps PROVE NextToGo(victim)'
    <3>1. CASE pc \in HookSteps /\ victim' = victim
      BY <1>2, <2>2, <2>3, <3>1 DEF NextToGo
    <3>2. CASE victim' = Serviced /\ Serviced # None
      <4>. DEFINE s == Serviced
      <4>. HIDE DEF s
      <4>1. NextToGo(s) /\ s \in Machines
        BY <1>2, <3>2, ServicedNextToGo, ServicedType DEF s
      <4>2. victim' = s
        BY <3>2 DEF s
      <4>3. NextToGo(s) => \A m \in Machines : m = s => NextToGo(m)
        OBVIOUS
      <4>4. \A m \in Machines : m = s => NextToGo(m)'
        BY <2>2, <4>1, <4>3
      <4>5. victim' \in Machines
        BY <4>1, <4>2
      <4>. QED BY <4>2, <4>4, <4>5 DEF NextToGo
    <3>. QED BY <1>2, <2>4, <3>1, <3>2, MarkStep
  <2>5. ASSUME NEW n \in leaving' PROVE NextToGo(n)'
    <3>1. n \in Machines
      BY <2>1, <2>5 DEF TypeOK
    <3>2. n \in leaving \/ (n = victim /\ pc \in HookSteps)
      BY <1>2, <2>5, MarkStep
    <3>3. NextToGo(n)
      BY <1>2, <3>2
    <3>. QED BY <2>2, <3>1, <3>3
  <2>. QED BY <2>1, <2>2, <2>4, <2>5
<1>. QED BY <1>1, <1>2

\* servicePreTerminateHooks, for any number of Machines, crashes, lost calls and
\* any lag of the cache: at most one existing Machine is on its way out of etcd.
THEOREM OneAtATime == Spec => []OneChangeAtATime
<1>1. ASSUME OrderInv PROVE OneChangeAtATime
  <2>. SUFFICES ASSUME NEW m \in leaving, NEW n \in leaving, Exists(m), Exists(n), m # n
                PROVE  FALSE
    BY DEF OneChangeAtATime
  <2>1. m \in Machines /\ n \in Machines /\ NextToGo(m) /\ NextToGo(n)
    BY <1>1 DEF OrderInv, TypeOK
  <2>2. /\ m \in Nat /\ n \in Nat
        /\ deletedAt[m] \in Nat \ {0} /\ deletedAt[n] \in Nat \ {0}
    BY <1>1, <2>1, MachinesAssumption DEF OrderInv, TypeOK, NextToGo, Ranked, Early
  <2>3. Before(m, n) \/ Before(n, m)
    BY <2>2 DEF Before
  <2>. QED BY <2>1, <2>3 DEF NextToGo, Exists
<1>. QED BY <1>1, OrderInvInductive, PTL DEF Spec

-----------------------------------------------------------------------------
(* A quorum hold never counts towards the deadline *)

\* A held Machine has no anchor; the handler stamps one, and forgets the hold, in
\* every attempt that starts from a current cache.
HoldInv ==
    /\ pc = "idle" => cache = Current
    /\ \A m \in Machines : held[m] => anchor[m] = "none"
    /\ pc = "anchor" /\ held[victim] => cache.anchor[victim] = "none"
    /\ pc \in HookSteps \ {"anchor"} => ~held[victim]

\* The steps of the hook handler keep it: only HoldForQuorum sets held, and leaves.
LEMMA HandlerHold == ASSUME TypeOK, HoldInv, Handler PROVE HoldInv'
<1>. USE DEF objects, etcd, local, history, HookSteps
<1>1. pc \in HookSteps /\ victim \in Machines
  BY DEF TypeOK, Handler, AnchorDeadline, SkipCleanup, PeerUnavailable, ListMembers, ProbeQuorum,
     HoldForQuorum, MarkLeaving, LeaveFromVictim, LeaveFails, ForceLeave, ForceFails, ReleaseHook,
     PatchFails
<1>2. CASE AnchorDeadline
  <2>1. CASE cache.anchor[victim] = "none"
    BY <1>1, <1>2, <2>1 DEF AnchorDeadline, HoldInv, TypeOK
  <2>2. CASE cache.anchor[victim] # "none"
    BY <1>1, <1>2, <2>2 DEF AnchorDeadline, HoldInv
  <2>. QED BY <2>1, <2>2
<1>3. CASE HoldForQuorum
  BY <1>1, <1>3 DEF HoldForQuorum, LeaveHandler, HoldInv, TypeOK
<1>4. CASE ReleaseHook
  BY <1>1, <1>4 DEF ReleaseHook, LeaveHandler, HoldInv, TypeOK
<1>5. CASE \/ SkipCleanup \/ PeerUnavailable \/ ListMembers \/ ProbeQuorum \/ MarkLeaving
           \/ LeaveFromVictim \/ LeaveFails \/ ForceLeave \/ ForceFails \/ PatchFails
  <2>1. /\ UNCHANGED <<anchor, held>> /\ pc' \notin {"idle", "anchor"}
        /\ pc' = "audit" \/ victim' = victim
    BY <1>5 DEF SkipCleanup, PeerUnavailable, ListMembers, ProbeQuorum, MarkLeaving,
       LeaveFromVictim, LeaveFails, ForceLeave, ForceFails, PatchFails, GoRelease,
       FailOpenOrRetry, LeaveHandler
  <2>2. pc # "anchor" \/ pc' = "audit"
    BY <1>5 DEF SkipCleanup, PeerUnavailable, ListMembers, ProbeQuorum, MarkLeaving,
       LeaveFromVictim, LeaveFails, ForceLeave, ForceFails, PatchFails, LeaveHandler
  <2>. QED BY <1>1, <2>1, <2>2 DEF HoldInv
<1>. QED
  BY <1>2, <1>3, <1>4, <1>5 DEF Handler

\* With a cache that keeps up between reconciles, HoldInv is inductive.
LEMMA HoldInvInductive ==
  ASSUME StaleCache = FALSE
  PROVE  /\ Init => HoldInv
         /\ TypeOK /\ HoldInv /\ [Next]_vars => HoldInv'
<1>. USE DEF objects, etcd, local, history, HookSteps
<1>1. Init => HoldInv
  BY DEF Init, HoldInv
<1>2. ASSUME TypeOK, HoldInv, [Next]_vars PROVE HoldInv'
  <2>1. ASSUME Inform, pc' \notin HookSteps, UNCHANGED held,
               \A m \in Machines : held[m] /\ anchor[m] = "none" => anchor'[m] = "none"
        PROVE  HoldInv'
    BY <1>2, <2>1 DEF HoldInv, Inform, TypeOK
  <2>2. ASSUME Inform, UNCHANGED <<pc, victim, held>>,
               \A m \in Machines : held[m] /\ anchor[m] = "none" => anchor'[m] = "none"
        PROVE  HoldInv'
    BY <1>2, <2>2 DEF HoldInv, Inform, TypeOK
  <2>3. CASE Handler
    BY <1>2, <2>3, HandlerHold
  <2>4. CASE Begin
    <3>1. /\ pc = "idle" /\ pc' \in {"anchor", "audit"} /\ (pc' = "anchor" => victim' \in Machines)
          /\ UNCHANGED <<anchor, held, cache>>
      BY <1>2, <2>4, ServicedType DEF Begin
    <3>2. \A m \in Machines : cache.anchor[m] = anchor[m]
      BY <1>2, <3>1 DEF HoldInv, Current
    <3>. QED BY <1>2, <3>1, <3>2 DEF HoldInv
  <2>5. CASE EndReconcile \/ TeardownFails \/ EndTeardown \/ Crash
    BY <1>2, <2>1, <2>5 DEF EndReconcile, TeardownFails, EndTeardown, Crash
  <2>6. CASE BeginTeardown \/ Sync
    BY <1>2, <2>6 DEF BeginTeardown, Sync, HoldInv, Current
  <2>7. ASSUME NEW m \in Machines, TeardownMachine(m) PROVE HoldInv'
    <3>1. /\ Inform /\ pc' \notin HookSteps /\ UNCHANGED held
          /\ anchor' \in {anchor, [anchor EXCEPT ![m] = "none"]}
      BY <2>7 DEF TeardownMachine
    <3>. QED BY <1>2, <2>1, <3>1 DEF TypeOK
  <2>8. ASSUME NEW m \in Machines, Gone(m) PROVE HoldInv'
    <3>1. /\ Inform /\ UNCHANGED <<pc, victim, held>>
          /\ anchor' = [anchor EXCEPT ![m] = "none"]
      BY <2>8 DEF Gone
    <3>. QED BY <1>2, <2>2, <3>1 DEF TypeOK
  <2>9. ASSUME NEW m \in Machines,
               Drain(m) \/ Terminate(m) \/ Register(m) \/ Delete(m) \/ EscapeHatch(m)
        PROVE  HoldInv'
    BY <2>2, <2>9 DEF Drain, Terminate, Register, Delete, EscapeHatch
  <2>10. ASSUME NEW m \in Machines, Tick(m) PROVE HoldInv'
    <3>1. /\ UNCHANGED <<phase, deletedAt, hook, leaving, nodeRef, pc, victim, held>>
          /\ anchor' = IF anchor[m] = "fresh" THEN [anchor EXCEPT ![m] = "expired"] ELSE anchor
          /\ cache' = IF cache.anchor[m] = "fresh"
                      THEN [cache EXCEPT !.anchor = [@ EXCEPT ![m] = "expired"]] ELSE cache
      BY <2>10 DEF Tick
    <3>2. \A n \in Machines : /\ anchor'[n] = "none" <=> anchor[n] = "none"
                              /\ cache'.anchor[n] = "none" <=> cache.anchor[n] = "none"
      BY <1>2, <3>1 DEF TypeOK, CacheType
    <3>3. pc = "idle" => cache' = Current'
      BY <1>2, <3>1 DEF HoldInv, Current, TypeOK, CacheType
    <3>. QED BY <1>2, <3>1, <3>2, <3>3 DEF HoldInv, TypeOK
  <2>11. ASSUME NEW m \in Machines,
                Fail(m) \/ Recover(m) \/ Join(m) \/ Promote(m) \/ AuditRemove(m)
         PROVE  HoldInv'
    BY <1>2, <2>11 DEF Fail, Recover, Join, Promote, AuditRemove, HoldInv, Current
  <2>12. ASSUME NEW m \in Machines, Create(m) PROVE HoldInv'
    BY <2>1, <2>12 DEF Create
  <2>13. CASE UNCHANGED vars \/ \E t \in Teardowns : StartTeardown(t)
    BY <1>2, <2>13 DEF vars, StartTeardown, HoldInv, Current
  <2>. QED
    BY <1>2, <2>3, <2>4, <2>5, <2>6, <2>7, <2>8, <2>9, <2>10, <2>11, <2>12,
       <2>13
    DEF Next, Reconciler, MachineController, Nodes, User
<1>. QED BY <1>1, <1>2

\* holdForQuorum "never fails open", for any number of Machines and deletions, as
\* long as reconciles start from a current cache: no attempt that ended in a quorum
\* hold is part of the time after which a Machine is given up on.
THEOREM HoldSafe ==
  ASSUME StaleCache = FALSE
  PROVE  Spec => []HoldNeverFailsOpen
<1>1. HoldInv => HoldNeverFailsOpen
  BY DEF HoldInv, HoldNeverFailsOpen, HookSteps
<1>2. Init => TypeOK /\ HoldInv
  BY InitType, HoldInvInductive
<1>3. TypeOK /\ HoldInv /\ [Next]_vars => (TypeOK /\ HoldInv)'
  BY NextType, HoldInvInductive
<1>. QED BY <1>1, <1>2, <1>3, PTL DEF Spec
=============================================================================
