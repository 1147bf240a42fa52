--------------------------- MODULE BootstrapProofs ---------------------------
(***************************************************************************)
(* Theorems about Bootstrap, for every number of Machines, replicas,       *)
(* deletions, verdicts and outdated lists, and of faults except where a    *)
(* property bounds them itself.                                            *)
(***************************************************************************)
EXTENDS Bootstrap, EtcdQuorumProofs

Running(m) == phase[m] = "running"
HasData(m) == data[m] # None
Founded(m) == HasData(m) \/ m \in accepted

-----------------------------------------------------------------------------
(* Types, and what a reconcile knows while it goes through its steps *)

\* Only what exists has an address, a node or etcd; a node has etcd, and etcd an
\* address.
Objects ==
    \A m \in Machines :
        /\ ~Exists(m) => m \notin addressed \cup nodeRef \cup accepted /\ data[m] = None
        /\ m \in nodeRef => HasData(m)
        /\ Founded(m) => m \in addressed

\* The list of Machines, outdated or not, is of the past.
ViewIsPast ==
    \A m \in Machines :
        /\ m \in Listed \cup view.addressed \cup view.nodeRef => phase[m] # "absent"
        /\ Exists(m) => /\ m \in view.addressed => m \in addressed
                        /\ m \in view.nodeRef => m \in nodeRef

\* The reconcile starts from what is persisted, and never forgets initialization.
Remembered ==
    /\ pc \in {"idle", "remediate", "delete", "route"} => mem = status
    /\ status.initialized => mem.initialized

\* Where the reconcile stands: what led it to a step holds there.
OnTrack ==
    /\ pc \in {"delete", "release", "ask", "send"} => ~mem.initialized
    /\ pc \in {"ask", "send"} => ~mem.bootstrapped /\ BootstrapCandidates # {}
    /\ pc = "release" => mem.bootstrapped /\ mem.machine # None /\ mem.machine \notin Listed
    /\ pc \in {"release", "ask"} => remaining \subseteq BootstrapCandidates
    /\ pc = "send" => remaining = {} /\ ~unknown
    /\ pc = "scale" /\ Listed # {} => mem.bootstrapped

\* A machine that is recorded as bootstrapped was founded, as long as it exists.
Recorded(s) ==
    s.machine # None =>
        /\ phase[s.machine] # "absent"
        /\ Exists(s.machine) => Founded(s.machine)

BaseInv ==
    /\ TypeOK /\ Objects /\ ViewIsPast /\ Remembered /\ OnTrack
    /\ Recorded(status) /\ Recorded(mem)

\* The oldest of some machines is one of them.
LEMMA OldestType ==
  ASSUME NEW S \in SUBSET Machines, S # {}
  PROVE  OldestOf(S) \in S
<1>1. Machines \subseteq Nat
  BY BootstrapConstants DEF Machines
<1>2. \E x \in S : \A y \in S : x <= y
  BY <1>1, MinimumExists
<1>. QED BY <1>2 DEF OldestOf

\* The initial states satisfy the invariant.
LEMMA InitBase == Init => BaseInv
<1>. SUFFICES ASSUME Init PROVE BaseInv
  OBVIOUS
<1>1. None \notin Machines
  BY BootstrapConstants DEF None, Machines
<1>2. NoStatus \in Status /\ view \in View
  BY DEF Init, NoStatus, Status, Current, View, Phases, None
<1>. QED BY <1>1, <1>2 DEF Init, BaseInv, TypeOK, Phases, None, Objects, ViewIsPast, Remembered,
         OnTrack, Recorded, NoStatus, Exists, HasData, Founded, Listed, Current

\* What happens outside the reconcile.
LEMMA EnvironmentBase == ASSUME BaseInv, Environment PROVE BaseInv'
<1>. USE DEF BaseInv, TypeOK, Objects, ViewIsPast, Remembered, OnTrack, Recorded, Exists, HasData,
            Founded, Listed, BootstrapCandidates, Kept, objects, nodes, bounds
<1>0. None \notin Machines
  BY BootstrapConstants DEF None, Machines
<1>1. ASSUME NEW m \in Machines, ReportAddress(m) PROVE BaseInv'
  BY <1>1 DEF ReportAddress
<1>2. ASSUME NEW m \in Machines, StartEtcd(m) \/ JoinEtcd(m) PROVE BaseInv'
  <2>1. PICK c \in Machines : data' = [data EXCEPT ![m] = c]
    BY <1>2 DEF StartEtcd, JoinEtcd
  <2>2. /\ Exists(m) /\ UNCHANGED <<objects, view, accepted, status, mem, pc, target, remaining,
                                    unknown, bounds>>
        /\ m \in addressed
    BY <1>2 DEF StartEtcd, JoinEtcd
  <2>3. data' \in [Machines -> Machines \cup {None}]
    BY <2>1
  <2>4. Objects'
    BY <1>0, <2>1, <2>2
  <2>5. \A n \in Machines : Founded(n) => Founded(n)'
    BY <1>0, <2>1, <2>2
  <2>6. Recorded(status)' /\ Recorded(mem)'
    BY <2>2, <2>5 DEF Status
  <2>. QED BY <2>2, <2>3, <2>4, <2>6
<1>3. ASSUME NEW m \in Machines, RegisterNode(m) PROVE BaseInv'
  BY <1>3 DEF RegisterNode
<1>4. ASSUME NEW m \in Machines, FindUnhealthy(m) \/ FindHealthy(m) PROVE BaseInv'
  BY <1>4 DEF FindUnhealthy, FindHealthy
<1>5. ASSUME NEW m \in Machines, Delete(m) PROVE BaseInv'
  BY <1>5 DEF Delete, Phases
<1>6. ASSUME NEW m \in Machines, Remove(m) PROVE BaseInv'
  BY <1>6 DEF Remove, Phases
<1>. QED BY <1>1, <1>2, <1>3, <1>4, <1>5, <1>6 DEF Environment

\* Machines are 1, 2, ..., and None is not one of them.
LEMMA NoneIsNone == None \notin Machines
  BY BootstrapConstants DEF None, Machines

\* The candidates are Machines that have to be there for a request to be sent.
LEMMA CandidateType ==
  ASSUME BootstrapCandidates # {}
  PROVE  OldestOf(BootstrapCandidates) \in BootstrapCandidates
  BY OldestType DEF BootstrapCandidates, Kept

\* Reading the Machines.
LEMMA ReadBase ==
  ASSUME BaseInv, view' = Current, UNCHANGED <<objects, nodes>>
  PROVE  view' \in View /\ ViewIsPast'
<1>1. view' \in View
  BY DEF BaseInv, TypeOK, Current, View
<1>2. /\ view'.phase = phase /\ view'.addressed = addressed /\ view'.nodeRef = nodeRef
  BY DEF Current
<1>. QED BY <1>1, <1>2 DEF ViewIsPast, Listed, Exists, objects, BaseInv, Objects

\* The steps that touch neither Machines nor nodes: what is recorded stays founded.
LEMMA QuietBase ==
  ASSUME BaseInv, UNCHANGED <<objects, nodes>>, view' = view \/ view' = Current,
         status' \in {status, mem}, Recorded(mem'),
         TypeOK', Remembered', OnTrack'
  PROVE  BaseInv'
<1>1. ViewIsPast'
  <2>1. CASE view' = view
    BY <2>1 DEF BaseInv, ViewIsPast, Listed, Exists, objects
  <2>. QED BY <2>1, ReadBase
<1>2. Objects'
  BY DEF BaseInv, Objects, Exists, HasData, Founded, objects, nodes
<1>3. Recorded(status)' /\ Recorded(mem)'
  BY DEF BaseInv, Recorded, Exists, HasData, Founded, objects, nodes
<1>. QED BY <1>1, <1>2, <1>3 DEF BaseInv

\* Every step of the reconcile.
LEMMA ReconcilerBase == ASSUME BaseInv, Reconciler \/ Crash PROVE BaseInv'
<1>. USE NoneIsNone DEF objects, nodes, bounds, NoFault, Fault
<1>1. CASE Begin
  <2>1. view' \in View
    BY <1>1, ReadBase DEF Begin, BaseInv, TypeOK
  <2>2. TypeOK'
    <3>1. events' \in Nat /\ mem' \in Status
      BY <1>1 DEF Begin, BaseInv, TypeOK
    <3>2. lagged' \in BOOLEAN
      BY <1>1, Zenon DEF Begin, BaseInv, TypeOK
    <3>3. target' \in IF pc' = "delete" THEN Machines ELSE {None}
      BY <1>1 DEF Begin, BaseInv, TypeOK
    <3>. QED BY <1>1, <2>1, <3>1, <3>2, <3>3 DEF Begin, BaseInv, TypeOK
  <2>3. Remembered' /\ OnTrack' /\ Recorded(mem')
    BY <1>1 DEF Begin, BaseInv, Remembered, OnTrack, Recorded
  <2>. QED BY <1>1, <2>2, <2>3, QuietBase DEF Begin
<1>2. CASE StartRemediation
  <2>1. TypeOK' /\ Remembered' /\ OnTrack' /\ Recorded(mem')
    BY <1>2 DEF StartRemediation, BaseInv, TypeOK, Remembered, OnTrack, Recorded, Kept
  <2>. QED BY <1>2, <2>1, QuietBase DEF StartRemediation
<1>3. CASE NoRemediation \/ ProbeSkipped
  <2>1. TypeOK' /\ Remembered' /\ OnTrack' /\ Recorded(mem')
    BY <1>3 DEF NoRemediation, ProbeSkipped, BaseInv, TypeOK, Remembered, OnTrack, Recorded
  <2>. QED BY <1>3, <2>1, QuietBase DEF NoRemediation, ProbeSkipped
<1>4. CASE DeleteUnhealthy
  <2>1. /\ UNCHANGED <<addressed, nodeRef, flagged, view, nodes, status, mem>>
        /\ \A m \in Machines : Exists(m)' <=> Exists(m)
        /\ \A m \in Machines : phase'[m] = "absent" <=> phase[m] = "absent"
    BY <1>4 DEF DeleteUnhealthy, BaseInv, TypeOK, Exists
  <2>2. TypeOK' /\ Remembered' /\ OnTrack'
    BY <1>4 DEF DeleteUnhealthy, BaseInv, TypeOK, Remembered, OnTrack, Phases
  <2>3. Objects' /\ ViewIsPast' /\ Recorded(status)' /\ Recorded(mem)'
    BY <2>1 DEF BaseInv, TypeOK, Status, Objects, ViewIsPast, Recorded, HasData, Founded, Listed
  <2>. QED BY <2>2, <2>3 DEF BaseInv
<1>5. CASE ReconcileBootstrap
  <2>1. mem' \in Status /\ (mem'.machine = mem.machine) /\ mem'.initialized = mem.initialized
    BY <1>5 DEF ReconcileBootstrap, BaseInv, TypeOK, Status
  <2>2. BootstrapCandidates \subseteq Machines
    BY DEF BootstrapCandidates, Kept
  <2>3. TypeOK' /\ Remembered'
    BY <1>5, <2>1, <2>2 DEF ReconcileBootstrap, BaseInv, TypeOK, Remembered, StartAsking
  <2>4. OnTrack'
    BY <1>5 DEF ReconcileBootstrap, BaseInv, TypeOK, Status, OnTrack, StartAsking, LockHeld,
       WaitingForAddress, Listed, Kept, BootstrapCandidates
  <2>. QED BY <1>5, <2>1, <2>3, <2>4, QuietBase DEF ReconcileBootstrap, Recorded, BaseInv
<1>6. CASE AskNode
  <2>. DEFINE m == OldestOf(remaining)
  <2>1. m \in remaining /\ remaining \subseteq Machines /\ remaining \subseteq BootstrapCandidates
    BY <1>6, OldestType DEF AskNode, BaseInv, TypeOK, OnTrack
  <2>. HIDE DEF m
  <2>2. \/ /\ mem' = mem /\ pc' = pc /\ remaining' = remaining \ {m} /\ unknown' \in BOOLEAN
        \/ /\ Exists(m) /\ HasData(m) /\ mem' = [mem EXCEPT !.bootstrapped = TRUE, !.machine = m]
           /\ pc' = "scale" /\ remaining' = {} /\ unknown' = unknown
    BY <1>6 DEF AskNode, RecordBootstrapped, HasData, BaseInv, TypeOK, m
  <2>3. faults' \in Nat
    BY <1>6 DEF AskNode, BaseInv, TypeOK
  <2>4. /\ UNCHANGED <<objects, view, nodes, status, target, events, meddled, lagged>>
        /\ pc \in {"release", "ask"}
    BY <1>6 DEF AskNode
  <2>5. mem' \in Status /\ mem'.initialized = mem.initialized
    BY <2>1, <2>2 DEF BaseInv, TypeOK, Status
  <2>6. TypeOK' /\ Remembered'
    BY <2>1, <2>2, <2>3, <2>4, <2>5 DEF BaseInv, TypeOK, Remembered
  <2>7. OnTrack'
    BY <2>1, <2>2, <2>4, <2>5 DEF BaseInv, TypeOK, Status, OnTrack, BootstrapCandidates, Kept, Listed
  <2>8. Recorded(mem')
    BY <2>1, <2>2, <2>4 DEF BaseInv, TypeOK, Status, Recorded, Founded, Exists
  <2>. QED BY <2>4, <2>6, <2>7, <2>8, QuietBase
<1>7. CASE NoHolder
  <2>1. /\ UNCHANGED <<objects, view, nodes, status, target, bounds>> /\ pc \in {"release", "ask"}
    BY <1>7 DEF NoHolder
  <2>2. mem' = mem \/ mem' = [mem EXCEPT !.bootstrapped = FALSE, !.machine = None]
    BY <1>7 DEF NoHolder
  <2>3. mem' \in Status /\ mem'.initialized = mem.initialized /\ mem'.machine \in {mem.machine, None}
    BY <2>2 DEF BaseInv, TypeOK, Status
  <2>4. BootstrapCandidates \subseteq Machines
    BY DEF BootstrapCandidates, Kept
  <2>5. TypeOK' /\ Remembered'
    BY <1>7, <2>3, <2>4 DEF NoHolder, BaseInv, TypeOK, Remembered, StartAsking
  <2>6. OnTrack'
    BY <1>7, <2>1, <2>3 DEF NoHolder, BaseInv, TypeOK, Status, OnTrack, StartAsking,
       BootstrapCandidates, Kept, Listed
  <2>7. Recorded(mem')
    BY <2>3 DEF BaseInv, Recorded
  <2>. QED BY <2>1, <2>5, <2>6, <2>7, QuietBase
<1>8. CASE SendBootstrap
  <2>. DEFINE m == OldestOf(BootstrapCandidates)
  <2>1. m \in BootstrapCandidates /\ m \in Machines /\ m \in view.addressed
    BY <1>8, CandidateType DEF SendBootstrap, BaseInv, OnTrack, BootstrapCandidates, Kept
  <2>. HIDE DEF m
  <2>2. /\ UNCHANGED <<objects, view, data, status, target, remaining, unknown, events, meddled,
                       lagged>>
        /\ pc = "send" /\ pc' \in {"scale", "status"}
        /\ accepted' = accepted \/ (Exists(m) /\ accepted' = accepted \cup {m})
        /\ \/ mem' = mem /\ pc' = "status"
           \/ /\ mem' = [mem EXCEPT !.bootstrapped = TRUE, !.machine = m] /\ pc' = "scale"
              /\ Exists(m) /\ (HasData(m) \/ m \in accepted')
    BY <1>8 DEF SendBootstrap, RecordBootstrapped, HasData, m
  <2>3. faults' \in Nat
    BY <1>8 DEF SendBootstrap, BaseInv, TypeOK
  <2>4. mem' \in Status /\ mem'.initialized = mem.initialized
    BY <2>1, <2>2 DEF BaseInv, TypeOK, Status
  <2>5. TypeOK' /\ Remembered' /\ ViewIsPast'
    BY <2>1, <2>2, <2>3, <2>4 DEF BaseInv, TypeOK, Remembered, ViewIsPast, Listed, Exists
  <2>6. OnTrack'
    BY <2>2, <2>4 DEF BaseInv, TypeOK, Status, OnTrack
  <2>7. Exists(m) => m \in addressed
    BY <2>1 DEF BaseInv, ViewIsPast
  <2>8. Objects'
    BY <2>1, <2>2, <2>7 DEF BaseInv, Objects, Exists, HasData, Founded
  <2>9. Recorded(status)' /\ Recorded(mem)'
    BY <2>1, <2>2 DEF BaseInv, TypeOK, Status, Recorded, Exists, HasData, Founded
  <2>. QED BY <2>5, <2>6, <2>8, <2>9 DEF BaseInv
<1>9. CASE CreateMachine
  <2>1. PICK m \in Machines : phase[m] = "absent" /\ phase' = [phase EXCEPT ![m] = "running"]
    BY <1>9 DEF CreateMachine
  <2>2. /\ UNCHANGED <<addressed, nodeRef, flagged, view, nodes, status, mem, target, remaining,
                       unknown, bounds>>
        /\ pc = "scale" /\ pc' = "status"
    BY <1>9 DEF CreateMachine
  <2>3. TypeOK' /\ Remembered' /\ OnTrack'
    BY <2>1, <2>2 DEF BaseInv, TypeOK, Phases, Remembered, OnTrack
  <2>4. Objects'
    BY <2>1, <2>2 DEF BaseInv, TypeOK, Objects, Exists, HasData, Founded
  <2>5. ViewIsPast'
    <3>1. m \notin Listed
      BY <2>1 DEF BaseInv, ViewIsPast
    <3>2. m \notin view.addressed /\ m \notin view.nodeRef
      BY <2>1 DEF BaseInv, ViewIsPast
    <3>. QED BY <2>1, <2>2, <3>1, <3>2 DEF BaseInv, TypeOK, ViewIsPast, Listed, Exists
  <2>6. Recorded(status)' /\ Recorded(mem)'
    BY <2>1, <2>2 DEF BaseInv, TypeOK, Status, Recorded, Exists, HasData, Founded
  <2>. QED BY <2>3, <2>4, <2>5, <2>6 DEF BaseInv
<1>10. CASE NoCreate
  <2>1. TypeOK' /\ Remembered' /\ OnTrack' /\ Recorded(mem')
    BY <1>10 DEF NoCreate, BaseInv, TypeOK, Remembered, OnTrack, Recorded
  <2>. QED BY <1>10, <2>1, QuietBase DEF NoCreate
<1>11. CASE ProbeAnswers
  <2>1. mem' \in Status /\ mem'.machine = mem.machine
    BY <1>11 DEF ProbeAnswers, BaseInv, TypeOK, Status
  <2>2. TypeOK' /\ Remembered' /\ OnTrack' /\ Recorded(mem')
    BY <1>11, <2>1 DEF ProbeAnswers, BaseInv, TypeOK, Status, Remembered, OnTrack, Recorded
  <2>. QED BY <1>11, <2>2, QuietBase DEF ProbeAnswers
<1>12. CASE Relist
  <2>1. view' \in View
    BY <1>12, ReadBase DEF Relist
  <2>2. TypeOK' /\ Remembered' /\ OnTrack' /\ Recorded(mem')
    BY <1>12, <2>1 DEF Relist, BaseInv, TypeOK, Remembered, OnTrack, Recorded
  <2>. QED BY <1>12, <2>2, QuietBase DEF Relist
<1>13. CASE PatchStatus \/ PatchFails
  <2>1. TypeOK' /\ Remembered' /\ OnTrack' /\ Recorded(mem')
    BY <1>13 DEF PatchStatus, PatchFails, BaseInv, TypeOK, Remembered, OnTrack, Recorded
  <2>. QED BY <1>13, <2>1, QuietBase DEF PatchStatus, PatchFails
<1>14. CASE Crash
  <2>1. view' \in View
    BY <1>14, ReadBase DEF Crash
  <2>2. TypeOK'
    <3>1. faults' \in Nat
      BY <1>14 DEF Crash, BaseInv, TypeOK
    <3>2. unknown' \in BOOLEAN /\ remaining' \subseteq Machines
      BY <1>14, Zenon DEF Crash
    <3>3. target' \in IF pc' = "delete" THEN Machines ELSE {None}
      BY <1>14 DEF Crash
    <3>. QED BY <1>14, <2>1, <3>1, <3>2, <3>3 DEF Crash, BaseInv, TypeOK
  <2>3. Remembered' /\ OnTrack' /\ Recorded(mem')
    BY <1>14 DEF Crash, BaseInv, Remembered, OnTrack, Recorded
  <2>. QED BY <1>14, <2>2, <2>3, QuietBase DEF Crash
<1>. QED BY <1>1, <1>2, <1>3, <1>4, <1>5, <1>6, <1>7, <1>8, <1>9, <1>10, <1>11, <1>12, <1>13,
            <1>14 DEF Reconciler

\* The invariant holds throughout.
LEMMA BaseInvInductive ==
  /\ Init => BaseInv
  /\ BaseInv /\ [Next]_vars => BaseInv'
<1>1. ASSUME BaseInv, UNCHANGED vars PROVE BaseInv'
  BY <1>1 DEF vars, objects, nodes, bounds, BaseInv, TypeOK, Objects, ViewIsPast, Remembered,
     OnTrack, Recorded, Exists, HasData, Founded, Listed, Kept, BootstrapCandidates
<1>. QED BY <1>1, InitBase, EnvironmentBase, ReconcilerBase DEF Next

\* The invariant holds throughout.
LEMMA BaseInvariant == Spec => []BaseInv
  BY BaseInvInductive, PTL DEF Spec

\* Every state is well typed: a reconcile has a target exactly while it deletes one,
\* and a status names a machine only when it is bootstrapped.
THEOREM TypeCorrect == Spec => []TypeOK
<1>1. BaseInv => TypeOK
  BY DEF BaseInv
<1>. QED BY <1>1, BaseInvariant, PTL

\* For as long as it exists, the machine that holds the bootstrap lock holds etcd
\* data or has accepted the request.
THEOREM LockNamesAFounder == Spec => []RecordedMachineHoldsEtcd
<1>1. BaseInv => RecordedMachineHoldsEtcd
  BY DEF BaseInv, Recorded, RecordedMachineHoldsEtcd, Founded, HasData
<1>. QED BY <1>1, BaseInvariant, PTL

\* An initialized control plane is never bootstrapped, also not by a reconcile that
\* started before.
THEOREM NoBootstrapOnceInitialized == Spec => InitializedNeverBootstrapped
<1>. DEFINE Spared == status.initialized => accepted' \subseteq accepted
<1>1. ASSUME BaseInv, [Next]_vars PROVE Spared
  <2>1. CASE SendBootstrap
    BY <1>1, <2>1 DEF SendBootstrap, BaseInv, OnTrack, Remembered
  <2>2. CASE Environment
    BY <2>2 DEF Environment, ReportAddress, StartEtcd, JoinEtcd, RegisterNode, FindUnhealthy,
       FindHealthy, Delete, Remove, nodes
  <2>3. CASE (Reconciler /\ ~SendBootstrap) \/ Crash
    BY <2>3 DEF Reconciler, Begin, StartRemediation, NoRemediation, DeleteUnhealthy,
       ReconcileBootstrap, AskNode, NoHolder, CreateMachine, NoCreate, ProbeAnswers, ProbeSkipped,
       Relist, PatchStatus, PatchFails, Crash, nodes
  <2>4. CASE UNCHANGED vars
    BY <2>4 DEF vars, nodes
  <2>. QED BY <1>1, <2>1, <2>2, <2>3, <2>4 DEF Next
<1>2. Spec => [][Spared]_vars
  BY <1>1, BaseInvariant, PTL DEF Spec
<1>. QED BY <1>2 DEF InitializedNeverBootstrapped

-----------------------------------------------------------------------------
(* One etcd cluster among the machines that stay, while lists are current *)

\* The steps of a reconcile up to the creation of a Machine.
BeforeCreation == pc \notin {"idle", "status", "patch"}

\* A current list misses no Machine until the reconcile creates one.
ViewCovers ==
    ~lagged /\ BeforeCreation =>
        \A m \in Machines : (Exists(m) => m \in Listed) /\ (Running(m) => m \in Kept)

\* A Machine is created only when all others hold etcd data: at most one does not.
OneEmpty ==
    ~lagged =>
        \A m, n \in Machines : Exists(m) /\ Exists(n) /\ ~HasData(m) /\ ~HasData(n) => m = n

\* The cluster the empty machine will join is the one of all the others, if any of
\* them stays.
Agreed ==
    ~lagged =>
        \A u \in Machines : Exists(u) /\ ~HasData(u) =>
            \/ \A n \in Machines : Running(n) => n = u
            \/ \A a, b \in Machines : HasData(a) /\ HasData(b) => data[a] = data[b]

OneCluster ==
    ~lagged =>
        \A m, n \in Machines :
            Running(m) /\ Running(n) /\ HasData(m) /\ HasData(n) => data[m] = data[n]

\* A machine that was asked to found a cluster and has not yet is the only one that
\* stays.
SoleAccepted ==
    ~lagged =>
        \A m \in Machines : m \in accepted /\ ~HasData(m) =>
            \A n \in Machines : Running(n) => n = m

\* A machine that said it holds no etcd data is the only one that does not, and the
\* others that stay are still to be asked.
Sole ==
    ~lagged /\ pc \in {"ask", "send"} /\ ~unknown =>
        \A c \in BootstrapCandidates \ remaining : \A n \in Machines \ {c} :
            Exists(n) => HasData(n) /\ (Running(n) => n \in remaining)

\* A machine without an address cannot be asked, but all others hold etcd data then.
Unaddressed ==
    ~lagged /\ BeforeCreation =>
        \A n \in Machines : Running(n) /\ n \notin view.addressed =>
            \A c \in Machines \ {n} : Exists(c) => HasData(c)

NodesInv == OneEmpty /\ Agreed /\ OneCluster /\ SoleAccepted
ClusterInv == NodesInv /\ ViewCovers /\ Sole /\ Unaddressed

\* Etcd data stays with its Machine, and no Machine comes back or changes clusters.
NodesOnlyGo ==
    /\ lagged' = lagged /\ view' = view /\ pc' = pc /\ remaining' = remaining
    /\ unknown' = unknown
    /\ \A m \in Machines : /\ Exists(m)' => Exists(m) /\ (HasData(m) => HasData(m)')
                           /\ Running(m)' => Running(m)

\* Outside the reconcile no Machine comes, and none loses its data before it goes.
LEMMA ReconcileUnseen ==
  ASSUME ClusterInv, NodesOnlyGo
  PROVE  ViewCovers' /\ Sole' /\ Unaddressed'
<1>. USE DEF NodesOnlyGo, ClusterInv
<1>1. ViewCovers' /\ Unaddressed'
  BY DEF ViewCovers, Unaddressed, BeforeCreation, Listed, Kept
<1>2. Sole'
  BY DEF Sole, BootstrapCandidates, Kept
<1>. QED BY <1>1, <1>2

\* A machine gets etcd data: the one that was asked founds its cluster, any other
\* joins one.
LEMMA EnvironmentCluster == ASSUME BaseInv, ClusterInv, Environment PROVE ClusterInv'
<1>. USE DEF objects, nodes, bounds
<1>. USE NoneIsNone
<1>1. ASSUME NEW m \in Machines, Exists(m), ~HasData(m), NEW c \in Machines,
             data' = [data EXCEPT ![m] = c],
             UNCHANGED <<objects, view, accepted, status, mem, pc, remaining, unknown, bounds>>,
             \/ \A n \in Machines : Running(n) => n = m
             \/ \A a \in Machines : HasData(a) => data[a] = c
      PROVE  ClusterInv'
  <2>1. /\ \A n \in Machines \ {m} : data'[n] = data[n]
        /\ data'[m] = c /\ HasData(m)'
    BY <1>1 DEF BaseInv, TypeOK, HasData
  <2>2. NodesOnlyGo
    BY <1>1, <2>1 DEF NodesOnlyGo, Exists, Running, HasData
  <2>3. \A n \in Machines \ {m} : HasData(n)' <=> HasData(n)
    BY <2>1 DEF HasData
  <2>4. ~lagged' => \A n \in Machines : Exists(n)' => HasData(n)'
    BY <1>1, <2>1, <2>3 DEF ClusterInv, NodesInv, OneEmpty, Exists
  <2>5. OneEmpty' /\ Agreed'
    BY <2>4 DEF OneEmpty, Agreed
  <2>6. OneCluster'
    BY <1>1, <2>1, <2>3 DEF ClusterInv, NodesInv, OneCluster, Running
  <2>7. SoleAccepted'
    BY <1>1, <2>1, <2>3 DEF ClusterInv, NodesInv, SoleAccepted, Running
  <2>. QED BY <2>2, <2>5, <2>6, <2>7, ReconcileUnseen DEF ClusterInv, NodesInv
<1>2. ASSUME NEW m \in Machines, StartEtcd(m) PROVE ClusterInv'
  <2>1. lagged \/ \A n \in Machines : Running(n) => n = m
    BY <1>2 DEF StartEtcd, ClusterInv, NodesInv, SoleAccepted, HasData
  <2>2. CASE lagged
    BY <1>2, <2>2 DEF StartEtcd, ClusterInv, NodesInv, ViewCovers, Sole, Unaddressed, OneEmpty,
       Agreed, OneCluster, SoleAccepted
  <2>. QED BY <1>1, <1>2, <2>1, <2>2 DEF StartEtcd, HasData
<1>3. ASSUME NEW m \in Machines, JoinEtcd(m) PROVE ClusterInv'
  <2>1. PICK n \in Machines : Exists(n) /\ HasData(n) /\ data' = [data EXCEPT ![m] = data[n]]
    BY <1>3 DEF JoinEtcd, HasData
  <2>2. data[n] \in Machines
    BY <2>1 DEF BaseInv, TypeOK, HasData
  <2>3. \/ lagged
        \/ \A k \in Machines : Running(k) => k = m
        \/ \A a \in Machines : HasData(a) => data[a] = data[n]
    BY <1>3, <2>1 DEF JoinEtcd, ClusterInv, NodesInv, Agreed, HasData
  <2>4. CASE lagged
    BY <1>3, <2>4 DEF JoinEtcd, ClusterInv, NodesInv, ViewCovers, Sole, Unaddressed, OneEmpty,
       Agreed, OneCluster, SoleAccepted
  <2>. QED BY <1>1, <1>3, <2>1, <2>2, <2>3, <2>4 DEF JoinEtcd, HasData
<1>4. ASSUME NEW m \in Machines,
             \/ ReportAddress(m) \/ RegisterNode(m) \/ FindUnhealthy(m) \/ FindHealthy(m)
             \/ Delete(m)
      PROVE  ClusterInv'
  <2>1. /\ UNCHANGED <<accepted, data, lagged>>
        /\ \A n \in Machines : Exists(n)' <=> Exists(n)
        /\ \A n \in Machines : Running(n)' => Running(n)
    BY <1>4 DEF ReportAddress, RegisterNode, FindUnhealthy, FindHealthy, Delete, Exists, Running,
       BaseInv, TypeOK
  <2>2. NodesOnlyGo
    BY <1>4, <2>1 DEF NodesOnlyGo, HasData, ReportAddress, RegisterNode, FindUnhealthy,
       FindHealthy, Delete
  <2>3. NodesInv'
    BY <2>1 DEF ClusterInv, NodesInv, OneEmpty, Agreed, OneCluster, SoleAccepted, HasData
  <2>. QED BY <2>2, <2>3, ReconcileUnseen DEF ClusterInv
<1>5. ASSUME NEW m \in Machines, Remove(m) PROVE ClusterInv'
  <2>1. /\ lagged' = lagged /\ accepted' = accepted \ {m} /\ ~HasData(m)' /\ ~Exists(m)'
        /\ \A n \in Machines \ {m} :
             /\ data'[n] = data[n] /\ (HasData(n)' <=> HasData(n))
             /\ (Exists(n)' <=> Exists(n)) /\ (Running(n)' <=> Running(n))
        /\ ~Running(m)'
    BY <1>5 DEF Remove, Exists, Running, HasData, BaseInv, TypeOK
  <2>2. NodesOnlyGo
    BY <1>5, <2>1 DEF NodesOnlyGo, Remove
  <2>3. OneEmpty' /\ OneCluster' /\ SoleAccepted'
    BY <2>1 DEF ClusterInv, NodesInv, OneEmpty, OneCluster, SoleAccepted
  <2>4. Agreed'
    BY <2>1 DEF ClusterInv, NodesInv, Agreed
  <2>. QED BY <2>2, <2>3, <2>4, ReconcileUnseen DEF ClusterInv, NodesInv
<1>. QED BY <1>2, <1>3, <1>4, <1>5 DEF Environment

\* Steps that touch neither Machines nor nodes keep what is known of the nodes.
LEMMA SameNodes ==
  ASSUME ClusterInv, UNCHANGED <<phase, data, accepted>>, lagged' = lagged \/ lagged' = TRUE
  PROVE  NodesInv'
  BY DEF ClusterInv, NodesInv, OneEmpty, Agreed, OneCluster, SoleAccepted, HasData, Exists, Running

\* Steps that go on with the same list, or are past the creation.
LEMMA SameList ==
  ASSUME ClusterInv, UNCHANGED <<phase, data, lagged>>,
         BeforeCreation' => BeforeCreation /\ view' = view
  PROVE  ViewCovers' /\ Unaddressed'
  BY DEF ClusterInv, ViewCovers, Unaddressed, Listed, Kept, HasData, Exists, Running

\* Asking a node: no second one that holds no data is ever found.
LEMMA AskNodeCluster == ASSUME BaseInv, ClusterInv, AskNode PROVE ClusterInv'
<1>. USE DEF objects, nodes, bounds
<1>. DEFINE c == OldestOf(remaining)
<1>1. c \in remaining /\ remaining \subseteq BootstrapCandidates /\ c \in Machines
  BY OldestType DEF AskNode, BaseInv, TypeOK, OnTrack
<1>. HIDE DEF c
<1>2. UNCHANGED <<phase, data, accepted, lagged, view>> /\ pc \in {"release", "ask"}
  BY DEF AskNode
<1>3. NodesInv' /\ ViewCovers' /\ Unaddressed'
  BY <1>2, SameNodes, SameList DEF BeforeCreation
<1>4. \/ pc' = "scale"
      \/ unknown' = TRUE
      \/ /\ pc' = pc /\ unknown' = unknown /\ remaining' = remaining \ {c}
         /\ Exists(c) /\ ~HasData(c)
  BY DEF AskNode, HasData, c
<1>5. ASSUME ~lagged, pc = "ask", ~unknown, remaining' = remaining \ {c}, Exists(c), ~HasData(c),
             NEW n \in Machines \ {c}, Exists(n)
      PROVE  HasData(n) /\ (Running(n) => n \in remaining \ {c})
  <2>1. HasData(n)
    BY <1>1, <1>5 DEF ClusterInv, NodesInv, OneEmpty
  <2>2. ASSUME Running(n) PROVE n \in remaining
    <3>1. n \in Kept
      BY <1>5, <2>2 DEF ClusterInv, ViewCovers, BeforeCreation
    <3>2. n \in view.addressed
      BY <1>1, <1>5, <2>2 DEF ClusterInv, Unaddressed, BeforeCreation
    <3>3. n \in BootstrapCandidates
      BY <3>1, <3>2 DEF BootstrapCandidates
    <3>4. n \notin BootstrapCandidates \ remaining
      BY <1>1, <1>5 DEF ClusterInv, Sole
    <3>. QED BY <3>3, <3>4
  <2>. QED BY <1>5, <2>1, <2>2
<1>6. BootstrapCandidates' = BootstrapCandidates /\ BootstrapCandidates \subseteq Machines
  BY <1>2 DEF BootstrapCandidates, Kept
<1>7. ASSUME ~lagged, pc = "ask", ~unknown, remaining' = remaining \ {c}, Exists(c), ~HasData(c),
             NEW b \in BootstrapCandidates \ (remaining \ {c}), NEW n \in Machines \ {b},
             Exists(n)
      PROVE  HasData(n) /\ (Running(n) => n \in remaining \ {c})
  <2>1. CASE b = c
    BY <1>5, <1>7, <2>1
  <2>2. CASE b # c
    BY <1>1, <1>7, <2>2 DEF ClusterInv, Sole
  <2>. QED BY <2>1, <2>2
<1>8. Sole'
  BY <1>2, <1>4, <1>6, <1>7 DEF Sole, HasData, Exists, Running
<1>. QED BY <1>3, <1>8 DEF ClusterInv

\* Every step of the reconcile.
LEMMA ReconcilerCluster == ASSUME BaseInv, ClusterInv, Reconciler \/ Crash PROVE ClusterInv'
<1>. USE NoneIsNone DEF objects, nodes, bounds
<1>1. CASE Begin
  <2>1. NodesInv'
    BY <1>1, SameNodes DEF Begin
  <2>2. CASE lagged'
    BY <2>1, <2>2 DEF ClusterInv, ViewCovers, Sole, Unaddressed
  <2>3. CASE ~lagged'
    <3>1. view' = Current /\ UNCHANGED <<phase, addressed, data, lagged>> /\ pc' = "remediate"
      BY <1>1, <2>3 DEF Begin
    <3>2. view'.phase = phase /\ view'.addressed = addressed
      BY <3>1 DEF Current
    <3>3. ViewCovers' /\ Sole'
      BY <3>1, <3>2 DEF ViewCovers, Sole, Listed, Kept, Exists, Running
    <3>4. \A n \in Machines : n \notin addressed => ~HasData(n)
      BY DEF BaseInv, Objects, Founded
    <3>5. Unaddressed'
      BY <3>1, <3>2, <3>4 DEF Unaddressed, ClusterInv, NodesInv, OneEmpty, Exists, Running, HasData
    <3>. QED BY <2>1, <3>3, <3>5 DEF ClusterInv
  <2>. QED BY <2>2, <2>3
<1>2. CASE StartRemediation \/ NoRemediation \/ ReconcileBootstrap \/ NoHolder
  <2>1. UNCHANGED <<phase, data, accepted, lagged, view>> /\ BeforeCreation
    BY <1>2 DEF StartRemediation, NoRemediation, ReconcileBootstrap, NoHolder, BeforeCreation
  <2>2. Sole'
    <3>1. BootstrapCandidates' = BootstrapCandidates
      BY <2>1 DEF BootstrapCandidates, Kept
    <3>2. \/ pc' \notin {"ask", "send"}
          \/ remaining' = BootstrapCandidates
          \/ pc = "ask" /\ UNCHANGED <<remaining, unknown>>
      BY <1>2 DEF StartRemediation, NoRemediation, ReconcileBootstrap, NoHolder, StartAsking
    <3>. QED BY <2>1, <3>1, <3>2 DEF ClusterInv, Sole, HasData, Exists, Running
  <2>. QED BY <2>1, <2>2, SameNodes, SameList DEF ClusterInv
<1>3. CASE AskNode
  BY <1>3, AskNodeCluster
<1>4. CASE DeleteUnhealthy
  <2>1. /\ UNCHANGED <<data, accepted, lagged>> /\ pc' = "status"
        /\ \A n \in Machines : (Exists(n)' <=> Exists(n)) /\ (Running(n)' => Running(n))
    BY <1>4 DEF DeleteUnhealthy, Exists, Running, BaseInv, TypeOK
  <2>2. NodesInv'
    BY <2>1 DEF ClusterInv, NodesInv, OneEmpty, Agreed, OneCluster, SoleAccepted, HasData
  <2>. QED BY <2>1, <2>2 DEF ClusterInv, ViewCovers, Sole, Unaddressed, BeforeCreation
<1>5. CASE SendBootstrap
  <2>. DEFINE m == OldestOf(BootstrapCandidates)
  <2>1. m \in BootstrapCandidates /\ m \in Machines
    BY <1>5, CandidateType DEF SendBootstrap, BaseInv, OnTrack, BootstrapCandidates, Kept
  <2>. HIDE DEF m
  <2>2. /\ UNCHANGED <<phase, data, lagged, view>> /\ pc = "send" /\ pc' \in {"scale", "status"}
        /\ accepted' \in {accepted, accepted \cup {m}}
    BY <1>5 DEF SendBootstrap, m
  <2>3. ~lagged => \A n \in Machines : Running(n) => n = m
    <3>1. remaining = {} /\ ~unknown
      BY <2>2 DEF BaseInv, OnTrack
    <3>. QED BY <2>1, <2>2, <3>1 DEF ClusterInv, Sole, Exists, Running
  <2>4. SoleAccepted'
    BY <2>2, <2>3 DEF ClusterInv, NodesInv, SoleAccepted, HasData, Running
  <2>5. OneEmpty' /\ Agreed' /\ OneCluster'
    BY <2>2 DEF ClusterInv, NodesInv, OneEmpty, Agreed, OneCluster, HasData, Exists, Running
  <2>6. ViewCovers' /\ Unaddressed' /\ Sole'
    BY <2>2, SameList DEF BeforeCreation, Sole
  <2>. QED BY <2>4, <2>5, <2>6 DEF ClusterInv, NodesInv
<1>6. CASE CreateMachine
  <2>1. PICK m \in Machines : phase[m] = "absent" /\ phase' = [phase EXCEPT ![m] = "running"]
    BY <1>6 DEF CreateMachine
  <2>2. UNCHANGED <<data, accepted, view, lagged>> /\ pc = "scale" /\ pc' = "status"
    BY <1>6 DEF CreateMachine
  <2>3. /\ ~Exists(m) /\ ~HasData(m) /\ m \notin accepted
        /\ \A n \in Machines \ {m} : (Exists(n)' <=> Exists(n)) /\ (Running(n)' <=> Running(n))
    BY <2>1 DEF BaseInv, TypeOK, Objects, Exists, Running, HasData
  <2>4. ~lagged => \A a, b \in Machines \ {m} : Exists(a) /\ Exists(b)
                     => HasData(a) /\ data[a] = data[b]
    BY <1>6, <2>2 DEF CreateMachine, PreflightOK, ClusterInv, ViewCovers, BeforeCreation, HasData
  <2>5. \A a \in Machines : HasData(a) => Exists(a)
    BY DEF BaseInv, Objects, HasData
  <2>6. OneEmpty' /\ Agreed' /\ OneCluster'
    BY <2>2, <2>3, <2>4, <2>5 DEF OneEmpty, Agreed, OneCluster, HasData, Exists, Running
  <2>7. SoleAccepted'
    <3>1. \A a \in accepted : Exists(a)
      BY DEF BaseInv, TypeOK, Objects
    <3>. QED BY <2>2, <2>3, <2>4, <3>1 DEF SoleAccepted, HasData
  <2>. QED BY <2>2, <2>6, <2>7 DEF ClusterInv, NodesInv, ViewCovers, Sole, Unaddressed, BeforeCreation
<1>7. CASE NoCreate \/ ProbeAnswers \/ ProbeSkipped \/ Relist \/ PatchStatus \/ PatchFails \/ Crash
  <2>1. UNCHANGED <<phase, data, accepted, lagged>> /\ pc' \in {"idle", "status", "patch"}
    BY <1>7 DEF NoCreate, ProbeAnswers, ProbeSkipped, Relist, PatchStatus, PatchFails, Crash
  <2>. QED BY <2>1, SameNodes, SameList DEF ClusterInv, Sole, BeforeCreation
<1>. QED BY <1>1, <1>2, <1>3, <1>4, <1>5, <1>6, <1>7 DEF Reconciler

\* Every step keeps one cluster.
LEMMA ClusterStep == ASSUME BaseInv, ClusterInv, [Next]_vars PROVE ClusterInv'
<1>1. CASE UNCHANGED vars
  BY <1>1 DEF vars, objects, nodes, bounds, ClusterInv, NodesInv, ViewCovers, OneEmpty, Agreed,
     OneCluster, SoleAccepted, Sole, Unaddressed, BeforeCreation, HasData, Exists, Running, Listed,
     Kept, BootstrapCandidates
<1>. QED BY <1>1, EnvironmentCluster, ReconcilerCluster DEF Next

-----------------------------------------------------------------------------
(* One etcd cluster when lists may be outdated, but nothing is lost or deleted *)

Undisturbed == faults = 0 /\ \A m \in Machines : phase[m] \in {"absent", "running"}

\* What the first request founded is recorded before anything else is decided, and
\* the machine that is recorded is on every list that is read after.
Founder ==
    /\ accepted # {} => mem.bootstrapped
    /\ mem.bootstrapped => mem.machine # None
    /\ mem.initialized => mem.bootstrapped
    /\ mem.machine # None => mem.machine \in Listed
    /\ \A m \in Machines : HasData(m) => data[m] \in accepted
    /\ \A a, b \in accepted : a = b

OneFounder == Undisturbed => Founder

\* Nothing is undone: what is undisturbed was so before.
LEMMA UndisturbedBefore == ASSUME BaseInv, [Next]_vars, Undisturbed' PROVE Undisturbed
<1>. USE DEF objects, nodes, bounds, Undisturbed, NoFault, Fault
<1>1. CASE faults' = faults /\ UNCHANGED phase
  BY <1>1
<1>2. ASSUME faults' = faults + 1 PROVE FALSE
  BY <1>2 DEF BaseInv, TypeOK
<1>3. ASSUME NEW m \in Machines, Delete(m) \/ Remove(m) PROVE FALSE
  BY <1>3 DEF Delete, Remove, BaseInv, TypeOK
<1>4. CASE DeleteUnhealthy
  <2>1. target \in Machines
    BY <1>4 DEF DeleteUnhealthy, BaseInv, TypeOK
  <2>2. \A m \in Machines : phase[m] \in {"absent", "running"}
    BY <1>4, <2>1 DEF DeleteUnhealthy, BaseInv, TypeOK
  <2>. QED BY <1>2, <1>4, <2>2 DEF DeleteUnhealthy
<1>5. CASE CreateMachine
  BY <1>5 DEF CreateMachine, BaseInv, TypeOK
<1>6. CASE Environment
  BY <1>1, <1>3, <1>6 DEF Environment, ReportAddress, StartEtcd, JoinEtcd, RegisterNode,
     FindUnhealthy, FindHealthy
<1>7. CASE \/ Begin \/ StartRemediation \/ NoRemediation \/ ReconcileBootstrap \/ AskNode
           \/ NoHolder \/ SendBootstrap \/ NoCreate \/ ProbeAnswers \/ ProbeSkipped \/ Relist
           \/ PatchStatus \/ PatchFails \/ Crash
  BY <1>1, <1>2, <1>7 DEF Begin, StartRemediation, NoRemediation, ReconcileBootstrap, AskNode,
     NoHolder, SendBootstrap, NoCreate, ProbeAnswers, ProbeSkipped, Relist, PatchStatus,
     PatchFails, Crash
<1>8. CASE UNCHANGED vars
  BY <1>1, <1>8 DEF vars
<1>. QED BY <1>4, <1>5, <1>6, <1>7, <1>8 DEF Next, Reconciler

\* Every step keeps the founder the only one.
LEMMA FounderStep ==
  ASSUME BaseInv, Founder, Undisturbed, Undisturbed', [Next]_vars
  PROVE  Founder'
<1>. USE NoneIsNone DEF objects, nodes, bounds
<1>1. ASSUME faults' = faults + 1 PROVE FALSE
  BY <1>1 DEF Undisturbed
<1>2. ASSUME UNCHANGED <<view, data, accepted>>, mem' = mem PROVE Founder'
  BY <1>2 DEF Founder, HasData, Listed
<1>3. ASSUME view' = Current, UNCHANGED <<phase, data, accepted>>, mem' = mem PROVE Founder'
  <2>1. view'.phase = phase
    BY <1>3 DEF Current
  <2>2. \A m \in Listed : m \in Listed'
    BY <2>1 DEF BaseInv, ViewIsPast, Undisturbed, Listed
  <2>. QED BY <1>3, <2>2 DEF Founder, HasData
<1>4. CASE Environment
  <2>1. CASE \E m \in Machines : StartEtcd(m) \/ JoinEtcd(m)
    <3>1. PICK m \in Machines : StartEtcd(m) \/ JoinEtcd(m)
      BY <2>1
    <3>2. PICK c \in accepted : data' = [data EXCEPT ![m] = c]
      BY <3>1 DEF StartEtcd, JoinEtcd, Founder, HasData
    <3>3. UNCHANGED <<view, accepted, mem>>
      BY <3>1 DEF StartEtcd, JoinEtcd
    <3>4. \A n \in Machines : HasData(n)' => data'[n] \in accepted
      BY <3>2 DEF Founder, HasData, BaseInv, TypeOK
    <3>. QED BY <3>3, <3>4 DEF Founder, Listed
  <2>2. ASSUME NEW m \in Machines, Remove(m) PROVE FALSE
    BY <2>2 DEF Remove, Undisturbed
  <2>. QED BY <1>2, <1>4, <2>1, <2>2 DEF Environment, ReportAddress, RegisterNode, FindUnhealthy,
           FindHealthy, Delete
<1>5. CASE Begin
  <2>1. mem' = mem
    BY <1>5 DEF Begin, BaseInv, Remembered
  <2>. QED BY <1>2, <1>3, <1>5, <2>1 DEF Begin
<1>6. CASE Relist
  BY <1>3, <1>6 DEF Relist
<1>7. CASE ReconcileBootstrap
  <2>1. mem' = mem
    BY <1>7 DEF ReconcileBootstrap, Founder
  <2>. QED BY <1>2, <1>7, <2>1 DEF ReconcileBootstrap
<1>8. CASE AskNode
  <2>. DEFINE m == OldestOf(remaining)
  <2>1. m \in BootstrapCandidates /\ m \in Machines /\ m \in Listed
    BY <1>8, OldestType DEF AskNode, BaseInv, TypeOK, OnTrack, BootstrapCandidates, Kept, Listed
  <2>. HIDE DEF m
  <2>2. /\ UNCHANGED <<view, data, accepted>>
        /\ mem' = mem \/ mem' = [mem EXCEPT !.bootstrapped = TRUE, !.machine = m]
    BY <1>8 DEF AskNode, RecordBootstrapped, m
  <2>3. CASE mem' = [mem EXCEPT !.bootstrapped = TRUE, !.machine = m]
    <3>1. mem'.bootstrapped /\ mem'.machine = m
      BY <2>3 DEF BaseInv, TypeOK, Status
    <3>. QED BY <2>1, <2>2, <3>1 DEF Founder, HasData, Listed
  <2>. QED BY <1>2, <2>2, <2>3
<1>9. CASE NoHolder
  <2>1. pc # "release"
    BY DEF BaseInv, OnTrack, Founder
  <2>. QED BY <1>2, <1>9, <2>1 DEF NoHolder
<1>10. CASE SendBootstrap
  <2>. DEFINE m == OldestOf(BootstrapCandidates)
  <2>1. m \in BootstrapCandidates /\ m \in Machines /\ m \in Listed
    BY <1>10, CandidateType DEF SendBootstrap, BaseInv, OnTrack, BootstrapCandidates, Kept, Listed
  <2>. HIDE DEF m
  <2>2. accepted = {} /\ \A n \in Machines : ~HasData(n)
    BY <1>10 DEF SendBootstrap, BaseInv, OnTrack, Founder
  <2>3. /\ UNCHANGED <<view, data>>
        /\ \/ mem' = mem /\ accepted' = accepted
           \/ mem' = [mem EXCEPT !.bootstrapped = TRUE, !.machine = m] /\ accepted' = {m}
    BY <1>1, <1>10, <2>1, <2>2 DEF SendBootstrap, RecordBootstrapped, HasData, Fault, m
  <2>4. CASE mem' = [mem EXCEPT !.bootstrapped = TRUE, !.machine = m] /\ accepted' = {m}
    <3>1. mem'.bootstrapped /\ mem'.machine = m
      BY <2>4 DEF BaseInv, TypeOK, Status
    <3>. QED BY <2>1, <2>2, <2>3, <2>4, <3>1 DEF Founder, HasData, Listed
  <2>. QED BY <1>2, <2>3, <2>4
<1>11. CASE ProbeAnswers
  <2>1. \E m \in Machines : HasData(m)
    BY <1>11 DEF ProbeAnswers, HasData
  <2>2. mem.bootstrapped
    BY <2>1 DEF Founder
  <2>3. mem'.bootstrapped /\ mem'.machine = mem.machine
    BY <1>11, <2>2 DEF ProbeAnswers, BaseInv, TypeOK, Status
  <2>. QED BY <1>11, <2>2, <2>3 DEF ProbeAnswers, Founder, HasData, Listed
<1>12. CASE \/ StartRemediation \/ NoRemediation \/ DeleteUnhealthy \/ CreateMachine \/ NoCreate
            \/ ProbeSkipped \/ PatchStatus
  BY <1>2, <1>12 DEF StartRemediation, NoRemediation, DeleteUnhealthy, CreateMachine, NoCreate,
     ProbeSkipped, PatchStatus
<1>13. CASE PatchFails \/ Crash
  BY <1>1, <1>13 DEF PatchFails, Crash, Fault
<1>14. CASE UNCHANGED vars
  BY <1>2, <1>14 DEF vars
<1>. QED BY <1>4, <1>5, <1>6, <1>7, <1>8, <1>9, <1>10, <1>11, <1>12, <1>13, <1>14
         DEF Next, Reconciler

\* The initial state, in which nothing is founded.
LEMMA InitCluster == Init => ClusterInv /\ OneFounder
  BY NoneIsNone DEF Init, ClusterInv, NodesInv, ViewCovers, OneEmpty, Agreed, OneCluster,
     SoleAccepted, Sole, Unaddressed, BeforeCreation, OneFounder, Founder, NoStatus, HasData,
     Exists, Running, Listed

\* Two bootstrapped machines would be two etcd clusters: the machines that stay hold
\* data of one cluster only, whatever answers, patches and managers were lost; also
\* when a list was outdated, as long as nothing was lost or deleted besides.
THEOREM OneClusterIsKept == Spec => []KeptInOneCluster
<1>. DEFINE Inv == BaseInv /\ ClusterInv /\ OneFounder
<1>1. Init => Inv
  BY InitBase, InitCluster
<1>2. Inv /\ [Next]_vars => Inv'
  <2>. SUFFICES ASSUME Inv, [Next]_vars PROVE Inv'
    OBVIOUS
  <2>1. BaseInv'
    BY BaseInvInductive
  <2>2. ClusterInv'
    BY ClusterStep
  <2>3. OneFounder'
    BY UndisturbedBefore, FounderStep DEF OneFounder
  <2>. QED BY <2>1, <2>2, <2>3
<1>3. Inv => KeptInOneCluster
  BY DEF ClusterInv, NodesInv, OneCluster, OneFounder, Founder, Undisturbed, KeptInOneCluster,
     Running, HasData
<1>. QED BY <1>1, <1>2, <1>3, PTL DEF Spec

-----------------------------------------------------------------------------
(* Etcd outlives the remediations of a bootstrapped control plane *)

Few == ~meddled /\ ~lagged /\ faults < 2
Held == \E m \in Machines : Running(m) /\ Founded(m)
HeldData == \E m \in Machines : Running(m) /\ HasData(m)
Unknown(s) == ~s.bootstrapped /\ ~s.initialized

\* A control plane that is known to be bootstrapped or initialized has a holder that
\* stays; before it is initialized that is the machine it names, or one with data.
HolderKept(s) == ~Unknown(s) => Held
MachineKept(s) ==
    s.bootstrapped /\ ~s.initialized => s.machine # None /\ (Running(s.machine) \/ HeldData)

\* Nothing is founded before it is recorded, unless the record was lost.
NoneYet == faults = 0 /\ Unknown(mem) => \A m \in Machines : ~Founded(m)

\* While nothing is recorded there is one Machine at most; losing a record that was
\* made in between leaves that one.
Single ==
    (faults = 0 /\ Unknown(status)) \/ Unknown(mem) =>
        \A m, n \in Machines : Exists(m) /\ Exists(n) => m = n

StatusKept == status.bootstrapped => mem.bootstrapped

Records ==
    /\ HolderKept(status) /\ HolderKept(mem) /\ MachineKept(status) /\ MachineKept(mem)
    /\ NoneYet /\ Single /\ StatusKept

\* The list is current enough: what was not deleted when it was read stays until a
\* remediation, which only takes a Machine that was flagged.
KeptRun == BeforeCreation => \A m \in Kept : Running(m)
KeptFlagged == pc = "status" => \A m \in Kept : Running(m) \/ m \in view.flagged
NoNodes == BeforeCreation /\ faults = 0 /\ Unknown(status) => view.nodeRef \cap Listed = {}
NewEmpty ==
    pc = "status" /\ Unknown(mem) =>
        \A m \in Machines : Exists(m) /\ m \notin Listed => ~Founded(m)
SingleListed == pc # "idle" /\ Unknown(mem) => \A a, b \in Listed : a = b

Lists == KeptRun /\ KeptFlagged /\ NoNodes /\ NewEmpty /\ SingleListed

\* The Machine to remediate is not the only holder, and a release that asked every
\* node so far still has a holder to ask.
Deleting ==
    pc = "delete" =>
        /\ target \in view.flagged
        /\ mem.bootstrapped => \E h \in Machines \ {target} : Running(h) /\ HasData(h)
Releasing ==
    pc = "release" /\ ~unknown => \E h \in remaining : Running(h) /\ HasData(h)

Outlive == Records /\ Lists /\ Deleting /\ Releasing

\* Steps that change no Machine, no node and no record.
LEMMA SameRecords ==
  ASSUME Records, UNCHANGED <<phase, data, accepted, mem, status>>, faults' = 0 => faults = 0
  PROVE  Records'
  BY DEF Records, HolderKept, MachineKept, NoneYet, Single, StatusKept, Held, HeldData, Unknown,
     Founded, HasData, Running, Exists

\* Steps that go on with the list of a reconcile before it creates a Machine.
LEMMA SameLists ==
  ASSUME Few, ClusterInv, Lists, BeforeCreation, UNCHANGED <<phase, view, status>>,
         faults' = 0 => faults = 0, Unknown(mem)' => Unknown(mem)
  PROVE  Lists'
<1>1. Listed' = Listed /\ Kept' = Kept
  BY DEF Listed, Kept
<1>2. \A m \in Machines : Exists(m)' => m \in Listed
  BY DEF Few, ClusterInv, ViewCovers, Exists
<1>3. KeptRun' /\ KeptFlagged'
  BY <1>1 DEF Lists, KeptRun, KeptFlagged, Running
<1>4. NoNodes' /\ NewEmpty' /\ SingleListed'
  BY <1>1, <1>2 DEF Lists, NoNodes, NewEmpty, SingleListed, BeforeCreation, Unknown
<1>. QED BY <1>3, <1>4 DEF Lists

\* What happens outside the reconcile, except that a user deletes a Machine.
LEMMA EnvironmentOutlives ==
  ASSUME BaseInv, Outlive, Environment, Few, Few'
  PROVE  Outlive'
<1>. USE NoneIsNone DEF objects, nodes, bounds
<1>1. ASSUME NEW m \in Machines,
             ReportAddress(m) \/ RegisterNode(m) \/ FindUnhealthy(m) \/ FindHealthy(m)
      PROVE  Outlive'
  <2>1. UNCHANGED <<phase, data, accepted, view, status, mem, pc, target, remaining, unknown,
                    faults>>
    BY <1>1 DEF ReportAddress, RegisterNode, FindUnhealthy, FindHealthy
  <2>2. Records'
    BY <2>1, SameRecords DEF Outlive
  <2>3. Lists'
    BY <2>1 DEF Outlive, Lists, KeptRun, KeptFlagged, NoNodes, NewEmpty, SingleListed,
       BeforeCreation, Kept, Listed, Running, Exists, Founded, HasData, Unknown
  <2>4. Deleting' /\ Releasing'
    BY <2>1 DEF Outlive, Deleting, Releasing, Running, HasData
  <2>. QED BY <2>2, <2>3, <2>4 DEF Outlive
<1>2. ASSUME NEW m \in Machines, StartEtcd(m) \/ JoinEtcd(m) PROVE Outlive'
  <2>1. PICK c \in Machines : data' = [data EXCEPT ![m] = c]
    BY <1>2 DEF StartEtcd, JoinEtcd, BaseInv, TypeOK
  <2>2. UNCHANGED <<phase, accepted, view, status, mem, pc, target, remaining, unknown, faults>>
    BY <1>2 DEF StartEtcd, JoinEtcd
  <2>3. /\ \A n \in Machines : HasData(n) => HasData(n)'
        /\ \A n \in Machines \ {m} : HasData(n)' => HasData(n)
    BY <2>1 DEF BaseInv, TypeOK, HasData
  <2>4. Founded(m) \/ (~HasData(m) /\ Exists(m) /\ \E n \in Machines : Exists(n) /\ HasData(n))
    BY <1>2 DEF StartEtcd, JoinEtcd, Founded, HasData
  <2>5. \A n \in Machines : Running(n)' = Running(n) /\ Exists(n)' = Exists(n)
    BY <2>2 DEF Running, Exists
  <2>6. HolderKept(status)' /\ HolderKept(mem)' /\ MachineKept(status)' /\ MachineKept(mem)'
    BY <2>2, <2>3, <2>5 DEF Outlive, Records, HolderKept, MachineKept, Held, HeldData, Unknown,
       Founded, BaseInv, TypeOK, Status
  <2>7. NoneYet'
    BY <2>2, <2>3, <2>4 DEF Outlive, Records, NoneYet, Founded, Unknown
  <2>8. Single' /\ StatusKept'
    BY <2>2, <2>5 DEF Outlive, Records, Single, StatusKept, Unknown
  <2>9. KeptRun' /\ KeptFlagged' /\ NoNodes' /\ SingleListed'
    BY <2>2 DEF Outlive, Lists, KeptRun, KeptFlagged, NoNodes, SingleListed, BeforeCreation, Kept,
       Listed, Running, Unknown
  <2>10. NewEmpty'
    BY <2>2, <2>3, <2>4, <2>5
       DEF Outlive, Lists, NewEmpty, Records, Single, Listed, Founded, Unknown
  <2>11. Deleting' /\ Releasing'
    BY <2>2, <2>3, <2>5 DEF Outlive, Deleting, Releasing, BaseInv, TypeOK
  <2>. QED BY <2>6, <2>7, <2>8, <2>9, <2>10, <2>11 DEF Outlive, Records, Lists
<1>3. ASSUME NEW m \in Machines, Remove(m) PROVE Outlive'
  <2>1. UNCHANGED <<view, status, mem, pc, target, remaining, unknown, faults>>
    BY <1>3 DEF Remove
  <2>2. /\ ~Running(m) /\ ~Founded(m)' /\ ~Exists(m)' /\ ~Running(m)'
        /\ \A n \in Machines \ {m} : /\ HasData(n)' = HasData(n) /\ Founded(n)' = Founded(n)
                                     /\ Exists(n)' = Exists(n) /\ Running(n)' = Running(n)
    BY <1>3 DEF Remove, Running, Exists, Founded, HasData, BaseInv, TypeOK
  <2>3. HolderKept(status)' /\ HolderKept(mem)' /\ MachineKept(status)' /\ MachineKept(mem)'
    BY <2>1, <2>2 DEF Outlive, Records, HolderKept, MachineKept, Held, HeldData, Unknown, BaseInv,
       TypeOK, Status
  <2>4. NoneYet' /\ Single' /\ StatusKept'
    BY <2>1, <2>2 DEF Outlive, Records, NoneYet, Single, StatusKept, Unknown
  <2>5. Lists'
    BY <2>1, <2>2 DEF Outlive, Lists, KeptRun, KeptFlagged, NoNodes, NewEmpty, SingleListed,
       BeforeCreation, Kept, Listed, Unknown
  <2>6. Deleting' /\ Releasing'
    BY <2>1, <2>2 DEF Outlive, Deleting, Releasing, BaseInv, TypeOK
  <2>. QED BY <2>3, <2>4, <2>5, <2>6 DEF Outlive, Records
<1>4. ASSUME NEW m \in Machines, Delete(m) PROVE FALSE
  BY <1>4 DEF Delete, Few
<1>. QED BY <1>1, <1>2, <1>3, <1>4 DEF Environment

\* The deletion of a Machine that is to be remediated.
LEMMA DeleteOutlives ==
  ASSUME BaseInv, ClusterInv, Outlive, DeleteUnhealthy, Few, Few'
  PROVE  Outlive'
<1>. USE NoneIsNone DEF objects, nodes, bounds
<1>1. pc = "delete" /\ pc' = "status" /\ target \in Machines
  BY DEF DeleteUnhealthy, BaseInv, TypeOK
<1>2. UNCHANGED <<view, data, accepted, status, mem>> /\ (faults' = 0 => faults = 0)
  BY DEF DeleteUnhealthy, NoFault, Fault, BaseInv, TypeOK
<1>3. /\ \A n \in Machines : Exists(n)' = Exists(n) /\ (Running(n)' => Running(n))
      /\ \A n \in Machines \ {target} : Running(n)' = Running(n)
  BY <1>1 DEF DeleteUnhealthy, BaseInv, TypeOK, Exists, Running
<1>4. mem = status /\ ~mem.initialized
  BY <1>1 DEF BaseInv, Remembered, OnTrack
<1>5. mem.bootstrapped => mem.machine # None /\ HeldData'
  BY <1>1, <1>2, <1>3, <1>4 DEF Outlive, Deleting, Records, MachineKept, HeldData, HasData
<1>6. HolderKept(status)' /\ HolderKept(mem)' /\ MachineKept(status)' /\ MachineKept(mem)'
  BY <1>2, <1>4, <1>5 DEF HolderKept, MachineKept, HeldData, Held, Founded, Unknown
<1>7. NoneYet' /\ Single' /\ StatusKept'
  BY <1>2, <1>3 DEF Outlive, Records, NoneYet, Single, StatusKept, Unknown, Founded, HasData
<1>8. KeptFlagged'
  BY <1>1, <1>2, <1>3 DEF Outlive, Lists, KeptRun, KeptFlagged, Kept, BeforeCreation, Deleting
<1>9. \A n \in Machines : Exists(n) => n \in Listed
  BY <1>1 DEF Few, ClusterInv, ViewCovers, BeforeCreation
<1>10. KeptRun' /\ NoNodes' /\ NewEmpty' /\ SingleListed'
  BY <1>1, <1>2, <1>3, <1>9 DEF Outlive, Lists, KeptRun, NoNodes, NewEmpty, SingleListed,
     BeforeCreation, Listed, Unknown
<1>. QED BY <1>1, <1>6, <1>7, <1>8, <1>10 DEF Outlive, Records, Lists, Deleting, Releasing

\* reconcileBootstrap up to the first call: a release starts with the holder among
\* the nodes to ask.
LEMMA BootstrapOutlives ==
  ASSUME BaseInv, ClusterInv, Outlive, ReconcileBootstrap, Few, Few'
  PROVE  Outlive'
<1>. USE NoneIsNone DEF objects, nodes, bounds
<1>1. /\ UNCHANGED <<phase, data, accepted, view, status, faults>>
      /\ pc = "route" /\ pc' \in {"scale", "status", "release", "ask"}
      /\ mem' = mem \/ (mem.initialized /\ mem' = [mem EXCEPT !.bootstrapped = TRUE])
  BY DEF ReconcileBootstrap, StartAsking
<1>2. mem = status
  BY <1>1 DEF BaseInv, Remembered
<1>3. Records'
  <2>1. CASE mem' = mem
    BY <1>1, <2>1, SameRecords DEF Outlive
  <2>2. CASE mem.initialized /\ mem' = [mem EXCEPT !.bootstrapped = TRUE]
    <3>1. mem'.initialized /\ mem'.bootstrapped
      BY <2>2 DEF BaseInv, TypeOK, Status
    <3>2. Held /\ Held' = Held
      BY <1>1, <2>2
         DEF Outlive, Records, HolderKept, Unknown, Held, Running, Founded, HasData
    <3>. QED BY <1>1, <1>2, <2>2, <3>1, <3>2 DEF Records, HolderKept, MachineKept, NoneYet, Single,
             StatusKept, Unknown
  <2>. QED BY <1>1, <2>1, <2>2
<1>4. Unknown(mem)' => Unknown(mem)
  BY <1>1 DEF Unknown, BaseInv, TypeOK, Status
<1>5. Lists'
  BY <1>1, <1>4, SameLists DEF Outlive, BeforeCreation
<1>6. ASSUME pc' = "release"
      PROVE  \E h \in BootstrapCandidates : Running(h) /\ HasData(h)
  <2>1. /\ mem.bootstrapped /\ ~mem.initialized /\ mem.machine \notin Listed
        /\ Kept \subseteq view.addressed
    BY <1>6 DEF ReconcileBootstrap, LockHeld, WaitingForAddress, StartAsking
  <2>2. ~Running(mem.machine)
    BY <1>1, <2>1 DEF Outlive, Records, MachineKept, Few, ClusterInv, ViewCovers, BeforeCreation,
       BaseInv, TypeOK, Status, Exists, Running
  <2>3. HeldData
    BY <2>1, <2>2 DEF Outlive, Records, MachineKept
  <2>4. \A h \in Machines : Running(h) => h \in Kept
    BY <1>1 DEF Few, ClusterInv, ViewCovers, BeforeCreation
  <2>. QED BY <2>1, <2>3, <2>4 DEF HeldData, BootstrapCandidates
<1>7. Releasing'
  <2>1. pc' = "release" => remaining' = BootstrapCandidates
    BY DEF ReconcileBootstrap, StartAsking
  <2>. QED BY <1>1, <1>6, <2>1 DEF Releasing, Running, HasData
<1>. QED BY <1>1, <1>3, <1>5, <1>7 DEF Outlive, Deleting

\* The first holder found is recorded; it is one that stays.
LEMMA AskOutlives ==
  ASSUME BaseInv, ClusterInv, Outlive, AskNode, Few, Few'
  PROVE  Outlive'
<1>. USE NoneIsNone DEF objects, nodes, bounds
<1>1. PICK m \in Machines : m = OldestOf(remaining) /\ m \in remaining /\ m \in Kept
  BY OldestType DEF AskNode, BaseInv, TypeOK, OnTrack, BootstrapCandidates
<1>2. /\ UNCHANGED <<phase, data, accepted, view, status>> /\ (faults' = 0 => faults = 0)
      /\ pc \in {"release", "ask"}
  BY DEF AskNode, NoFault, Fault, BaseInv, TypeOK
<1>3. \/ /\ mem' = mem /\ pc' = pc /\ remaining' = remaining \ {m}
         /\ unknown' = TRUE \/ (unknown' = unknown /\ ~HasData(m))
      \/ /\ HasData(m) /\ pc' = "scale"
         /\ mem' = [mem EXCEPT !.bootstrapped = TRUE, !.machine = m]
  BY <1>1 DEF AskNode, RecordBootstrapped, HasData
<1>4. CASE mem' = mem /\ pc' = pc /\ remaining' = remaining \ {m}
           /\ (unknown' = TRUE \/ (unknown' = unknown /\ ~HasData(m)))
  <2>1. Records' /\ Lists'
    BY <1>2, <1>4, SameRecords, SameLists DEF Outlive, BeforeCreation, Unknown
  <2>2. Releasing'
    BY <1>2, <1>4 DEF Outlive, Releasing, Running, HasData
  <2>. QED BY <1>2, <1>4, <2>1, <2>2 DEF Outlive, Deleting
<1>5. CASE /\ HasData(m) /\ pc' = "scale"
           /\ mem' = [mem EXCEPT !.bootstrapped = TRUE, !.machine = m]
  <2>1. Running(m)
    BY <1>1, <1>2 DEF Outlive, Lists, KeptRun, BeforeCreation
  <2>2. mem'.bootstrapped /\ mem'.machine = m
    BY <1>5 DEF BaseInv, TypeOK, Status
  <2>3. Running(m)' /\ HasData(m)' /\ Held'
    BY <1>1, <1>2, <1>5, <2>1 DEF Held, Running, Founded, HasData
  <2>4. HolderKept(status)' /\ HolderKept(mem)' /\ MachineKept(status)' /\ MachineKept(mem)'
    BY <1>1, <1>2, <2>2, <2>3
       DEF Outlive, Records, HolderKept, MachineKept, HeldData, HasData, Running
  <2>5. NoneYet' /\ Single' /\ StatusKept'
    BY <1>2, <2>2 DEF Outlive, Records, NoneYet, Single, StatusKept, Unknown, Exists
  <2>6. Lists'
    BY <1>2, <2>2, SameLists DEF Outlive, BeforeCreation, Unknown
  <2>. QED BY <1>5, <2>4, <2>5, <2>6 DEF Outlive, Records, Deleting, Releasing
<1>. QED BY <1>3, <1>4, <1>5

\* A release never ends without a holder, and no bootstrap follows it.
LEMMA NoHolderOutlives ==
  ASSUME BaseInv, ClusterInv, Outlive, NoHolder, Few, Few'
  PROVE  Outlive'
<1>. USE DEF objects, nodes, bounds
<1>1. pc \in {"release", "ask"} /\ UNCHANGED <<phase, data, accepted, view, status, faults>>
  BY DEF NoHolder
<1>2. unknown \/ pc = "ask"
  BY DEF NoHolder, Outlive, Releasing
<1>3. mem' = mem /\ pc' \in {"status", "send"}
  BY <1>2 DEF NoHolder
<1>4. Records' /\ Lists'
  BY <1>1, <1>3, SameRecords, SameLists DEF Outlive, BeforeCreation, Unknown
<1>. QED BY <1>3, <1>4 DEF Outlive, Deleting, Releasing

\* The machine that took the request stays, also when the answer is lost.
LEMMA SendOutlives ==
  ASSUME BaseInv, ClusterInv, Outlive, SendBootstrap, Few, Few'
  PROVE  Outlive'
<1>. USE NoneIsNone DEF objects, nodes, bounds
<1>1. PICK m \in Machines : m = OldestOf(BootstrapCandidates) /\ m \in Kept
  BY CandidateType DEF SendBootstrap, BaseInv, OnTrack, BootstrapCandidates, Kept
<1>2. /\ UNCHANGED <<phase, data, view, status>> /\ (faults' = 0 => faults = 0)
      /\ pc = "send" /\ pc' \in {"scale", "status"} /\ accepted \subseteq accepted'
      /\ \/ mem' = mem /\ (accepted' = accepted \/ faults' # 0)
         \/ /\ mem' = [mem EXCEPT !.bootstrapped = TRUE, !.machine = m]
            /\ HasData(m) \/ m \in accepted'
  BY <1>1 DEF SendBootstrap, RecordBootstrapped, HasData, NoFault, Fault, BaseInv, TypeOK
<1>3. Running(m) /\ Running(m)'
  BY <1>1, <1>2 DEF Outlive, Lists, KeptRun, BeforeCreation, Running
<1>4. ~mem.bootstrapped /\ ~mem.initialized /\ ~status.bootstrapped
  BY <1>2 DEF BaseInv, OnTrack, Outlive, Records, StatusKept
<1>5. \A n \in Machines : Running(n)' = Running(n) /\ (Founded(n) => Founded(n)')
  BY <1>2 DEF Running, Founded, HasData
<1>6. HolderKept(status)' /\ MachineKept(status)' /\ StatusKept'
  BY <1>2, <1>4, <1>5
     DEF Outlive, Records, HolderKept, MachineKept, StatusKept, Held, Unknown
<1>7. HolderKept(mem)' /\ MachineKept(mem)' /\ NoneYet' /\ Single'
  <2>1. CASE mem' = mem /\ (accepted' = accepted \/ faults' # 0)
    BY <1>2, <1>4, <1>5, <2>1 DEF Outlive, Records, HolderKept, MachineKept, NoneYet, Single,
       Unknown, Founded, HasData, Exists
  <2>2. CASE /\ mem' = [mem EXCEPT !.bootstrapped = TRUE, !.machine = m]
             /\ HasData(m) \/ m \in accepted'
    <3>1. mem'.bootstrapped /\ mem'.machine = m
      BY <2>2 DEF BaseInv, TypeOK, Status
    <3>2. Held'
      BY <1>1, <1>2, <1>3, <2>2 DEF Held, Founded, HasData
    <3>. QED BY <1>1, <1>2, <1>3, <3>1, <3>2 DEF Outlive, Records, HolderKept, MachineKept, NoneYet,
             Single, Unknown, Exists
  <2>. QED BY <1>2, <2>1, <2>2
<1>8. Lists'
  BY <1>2, <1>4, SameLists DEF Outlive, BeforeCreation, Unknown
<1>. QED BY <1>2, <1>6, <1>7, <1>8 DEF Outlive, Records, Deleting, Releasing

\* A Machine is created alone, or after the first one is known to be founded.
LEMMA CreateOutlives ==
  ASSUME BaseInv, ClusterInv, Outlive, CreateMachine, Few, Few'
  PROVE  Outlive'
<1>. USE NoneIsNone DEF objects, nodes, bounds
<1>1. PICK m \in Machines : phase[m] = "absent" /\ phase' = [phase EXCEPT ![m] = "running"]
  BY DEF CreateMachine
<1>2. /\ UNCHANGED <<data, accepted, view, status, mem, faults>> /\ pc = "scale" /\ pc' = "status"
  BY DEF CreateMachine
<1>3. /\ ~Exists(m) /\ ~Founded(m) /\ Running(m)'
      /\ \A n \in Machines \ {m} : Exists(n)' = Exists(n)
      /\ \A n \in Machines : (Running(n) => Running(n)') /\ HasData(n)' = HasData(n)
                             /\ Founded(n)' = Founded(n)
  BY <1>1, <1>2 DEF BaseInv, TypeOK, Objects, Exists, Running, Founded, HasData
<1>4. HolderKept(status)' /\ HolderKept(mem)' /\ MachineKept(status)' /\ MachineKept(mem)'
  BY <1>2, <1>3 DEF Outlive, Records, HolderKept, MachineKept, Held, HeldData, Unknown, BaseInv,
     TypeOK, Status
<1>5. NoneYet' /\ StatusKept'
  BY <1>2, <1>3 DEF Outlive, Records, NoneYet, StatusKept, Unknown
<1>6. \A n \in Machines : (Exists(n) => n \in Listed) /\ (n \in Kept => Running(n))
  BY <1>2 DEF Few, ClusterInv, ViewCovers, BeforeCreation, Outlive, Lists, KeptRun
<1>7. Single'
  <2>1. ASSUME (faults = 0 /\ Unknown(status)) \/ Unknown(mem) PROVE Listed = {}
    <3>1. CASE Unknown(mem)
      BY <1>2, <3>1 DEF BaseInv, OnTrack, Unknown
    <3>2. CASE faults = 0 /\ Unknown(status) /\ Listed # {}
      <4>1. view.nodeRef \cap Listed = {}
        BY <1>2, <3>2 DEF Outlive, Lists, NoNodes, BeforeCreation
      <4>. QED BY <3>2, <4>1 DEF CreateMachine, PreflightOK
    <3>. QED BY <2>1, <3>1, <3>2
  <2>. QED BY <1>2, <1>3, <1>6, <2>1 DEF Single, Unknown
<1>8. Lists'
  BY <1>2, <1>3, <1>6 DEF Outlive, Lists, KeptRun, KeptFlagged, NoNodes, NewEmpty, SingleListed,
     BeforeCreation, Kept, Listed, Unknown
<1>. QED BY <1>2, <1>4, <1>5, <1>7, <1>8 DEF Outlive, Records, Deleting, Releasing

\* initializationOnHold: a control plane that was never recorded as bootstrapped is
\* found initialized only on the etcd of a machine that is not being remediated.
LEMMA ProbeOutlives ==
  ASSUME BaseInv, Outlive, ProbeAnswers, Few, Few'
  PROVE  Outlive'
<1>. USE NoneIsNone DEF objects, nodes, bounds
<1>1. UNCHANGED <<phase, data, accepted, view, status, faults>> /\ pc = "status" /\ pc' = "patch"
  BY DEF ProbeAnswers
<1>2. mem'.initialized /\ mem'.bootstrapped = mem.bootstrapped
  BY DEF ProbeAnswers, BaseInv, TypeOK, Status
<1>3. Held
  <2>1. CASE ~Unknown(mem)
    BY <2>1 DEF Outlive, Records, HolderKept
  <2>2. CASE Unknown(mem)
    <3>1. PICK d \in Machines : Exists(d) /\ HasData(d)
      BY DEF ProbeAnswers, HasData
    <3>2. d \in Listed
      BY <1>1, <2>2, <3>1 DEF Outlive, Lists, NewEmpty, Founded
    <3>3. Listed = {d}
      BY <1>1, <2>2, <3>2 DEF Outlive, Lists, SingleListed
    <3>4. ~(Kept \subseteq view.flagged)
      BY <2>2, <3>3, FS_Singleton DEF ProbeAnswers, InitializationOnHold, Unknown
    <3>5. Kept \subseteq {d}
      BY <3>3 DEF Kept, Listed
    <3>6. Running(d)
      BY <1>1, <3>4, <3>5 DEF Outlive, Lists, KeptFlagged
    <3>. QED BY <3>1, <3>6 DEF Held, Founded
  <2>. QED BY <2>1, <2>2
<1>4. Held'
  BY <1>1, <1>3 DEF Held, Running, Founded, HasData
<1>5. Records'
  BY <1>1, <1>2, <1>4 DEF Outlive, Records, HolderKept, MachineKept, NoneYet, Single, StatusKept,
     Unknown, HeldData, Running, HasData, Exists
<1>6. Lists'
  BY <1>1, <1>2 DEF Lists, KeptRun, KeptFlagged, NoNodes, NewEmpty, SingleListed, BeforeCreation,
     Unknown
<1>. QED BY <1>1, <1>5, <1>6 DEF Outlive, Deleting, Releasing

\* Every step of the reconcile.
LEMMA ReconcilerOutlives ==
  ASSUME BaseInv, ClusterInv, Outlive, Reconciler \/ Crash, Few, Few'
  PROVE  Outlive'
<1>. USE NoneIsNone DEF objects, nodes, bounds, NoFault, Fault
<1>1. CASE Begin
  <2>1. /\ view' = Current /\ UNCHANGED <<phase, data, accepted, status, faults>>
        /\ mem' = mem /\ mem = status /\ pc' = "remediate"
    BY <1>1 DEF Begin, Few, BaseInv, Remembered
  <2>2. Records'
    BY <2>1, SameRecords DEF Outlive
  <2>3. view'.phase = phase /\ view'.nodeRef = nodeRef
    BY <2>1 DEF Current
  <2>4. KeptRun' /\ KeptFlagged' /\ NewEmpty'
    BY <2>1, <2>3 DEF KeptRun, KeptFlagged, NewEmpty, Kept, Running
  <2>5. NoNodes'
    BY <2>1, <2>3 DEF NoNodes, Outlive, Records, NoneYet, BaseInv, TypeOK, Objects, Founded,
       Listed, Unknown
  <2>6. SingleListed'
    BY <2>1, <2>3 DEF SingleListed, Outlive, Records, Single, Listed, Exists, Unknown
  <2>. QED BY <2>1, <2>2, <2>4, <2>5, <2>6 DEF Outlive, Lists, Deleting, Releasing
<1>2. CASE StartRemediation \/ NoRemediation
  <2>1. /\ UNCHANGED <<phase, data, accepted, view, status, mem, faults>> /\ pc = "remediate"
        /\ pc' \in {"delete", "route"}
    BY <1>2 DEF StartRemediation, NoRemediation
  <2>2. Records' /\ Lists'
    BY <2>1, SameRecords, SameLists DEF Outlive, BeforeCreation, Unknown
  <2>3. ASSUME pc' = "delete" PROVE Deleting'
    <3>1. /\ target' \in view.flagged \cap Kept
          /\ mem.bootstrapped => \E h \in Kept \ {target'} : HasData(h)
      BY <1>2, <2>3
         DEF StartRemediation, NoRemediation, RemediationBeforeInitialization, HasData
    <3>2. \A h \in Kept : Running(h) /\ h \in Machines
      BY <2>1 DEF Outlive, Lists, KeptRun, BeforeCreation, Kept
    <3>. QED BY <2>1, <3>1, <3>2 DEF Deleting, Running, HasData
  <2>. QED BY <2>1, <2>2, <2>3 DEF Outlive, Deleting, Releasing
<1>3. CASE NoCreate
  <2>1. /\ UNCHANGED <<phase, data, accepted, view, status, mem>> /\ (faults' = 0 => faults = 0)
        /\ pc = "scale" /\ pc' = "status"
    BY <1>3 DEF NoCreate, BaseInv, TypeOK
  <2>2. Records' /\ Lists'
    BY <2>1, SameRecords, SameLists DEF Outlive, BeforeCreation, Unknown
  <2>. QED BY <2>1, <2>2 DEF Outlive, Deleting, Releasing
<1>4. CASE ProbeSkipped
  <2>1. /\ UNCHANGED <<phase, data, accepted, view, status, mem, faults>> /\ pc = "status"
        /\ pc' = "patch"
    BY <1>4 DEF ProbeSkipped
  <2>2. Records'
    BY <2>1, SameRecords DEF Outlive
  <2>3. Lists'
    BY <2>1 DEF Outlive, Lists, KeptRun, KeptFlagged, NoNodes, NewEmpty, SingleListed,
       BeforeCreation, Listed, Unknown
  <2>. QED BY <2>1, <2>2, <2>3 DEF Outlive, Deleting, Releasing
<1>5. CASE Relist
  <2>1. /\ UNCHANGED <<phase, data, accepted, status, mem, faults, pc>> /\ pc = "status"
        /\ view' = Current
    BY <1>5 DEF Relist
  <2>2. Records'
    BY <2>1, SameRecords DEF Outlive
  <2>3. view'.phase = phase
    BY <2>1 DEF Current
  <2>4. Lists'
    BY <2>1, <2>3 DEF Outlive, Records, Single, Lists, KeptRun, KeptFlagged, NoNodes, NewEmpty,
       SingleListed, BeforeCreation, Listed, Kept, Unknown, Exists, Running
  <2>. QED BY <2>1, <2>2, <2>4 DEF Outlive, Deleting, Releasing
<1>6. CASE PatchStatus
  <2>1. /\ UNCHANGED <<phase, data, accepted, view, mem, faults>> /\ status' = mem /\ pc' = "idle"
    BY <1>6 DEF PatchStatus
  <2>2. Records'
    BY <2>1 DEF Outlive, Records, HolderKept, MachineKept, NoneYet, Single, StatusKept, Held,
       HeldData, Unknown, Founded, HasData, Running, Exists
  <2>3. Lists'
    BY <2>1 DEF Lists, KeptRun, KeptFlagged, NoNodes, NewEmpty, SingleListed, BeforeCreation
  <2>. QED BY <2>1, <2>2, <2>3 DEF Outlive, Deleting, Releasing
<1>7. CASE PatchFails \/ Crash
  <2>1. /\ UNCHANGED <<phase, data, accepted, status>> /\ mem' = status /\ pc' = "idle"
        /\ faults' = faults + 1
    BY <1>7 DEF PatchFails, Crash
  <2>2. faults = 0 /\ faults' # 0
    BY <2>1 DEF Few, BaseInv, TypeOK
  <2>3. Records'
    BY <2>1, <2>2 DEF Outlive, Records, HolderKept, MachineKept, NoneYet, Single, StatusKept, Held,
       HeldData, Unknown, Founded, HasData, Running, Exists
  <2>4. Lists'
    BY <2>1 DEF Lists, KeptRun, KeptFlagged, NoNodes, NewEmpty, SingleListed, BeforeCreation
  <2>. QED BY <2>1, <2>3, <2>4 DEF Outlive, Deleting, Releasing
<1>. QED BY <1>1, <1>2, <1>3, <1>4, <1>5, <1>6, <1>7, DeleteOutlives, BootstrapOutlives,
         AskOutlives, NoHolderOutlives, SendOutlives, CreateOutlives, ProbeOutlives DEF Reconciler

\* A deletion by a user, an outdated list and a fault do not come undone.
LEMMA FewBefore == ASSUME BaseInv, [Next]_vars, Few' PROVE Few
<1>. USE DEF objects, nodes, bounds, NoFault, Fault, BaseInv, TypeOK
<1>1. meddled => meddled'
  BY DEF Next, Reconciler, Environment, Begin, StartRemediation, NoRemediation, DeleteUnhealthy,
     ReconcileBootstrap, AskNode, NoHolder, SendBootstrap, CreateMachine, NoCreate, ProbeAnswers,
     ProbeSkipped, Relist, PatchStatus, PatchFails, Crash, ReportAddress, StartEtcd, JoinEtcd,
     RegisterNode, FindUnhealthy, FindHealthy, Delete, Remove, vars
<1>2. lagged => lagged'
  BY DEF Next, Reconciler, Environment, Begin, StartRemediation, NoRemediation, DeleteUnhealthy,
     ReconcileBootstrap, AskNode, NoHolder, SendBootstrap, CreateMachine, NoCreate, ProbeAnswers,
     ProbeSkipped, Relist, PatchStatus, PatchFails, Crash, ReportAddress, StartEtcd, JoinEtcd,
     RegisterNode, FindUnhealthy, FindHealthy, Delete, Remove, vars
<1>3. faults' = faults \/ faults' = faults + 1
  BY DEF Next, Reconciler, Environment, Begin, StartRemediation, NoRemediation, DeleteUnhealthy,
     ReconcileBootstrap, AskNode, NoHolder, SendBootstrap, CreateMachine, NoCreate, ProbeAnswers,
     ProbeSkipped, Relist, PatchStatus, PatchFails, Crash, ReportAddress, StartEtcd, JoinEtcd,
     RegisterNode, FindUnhealthy, FindHealthy, Delete, Remove, vars
<1>. QED BY <1>1, <1>2, <1>3 DEF Few

\* Without users deleting Machines, outdated lists or a second fault, a control plane
\* that is recorded as bootstrapped or initialized keeps a machine that holds etcd
\* data or was asked to create it, whatever is remediated.
THEOREM RemediationSparesEtcd == Spec => []EtcdOutlivesRemediation
<1>. DEFINE Inv == BaseInv /\ ClusterInv /\ (Few => Outlive)
<1>1. Init => Inv
  <2>1. Init => Outlive
    BY NoneIsNone DEF Init, Outlive, Records, HolderKept, MachineKept, NoneYet, Single, StatusKept,
       Lists, KeptRun, KeptFlagged, NoNodes, NewEmpty, SingleListed, BeforeCreation, Deleting,
       Releasing, Unknown, NoStatus, Founded, HasData, Exists
  <2>. QED BY <2>1, InitBase, InitCluster
<1>2. Inv /\ [Next]_vars => Inv'
  <2>. SUFFICES ASSUME Inv, [Next]_vars PROVE Inv'
    OBVIOUS
  <2>1. BaseInv' /\ ClusterInv'
    BY BaseInvInductive, ClusterStep
  <2>2. ASSUME Few' PROVE Outlive'
    <3>1. Few
      BY <2>2, FewBefore
    <3>2. CASE UNCHANGED vars
      BY <3>1, <3>2 DEF vars, objects, nodes, bounds, Outlive, Records, HolderKept, MachineKept,
         NoneYet, Single, StatusKept, Lists, KeptRun, KeptFlagged, NoNodes, NewEmpty, SingleListed,
         BeforeCreation, Deleting, Releasing, Held, HeldData, Unknown, Founded, HasData, Running,
         Exists, Listed, Kept
    <3>. QED BY <2>2, <3>1, <3>2, EnvironmentOutlives, ReconcilerOutlives DEF Next
  <2>. QED BY <2>1, <2>2
<1>3. Inv => EtcdOutlivesRemediation
  BY DEF Outlive, Records, HolderKept, Held, Unknown, Few, Running, Founded, HasData,
     EtcdOutlivesRemediation
<1>. QED BY <1>1, <1>2, <1>3, PTL DEF Spec
=============================================================================
