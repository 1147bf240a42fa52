------------------------- MODULE ControlPlaneProofs -------------------------
(***************************************************************************)
(* Theorems about ControlPlane, for every number of Machines and replicas, *)
(* every rollout strategy, retry limit, placement and spec edit, and every *)
(* number of verdicts, deletions by users, crashes and failed calls.       *)
(***************************************************************************)
EXTENDS ControlPlane, EtcdQuorumProofs

Places == Domains \cup {NoDomain} \cup {Placement[n] : n \in 1..Initial}
Existed(m) == phase[m] # "absent"

-----------------------------------------------------------------------------
(* Types, and the order of creation *)

Placed == domain \in [Machines -> Places]

\* Machines are created one after the other.
Ordered == \A m, n \in Machines : n < m /\ Existed(m) => Existed(n)

\* The list of Machines, outdated or not, is of the past.
ViewIsPast == \A m \in Listed : Existed(m)

BaseInv == TypeOK /\ Placed /\ Ordered /\ ViewIsPast

\* Machines are numbers, and None is not one of them.
LEMMA MachineTypes ==
  /\ Machines \subseteq Nat /\ IsFiniteSet(Machines) /\ None \notin Machines
  /\ NoRecord \in Record /\ PastRecord \in Record
  /\ 1..Initial \subseteq Machines /\ Initial \in Nat
<1>1. MaxMachines \in Nat /\ Initial \in Machines
  BY ControlPlaneConstants
<1>2. IsFiniteSet(1..MaxMachines)
  BY <1>1, FS_Interval
<1>. QED BY <1>1, <1>2 DEF Machines, None, NoRecord, PastRecord, Record

\* The number of Machines ever created is the number of the newest one.
LEMMA CreatedBound ==
  ASSUME BaseInv
  PROVE  LET created == {m \in Machines : Existed(m)}
         IN  /\ Cardinality(created) \in Nat
             /\ \A m \in created : m <= Cardinality(created)
<1>. DEFINE created == {m \in Machines : Existed(m)}
<1>1. IsFiniteSet(created) /\ Cardinality(created) \in Nat
  <2>1. created \in SUBSET Machines
    OBVIOUS
  <2>. QED BY <2>1, MachineTypes, FS_Subset, FS_CardinalityType
<1>2. ASSUME NEW m \in created PROVE m <= Cardinality(created)
  <2>1. m \in Nat /\ m >= 1 /\ 1..m \subseteq Machines
    BY ControlPlaneConstants DEF Machines
  <2>2. 1..m \in SUBSET created
    BY <2>1 DEF BaseInv, Ordered, Machines
  <2>3. Cardinality(1..m) = m
    BY <2>1, FS_Interval
  <2>. QED BY <1>1, <2>2, <2>3, FS_Subset
<1>. QED BY <1>1, <1>2

\* A new Machine is placed in a failure domain of the Cluster, if it has any.
LEMMA NextDomainType == NextFailureDomainForScaleUp \subseteq Places
<1>1. FailureDomains \subseteq Domains
  BY ControlPlaneConstants DEF FailureDomains
<1>. QED BY <1>1 DEF NextFailureDomainForScaleUp, PickFewest, Places

\* The initial states.
LEMMA InitBase == Init => BaseInv
<1>. SUFFICES ASSUME Init PROVE BaseInv
  OBVIOUS
<1>1. /\ phase \in [Machines -> Phases] /\ nodeRef \subseteq Machines
      /\ view = Current /\ view.phase = phase
  BY MachineTypes DEF Init, Phases, Current
<1>. view \in View
  BY <1>1 DEF Init, Current, View
<1>. domain \in [Machines -> Places]
  <2>1. \A m \in Machines : m <= Initial => m \in 1..Initial
    BY ControlPlaneConstants DEF Machines
  <2>. QED BY <2>1 DEF Init, Places
<1>2. /\ origin \in [Machines -> Record \cup {NoRecord}]
      /\ depth \in [Machines -> Nat]
      /\ age \in [Machines -> {"retrying", "due", "forgotten"}]
      /\ by \in [Machines -> {"none", "user", "remediation", "scaling"}]
      /\ replicas \in Nat
  BY MachineTypes DEF Init
<1>3. TypeOK
  <2>1. \A m \in Machines : domain[m] \in Places
    OBVIOUS
  <2>2. etcd \in [voters : SUBSET Machines, healthy : SUBSET Machines, ok : BOOLEAN]
    BY DEF Init, NoEtcd
  <2>3. /\ pc \in Steps /\ target \in IF pc \in {"record", "delete"} THEN Machines ELSE {None}
        /\ stable \in BOOLEAN /\ rushed \in BOOLEAN
    BY DEF Init, Steps
  <2>4. /\ record \in Record \cup {NoRecord} /\ mem \in Record \cup {NoRecord}
        /\ \A b \in {events, edits, faults, pending} : b \in Nat
        /\ outdated = {} /\ unhealthy = {} /\ owner = {} /\ broken = {}
    BY DEF Init
  <2>. QED BY <1>1, <1>2, <2>1, <2>2, <2>3, <2>4 DEF TypeOK, Places
<1>4. Ordered
  BY ControlPlaneConstants DEF Init, Ordered, Existed, Machines
<1>5. ViewIsPast
  BY <1>1 DEF ViewIsPast, Listed, Existed
<1>. QED BY <1>1, <1>3, <1>4, <1>5 DEF BaseInv, Placed

\* Reading the Machines.
LEMMA ReadBase ==
  ASSUME BaseInv, view' = Current, UNCHANGED phase
  PROVE  view' \in View /\ ViewIsPast'
<1>1. view'.phase = phase
  BY DEF Current
<1>. QED BY <1>1 DEF BaseInv, TypeOK, Current, View, ViewIsPast, Listed, Existed

\* A Machine that is there may be deleted, or go.
LEMMA GoingBase ==
  ASSUME BaseInv, NEW m \in Machines, NEW to \in {"deleting", "gone"}, Existed(m),
         phase' = [phase EXCEPT ![m] = to], UNCHANGED view
  PROVE  phase' \in [Machines -> Phases] /\ Ordered' /\ ViewIsPast'
<1>1. phase' \in [Machines -> Phases]
  BY DEF BaseInv, TypeOK, Phases
<1>2. \A n \in Machines : Existed(n)' <=> Existed(n)
  BY DEF BaseInv, TypeOK, Existed
<1>. QED BY <1>1, <1>2 DEF BaseInv, Ordered, ViewIsPast, Listed

\* The deletion of a Machine that is asked for.
LEMMA RequestBase ==
  ASSUME BaseInv, NEW m \in Machines, Existed(m), NEW who \in {"user", "remediation", "scaling"},
         RequestDeletion(m, who), UNCHANGED view
  PROVE  /\ phase' \in [Machines -> Phases] /\ Ordered' /\ ViewIsPast'
         /\ by' \in [Machines -> {"none", "user", "remediation", "scaling"}]
<1>1. CASE phase[m] = "running"
  <2>1. phase' = [phase EXCEPT ![m] = "deleting"] /\ by' = [by EXCEPT ![m] = who]
    BY <1>1 DEF RequestDeletion
  <2>. QED BY <2>1, GoingBase DEF BaseInv, TypeOK
<1>2. CASE phase[m] # "running"
  <2>1. phase' = phase /\ by' = by
    BY <1>2 DEF RequestDeletion, BaseInv, TypeOK
  <2>. QED BY <2>1 DEF BaseInv, TypeOK, Ordered, ViewIsPast, Listed, Existed
<1>. QED BY <1>1, <1>2

\* What happens outside the reconcile.
LEMMA EnvironmentBase == ASSUME BaseInv, Environment PROVE BaseInv'
<1>. USE DEF objects, spec, local, bounds, history
<1>1. ASSUME stable' = (stable /\ pc \in {"idle", "check"}) PROVE stable' \in BOOLEAN
  BY <1>1, Zenon
<1>2. CASE Edit
  <2>1. replicas' \in Nat /\ outdated' \subseteq Machines
    BY <1>2, ControlPlaneConstants DEF Edit, Existing, BaseInv, TypeOK
  <2>2. edits' \in Nat
    BY <1>2 DEF Edit, BaseInv, TypeOK
  <2>. QED BY <1>2, <2>1, <2>2
           DEF Edit, BaseInv, TypeOK, Placed, Ordered, ViewIsPast, Listed, Existed
<1>3. CASE StartTimeout
  <2>1. view' \in View /\ ViewIsPast'
    BY <1>3, ReadBase DEF StartTimeout
  <2>2. record' \in Record \cup {NoRecord}
    BY <1>3, MachineTypes DEF StartTimeout, BaseInv, TypeOK, Record
  <2>. QED BY <1>3, <2>1, <2>2 DEF StartTimeout, BaseInv, TypeOK, Placed, Ordered, Existed
<1>4. ASSUME NEW m \in Machines, Break(m) \/ Join(m) PROVE BaseInv'
  <2>1. stable' \in BOOLEAN
    BY <1>1, <1>4 DEF Break, Join, Disturb
  <2>2. nodeRef' \subseteq Machines /\ broken' \subseteq Machines
    BY <1>4 DEF Break, Join, BaseInv, TypeOK
  <2>. QED BY <1>4, <2>1, <2>2
           DEF Break, Join, BaseInv, TypeOK, Placed, Ordered, ViewIsPast, Listed, Existed
<1>5. ASSUME NEW m \in Machines, FindUnhealthy(m) \/ FindHealthy(m) PROVE BaseInv'
  <2>1. unhealthy' \subseteq Machines /\ owner' \subseteq Machines /\ events' \in Nat
    BY <1>5 DEF FindUnhealthy, FindHealthy, BaseInv, TypeOK
  <2>. QED BY <1>5, <2>1
           DEF FindUnhealthy, FindHealthy, BaseInv, TypeOK, Placed, Ordered, ViewIsPast, Listed,
               Existed
<1>6. ASSUME NEW m \in Machines, Delete(m) PROVE BaseInv'
  <2>1. /\ phase' \in [Machines -> Phases] /\ Ordered' /\ ViewIsPast'
        /\ by' \in [Machines -> {"none", "user", "remediation", "scaling"}]
    BY <1>6, RequestBase DEF Delete, Existed
  <2>. QED BY <1>6, <2>1 DEF Delete, BaseInv, TypeOK, Placed
<1>7. ASSUME NEW m \in Machines, Gone(m) PROVE BaseInv'
  <2>1. phase' \in [Machines -> Phases] /\ Ordered' /\ ViewIsPast'
    BY <1>7, GoingBase DEF Gone, Existed
  <2>2. stable' \in BOOLEAN
    BY <1>1, <1>7 DEF Gone, Disturb
  <2>3. /\ origin' \in [Machines -> Record \cup {NoRecord}]
        /\ age' \in [Machines -> {"retrying", "due", "forgotten"}]
        /\ nodeRef' \subseteq Machines /\ unhealthy' \subseteq Machines /\ owner' \subseteq Machines
        /\ broken' \subseteq Machines
    BY <1>7 DEF Gone, BaseInv, TypeOK
  <2>. QED BY <1>7, <2>1, <2>2, <2>3 DEF Gone, BaseInv, TypeOK, Placed
<1>8. ASSUME NEW m \in Machines, Age(m) PROVE BaseInv'
  BY <1>8 DEF Age, BaseInv, TypeOK, Placed, Ordered, ViewIsPast, Listed, Existed
<1>. QED BY <1>2, <1>3, <1>4, <1>5, <1>6, <1>7, <1>8 DEF Environment

\* The steps that change no Machine.
LEMMA QuietBase ==
  ASSUME BaseInv, UNCHANGED <<phase, domain>>, view' = view \/ view' = Current,
         view' \in View => TypeOK'
  PROVE  BaseInv'
<1>1. view' \in View /\ ViewIsPast'
  <2>1. CASE view' = view
    BY <2>1 DEF BaseInv, TypeOK, ViewIsPast, Listed, Existed
  <2>. QED BY <2>1, ReadBase
<1>. QED BY <1>1 DEF BaseInv, Placed, Ordered, Existed

\* The oldest of some Machines is one of them.
LEMMA OldestType ==
  ASSUME NEW S \in SUBSET Machines, S # {}
  PROVE  OldestOf(S) \in S
<1>1. \E x \in S : \A y \in S : x <= y
  BY MachineTypes, MinimumExists
<1>. QED BY <1>1 DEF OldestOf

\* A scale-down only considers Machines that are listed.
LEMMA CandidatesListed == ScaleDownCandidates \subseteq Listed
<1>. DEFINE old   == MachinesNeedingRollout
            marks == <<old \cap ToDelete, Listed \cap ToDelete, old \cap Flagged, Kept \cap Flagged, old>>
            First(i) == marks[i] # {} /\ \A j \in 1..(i - 1) : marks[j] = {}
<1>1. \A i \in 1..5 : marks[i] \subseteq Listed
  <2>1. old \subseteq Listed /\ Kept \subseteq Listed
    BY DEF MachinesNeedingRollout, Kept, Listed
  <2>. HIDE DEF old
  <2>2. marks[1] \subseteq Listed /\ marks[2] \subseteq Listed /\ marks[3] \subseteq Listed
    BY <2>1
  <2>3. marks[4] \subseteq Listed /\ marks[5] \subseteq Listed
    BY <2>1
  <2>. HIDE DEF marks
  <2>4. \A i \in 1..5 : i = 1 \/ i = 2 \/ i = 3 \/ i = 4 \/ i = 5
    OBVIOUS
  <2>. QED BY <2>2, <2>3, <2>4
<1>. HIDE DEF marks
<1>2. ASSUME \E i \in 1..5 : marks[i] # {} PROVE \E i \in 1..5 : First(i)
  <2>. DEFINE S == {i \in 1..5 : marks[i] # {}}
  <2>1. S \subseteq Nat /\ S # {}
    BY <1>2
  <2>2. PICK i \in S : \A j \in S : i <= j
    BY <2>1, MinimumExists
  <2>3. First(i)
    BY <2>2
  <2>. QED BY <2>3
<1>3. CASE \E i \in 1..5 : marks[i] # {}
  <2>1. (CHOOSE i \in 1..5 : First(i)) \in 1..5
    BY <1>2, <1>3
  <2>2. marks[CHOOSE i \in 1..5 : First(i)] \subseteq Listed
    BY <1>1, <2>1
  <2>. QED BY <1>3, <2>2 DEF ScaleDownCandidates, marks
<1>4. CASE ~\E i \in 1..5 : marks[i] # {}
  BY <1>4 DEF ScaleDownCandidates, marks
<1>. QED BY <1>3, <1>4

\* A Machine that is scaled down is a candidate, of a failure domain that is lost or
\* has the most of them.
LEMMA VictimChosen ==
  ASSUME NEW m \in Victims
  PROVE  /\ m \in ScaleDownCandidates
         /\ domain[m] \in FailureDomains => domain[m] \in PickMost(Listed, ScaleDownCandidates)
<1>. DEFINE eligible == ScaleDownCandidates
            lost == {n \in eligible : domain[n] \notin FailureDomains}
<1>1. eligible \subseteq Machines
  BY CandidatesListed DEF Listed
<1>. HIDE DEF eligible
<1>2. PICK d \in FailureDomainWithMostMachines(eligible) :
          m = OldestOf({n \in eligible : domain[n] = d})
  BY DEF Victims, Picked, MachineInFailureDomainWithMostMachines, eligible
<1>3. /\ {n \in eligible : domain[n] = d} # {}
      /\ d \in FailureDomains => d \in PickMost(Listed, eligible)
  <2>1. CASE lost # {}
    <3>1. OldestOf(lost) \in lost
      BY <1>1, <2>1, OldestType
    <3>2. d = domain[OldestOf(lost)]
      BY <1>2, <2>1 DEF FailureDomainWithMostMachines
    <3>. QED BY <3>1, <3>2
  <2>2. CASE lost = {}
    <3>1. d \in PickMost(Listed, eligible) /\ Count(d, eligible) > 0
      BY <1>2, <2>2 DEF FailureDomainWithMostMachines, PickMost
    <3>. QED BY <3>1, FS_EmptySet DEF Count
  <2>. QED BY <2>1, <2>2
<1>4. m \in {n \in eligible : domain[n] = d}
  BY <1>1, <1>2, <1>3, OldestType
<1>. QED BY <1>3, <1>4 DEF eligible

\* A Machine that is scaled down is one that is listed.
LEMMA VictimListed ==
  ASSUME NEW m \in Victims
  PROVE  m \in Listed
BY VictimChosen, CandidatesListed

\* Every step of the reconcile.
LEMMA ReconcilerBase == ASSUME BaseInv, Reconciler \/ Crash PROVE BaseInv'
<1>. USE MachineTypes DEF objects, spec, local, bounds, history, SameButFaults, Fault, NoFault
<1>0. /\ Kept \subseteq Machines
      /\ faults' = faults \/ faults' = faults + 1 => faults' \in Nat
      /\ record \in Record /\ mem \in Record
  BY DEF Kept, BaseInv, TypeOK
<1>1. CASE Begin
  <2>1. view' = view \/ view' = Current
    BY <1>1 DEF Begin
  <2>2. view' \in View => TypeOK'
    BY <1>0, <1>1 DEF Begin, BaseInv, TypeOK, Steps
  <2>. QED BY <1>1, <2>1, <2>2, QuietBase DEF Begin
<1>2. CASE CheckEtcd
  <2>1. PICK seen \in SUBSET (Kept \cap up), ok \in BOOLEAN :
             etcd' = [voters |-> IF seen = {} THEN {} ELSE voters, healthy |-> seen, ok |-> ok]
    <3>1. PICK seen \in SUBSET (Kept \cap up) :
             etcd' = [voters |-> IF seen = {} THEN {} ELSE voters, healthy |-> seen,
                      ok |-> /\ Kept # {} /\ Kept = seen
                             /\ VerifyMembership(voters, Listed, Kept, Provisioned, Provisioned)]
      BY <1>2 DEF CheckEtcd
    <3>2. (/\ Kept # {} /\ Kept = seen
           /\ VerifyMembership(voters, Listed, Kept, Provisioned, Provisioned)) \in BOOLEAN
      BY Zenon
    <3>. QED BY <3>1, <3>2
  <2>2. voters \subseteq Machines /\ up \subseteq Machines
    BY DEF voters, up, Existing
  <2>3. etcd' \in [voters : SUBSET Machines, healthy : SUBSET Machines, ok : BOOLEAN]
    BY <2>1, <2>2
  <2>4. /\ UNCHANGED <<objects, broken, spec, record, view, mem, target, history, events, edits>>
        /\ faults' \in Nat /\ pc = "check" /\ pc' = "sweep"
    BY <1>0, <1>2 DEF CheckEtcd
  <2>5. TypeOK'
    BY <2>3, <2>4 DEF BaseInv, TypeOK, Steps
  <2>. QED BY <2>4, <2>5, QuietBase
<1>3. CASE Sweep
  <2>1. mem' \in Record /\ owner' \subseteq Machines /\ pending' \in Nat
    BY <1>0, <1>3 DEF Sweep, SweptRecord, BaseInv, TypeOK
  <2>2. /\ UNCHANGED <<phase, nodeRef, unhealthy, domain, origin, age, broken, spec, record, view,
                       etcd, target, by, depth, stable, rushed, events, edits>>
        /\ faults' \in Nat /\ pc = "sweep" /\ pc' \in {"remediate", "machines"}
    BY <1>0, <1>3 DEF Sweep
  <2>3. TypeOK'
    BY <2>1, <2>2 DEF BaseInv, TypeOK, Steps
  <2>. QED BY <2>2, <2>3, QuietBase
<1>4. CASE StartRemediation \/ NoRemediation \/ RecordFails \/ DeleteFails
  <2>1. /\ UNCHANGED <<objects, broken, spec, record, view, mem, etcd, history, events, edits>>
        /\ faults' \in Nat
        /\ \/ pc' = "record" /\ target' \in Kept
           \/ pc' = "machines" /\ pc = "remediate" /\ target' = target
           \/ pc' = "patch" /\ target' = None
    BY <1>0, <1>4 DEF StartRemediation, NoRemediation, RecordFails, DeleteFails
  <2>2. pc' \in Steps /\ target' \in IF pc' \in {"record", "delete"} THEN Machines ELSE {None}
    <3>1. pc = "remediate" => target = None
      BY DEF BaseInv, TypeOK
    <3>. QED BY <1>0, <2>1, <3>1 DEF Steps
  <2>3. TypeOK'
    BY <2>1, <2>2 DEF BaseInv, TypeOK
  <2>. QED BY <2>1, <2>3, QuietBase
<1>5. CASE RecordRemediation
  <2>1. target \in Machines
    BY <1>5 DEF RecordRemediation, BaseInv, TypeOK
  <2>2. RetryCount(target) \in Nat
    BY <2>1 DEF RetryCount, BaseInv, TypeOK, Record
  <2>3. Cardinality({m \in Machines : phase[m] # "absent"}) \in Nat
    BY CreatedBound DEF Existed
  <2>4. record' \in Record /\ mem' \in Record
    BY <1>5, <2>1, <2>2, <2>3 DEF RecordRemediation, Record
  <2>5. TypeOK'
    BY <1>5, <2>4 DEF RecordRemediation, BaseInv, TypeOK, Steps
  <2>. QED BY <1>5, <2>5, QuietBase DEF RecordRemediation
<1>6. CASE DeleteUnhealthy
  <2>1. target \in Machines
    BY <1>6 DEF DeleteUnhealthy, BaseInv, TypeOK
  <2>2. phase' \in [Machines -> Phases] /\ Ordered' /\ ViewIsPast'
        /\ by' \in [Machines -> {"none", "user", "remediation", "scaling"}]
    <3>1. CASE Existed(target)
      BY <1>6, <2>1, <3>1, RequestBase DEF DeleteUnhealthy
    <3>2. CASE ~Existed(target)
      BY <1>6, <2>1, <3>2 DEF DeleteUnhealthy, RequestDeletion, Existed, BaseInv, TypeOK, Ordered,
         ViewIsPast, Listed
    <3>. QED BY <3>1, <3>2
  <2>3. pending' \in Nat /\ faults' \in Nat
    BY <1>0, <1>6, <2>1 DEF DeleteUnhealthy, BaseInv, TypeOK
  <2>4. TypeOK'
    BY <1>6, <2>2, <2>3 DEF DeleteUnhealthy, BaseInv, TypeOK, Steps
  <2>. QED BY <1>6, <2>2, <2>4 DEF DeleteUnhealthy, BaseInv, Placed
<1>7. CASE ScaleUp
  <2>1. PICK m \in Machines, d \in NextFailureDomainForScaleUp :
           /\ phase[m] = "absent" /\ \A n \in 1..(m - 1) : phase[n] # "absent"
           /\ phase' = [phase EXCEPT ![m] = "running"]
           /\ domain' = [domain EXCEPT ![m] = d]
           /\ origin' = [origin EXCEPT ![m] = mem] /\ depth' = [depth EXCEPT ![m] = pending]
    BY <1>7 DEF ScaleUp
  <2>2. /\ UNCHANGED <<nodeRef, unhealthy, owner, age, broken, spec, record, local, bounds, by, stable>>
        /\ pending' = 0 /\ pc = "machines" /\ pc' = "clear"
    BY <1>7 DEF ScaleUp
  <2>3. rushed' \in BOOLEAN
    BY <1>7, Zenon DEF ScaleUp
  <2>4. /\ phase' \in [Machines -> Phases] /\ origin' \in [Machines -> Record \cup {NoRecord}]
        /\ depth' \in [Machines -> Nat]
    BY <1>0, <2>1 DEF BaseInv, TypeOK, Phases
  <2>5. Placed'
    BY <2>1, NextDomainType DEF BaseInv, Placed
  <2>6. \A n \in Machines : domain'[n] \in Places
    BY <2>5 DEF Placed
  <2>7. TypeOK'
    BY <2>2, <2>3, <2>4, <2>6 DEF BaseInv, TypeOK, Steps, Places
  <2>8. Ordered'
    <3>1. \A n \in Machines : n < m => n \in 1..(m - 1)
      BY ControlPlaneConstants DEF Machines
    <3>. QED BY <2>1, <3>1 DEF BaseInv, TypeOK, Ordered, Existed
  <2>9. ViewIsPast'
    BY <2>1, <2>2 DEF BaseInv, TypeOK, ViewIsPast, Listed, Existed
  <2>. QED BY <2>5, <2>7, <2>8, <2>9 DEF BaseInv
<1>8. CASE ClearRecord
  <2>1. record' \in Record /\ mem' \in Record /\ faults' \in Nat
    BY <1>0, <1>8 DEF ClearRecord
  <2>2. TypeOK'
    BY <1>8, <2>1 DEF ClearRecord, BaseInv, TypeOK, Steps
  <2>. QED BY <1>8, <2>2, QuietBase DEF ClearRecord
<1>9. CASE ScaleDown
  <2>1. PICK m \in Victims : RequestDeletion(m, "scaling")
    BY <1>9 DEF ScaleDown
  <2>2. m \in Machines /\ Existed(m)
    BY VictimListed DEF BaseInv, ViewIsPast, Listed
  <2>3. /\ phase' \in [Machines -> Phases] /\ Ordered' /\ ViewIsPast'
        /\ by' \in [Machines -> {"none", "user", "remediation", "scaling"}]
    BY <1>9, <2>1, <2>2, RequestBase DEF ScaleDown
  <2>4. TypeOK'
    BY <1>0, <1>9, <2>3 DEF ScaleDown, BaseInv, TypeOK, Steps
  <2>. QED BY <1>9, <2>3, <2>4 DEF ScaleDown, BaseInv, Placed
<1>10. CASE NoScaling
  <2>1. faults' \in Nat
    BY <1>0, <1>10 DEF NoScaling
  <2>2. TypeOK'
    BY <1>10, <2>1 DEF NoScaling, BaseInv, TypeOK, Steps
  <2>. QED BY <1>10, <2>2, QuietBase DEF NoScaling
<1>11. CASE Patch
  <2>1. record' \in Record /\ mem' \in Record /\ faults' \in Nat
    BY <1>0, <1>11 DEF Patch
  <2>2. etcd' \in [voters : SUBSET Machines, healthy : SUBSET Machines, ok : BOOLEAN]
    BY <1>11 DEF Patch, NoEtcd
  <2>3. TypeOK'
    BY <1>11, <2>1, <2>2 DEF Patch, BaseInv, TypeOK, Steps
  <2>. QED BY <1>11, <2>3, QuietBase DEF Patch
<1>12. CASE Crash
  <2>1. faults' \in Nat /\ mem' \in Record
    BY <1>0, <1>12 DEF Crash
  <2>2. etcd' \in [voters : SUBSET Machines, healthy : SUBSET Machines, ok : BOOLEAN]
    BY <1>12 DEF Crash, NoEtcd
  <2>3. view' \in View => TypeOK'
    BY <1>12, <2>1, <2>2 DEF Crash, BaseInv, TypeOK, Steps
  <2>. QED BY <1>12, <2>3, QuietBase DEF Crash
<1>. QED BY <1>1, <1>2, <1>3, <1>4, <1>5, <1>6, <1>7, <1>8, <1>9, <1>10, <1>11, <1>12 DEF Reconciler

\* The invariant holds throughout.
LEMMA BaseInvInductive ==
  /\ Init => BaseInv
  /\ BaseInv /\ [Next]_vars => BaseInv'
<1>1. ASSUME BaseInv, UNCHANGED vars PROVE BaseInv'
  BY <1>1 DEF vars, objects, spec, local, bounds, history, BaseInv, TypeOK, Placed, Ordered,
     ViewIsPast, Listed, Existed
<1>. QED BY <1>1, InitBase, EnvironmentBase, ReconcilerBase DEF Next

\* Every state is well typed: a reconcile has a target exactly while it remediates one.
THEOREM TypeCorrect == Spec => []TypeOK
<1>1. BaseInv => TypeOK
  BY DEF BaseInv
<1>. QED BY <1>1, BaseInvInductive, PTL DEF Spec

-----------------------------------------------------------------------------
(* The remediation record: retries, and one remediation at a time *)

\* A remediated Machine is on its way out.
Remediated(m) == phase[m] = "deleting" /\ by[m] = "remediation"
NoneRemediated == ~rushed => \A m \in Machines : ~Remediated(m)

\* No Machine was created since the record was made.
NewestKnown(r) == \A m \in Machines : Existed(m) => m <= r.after

\* A reconcile works with what is recorded, or has found that nothing depends on it.
InMemory == pc # "idle" => mem = record \/ (mem = NoRecord /\ pending = 0 /\ NoneRemediated)

\* A replacement that is due is on record, with its retry, until it is created: the
\* Machine is not taken for one that was not deleted.
Awaited ==
    pending > 0 =>
        /\ record.machine \in Machines /\ pending <= record.count + 1 /\ NewestKnown(record)
        /\ phase[record.machine] # "running"
        /\ record.started => record.machine \notin Kept

\* So is a remediated Machine that is still there.
Shielded ==
    ~rushed => \A m \in Machines : Remediated(m) =>
        /\ record.machine = m /\ NewestKnown(record) /\ m \in Listed
        /\ record.started => m \notin Kept

\* What led the reconcile to a step of a remediation, or past a creation.
Stages ==
    /\ pc = "record" => target \in Kept /\ mem = NoRecord /\ RetryAllowed(target)
    /\ pc = "delete" =>
         /\ target \in Kept /\ mem = record /\ mem.machine = target /\ ~mem.started
         /\ pending = 0 /\ NoneRemediated /\ NewestKnown(mem)
         /\ phase[target] = "running" /\ age[target] # "forgotten" => depth[target] <= mem.count
    /\ pc = "clear" => pending = 0 /\ NoneRemediated

\* The retries on record bound the remediations in a row, until they are forgotten.
Retries ==
    /\ record.count <= MaxRetry /\ mem.count <= MaxRetry
    /\ \A m \in Machines :
         /\ origin[m].count <= MaxRetry /\ depth[m] <= MaxRetry + 1
         /\ Exists(m) /\ age[m] # "forgotten"
              => depth[m] <= IF origin[m] = NoRecord THEN 0 ELSE origin[m].count + 1

RecordInv == InMemory /\ Awaited /\ Shielded /\ Stages /\ Retries

\* Steps that leave Machines, list and record alone.
LEMMA SameRecord ==
  ASSUME RecordInv, UNCHANGED <<phase, by, record, view, pending, rushed, depth, origin, age>>
  PROVE  /\ Awaited' /\ Shielded' /\ NoneRemediated' = NoneRemediated
         /\ mem'.count <= MaxRetry => Retries'
<1>1. \A m \in Machines : Remediated(m)' = Remediated(m)
  BY DEF Remediated
<1>2. NoneRemediated' = NoneRemediated
  BY <1>1 DEF NoneRemediated
<1>3. NewestKnown(record)' = NewestKnown(record)
  BY DEF NewestKnown, Existed
<1>4. Awaited' /\ Shielded'
  BY <1>1, <1>3 DEF RecordInv, Awaited, Shielded, Listed, Kept
<1>. QED BY <1>2, <1>4 DEF RecordInv, Retries, Exists

\* When nothing is on record, nothing depends on it.
LEMMA Unrecorded ==
  ASSUME BaseInv, RecordInv, pc # "idle", mem = NoRecord
  PROVE  pending = 0 /\ NoneRemediated
<1>1. CASE pending = 0 /\ NoneRemediated
  BY <1>1
<1>2. CASE record = NoRecord
  <2>1. record.machine \notin Machines
    BY <1>2, MachineTypes DEF NoRecord
  <2>. QED BY <2>1 DEF RecordInv, Awaited, Shielded, NoneRemediated, BaseInv, TypeOK
<1>. QED BY <1>1, <1>2 DEF RecordInv, InMemory

\* What happens outside the reconcile.
LEMMA EnvironmentRecord == ASSUME BaseInv, RecordInv, Environment PROVE RecordInv'
<1>. USE DEF objects, spec, local, bounds, history
<1>1. ASSUME UNCHANGED <<phase, by, record, view, pending, rushed, depth, origin, age, mem, pc,
                         target>>
      PROVE  RecordInv'
  <2>1. Awaited' /\ Shielded' /\ NoneRemediated' = NoneRemediated /\ Retries'
    BY <1>1, SameRecord DEF RecordInv, Retries
  <2>2. InMemory'
    BY <1>1, <2>1 DEF RecordInv, InMemory
  <2>3. Stages'
    BY <1>1, <2>1 DEF RecordInv, Stages, Kept, NewestKnown, Existed, RetryAllowed, RetryStarts
  <2>. QED BY <2>1, <2>2, <2>3 DEF RecordInv
<1>2. CASE StartTimeout
  <2>1. /\ UNCHANGED <<phase, by, mem, pending, rushed, depth, origin, age, pc, target>>
        /\ pc = "idle" /\ record' = [record EXCEPT !.started = TRUE]
        /\ view' = Current
    BY <1>2 DEF StartTimeout
  <2>2. /\ record'.machine = record.machine /\ record'.count = record.count
        /\ record'.after = record.after
    BY <2>1, MachineTypes DEF BaseInv, TypeOK, Record
  <2>3. view'.phase = phase
    BY <2>1 DEF Current
  <2>4. NewestKnown(record)' = NewestKnown(record)
    BY <2>1, <2>2 DEF NewestKnown, Existed
  <2>5. Awaited' /\ Shielded'
    BY <2>1, <2>2, <2>3, <2>4
       DEF RecordInv, Awaited, Shielded, Remediated, Listed, Kept
  <2>6. Retries'
    BY <2>1, <2>2 DEF RecordInv, Retries, Exists
  <2>. QED BY <2>1, <2>5, <2>6 DEF RecordInv, InMemory, Stages
<1>3. ASSUME NEW m \in Machines, Delete(m) PROVE RecordInv'
  <2>1. /\ UNCHANGED <<record, view, mem, pending, rushed, depth, origin, age, pc, target>>
        /\ phase[m] = "running" /\ phase' = [phase EXCEPT ![m] = "deleting"]
        /\ by' = [by EXCEPT ![m] = "user"]
    BY <1>3 DEF Delete, RequestDeletion, BaseInv, TypeOK
  <2>2. \A n \in Machines : /\ Remediated(n)' = Remediated(n) /\ Existed(n)' = Existed(n)
                            /\ Exists(n)' = Exists(n) /\ (phase'[n] = "running" => phase[n] = "running")
    BY <2>1 DEF BaseInv, TypeOK, Remediated, Existed, Exists
  <2>3. /\ NewestKnown(record)' = NewestKnown(record) /\ NewestKnown(mem)' = NewestKnown(mem)
        /\ NoneRemediated' = NoneRemediated
    BY <2>1, <2>2 DEF NewestKnown, NoneRemediated
  <2>4. Awaited' /\ Shielded' /\ InMemory'
    BY <2>1, <2>2, <2>3 DEF RecordInv, Awaited, Shielded, InMemory, Listed, Kept
  <2>5. Stages'
    BY <2>1, <2>2, <2>3 DEF RecordInv, Stages, Kept, RetryAllowed, RetryStarts
  <2>6. Retries'
    BY <2>1, <2>2 DEF RecordInv, Retries
  <2>. QED BY <2>4, <2>5, <2>6 DEF RecordInv
<1>4. ASSUME NEW m \in Machines, Gone(m) PROVE RecordInv'
  <2>1. /\ UNCHANGED <<record, view, mem, pending, rushed, depth, by, pc, target>>
        /\ phase[m] = "deleting" /\ phase' = [phase EXCEPT ![m] = "gone"]
        /\ origin' = [origin EXCEPT ![m] = NoRecord] /\ age' = [age EXCEPT ![m] = "retrying"]
    BY <1>4 DEF Gone
  <2>2. \A n \in Machines : /\ Remediated(n)' => Remediated(n)
                            /\ Existed(n)' = Existed(n)
                            /\ (Exists(n)' => Exists(n) /\ n # m)
                            /\ (phase'[n] = "running" <=> phase[n] = "running")
    BY <2>1 DEF BaseInv, TypeOK, Remediated, Existed, Exists
  <2>3. /\ NewestKnown(record)' = NewestKnown(record) /\ NewestKnown(mem)' = NewestKnown(mem)
        /\ NoneRemediated => NoneRemediated'
    BY <2>1, <2>2 DEF NewestKnown, NoneRemediated
  <2>4. Awaited' /\ Shielded' /\ InMemory'
    BY <2>1, <2>2, <2>3 DEF RecordInv, Awaited, Shielded, InMemory, Listed, Kept
  <2>5. /\ origin'[m] = NoRecord /\ NoRecord.count = 0
        /\ \A n \in Machines \ {m} : origin'[n] = origin[n] /\ age'[n] = age[n]
    BY <2>1 DEF BaseInv, TypeOK, NoRecord
  <2>6. Stages'
    <3>1. ASSUME pc = "record" PROVE RetryAllowed(target)'
      <4>1. target \in Machines
        BY <3>1 DEF BaseInv, TypeOK
      <4>. QED BY <2>1, <2>5, <3>1, <4>1 DEF RecordInv, Stages, RetryAllowed, RetryStarts
    <3>2. ASSUME pc = "delete", phase'[target] = "running" PROVE age'[target] = age[target]
      <4>1. target \in Machines
        BY <3>2 DEF BaseInv, TypeOK
      <4>. QED BY <2>1, <2>2, <2>5, <3>2, <4>1
    <3>3. pc = "delete" => target \in Machines
      BY DEF BaseInv, TypeOK
    <3>. QED BY <2>1, <2>2, <2>3, <3>1, <3>2, <3>3 DEF RecordInv, Stages, Kept
  <2>7. Retries'
    BY <2>1, <2>2, <2>5, ControlPlaneConstants DEF RecordInv, Retries
  <2>. QED BY <2>4, <2>6, <2>7 DEF RecordInv
<1>5. ASSUME NEW m \in Machines, Age(m) PROVE RecordInv'
  <2>1. /\ UNCHANGED <<phase, by, record, view, mem, pending, rushed, depth, origin, pc, target>>
        /\ age' = [age EXCEPT ![m] = IF @ = "retrying" THEN "due" ELSE "forgotten"]
    BY <1>5 DEF Age
  <2>2. \A n \in Machines : /\ age'[n] # "forgotten" => age[n] # "forgotten"
                            /\ age[n] = "forgotten" => age'[n] = "forgotten"
                            /\ age[n] = "due" => age'[n] \in {"due", "forgotten"}
    BY <2>1 DEF BaseInv, TypeOK
  <2>3. Retries'
    BY <2>1, <2>2 DEF RecordInv, Retries, Exists
  <2>4. /\ NewestKnown(record)' = NewestKnown(record) /\ NewestKnown(mem)' = NewestKnown(mem)
        /\ NoneRemediated' = NoneRemediated
        /\ \A n \in Machines : Remediated(n)' = Remediated(n)
    BY <2>1 DEF NewestKnown, NoneRemediated, Remediated, Existed
  <2>5. Awaited' /\ Shielded' /\ InMemory'
    BY <2>1, <2>4 DEF RecordInv, Awaited, Shielded, InMemory, Listed, Kept
  <2>6. pc \in {"record", "delete"} => target \in Machines
    BY DEF BaseInv, TypeOK
  <2>7. Stages'
    BY <2>1, <2>2, <2>4, <2>6 DEF RecordInv, Stages, Kept, RetryAllowed, RetryStarts
  <2>. QED BY <2>3, <2>5, <2>7 DEF RecordInv
<1>6. ASSUME NEW m \in Machines, Break(m) \/ Join(m) \/ FindUnhealthy(m) \/ FindHealthy(m)
      PROVE  RecordInv'
  BY <1>1, <1>6 DEF Break, Join, FindUnhealthy, FindHealthy
<1>7. CASE Edit
  BY <1>1, <1>7 DEF Edit
<1>. QED BY <1>2, <1>3, <1>4, <1>5, <1>6, <1>7 DEF Environment

\* A stale record is one that nothing depends on any more.
LEMMA SweepRecord == ASSUME BaseInv, RecordInv, Sweep PROVE RecordInv'
<1>. USE DEF objects, spec, local, bounds, history
<1>1. /\ UNCHANGED <<phase, by, record, view, rushed, depth, origin, age, replicas>>
      /\ mem' = SweptRecord /\ pending' \in {0, pending}
      /\ pc = "sweep" /\ pc' \in {"remediate", "machines"}
  BY DEF Sweep
<1>2. \A m \in Machines : Remediated(m)' = Remediated(m)
  BY <1>1 DEF Remediated
<1>3. NewestKnown(record)' = NewestKnown(record) /\ NoneRemediated' = NoneRemediated
  BY <1>1, <1>2 DEF NewestKnown, NoneRemediated, Existed
<1>4. Awaited' /\ Shielded'
  BY <1>1, <1>2, <1>3 DEF RecordInv, Awaited, Shielded, Listed, Kept
<1>5. Retries'
  <2>1. mem'.count <= MaxRetry
    BY <1>1, ControlPlaneConstants DEF SweptRecord, NoRecord, RecordInv, Retries
  <2>. QED BY <1>1, <2>1 DEF RecordInv, Retries, Exists
<1>6. InMemory'
  <2>1. CASE mem # NoRecord /\ RecordStale
    <3>1. mem = record /\ mem' = NoRecord
      BY <1>1, <2>1 DEF RecordInv, InMemory, SweptRecord
    <3>2. CASE \E m \in Listed : m > mem.after
      <4>1. ~NewestKnown(record)
        <5>1. PICK m \in Listed : m > record.after
          BY <3>1, <3>2
        <5>2. m \in Machines /\ Existed(m) /\ m \in Nat /\ record.after \in Nat
          BY MachineTypes DEF Listed, BaseInv, TypeOK, Record, ViewIsPast
        <5>. QED BY <5>1, <5>2 DEF NewestKnown
      <4>2. ~(pending > 0) /\ NoneRemediated
        BY <4>1 DEF RecordInv, Awaited, Shielded, NoneRemediated
      <4>3. pending = 0
        BY <4>2 DEF BaseInv, TypeOK
      <4>. QED BY <1>1, <1>3, <3>1, <4>2, <4>3 DEF InMemory
    <3>3. CASE mem.machine \notin Listed /\ Cardinality(Kept) >= replicas
      <4>1. pending' = 0
        BY <2>1, <3>3 DEF Sweep
      <4>2. NoneRemediated
        BY <3>1, <3>3 DEF RecordInv, Shielded, NoneRemediated
      <4>. QED BY <1>3, <3>1, <4>1, <4>2 DEF InMemory
    <3>4. CASE mem.machine \in Kept /\ mem.started
      <4>1. ~(pending > 0) /\ NoneRemediated
        BY <3>1, <3>4 DEF RecordInv, Awaited, Shielded, NoneRemediated
      <4>2. pending = 0
        BY <4>1 DEF BaseInv, TypeOK
      <4>. QED BY <1>1, <1>3, <3>1, <4>1, <4>2 DEF InMemory
    <3>. QED BY <2>1, <3>2, <3>3, <3>4 DEF RecordStale
  <2>2. CASE mem = NoRecord \/ ~RecordStale
    <3>1. mem' = mem
      BY <1>1, <2>2 DEF SweptRecord
    <3>. QED BY <1>1, <1>3, <3>1 DEF RecordInv, InMemory
  <2>. QED BY <2>1, <2>2
<1>. QED BY <1>1, <1>4, <1>5, <1>6 DEF RecordInv, Stages

\* The record is made before the Machine is deleted, with its retry.
LEMMA RecordingRecord == ASSUME BaseInv, RecordInv, RecordRemediation PROVE RecordInv'
<1>. USE DEF objects, spec, local, bounds, history
<1>. DEFINE after == Cardinality({m \in Machines : Existed(m)})
            r == [machine |-> target, count |-> RetryCount(target), started |-> FALSE,
                  after |-> after]
<1>1. /\ UNCHANGED <<phase, by, view, pending, rushed, depth, origin, age, target>>
      /\ record' = r /\ mem' = r /\ pc = "record" /\ pc' = "delete"
  BY DEF RecordRemediation, Existed
<1>2. target \in Machines /\ target \in Kept /\ mem = NoRecord /\ RetryAllowed(target)
  BY <1>1 DEF BaseInv, TypeOK, RecordInv, Stages
<1>3. pending = 0 /\ NoneRemediated
  BY <1>1, <1>2, Unrecorded
<1>4. RetryCount(target) <= MaxRetry
  BY <1>2, ControlPlaneConstants
     DEF RetryAllowed, RetryStarts, RetryCount, BaseInv, TypeOK, Record, NoRecord
<1>5. r.machine = target /\ r.count = RetryCount(target) /\ r.started = FALSE /\ r.after = after
  OBVIOUS
<1>6. NewestKnown(mem)' /\ NoneRemediated'
  <2>1. \A m \in Machines : Existed(m) => m <= mem'.after
    BY <1>1, <1>5, CreatedBound
  <2>. QED BY <1>1, <1>3, <2>1 DEF NewestKnown, NoneRemediated, Remediated, Existed
<1>7. phase[target] = "running" /\ age[target] # "forgotten" => depth[target] <= r.count
  BY <1>2 DEF RecordInv, Retries, Exists, RetryCount, RetryStarts
<1>. HIDE DEF r, after
<1>8. Awaited' /\ Shielded' /\ InMemory'
  BY <1>1, <1>3, <1>6 DEF Awaited, Shielded, InMemory, NoneRemediated
<1>9. Stages'
  <2>1. mem' = record' /\ mem'.machine = target /\ ~mem'.started /\ mem'.count = r.count
    BY <1>1, <1>5
  <2>. QED BY <1>1, <1>2, <1>3, <1>6, <1>7, <2>1 DEF Stages, Kept
<1>10. Retries'
  BY <1>1, <1>4, <1>5 DEF RecordInv, Retries, Exists
<1>. QED BY <1>8, <1>9, <1>10 DEF RecordInv

\* The deletion: from here on the record stands for the Machine and its replacement.
LEMMA DeletionRecord == ASSUME BaseInv, RecordInv, DeleteUnhealthy PROVE RecordInv'
<1>. USE DEF objects, spec, local, bounds, history
<1>1. /\ UNCHANGED <<record, mem, view, rushed, depth, origin, age>>
      /\ pc = "delete" /\ pc' = "patch" /\ target \in Machines
  BY DEF DeleteUnhealthy, BaseInv, TypeOK
<1>2. /\ target \in Kept /\ mem = record /\ mem.machine = target /\ ~mem.started
      /\ pending = 0 /\ NoneRemediated /\ NewestKnown(mem)
      /\ phase[target] = "running" /\ age[target] # "forgotten" => depth[target] <= mem.count
  BY <1>1 DEF RecordInv, Stages
<1>3. CASE phase[target] # "running"
  <2>1. UNCHANGED <<phase, by, pending>>
    BY <1>3 DEF DeleteUnhealthy, RequestDeletion, BaseInv, TypeOK
  <2>2. Awaited' /\ Shielded' /\ Retries'
    BY <1>1, <2>1, SameRecord DEF RecordInv, Retries
  <2>. QED BY <1>1, <1>2, <2>2 DEF RecordInv, InMemory, Stages
<1>4. CASE phase[target] = "running"
  <2>1. /\ phase' = [phase EXCEPT ![target] = "deleting"]
        /\ by' = [by EXCEPT ![target] = "remediation"]
        /\ pending' = (IF age[target] = "forgotten" THEN 0 ELSE depth[target]) + 1
    BY <1>4 DEF DeleteUnhealthy, RequestDeletion, BaseInv, TypeOK
  <2>2. /\ \A n \in Machines : Existed(n)' = Existed(n) /\ Exists(n)' = Exists(n)
        /\ \A n \in Machines : Remediated(n)' => Remediated(n) \/ n = target
        /\ phase'[target] = "deleting"
    BY <1>1, <1>4, <2>1 DEF BaseInv, TypeOK, Remediated, Existed, Exists
  <2>3. NewestKnown(record)'
    BY <1>1, <1>2, <2>2 DEF NewestKnown
  <2>4. pending' <= record.count + 1
    <3>1. depth[target] \in Nat /\ record.count \in Nat
      BY <1>1, MachineTypes DEF BaseInv, TypeOK, Record
    <3>. QED BY <1>2, <1>4, <2>1, <3>1
  <2>5. Awaited'
    BY <1>1, <1>2, <2>2, <2>3, <2>4 DEF Awaited
  <2>6. Shielded'
    BY <1>1, <1>2, <2>2, <2>3 DEF Shielded, NoneRemediated, Listed, Kept
  <2>7. Retries'
    BY <1>1, <2>2 DEF RecordInv, Retries
  <2>. QED BY <1>1, <1>2, <2>5, <2>6, <2>7 DEF RecordInv, InMemory, Stages
<1>. QED BY <1>3, <1>4

\* The replacement carries the record.
LEMMA CreationRecord == ASSUME BaseInv, RecordInv, ScaleUp PROVE RecordInv'
<1>. USE DEF objects, spec, local, bounds, history
<1>1. PICK m \in Machines : /\ phase[m] = "absent" /\ phase' = [phase EXCEPT ![m] = "running"]
                            /\ origin' = [origin EXCEPT ![m] = mem]
                            /\ depth' = [depth EXCEPT ![m] = pending]
  BY DEF ScaleUp
<1>2. /\ UNCHANGED <<record, mem, view, by, age>> /\ pending' = 0
      /\ rushed' = (rushed \/ \E n \in Kept : Remediated(n))
      /\ pc = "machines" /\ pc' = "clear"
  BY DEF ScaleUp, Remediated
<1>3. /\ \A n \in Machines : Remediated(n)' => Remediated(n)
      /\ \A n \in Machines \ {m} : /\ Exists(n)' = Exists(n) /\ origin'[n] = origin[n]
                                   /\ depth'[n] = depth[n]
      /\ origin'[m] = mem /\ depth'[m] = pending
  BY <1>1, <1>2 DEF BaseInv, TypeOK, Remediated, Exists
<1>4. NoneRemediated'
  <2>1. ASSUME ~rushed', NEW n \in Machines, Remediated(n) PROVE FALSE
    <3>1. ~rushed /\ n \notin Kept
      BY <1>2, <2>1
    <3>2. n \in InDeletion
      BY <2>1, <3>1 DEF RecordInv, Shielded, InDeletion
    <3>3. InDeletion = {}
      BY <3>2 DEF ScaleUp, MayScaleUp, PreflightChecksForScaleUp, PreflightChecks, InDeletion
    <3>. QED BY <3>2, <3>3
  <2>. QED BY <1>3, <2>1 DEF NoneRemediated
<1>5. pending <= IF mem = NoRecord THEN 0 ELSE mem.count + 1
  <2>1. CASE pending > 0
    <3>1. mem = record /\ record.machine \in Machines /\ pending <= record.count + 1
      BY <1>2, <2>1 DEF RecordInv, InMemory, Awaited
    <3>2. mem # NoRecord
      BY <3>1, MachineTypes DEF NoRecord
    <3>. QED BY <3>1, <3>2
  <2>2. CASE pending = 0
    <3>1. mem.count \in Nat
      BY MachineTypes DEF BaseInv, TypeOK, Record
    <3>. QED BY <2>2, <3>1
  <2>. QED BY <2>1, <2>2 DEF BaseInv, TypeOK
<1>6. pending <= MaxRetry + 1
  <2>1. mem.count \in Nat /\ mem.count <= MaxRetry /\ MaxRetry \in Nat /\ pending \in Nat
    BY MachineTypes, ControlPlaneConstants DEF RecordInv, Retries, BaseInv, TypeOK, Record
  <2>. QED BY <1>5, <2>1
<1>7. Retries'
  BY <1>2, <1>3, <1>5, <1>6 DEF RecordInv, Retries
<1>8. Awaited' /\ Shielded'
  BY <1>2, <1>4 DEF Awaited, Shielded, NoneRemediated
<1>9. InMemory'
  BY <1>2, <1>4 DEF RecordInv, InMemory
<1>10. Stages'
  BY <1>2, <1>4 DEF Stages
<1>. QED BY <1>7, <1>8, <1>9, <1>10 DEF RecordInv

\* A Machine is deleted because of its number, not for a remediation.
LEMMA ScaleDownRecord == ASSUME BaseInv, RecordInv, ScaleDown PROVE RecordInv'
<1>. USE DEF objects, spec, local, bounds, history
<1>1. /\ UNCHANGED <<record, mem, view, pending, rushed, depth, origin, age>>
      /\ pc = "machines" /\ pc' = "patch"
  BY DEF ScaleDown
<1>2. PICK m \in Machines : RequestDeletion(m, "scaling")
  BY VictimListed DEF ScaleDown, Listed
<1>3. \A n \in Machines : /\ Remediated(n)' = Remediated(n) /\ Existed(n)' = Existed(n)
                          /\ Exists(n)' = Exists(n) /\ (phase'[n] = "running" => phase[n] = "running")
  BY <1>2 DEF RequestDeletion, BaseInv, TypeOK, Remediated, Existed, Exists
<1>4. NewestKnown(record)' = NewestKnown(record) /\ NoneRemediated' = NoneRemediated
  BY <1>1, <1>3 DEF NewestKnown, NoneRemediated
<1>5. Awaited' /\ Shielded' /\ InMemory'
  BY <1>1, <1>3, <1>4 DEF RecordInv, Awaited, Shielded, InMemory, Listed, Kept
<1>6. Retries'
  BY <1>1, <1>3 DEF RecordInv, Retries
<1>. QED BY <1>1, <1>5, <1>6 DEF RecordInv, Stages

\* Every step of the reconcile.
LEMMA ReconcilerRecord == ASSUME BaseInv, RecordInv, Reconciler \/ Crash PROVE RecordInv'
<1>. USE DEF objects, spec, local, bounds, history
<1>1. ASSUME view' = Current, UNCHANGED <<phase, by, record, pending, rushed>>
      PROVE  Awaited' /\ Shielded' /\ NoneRemediated' = NoneRemediated
  <2>1. view'.phase = phase
    BY <1>1 DEF Current
  <2>2. \A m \in Machines : Remediated(m)' = Remediated(m)
    BY <1>1 DEF Remediated
  <2>3. NewestKnown(record)' = NewestKnown(record) /\ NoneRemediated' = NoneRemediated
    BY <1>1, <2>2 DEF NewestKnown, NoneRemediated, Existed
  <2>. QED BY <1>1, <2>1, <2>2, <2>3 DEF RecordInv, Awaited, Shielded, Remediated, Listed, Kept
<1>2. CASE Begin
  <2>1. /\ UNCHANGED <<phase, by, record, pending, rushed, depth, origin, age>>
        /\ view' = view \/ view' = Current
        /\ mem' = record /\ pc' = "check"
    BY <1>2 DEF Begin
  <2>2. Awaited' /\ Shielded'
    BY <1>1, <2>1, SameRecord
  <2>3. Retries'
    BY <2>1 DEF RecordInv, Retries, Exists
  <2>. QED BY <2>1, <2>2, <2>3 DEF RecordInv, InMemory, Stages
<1>3. CASE Crash
  <2>1. /\ UNCHANGED <<phase, by, record, pending, rushed, depth, origin, age>>
        /\ view' = Current /\ mem' = NoRecord /\ pc' = "idle"
    BY <1>3 DEF Crash
  <2>2. mem'.count <= MaxRetry
    BY <2>1, ControlPlaneConstants DEF NoRecord
  <2>3. Retries'
    BY <2>1, <2>2 DEF RecordInv, Retries, Exists
  <2>. QED BY <1>1, <2>1, <2>3 DEF RecordInv, InMemory, Stages
<1>4. CASE CheckEtcd \/ NoRemediation \/ RecordFails \/ DeleteFails \/ NoScaling
  <2>1. /\ UNCHANGED <<phase, by, record, view, mem, pending, rushed, depth, origin, age>>
        /\ pc # "idle" /\ pc' \in {"sweep", "machines", "patch"}
    BY <1>4 DEF CheckEtcd, NoRemediation, RecordFails, DeleteFails, NoScaling
  <2>2. Awaited' /\ Shielded' /\ NoneRemediated' = NoneRemediated /\ Retries'
    BY <2>1, SameRecord DEF RecordInv, Retries
  <2>. QED BY <2>1, <2>2 DEF RecordInv, InMemory, Stages
<1>5. CASE StartRemediation
  <2>1. /\ UNCHANGED <<phase, by, record, view, mem, pending, rushed, depth, origin, age>>
        /\ pc # "idle" /\ pc' = "record"
        /\ target' \in Kept /\ mem = NoRecord /\ RetryAllowed(target')
    BY <1>5 DEF StartRemediation
  <2>2. Awaited' /\ Shielded' /\ NoneRemediated' = NoneRemediated /\ Retries'
    BY <2>1, SameRecord DEF RecordInv, Retries
  <2>3. Stages'
    BY <2>1 DEF Stages, Kept, RetryAllowed, RetryStarts
  <2>. QED BY <2>1, <2>2, <2>3 DEF RecordInv, InMemory
<1>6. CASE ClearRecord
  <2>1. /\ UNCHANGED <<phase, by, view, pending, rushed, depth, origin, age>>
        /\ pc = "clear" /\ pc' = "patch"
        /\ \/ UNCHANGED <<record, mem>>
           \/ record' = NoRecord /\ mem' = NoRecord
    BY <1>6 DEF ClearRecord
  <2>2. pending = 0 /\ NoneRemediated
    BY <2>1 DEF RecordInv, Stages
  <2>3. NoneRemediated'
    BY <2>1, <2>2 DEF NoneRemediated, Remediated
  <2>4. Awaited' /\ Shielded'
    BY <2>1, <2>2, <2>3 DEF Awaited, Shielded, NoneRemediated
  <2>5. record'.count <= MaxRetry /\ mem'.count <= MaxRetry
    BY <2>1, ControlPlaneConstants DEF NoRecord, RecordInv, Retries
  <2>6. Retries'
    BY <2>1, <2>5 DEF RecordInv, Retries, Exists
  <2>. QED BY <2>1, <2>3, <2>4, <2>6 DEF RecordInv, InMemory, Stages
<1>7. CASE Patch
  <2>1. /\ UNCHANGED <<phase, by, view, pending, rushed, depth, origin, age>>
        /\ pc = "patch" /\ pc' = "idle" /\ mem' = NoRecord /\ record' \in {mem, record}
    BY <1>7 DEF Patch
  <2>2. Awaited' /\ Shielded'
    <3>1. CASE record' = record
      BY <2>1, <3>1, SameRecord
    <3>2. CASE record' # record
      <4>1. pending = 0 /\ NoneRemediated
        BY <2>1, <3>2 DEF RecordInv, InMemory
      <4>2. NoneRemediated'
        BY <2>1, <4>1 DEF NoneRemediated, Remediated
      <4>. QED BY <2>1, <4>1, <4>2 DEF Awaited, Shielded, NoneRemediated
    <3>. QED BY <3>1, <3>2
  <2>3. record'.count <= MaxRetry /\ mem'.count <= MaxRetry
    BY <2>1, ControlPlaneConstants DEF NoRecord, RecordInv, Retries
  <2>4. Retries'
    BY <2>1, <2>3 DEF RecordInv, Retries, Exists
  <2>. QED BY <2>1, <2>2, <2>4 DEF RecordInv, InMemory, Stages
<1>. QED BY <1>2, <1>3, <1>4, <1>5, <1>6, <1>7, SweepRecord, RecordingRecord, DeletionRecord,
         CreationRecord, ScaleDownRecord DEF Reconciler

\* The initial states, with Machines that replaced one before.
LEMMA InitRecord == Init => RecordInv
<1>. SUFFICES ASSUME Init PROVE RecordInv
  OBVIOUS
<1>1. \A m \in Machines : ~Remediated(m)
  BY DEF Init, Remediated
<1>2. /\ NoRecord.count = 0 /\ PastRecord.count = 0 /\ NoRecord # PastRecord
      /\ NoRecord.started = FALSE /\ PastRecord.started = TRUE /\ MaxRetry \in Nat
  BY ControlPlaneConstants DEF NoRecord, PastRecord
<1>3. Retries
  BY <1>2 DEF Init, Retries
<1>. QED BY <1>1, <1>3 DEF Init, RecordInv, InMemory, Awaited, Shielded, Stages

\* The invariant holds throughout.
LEMMA RecordInvariant == Spec => [](BaseInv /\ RecordInv)
<1>1. Init => BaseInv /\ RecordInv
  BY InitBase, InitRecord
<1>2. BaseInv /\ RecordInv /\ [Next]_vars => (BaseInv /\ RecordInv)'
  <2>1. ASSUME RecordInv, UNCHANGED vars PROVE RecordInv'
    BY <2>1 DEF vars, objects, spec, local, bounds, history, RecordInv, InMemory, Awaited, Shielded,
       Stages, Retries, Remediated, NoneRemediated, NewestKnown, Existed, Exists, Listed, Kept,
       RetryAllowed, RetryStarts
  <2>. QED BY <2>1, BaseInvInductive, EnvironmentRecord, ReconcilerRecord DEF Next
<1>. QED BY <1>1, <1>2, PTL DEF Spec

\* checkRemediationRetryLimits: no Machine stands at the end of more than MaxRetry + 1
\* remediations in a row, whatever crashed or failed between them.
THEOREM RetriesAreBounded == Spec => []RetriesBounded
<1>1. ASSUME BaseInv, RecordInv PROVE RetriesBounded
  <2>1. /\ record.count \in Nat /\ record.count <= MaxRetry /\ MaxRetry \in Nat
        /\ pending \in Nat /\ (pending > 0 => pending <= record.count + 1)
    BY <1>1, MachineTypes, ControlPlaneConstants
       DEF RecordInv, Retries, Awaited, BaseInv, TypeOK, Record
  <2>2. pending <= MaxRetry + 1
    BY <2>1
  <2>. QED BY <1>1, <2>2 DEF RetriesBounded, RecordInv, Retries
<1>. QED BY <1>1, RecordInvariant, PTL

\* patchRemediationInProgress: no second Machine is remediated while one is on its way
\* out, however outdated the lists are, until a list that does not show it has a
\* Machine created.
THEOREM RemediationsOneByOne == Spec => []OneRemediationAtATime
<1>1. RecordInv => OneRemediationAtATime
  BY DEF RecordInv, Shielded, Remediated, OneRemediationAtATime
<1>. QED BY <1>1, RecordInvariant, PTL

-----------------------------------------------------------------------------
(* The abstract specification of remediations *)

Alive == {m \in Machines : phase[m] = "running"}
Going == {m \in Machines : Remediated(m)}

\* What the abstract specification talks of.
Abstract == <<Alive, Going, depth, pending, rushed>>

\* The steps of the abstract specification, in the terms of the reconcile.
LEMMA AbstractSteps ==
  ASSUME Remediation!Next \/ UNCHANGED Abstract
  PROVE  [Remediation!Next]_Remediation!rvars
BY DEF Abstract, Alive, Going, Remediated, Remediation!rvars

\* Nobody the controller is waiting for is on its way out.
LEMMA SettledWhenNone ==
  ASSUME NoneRemediated
  PROVE  Remediation!Settled
BY DEF NoneRemediated, Remediated, Remediation!Settled

\* A deletion by a user or a scale-down is not a remediation.
LEMMA RequestIsRemoval ==
  ASSUME BaseInv, NEW m \in Machines, NEW who \in {"user", "scaling"}, RequestDeletion(m, who),
         UNCHANGED <<depth, pending, rushed>>
  PROVE  Remediation!Next \/ UNCHANGED Abstract
<1>1. CASE phase[m] = "running"
  <2>1. phase' = [phase EXCEPT ![m] = "deleting"] /\ by' = [by EXCEPT ![m] = who]
    BY <1>1 DEF RequestDeletion
  <2>2. Alive' = Alive \ {m} /\ Going' = Going /\ m \in Alive
    BY <1>1, <2>1 DEF Alive, Going, Remediated, BaseInv, TypeOK
  <2>3. Remediation!Remove(m)
    BY <2>2 DEF Alive, Going, Remediated, Remediation!Remove
  <2>. QED BY <2>3 DEF Remediation!Next
<1>2. CASE phase[m] # "running"
  <2>1. phase' = phase /\ by' = by
    BY <1>2 DEF RequestDeletion, BaseInv, TypeOK
  <2>. QED BY <2>1 DEF Abstract, Alive, Going, Remediated
<1>. QED BY <1>1, <1>2

\* The deletion of an unhealthy Machine starts a remediation: the one before is over.
LEMMA DeletionIsRemediation ==
  ASSUME BaseInv, RecordInv, DeleteUnhealthy
  PROVE  Remediation!Next \/ UNCHANGED Abstract
<1>1. pc = "delete" /\ target \in Machines /\ UNCHANGED <<depth, rushed>>
  BY DEF DeleteUnhealthy, BaseInv, TypeOK
<1>2. /\ pending = 0 /\ NoneRemediated
      /\ phase[target] = "running" /\ age[target] # "forgotten" => depth[target] <= mem.count
      /\ mem.count <= MaxRetry
  BY <1>1 DEF RecordInv, Stages, Retries
<1>3. CASE phase[target] = "running"
  <2>1. /\ phase' = [phase EXCEPT ![target] = "deleting"]
        /\ by' = [by EXCEPT ![target] = "remediation"]
        /\ pending' = (IF age[target] = "forgotten" THEN 0 ELSE depth[target]) + 1
    BY <1>3 DEF DeleteUnhealthy, RequestDeletion
  <2>2. Alive' = Alive \ {target} /\ Going' = Going \cup {target} /\ target \in Alive
    BY <1>1, <1>3, <2>1 DEF Alive, Going, Remediated, BaseInv, TypeOK
  <2>3. pending' \in {1, depth[target] + 1} /\ pending' <= MaxRetry + 1
    <3>1. depth[target] \in Nat /\ mem.count \in Nat /\ MaxRetry \in Nat
      BY <1>1, MachineTypes, ControlPlaneConstants DEF BaseInv, TypeOK, Record
    <3>. QED BY <1>2, <1>3, <2>1, <3>1
  <2>4. Remediation!Settled
    BY <1>2, SettledWhenNone
  <2>5. PICK m \in Machines : m = target
    BY <1>1
  <2>6. Remediation!Remediate(m)
    BY <1>1, <1>2, <2>2, <2>3, <2>4, <2>5 DEF Alive, Going, Remediated, Remediation!Remediate
  <2>. QED BY <2>6 DEF Remediation!Next
<1>4. CASE phase[target] # "running"
  <2>1. phase' = phase /\ by' = by /\ pending' = pending
    BY <1>4 DEF DeleteUnhealthy, RequestDeletion, BaseInv, TypeOK
  <2>. QED BY <1>1, <2>1 DEF Abstract, Alive, Going, Remediated
<1>. QED BY <1>3, <1>4

\* A scale-up creates the replacement that is due, if any.
LEMMA ScaleUpIsCreation ==
  ASSUME BaseInv, RecordInv, ScaleUp
  PROVE  Remediation!Next
<1>1. PICK m \in Machines : /\ phase[m] = "absent" /\ phase' = [phase EXCEPT ![m] = "running"]
                            /\ depth' = [depth EXCEPT ![m] = pending]
  BY DEF ScaleUp
<1>2. /\ UNCHANGED <<by, record, view>> /\ pending' = 0
      /\ rushed' = (rushed \/ \E n \in Kept : Remediated(n))
  BY DEF ScaleUp, local, Remediated
<1>3. Alive' = Alive \cup {m} /\ Going' = Going /\ m \notin Alive \cup Going
  BY <1>1, <1>2 DEF Alive, Going, Remediated, BaseInv, TypeOK
<1>4. rushed' = (rushed \/ Going # {})
  <2>1. ASSUME ~rushed, NEW n \in Machines, Remediated(n) PROVE n \in Kept
    <3>1. n \in Listed
      BY <2>1 DEF RecordInv, Shielded
    <3>2. Listed # {} => InDeletion = {}
      BY DEF ScaleUp, MayScaleUp, PreflightChecksForScaleUp, PreflightChecks
    <3>. QED BY <3>1, <3>2 DEF InDeletion
  <2>2. rushed \in BOOLEAN
    BY DEF BaseInv, TypeOK
  <2>3. CASE rushed
    BY <1>2, <2>3
  <2>4. CASE ~rushed
    <3>1. (\E n \in Kept : Remediated(n)) <=> Going # {}
      BY <2>1, <2>4 DEF Going, Kept
    <3>. QED BY <1>2, <3>1
  <2>. QED BY <2>2, <2>3, <2>4
<1>5. Remediation!Create(m)
  BY <1>1, <1>2, <1>3, <1>4 DEF Alive, Going, Remediated, Remediation!Create
<1>. QED BY <1>5 DEF Remediation!Next

\* A record is dropped when its Machine is gone and none is needed in its place.
LEMMA SweepIsWithdrawal ==
  ASSUME BaseInv, RecordInv, Sweep
  PROVE  Remediation!Next \/ UNCHANGED Abstract
<1>1. UNCHANGED <<phase, by, depth, rushed>> /\ pc = "sweep"
  BY DEF Sweep
<1>2. Alive' = Alive /\ Going' = Going
  BY <1>1 DEF Alive, Going, Remediated
<1>3. CASE pending' = pending
  BY <1>1, <1>2, <1>3 DEF Abstract
<1>4. CASE pending' # pending
  <2>1. mem # NoRecord /\ mem.machine \notin Listed /\ pending' = 0
    BY <1>4 DEF Sweep
  <2>2. mem = record
    BY <1>1, <2>1 DEF RecordInv, InMemory
  <2>3. NoneRemediated
    BY <2>1, <2>2 DEF RecordInv, Shielded, NoneRemediated
  <2>4. Remediation!Withdraw
    BY <1>1, <1>2, <2>1, <2>3, SettledWhenNone
       DEF Alive, Going, Remediated, Remediation!Withdraw
  <2>. QED BY <2>4 DEF Remediation!Next
<1>. QED BY <1>3, <1>4

\* A Machine that is gone was remediated or not.
LEMMA GoneIsLeaving ==
  ASSUME BaseInv, NEW m \in Machines, Gone(m)
  PROVE  Remediation!Next \/ UNCHANGED Abstract
<1>1. /\ phase[m] = "deleting" /\ phase' = [phase EXCEPT ![m] = "gone"]
      /\ UNCHANGED <<by, depth, pending, rushed>>
  BY DEF Gone
<1>2. Alive' = Alive /\ Going' = Going \ {m}
  BY <1>1 DEF Alive, Going, Remediated, BaseInv, TypeOK
<1>3. CASE m \in Going
  <2>1. Remediation!Leave(m)
    BY <1>1, <1>2, <1>3 DEF Alive, Going, Remediated, Remediation!Leave
  <2>. QED BY <2>1 DEF Remediation!Next
<1>4. CASE m \notin Going
  BY <1>1, <1>2, <1>4 DEF Abstract
<1>. QED BY <1>3, <1>4

\* reconcileRemediationInProgress: the record, written before a deletion and dropped
\* after a creation, keeps the promise of Remediations, for any sequence of crashes,
\* failed and unanswered calls, verdicts, deletions by users and outdated lists.
THEOREM RemediationsImplemented == Spec => ImplementsRemediations
<1>1. Init => Remediation!Init
  <2>. SUFFICES ASSUME Init PROVE Remediation!Init
    OBVIOUS
  <2>1. {m \in Machines : m <= Initial} = 1..Initial
    BY ControlPlaneConstants DEF Machines
  <2>2. Alive = 1..Initial /\ Going = {}
    BY <2>1 DEF Init, Alive, Going, Remediated
  <2>. QED BY <2>2 DEF Init, Alive, Going, Remediated, Remediation!Init
<1>2. ASSUME BaseInv, RecordInv, [Next]_vars PROVE Remediation!Next \/ UNCHANGED Abstract
  <2>. USE DEF objects, spec, local, bounds, history
  <2>1. ASSUME UNCHANGED <<phase, by, depth, pending, rushed>> PROVE UNCHANGED Abstract
    BY <2>1 DEF Abstract, Alive, Going, Remediated
  <2>2. CASE \/ Begin \/ CheckEtcd \/ StartRemediation \/ NoRemediation \/ RecordRemediation
             \/ RecordFails \/ DeleteFails \/ ClearRecord \/ NoScaling \/ Patch \/ Crash
             \/ Edit \/ StartTimeout \/ UNCHANGED vars
    BY <2>1, <2>2 DEF Begin, CheckEtcd, StartRemediation, NoRemediation, RecordRemediation,
       RecordFails, DeleteFails, ClearRecord, NoScaling, Patch, Crash, Edit, StartTimeout, vars
  <2>3. ASSUME NEW m \in Machines,
               Break(m) \/ Join(m) \/ FindUnhealthy(m) \/ FindHealthy(m) \/ Age(m)
        PROVE  UNCHANGED Abstract
    BY <2>1, <2>3 DEF Break, Join, FindUnhealthy, FindHealthy, Age
  <2>4. ASSUME NEW m \in Machines, Delete(m) PROVE Remediation!Next \/ UNCHANGED Abstract
    BY <1>2, <2>4, RequestIsRemoval DEF Delete
  <2>5. CASE ScaleDown
    <3>1. PICK m \in Machines : RequestDeletion(m, "scaling")
      BY <2>5, VictimListed DEF ScaleDown, Listed
    <3>2. UNCHANGED <<depth, pending, rushed>>
      BY <2>5 DEF ScaleDown
    <3>. QED BY <1>2, <3>1, <3>2, RequestIsRemoval
  <2>. QED BY <1>2, <2>2, <2>3, <2>4, <2>5, DeletionIsRemediation, ScaleUpIsCreation,
           SweepIsWithdrawal, GoneIsLeaving
           DEF Next, Reconciler, Environment
<1>3. BaseInv /\ RecordInv /\ [Next]_vars => [Remediation!Next]_Remediation!rvars
  BY <1>2, AbstractSteps
<1>. QED BY <1>1, <1>3, RecordInvariant, PTL DEF Spec, ImplementsRemediations, Remediation!Spec

\* What follows from the promise alone.
Promised ==
    /\ rushed \in BOOLEAN /\ pending \in 0..(MaxRetry + 1)
    /\ depth \in [Machines -> 0..(MaxRetry + 1)]
    /\ ~rushed => \A m, n \in Going : m = n

\* Every step of the abstract specification keeps it.
LEMMA PromiseKept ==
  ASSUME Promised, [Remediation!Next]_Remediation!rvars
  PROVE  Promised'
<1>1. MaxRetry \in Nat
  BY ControlPlaneConstants
<1>2. CASE Remediation!Withdraw
  <2>1. UNCHANGED <<Alive, Going, depth, rushed>> /\ pending' = 0
    BY <1>2 DEF Alive, Going, Remediated, Remediation!Withdraw
  <2>. QED BY <1>1, <2>1 DEF Promised
<1>3. ASSUME NEW m \in Machines, Remediation!Remediate(m) PROVE Promised'
  <2>1. /\ Going' = Going \cup {m} /\ UNCHANGED <<depth, rushed>>
        /\ rushed \/ Going = {}
        /\ pending' \in {1, depth[m] + 1} /\ pending' <= MaxRetry + 1
    BY <1>3 DEF Going, Remediated, Remediation!Remediate, Remediation!Settled
  <2>2. pending' \in 0..(MaxRetry + 1)
    BY <1>1, <2>1 DEF Promised
  <2>. QED BY <2>1, <2>2 DEF Promised
<1>4. ASSUME NEW m \in Machines, Remediation!Create(m) PROVE Promised'
  <2>1. /\ Going' = Going /\ depth' = [depth EXCEPT ![m] = pending] /\ pending' = 0
        /\ rushed' = (rushed \/ Going # {})
    BY <1>4 DEF Going, Remediated, Remediation!Create
  <2>2. depth' \in [Machines -> 0..(MaxRetry + 1)]
    BY <2>1 DEF Promised
  <2>3. rushed' \in BOOLEAN /\ (~rushed' => ~rushed)
    BY <2>1, Zenon DEF Promised
  <2>4. pending' \in 0..(MaxRetry + 1)
    BY <1>1, <2>1
  <2>. QED BY <2>1, <2>2, <2>3, <2>4 DEF Promised
<1>5. ASSUME NEW m \in Machines, Remediation!Leave(m) \/ Remediation!Remove(m) PROVE Promised'
  <2>1. Going' \subseteq Going /\ UNCHANGED <<depth, pending, rushed>>
    BY <1>5 DEF Going, Remediated, Remediation!Leave, Remediation!Remove
  <2>. QED BY <2>1 DEF Promised
<1>6. CASE UNCHANGED Remediation!rvars
  <2>1. Going' = Going /\ UNCHANGED <<depth, pending, rushed>>
    BY <1>6 DEF Going, Remediated, Remediation!rvars
  <2>. QED BY <2>1 DEF Promised
<1>. QED BY <1>2, <1>3, <1>4, <1>5, <1>6 DEF Remediation!Next

\* Remediations is enough of a promise: whatever keeps it replaces no Machine forever, and
\* remediates no second one next to one it waits for.
THEOREM PromiseSuffices == ImplementsRemediations => [](RetriesBounded /\ OneRemediationAtATime)
<1>1. Remediation!Init => Promised
  <2>. SUFFICES ASSUME Remediation!Init PROVE Promised
    OBVIOUS
  <2>1. /\ Going = {} /\ pending = 0 /\ rushed = FALSE
        /\ depth = [m \in Machines |-> IF m \in Replacements THEN 1 ELSE 0]
    BY DEF Going, Remediated, Remediation!Init
  <2>2. 0 \in 0..(MaxRetry + 1) /\ 1 \in 0..(MaxRetry + 1)
    BY ControlPlaneConstants
  <2>3. depth \in [Machines -> 0..(MaxRetry + 1)]
    BY <2>1, <2>2, Zenon
  <2>. QED BY <2>1, <2>2, <2>3 DEF Promised
<1>2. Promised /\ [Remediation!Next]_Remediation!rvars => Promised'
  BY PromiseKept
<1>3. Promised => RetriesBounded /\ OneRemediationAtATime
  <2>1. MaxRetry \in Nat
    BY ControlPlaneConstants
  <2>. QED BY <2>1 DEF Promised, Going, Remediated, RetriesBounded, OneRemediationAtATime
<1>. QED BY <1>1, <1>2, <1>3, PTL DEF ImplementsRemediations, Remediation!Spec

-----------------------------------------------------------------------------
(* Deletions and the quorum of etcd *)

\* Once etcd is checked, and as long as nothing happens to it, the machines counted as
\* healthy run a member, and the member list is the one that was read.
Fresh ==
    stable /\ pc \in {"sweep", "remediate", "record", "delete", "machines"} =>
        /\ etcd.healthy \subseteq up
        /\ etcd.healthy # {} => etcd.voters = voters
        /\ etcd.ok => /\ Kept = etcd.healthy
                      /\ VerifyMembership(voters, Listed, Kept, Provisioned, Provisioned)

\* A Machine to be remediated has passed the checks, and keeps passing them.
Checked == pc \in {"record", "delete"} => target \in Kept /\ MayRemediate(target)

EtcdInv == Fresh /\ Checked

\* Voters are Machines.
LEMMA VoterTypes ==
  /\ voters \subseteq Machines /\ up \subseteq voters
  /\ IsFiniteSet(voters) /\ \A m : IsFiniteSet(voters \ {m})
<1>1. voters \subseteq Machines /\ up \subseteq voters
  BY DEF voters, up, Existing
<1>2. \A m : voters \ {m} \in SUBSET voters
  OBVIOUS
<1>. QED BY <1>1, <1>2, MachineTypes, FS_Subset

\* Steps that leave the list, the health check and etcd alone, on the way to a deletion.
LEMMA SameEtcd ==
  ASSUME EtcdInv, UNCHANGED <<view, etcd, nodeRef, broken, stable>>, Existing' = Existing,
         pc \in {"sweep", "remediate", "record"},
         pc' \in {"record", "delete"} => target' \in Kept /\ MayRemediate(target')
  PROVE  EtcdInv'
<1>1. /\ voters' = voters /\ up' = up /\ Listed' = Listed /\ Kept' = Kept
      /\ Provisioned' = Provisioned
  BY DEF voters, up, Listed, Kept, Provisioned
<1>2. RecordedHealthy' = RecordedHealthy
  BY <1>1 DEF RecordedHealthy
<1>3. Fresh'
  BY <1>1 DEF EtcdInv, Fresh
<1>4. Checked'
  BY <1>1, <1>2 DEF Checked, MayRemediate
<1>. QED BY <1>3, <1>4 DEF EtcdInv

\* What happens outside the reconcile, to etcd or to Machines whose members stay.
LEMMA EnvironmentEtcd == ASSUME BaseInv, EtcdInv, Environment PROVE EtcdInv'
<1>. USE DEF objects, spec, local, bounds, history
<1>1. ASSUME Disturb, UNCHANGED <<view, etcd, pc, target>> PROVE EtcdInv'
  <2>1. Fresh'
    BY <1>1 DEF Disturb, Fresh
  <2>2. /\ Listed' = Listed /\ Kept' = Kept /\ Provisioned' = Provisioned
        /\ RecordedHealthy' = RecordedHealthy
    BY <1>1 DEF Listed, Kept, Provisioned, RecordedHealthy
  <2>3. Checked'
    BY <1>1, <2>2 DEF EtcdInv, Checked, MayRemediate
  <2>. QED BY <2>1, <2>3 DEF EtcdInv
<1>2. ASSUME UNCHANGED <<view, etcd, nodeRef, broken, stable, pc, target>>, Existing' = Existing
      PROVE  EtcdInv'
  <2>1. /\ voters' = voters /\ up' = up /\ Listed' = Listed /\ Kept' = Kept
        /\ Provisioned' = Provisioned /\ RecordedHealthy' = RecordedHealthy
    BY <1>2 DEF voters, up, Listed, Kept, Provisioned, RecordedHealthy
  <2>. QED BY <1>2, <2>1 DEF EtcdInv, Fresh, Checked, MayRemediate
<1>3. CASE Edit
  BY <1>2, <1>3 DEF Edit, Existing, Exists
<1>4. CASE StartTimeout
  BY <1>4 DEF StartTimeout, EtcdInv, Fresh, Checked
<1>5. ASSUME NEW m \in Machines, Break(m) \/ Join(m) \/ Gone(m) PROVE EtcdInv'
  BY <1>1, <1>5 DEF Break, Join, Gone
<1>6. ASSUME NEW m \in Machines, FindUnhealthy(m) \/ FindHealthy(m) \/ Age(m) PROVE EtcdInv'
  BY <1>2, <1>6 DEF FindUnhealthy, FindHealthy, Age, Existing, Exists
<1>7. ASSUME NEW m \in Machines, Delete(m) PROVE EtcdInv'
  <2>1. phase[m] = "running" /\ phase' = [phase EXCEPT ![m] = "deleting"]
    BY <1>7 DEF Delete, RequestDeletion, BaseInv, TypeOK
  <2>2. \A n \in Machines : Exists(n)' <=> Exists(n)
    BY <2>1 DEF BaseInv, TypeOK, Exists
  <2>. QED BY <1>2, <1>7, <2>2 DEF Delete, Existing
<1>. QED BY <1>3, <1>4, <1>5, <1>6, <1>7 DEF Environment

\* Every step of the reconcile.
LEMMA ReconcilerEtcd == ASSUME BaseInv, EtcdInv, Reconciler \/ Crash PROVE EtcdInv'
<1>. USE DEF objects, spec, local, bounds, history
<1>1. CASE CheckEtcd
  <2>1. PICK seen \in SUBSET (Kept \cap up) :
          etcd' = [voters |-> IF seen = {} THEN {} ELSE voters, healthy |-> seen,
                   ok |-> /\ Kept # {} /\ Kept = seen
                          /\ VerifyMembership(voters, Listed, Kept, Provisioned, Provisioned)]
    BY <1>1 DEF CheckEtcd
  <2>2. /\ UNCHANGED <<objects, broken, view, target>> /\ pc' = "sweep"
    BY <1>1 DEF CheckEtcd
  <2>3. /\ voters' = voters /\ up' = up /\ Listed' = Listed /\ Kept' = Kept
        /\ Provisioned' = Provisioned
    BY <2>2 DEF voters, up, Existing, Exists, Listed, Kept, Provisioned
  <2>4. /\ etcd'.healthy = seen /\ (seen # {} => etcd'.voters = voters)
        /\ etcd'.ok => /\ Kept = seen
                       /\ VerifyMembership(voters, Listed, Kept, Provisioned, Provisioned)
    BY <2>1
  <2>5. Fresh'
    BY <2>3, <2>4 DEF Fresh
  <2>. QED BY <2>2, <2>5 DEF EtcdInv, Checked
<1>2. CASE Begin \/ Patch \/ Crash \/ ClearRecord \/ ScaleUp \/ ScaleDown \/ NoScaling
           \/ RecordFails \/ DeleteFails \/ DeleteUnhealthy
  <2>1. pc' \in {"check", "idle", "patch", "clear"}
    BY <1>2 DEF Begin, Patch, Crash, ClearRecord, ScaleUp, ScaleDown, NoScaling, RecordFails,
       DeleteFails, DeleteUnhealthy
  <2>. QED BY <2>1 DEF EtcdInv, Fresh, Checked
<1>3. CASE Sweep \/ NoRemediation \/ StartRemediation \/ RecordRemediation
  <2>1. /\ UNCHANGED <<phase, nodeRef, broken, view, etcd, stable>>
        /\ pc \in {"sweep", "remediate", "record"}
        /\ pc' \in {"remediate", "machines", "record", "delete"}
    BY <1>3 DEF Sweep, NoRemediation, StartRemediation, RecordRemediation
  <2>2. pc' \in {"record", "delete"} => target' \in Kept /\ MayRemediate(target')
    BY <1>3 DEF Sweep, NoRemediation, StartRemediation, RecordRemediation, EtcdInv, Checked
  <2>3. Existing' = Existing
    BY <2>1 DEF Existing, Exists
  <2>. QED BY <2>1, <2>2, <2>3, SameEtcd
<1>. QED BY <1>1, <1>2, <1>3 DEF Reconciler

\* The invariant holds throughout.
LEMMA EtcdInvariant == Spec => [](BaseInv /\ EtcdInv)
<1>1. Init => EtcdInv
  BY DEF Init, EtcdInv, Fresh, Checked
<1>2. ASSUME EtcdInv, UNCHANGED vars PROVE EtcdInv'
  BY <1>2 DEF vars, objects, spec, local, bounds, history, EtcdInv, Fresh, Checked, MayRemediate,
     RecordedHealthy, Listed, Kept, Provisioned, voters, up, Existing, Exists
<1>3. BaseInv /\ EtcdInv /\ [Next]_vars => EtcdInv'
  BY <1>2, EnvironmentEtcd, ReconcilerEtcd DEF Next
<1>. QED BY <1>1, <1>3, BaseInvInductive, PTL DEF Spec

\* A remediation is committed by etcd, and leaves it a majority.
LEMMA RemediationLeavesQuorum ==
  ASSUME EtcdInv, stable, pc = "delete"
  PROVE  HasMajority(voters \ {target}, up)
<1>1. /\ RecordedHealthy # {}
      /\ CanSafelyRemoveEtcdMember(etcd.voters, {}, target, Listed, Provisioned, RecordedHealthy)
  BY DEF EtcdInv, Checked, MayRemediate
<1>2. RecordedHealthy \subseteq up /\ etcd.voters = voters
  BY <1>1 DEF EtcdInv, Fresh, RecordedHealthy
<1>. QED BY <1>1, <1>2, VoterTypes, SafeRemoval

\* A Machine that is scaled down or rolled out leaves members that all run.
LEMMA ScaleDownLeavesQuorum ==
  ASSUME EtcdInv, stable, pc = "machines", NEW m \in Victims
  PROVE  HasMajority(voters \ {m}, up)
<1>1. /\ InDeletion = {} /\ Listed \ {m} \subseteq Provisioned /\ Listed \ {m} \subseteq up
      /\ etcd.ok /\ Cardinality(Listed) > 1
  BY DEF Victims, Picked, PreflightChecks, ComponentsHealthy
<1>2. /\ Kept \subseteq up /\ Listed = Kept /\ m \in Listed
      /\ VerifyMembership(voters, Listed, Kept, Provisioned, Provisioned)
  BY <1>1, VictimListed DEF EtcdInv, Fresh, InDeletion, Listed, Kept
<1>. DEFINE unmatched == voters \ MatchedBy(Listed, Provisioned)
            rest == voters \ {m}
<1>3. unmatched \subseteq {m}
  <2>1. Cardinality(unmatched) = Cardinality(Kept \ Provisioned) /\ IsFiniteSet(unmatched)
    <3>1. unmatched \in SUBSET voters
      OBVIOUS
    <3>. QED BY <1>2, <3>1, VoterTypes, FS_Subset DEF VerifyMembership
  <2>2. CASE m \in Provisioned
    <3>1. Kept \ Provisioned = {}
      BY <1>1, <1>2, <2>2
    <3>2. Cardinality(unmatched) = 0
      BY <2>1, <3>1, FS_EmptySet
    <3>. QED BY <2>1, <3>2, FS_EmptySet
  <2>3. CASE m \notin Provisioned
    <3>1. Kept \ Provisioned = {m} /\ m \in unmatched
      BY <1>1, <1>2, <2>3, VoterTypes DEF MatchedBy
    <3>2. Cardinality(unmatched) = 1
      BY <2>1, <3>1, FS_Singleton
    <3>3. PICK x : unmatched = {x}
      BY <2>1, <3>2, FS_Singleton
    <3>. QED BY <3>1, <3>3
  <2>. QED BY <2>2, <2>3
<1>4. rest \subseteq up
  BY <1>2, <1>3 DEF MatchedBy
<1>5. rest # {}
  <2>1. SUFFICES ASSUME Listed \subseteq {m} PROVE FALSE
    BY <1>2, VoterTypes
  <2>2. Listed = {m}
    BY <1>2, <2>1
  <2>3. Cardinality({m}) = 1
    BY FS_Singleton
  <2>. QED BY <1>1, <2>2, <2>3
<1>. QED BY <1>4, <1>5, VoterTypes, AllUpIsMajority

\* reconcileUnhealthyMachines, selectMachineForScaleDown and the preflight checks: no
\* Machine the controller deletes takes the majority of etcd with it, whatever the list
\* of Machines does not show, unless something happens to etcd after it was checked.
THEOREM DeletionsLeaveQuorum == Spec => DeletionsKeepQuorum
<1>1. ASSUME BaseInv, EtcdInv, [Next]_vars, NEW m \in Machines,
             by'[m] \in {"remediation", "scaling"}, by[m] = "none", stable
      PROVE  HasMajority(voters \ {m}, up)
  <2>. USE DEF objects, spec, local, bounds, history
  <2>1. by' # by
    BY <1>1
  <2>2. CASE DeleteUnhealthy
    <3>1. pc = "delete" /\ m = target
      BY <1>1, <2>2 DEF DeleteUnhealthy, RequestDeletion, BaseInv, TypeOK
    <3>. QED BY <1>1, <3>1, RemediationLeavesQuorum
  <2>3. CASE ScaleDown
    <3>1. pc = "machines" /\ m \in Victims
      BY <1>1, <2>3 DEF ScaleDown, RequestDeletion, BaseInv, TypeOK
    <3>. QED BY <1>1, <3>1, ScaleDownLeavesQuorum
  <2>4. ASSUME NEW n \in Machines, Delete(n) PROVE FALSE
    BY <1>1, <2>4 DEF Delete, RequestDeletion, BaseInv, TypeOK
  <2>5. CASE UNCHANGED by
    BY <2>1, <2>5
  <2>. QED BY <1>1, <2>2, <2>3, <2>4, <2>5
           DEF Next, Reconciler, Environment, vars, Begin, CheckEtcd, Sweep, StartRemediation,
               NoRemediation, RecordRemediation, RecordFails, DeleteFails, ScaleUp, ClearRecord,
               NoScaling, Patch, Crash, Edit, StartTimeout, Break, Join, FindUnhealthy,
               FindHealthy, Gone, Age
<1>2. BaseInv /\ EtcdInv /\ [Next]_vars =>
        [\A m \in Machines :
           by'[m] \in {"remediation", "scaling"} /\ by[m] = "none" /\ stable
             => HasMajority(voters \ {m}, up)]_vars
  BY <1>1
<1>. QED BY <1>2, EtcdInvariant, PTL DEF Spec, DeletionsKeepQuorum

-----------------------------------------------------------------------------
(* One deletion at a time, when the list of Machines is up to date *)

\* The controller deletes this Machine.
Leaving(m) == phase[m] = "deleting" /\ by[m] \in {"remediation", "scaling"}

\* A reconcile that may still delete a Machine has the earlier deletion on its list.
Noticed ==
    pc \notin {"idle", "clear", "patch"} => \A m \in Machines : Leaving(m) => m \in InDeletion

DeletionInv == Noticed /\ OneDeletionAtATime

\* Steps that delete no Machine on behalf of the controller.
LEMMA NoNewDeletion ==
  ASSUME DeletionInv, \A m \in Machines : Leaving(m)' => Leaving(m),
         \/ UNCHANGED view /\ (pc' \in {"idle", "clear", "patch"} \/
                               pc \notin {"idle", "clear", "patch"})
         \/ view' = Current /\ UNCHANGED phase
         \/ pc' \in {"idle", "clear", "patch"}
  PROVE  DeletionInv'
<1>1. OneDeletionAtATime'
  BY DEF DeletionInv, OneDeletionAtATime, Leaving
<1>2. Noticed'
  <2>1. CASE view' = Current /\ UNCHANGED phase
    <3>1. view'.phase = phase'
      BY <2>1 DEF Current
    <3>. QED BY <3>1 DEF Noticed, Leaving, InDeletion, Listed, Kept
  <2>. QED BY <2>1 DEF DeletionInv, Noticed, InDeletion, Listed, Kept
<1>. QED BY <1>1, <1>2 DEF DeletionInv

\* A deletion by the controller, of a Machine when it has no other on its list.
LEMMA NewDeletion ==
  ASSUME BaseInv, DeletionInv, InDeletion = {}, pc \in {"delete", "machines"}, pc' = "patch",
         NEW m \in Machines, NEW who \in {"remediation", "scaling"}, RequestDeletion(m, who)
  PROVE  DeletionInv'
<1>1. \A n \in Machines : ~Leaving(n)
  BY DEF DeletionInv, Noticed
<1>2. \A n \in Machines : Leaving(n)' => n = m
  BY <1>1 DEF RequestDeletion, Leaving, BaseInv, TypeOK
<1>3. OneDeletionAtATime'
  BY <1>2 DEF OneDeletionAtATime, Leaving
<1>. QED BY <1>3 DEF DeletionInv, Noticed

\* Every step.
LEMMA StepDeletion ==
  ASSUME StaleCache = FALSE, BaseInv, EtcdInv, DeletionInv, [Next]_vars
  PROVE  DeletionInv'
<1>. USE DEF objects, spec, local, bounds, history
<1>1. CASE DeleteUnhealthy
  <2>1. pc = "delete" /\ target \in Kept /\ MayRemediate(target) /\ target \in Machines
    BY <1>1 DEF DeleteUnhealthy, EtcdInv, Checked, Kept
  <2>2. InDeletion = {}
    BY <2>1 DEF MayRemediate, InDeletion
  <2>. QED BY <1>1, <2>1, <2>2, NewDeletion DEF DeleteUnhealthy
<1>2. CASE ScaleDown
  <2>1. PICK m \in Victims : RequestDeletion(m, "scaling")
    BY <1>2 DEF ScaleDown
  <2>2. m \in Machines /\ InDeletion = {}
    BY VictimListed DEF Listed, Victims, PreflightChecks
  <2>. QED BY <1>2, <2>1, <2>2, NewDeletion DEF ScaleDown
<1>3. CASE ScaleUp
  <2>1. \A m \in Machines : Leaving(m)' => Leaving(m)
    BY <1>3 DEF ScaleUp, Leaving, BaseInv, TypeOK
  <2>. QED BY <1>3, <2>1, NoNewDeletion DEF ScaleUp
<1>4. ASSUME NEW m \in Machines, Delete(m) \/ Gone(m) PROVE DeletionInv'
  <2>1. \A n \in Machines : Leaving(n)' => Leaving(n)
    BY <1>4 DEF Delete, Gone, RequestDeletion, Leaving, BaseInv, TypeOK
  <2>2. UNCHANGED <<view, pc>>
    BY <1>4 DEF Delete, Gone
  <2>. QED BY <2>1, <2>2, NoNewDeletion
<1>5. CASE Begin
  <2>1. view' = Current /\ UNCHANGED <<phase, by>>
    BY <1>5 DEF Begin
  <2>2. \A m \in Machines : Leaving(m)' => Leaving(m)
    BY <2>1 DEF Leaving
  <2>. QED BY <2>1, <2>2, NoNewDeletion
<1>6. ASSUME UNCHANGED <<phase, by>>,
             \/ UNCHANGED <<view, pc>>
             \/ pc' \in {"idle", "clear", "patch"}
             \/ UNCHANGED view /\ pc \notin {"idle", "clear", "patch"}
      PROVE  DeletionInv'
  <2>1. \A m \in Machines : Leaving(m)' => Leaving(m)
    BY <1>6 DEF Leaving
  <2>. QED BY <1>6, <2>1, NoNewDeletion
<1>7. CASE \/ RecordFails \/ DeleteFails \/ ClearRecord \/ NoScaling \/ Patch \/ Crash
           \/ Edit \/ StartTimeout
  <2>1. UNCHANGED <<phase, by>> /\ pc' \in {"idle", "clear", "patch"}
    BY <1>7 DEF RecordFails, DeleteFails, ClearRecord, NoScaling, Patch, Crash, Edit, StartTimeout
  <2>. QED BY <1>6, <2>1
<1>8. CASE CheckEtcd \/ Sweep \/ StartRemediation \/ NoRemediation \/ RecordRemediation
  <2>1. UNCHANGED <<phase, by, view>> /\ pc \notin {"idle", "clear", "patch"}
    BY <1>8 DEF CheckEtcd, Sweep, StartRemediation, NoRemediation, RecordRemediation
  <2>. QED BY <1>6, <2>1
<1>9. ASSUME NEW m \in Machines, Break(m) \/ Join(m) \/ FindUnhealthy(m) \/ FindHealthy(m) \/ Age(m)
      PROVE  DeletionInv'
  BY <1>6, <1>9 DEF Break, Join, FindUnhealthy, FindHealthy, Age
<1>10. CASE UNCHANGED vars
  BY <1>6, <1>10 DEF vars
<1>. QED BY <1>1, <1>2, <1>3, <1>4, <1>5, <1>7, <1>8, <1>9, <1>10
         DEF Next, Reconciler, Environment

\* reconcileRemediationAndMachines: with a list of Machines that is up to date, the
\* controller deletes no Machine while one it deleted before is still on its way out,
\* whichever of remediation, scale-down and rollout asks for it.
THEOREM DeletionsOneByOne ==
  ASSUME StaleCache = FALSE
  PROVE  Spec => []OneDeletionAtATime
<1>1. Init => DeletionInv
  BY DEF Init, DeletionInv, Noticed, OneDeletionAtATime
<1>2. BaseInv /\ EtcdInv /\ DeletionInv /\ [Next]_vars => DeletionInv'
  BY StepDeletion
<1>3. DeletionInv => OneDeletionAtATime
  BY DEF DeletionInv
<1>. QED BY <1>1, <1>2, <1>3, EtcdInvariant, PTL DEF Spec

-----------------------------------------------------------------------------
(* Failure domains: the Machines stay evenly spread *)

\* The Machines that are compared: a rollout replaces the outdated ones.
Counted == Alive \ (IF OnDelete THEN {} ELSE outdated)

Even(S) == \A d, e \in FailureDomains : Count(d, S) <= Count(e, S) + 1

\* The Machines are evenly spread at the start.
EvenStart ==
    \A d, e \in FailureDomains : Cardinality({m \in 1..Initial : Placement[m] = d})
                                  <= Cardinality({m \in 1..Initial : Placement[m] = e}) + 1

\* No user asked for a Machine of a failure domain to go first.
Spared == EvenStart /\ \A m \in ToDelete : Existed(m) => domain[m] \notin FailureDomains

\* A Machine is outdated by a change of the spec that it was there for.
OutdatedExisted == \A m \in outdated : Existed(m)

\* Nobody but the controller creates and deletes Machines.
Undisturbed ==
    /\ unhealthy = {} /\ view.unhealthy = {} /\ pc \notin {"record", "delete"}
    /\ pc \notin {"idle", "clear", "patch"} => Kept = Alive

SpreadInv == OutdatedExisted /\ (events = 0 => Undisturbed /\ (Spared => Even(Counted)))

\* Counting Machines.
LEMMA CountType ==
  ASSUME NEW S \in SUBSET Machines, NEW d
  PROVE  IsFiniteSet({m \in S : domain[m] = d}) /\ Count(d, S) \in Nat
<1>1. {m \in S : domain[m] = d} \in SUBSET Machines
  OBVIOUS
<1>. QED BY <1>1, MachineTypes, FS_Subset, FS_CardinalityType DEF Count

\* One Machine less in its failure domain.
LEMMA CountWithout ==
  ASSUME NEW S \in SUBSET Machines, NEW m \in S, NEW d
  PROVE  Count(d, S \ {m}) = IF d = domain[m] THEN Count(d, S) - 1 ELSE Count(d, S)
<1>. DEFINE T == {n \in S : domain[n] = d}
<1>1. {n \in S \ {m} : domain[n] = d} = T \ {m}
  OBVIOUS
<1>2. m \in T <=> d = domain[m]
  OBVIOUS
<1>3. Cardinality(T \ {m}) = IF m \in T THEN Cardinality(T) - 1 ELSE Cardinality(T)
  <2>1. IsFiniteSet(T)
    BY CountType
  <2>. QED BY <2>1, FS_RemoveElement
<1>. QED BY <1>1, <1>2, <1>3 DEF Count

\* One Machine more in its failure domain.
LEMMA CountWith ==
  ASSUME BaseInv, NEW S \in SUBSET Machines, NEW m \in Machines, m \notin S, NEW d, NEW home,
         domain' = [domain EXCEPT ![m] = home]
  PROVE  Cardinality({n \in S \cup {m} : domain'[n] = d})
           = IF d = home THEN Count(d, S) + 1 ELSE Count(d, S)
<1>. DEFINE T == {n \in S : domain[n] = d}
<1>1. domain'[m] = home /\ \A n \in S : domain'[n] = domain[n]
  BY DEF BaseInv, Placed
<1>2. {n \in S \cup {m} : domain'[n] = d} = IF d = home THEN T \cup {m} ELSE T
  BY <1>1
<1>3. m \notin T /\ Cardinality(T \cup {m}) = Cardinality(T) + 1
  <2>1. IsFiniteSet(T) /\ m \notin T
    BY CountType
  <2>. QED BY <2>1, FS_AddElement
<1>. QED BY <1>2, <1>3 DEF Count

\* NextFailureDomainForScaleUp: a Machine that is added where there are fewest.
LEMMA EvenWith ==
  ASSUME BaseInv, NEW S \in SUBSET Machines, NEW m \in Machines, m \notin S, Even(S), NEW home,
         home \in FailureDomains => \A e \in FailureDomains : Count(home, S) <= Count(e, S),
         domain' = [domain EXCEPT ![m] = home], NEW T, T = S \cup {m}
  PROVE  \A d, e \in FailureDomains : Cardinality({n \in T : domain'[n] = d})
                                        <= Cardinality({n \in T : domain'[n] = e}) + 1
<1>. SUFFICES ASSUME NEW d \in FailureDomains, NEW e \in FailureDomains
              PROVE  Cardinality({n \in T : domain'[n] = d})
                       <= Cardinality({n \in T : domain'[n] = e}) + 1
  OBVIOUS
<1>1. /\ Cardinality({n \in T : domain'[n] = d}) = IF d = home THEN Count(d, S) + 1 ELSE Count(d, S)
      /\ Cardinality({n \in T : domain'[n] = e}) = IF e = home THEN Count(e, S) + 1 ELSE Count(e, S)
  BY CountWith
<1>2. Count(d, S) \in Nat /\ Count(e, S) \in Nat /\ Count(d, S) <= Count(e, S) + 1
  BY CountType DEF Even
<1>3. d = home => Count(d, S) <= Count(e, S)
  OBVIOUS
<1>. QED BY <1>1, <1>2, <1>3

\* MachineInFailureDomainWithMostMachines: a Machine that is taken where there are most,
\* or outside the failure domains.
LEMMA EvenWithout ==
  ASSUME NEW S \in SUBSET Machines, NEW m \in S, Even(S),
         domain[m] \in FailureDomains =>
           \A e \in FailureDomains : Count(e, S) <= Count(domain[m], S)
  PROVE  Even(S \ {m})
<1>. SUFFICES ASSUME NEW d \in FailureDomains, NEW e \in FailureDomains
              PROVE  Count(d, S \ {m}) <= Count(e, S \ {m}) + 1
  BY DEF Even
<1>1. /\ Count(d, S \ {m}) = IF d = domain[m] THEN Count(d, S) - 1 ELSE Count(d, S)
      /\ Count(e, S \ {m}) = IF e = domain[m] THEN Count(e, S) - 1 ELSE Count(e, S)
  BY CountWithout
<1>2. Count(d, S) \in Nat /\ Count(e, S) \in Nat /\ Count(d, S) <= Count(e, S) + 1
  BY CountType DEF Even
<1>3. e = domain[m] => Count(d, S) <= Count(e, S)
  OBVIOUS
<1>. QED BY <1>1, <1>2, <1>3

\* selectMachineForScaleDown, when no Machine is to be remediated: outdated Machines and
\* those a user picked come first, then any of the ones that are listed.
LEMMA CandidateKinds ==
  ASSUME Flagged = {}
  PROVE  \/ ScaleDownCandidates \subseteq MachinesNeedingRollout \cup (Listed \cap ToDelete)
         \/ ScaleDownCandidates = Listed /\ MachinesNeedingRollout = {}
<1>. DEFINE old   == MachinesNeedingRollout
            marks == <<old \cap ToDelete, Listed \cap ToDelete, old \cap Flagged, Kept \cap Flagged, old>>
            First(i) == marks[i] # {} /\ \A j \in 1..(i - 1) : marks[j] = {}
<1>1. \A i \in 1..5 : marks[i] \subseteq old \cup (Listed \cap ToDelete)
  <2>. HIDE DEF old
  <2>1. /\ marks[1] \subseteq old /\ marks[2] \subseteq Listed \cap ToDelete
        /\ marks[3] = {} /\ marks[4] = {} /\ marks[5] = old
    OBVIOUS
  <2>. HIDE DEF marks
  <2>2. \A i \in 1..5 : i = 1 \/ i = 2 \/ i = 3 \/ i = 4 \/ i = 5
    OBVIOUS
  <2>. QED BY <2>1, <2>2
<1>2. marks[5] = old
  OBVIOUS
<1>. HIDE DEF marks
<1>3. CASE \E i \in 1..5 : marks[i] # {}
  <2>1. \E i \in 1..5 : First(i)
    <3>. DEFINE S == {i \in 1..5 : marks[i] # {}}
    <3>1. S \subseteq Nat /\ S # {}
      BY <1>3
    <3>2. PICK i \in S : \A j \in S : i <= j
      BY <3>1, MinimumExists
    <3>3. First(i)
      BY <3>2
    <3>. QED BY <3>3
  <2>2. (CHOOSE i \in 1..5 : First(i)) \in 1..5
    BY <2>1
  <2>3. marks[CHOOSE i \in 1..5 : First(i)] \subseteq old \cup (Listed \cap ToDelete)
    BY <1>1, <2>2
  <2>. QED BY <1>3, <2>3 DEF ScaleDownCandidates, marks
<1>4. CASE ~\E i \in 1..5 : marks[i] # {}
  <2>1. old = {}
    BY <1>2, <1>4
  <2>. QED BY <1>4, <2>1 DEF ScaleDownCandidates, marks
<1>. QED BY <1>3, <1>4

\* With nobody else about, the Machines that count are the ones a reconcile counts.
LEMMA CountedOnList ==
  ASSUME Kept = Alive
  PROVE  Counted = Kept \ MachinesNeedingRollout /\ Counted \in SUBSET Machines
BY DEF Counted, MachinesNeedingRollout, Kept, Alive

\* A scale-up keeps the Machines evenly spread.
LEMMA ScaleUpSpread ==
  ASSUME BaseInv, OutdatedExisted, Even(Counted), Kept = Alive, ScaleUp
  PROVE  Even(Counted)'
<1>1. PICK m \in Machines, home \in NextFailureDomainForScaleUp :
         /\ phase[m] = "absent" /\ phase' = [phase EXCEPT ![m] = "running"]
         /\ domain' = [domain EXCEPT ![m] = home]
  BY DEF ScaleUp
<1>2. UNCHANGED outdated
  BY DEF ScaleUp, spec
<1>3. m \notin Counted /\ m \notin outdated
  BY <1>1 DEF Counted, Alive, OutdatedExisted, Existed
<1>4. Counted' = Counted \cup {m}
  <2>1. Alive' = Alive \cup {m}
    BY <1>1 DEF Alive, BaseInv, TypeOK
  <2>. QED BY <1>2, <1>3, <2>1 DEF Counted
<1>5. home \in FailureDomains => \A e \in FailureDomains : Count(home, Counted) <= Count(e, Counted)
  <2>. SUFFICES ASSUME home \in FailureDomains, NEW e \in FailureDomains
                PROVE  Count(home, Counted) <= Count(e, Counted)
    OBVIOUS
  <2>1. \/ Count(home, Counted) < Count(e, Counted)
        \/ Count(home, Counted) = Count(e, Counted)
    BY <1>1, CountedOnList DEF NextFailureDomainForScaleUp, PickFewest
  <2>2. Count(home, Counted) \in Nat /\ Count(e, Counted) \in Nat
    BY CountedOnList, CountType
  <2>. QED BY <2>1, <2>2
<1>6. \A d, e \in FailureDomains : Cardinality({n \in Counted' : domain'[n] = d})
                                     <= Cardinality({n \in Counted' : domain'[n] = e}) + 1
  <2>1. Counted \in SUBSET Machines
    BY CountedOnList
  <2>. HIDE DEF Counted
  <2>. QED BY <1>1, <1>3, <1>4, <1>5, <2>1, EvenWith
<1>. QED BY <1>6 DEF Even, Count, FailureDomains

\* So does a scale-down, unless a user picked the Machine.
LEMMA ScaleDownSpread ==
  ASSUME BaseInv, Spared, Even(Counted), Kept = Alive, Flagged = {}, ScaleDown
  PROVE  Even(Counted)'
<1>1. PICK m \in Victims : RequestDeletion(m, "scaling")
  BY DEF ScaleDown
<1>2. m \in Listed /\ Listed = Kept /\ m \in Machines /\ phase[m] = "running"
  BY VictimListed DEF Victims, PreflightChecks, InDeletion, Listed, Kept, Alive
<1>3. UNCHANGED <<outdated, domain>>
  BY DEF ScaleDown, spec
<1>4. Counted' = Counted \ {m}
  <2>1. phase' = [phase EXCEPT ![m] = "deleting"]
    BY <1>1, <1>2 DEF RequestDeletion, BaseInv, TypeOK
  <2>2. Alive' = Alive \ {m}
    BY <1>2, <2>1 DEF Alive, BaseInv, TypeOK
  <2>. QED BY <1>3, <2>2 DEF Counted
<1>5. Even(Counted \ {m})
  <2>1. CASE m \notin Counted
    <3>1. Counted \ {m} = Counted
      BY <2>1
    <3>. QED BY <3>1
  <2>2. CASE m \in Counted
    <3>1. CASE m \in ToDelete
      <4>1. domain[m] \notin FailureDomains
        BY <1>2, <3>1 DEF Spared, Existed
      <4>. QED BY <2>2, <4>1, CountedOnList, EvenWithout
    <3>2. CASE m \notin ToDelete
      <4>1. m \notin MachinesNeedingRollout
        BY <2>2, CountedOnList
      <4>2. ScaleDownCandidates = Listed /\ MachinesNeedingRollout = {}
        BY <3>2, <4>1, VictimChosen, CandidateKinds
      <4>3. Counted = Listed
        BY <1>2, <4>2, CountedOnList
      <4>4. domain[m] \in FailureDomains =>
              \A e \in FailureDomains : Count(e, Counted) <= Count(domain[m], Counted)
        <5>. SUFFICES ASSUME domain[m] \in FailureDomains, NEW e \in FailureDomains
                      PROVE  Count(e, Counted) <= Count(domain[m], Counted)
          OBVIOUS
        <5>1. Count(e, Counted) >= Count(domain[m], Counted)
                => Count(e, Counted) = Count(domain[m], Counted)
          BY <4>2, <4>3, VictimChosen DEF PickMost
        <5>2. Count(e, Counted) \in Nat /\ Count(domain[m], Counted) \in Nat
          BY CountedOnList, CountType
        <5>. QED BY <5>1, <5>2
      <4>. QED BY <2>2, <4>4, CountedOnList, EvenWithout
    <3>. QED BY <3>1, <3>2
  <2>. QED BY <2>1, <2>2
<1>. QED BY <1>3, <1>4, <1>5 DEF Even, Count, FailureDomains

\* Steps that neither create nor delete a Machine.
LEMMA SameSpread ==
  ASSUME SpreadInv, Alive' = Alive, UNCHANGED <<domain, outdated>>,
         \A m \in Machines : Existed(m)' = Existed(m), OutdatedExisted',
         events' = 0 => events = 0 /\ Undisturbed'
  PROVE  SpreadInv'
<1>. SUFFICES ASSUME events' = 0, Spared' PROVE Even(Counted)'
  BY DEF SpreadInv
<1>1. Spared
  BY ControlPlaneConstants DEF Spared, EvenStart, FailureDomains
<1>2. Even(Counted)
  BY <1>1 DEF SpreadInv
<1>3. Counted' = Counted
  BY DEF Counted
<1>. QED BY <1>2, <1>3 DEF Even, Count, FailureDomains

\* Every step.
LEMMA StepSpread ==
  ASSUME StaleCache = FALSE, BaseInv, SpreadInv, [Next]_vars
  PROVE  SpreadInv'
<1>. USE DEF objects, spec, local, bounds, history, SameButFaults
<1>0. outdated \subseteq Machines
  BY DEF BaseInv, TypeOK
<1>1. ASSUME UNCHANGED <<phase, domain, outdated, events>>,
             events = 0 => Undisturbed'
      PROVE  SpreadInv'
  <2>1. Alive' = Alive /\ \A m \in Machines : Existed(m)' = Existed(m)
    BY <1>1 DEF Alive, Existed
  <2>2. OutdatedExisted'
    BY <1>0, <1>1, <2>1 DEF SpreadInv, OutdatedExisted
  <2>. QED BY <1>1, <2>1, <2>2, SameSpread
<1>2. ASSUME UNCHANGED <<phase, domain, outdated, events, unhealthy, view>>,
             pc' \notin {"record", "delete"},
             pc' \in {"idle", "clear", "patch"} \/ pc \notin {"idle", "clear", "patch"}
      PROVE  SpreadInv'
  BY <1>1, <1>2 DEF SpreadInv, Undisturbed, Kept, Alive
<1>3. ASSUME UNCHANGED <<phase, domain, outdated, events, unhealthy>>, view' = Current,
             pc' \notin {"record", "delete"}
      PROVE  SpreadInv'
  <2>1. view'.phase = phase /\ view'.unhealthy = unhealthy
    BY <1>3 DEF Current
  <2>. QED BY <1>1, <1>3, <2>1 DEF SpreadInv, Undisturbed, Kept, Alive
<1>4. CASE Begin \/ Crash \/ StartTimeout
  BY <1>3, <1>4 DEF Begin, Crash, StartTimeout
<1>5. CASE CheckEtcd \/ Sweep \/ NoRemediation \/ RecordFails \/ DeleteFails \/ ClearRecord
           \/ NoScaling \/ Patch
  BY <1>2, <1>5 DEF CheckEtcd, Sweep, NoRemediation, RecordFails, DeleteFails, ClearRecord,
     NoScaling, Patch
<1>6. CASE StartRemediation \/ RecordRemediation
  <2>1. events # 0
    BY <1>6 DEF StartRemediation, RecordRemediation, Flagged, SpreadInv, Undisturbed
  <2>. QED BY <1>1, <1>6, <2>1 DEF StartRemediation, RecordRemediation
<1>7. CASE DeleteUnhealthy
  <2>1. events # 0 /\ UNCHANGED <<events, outdated>>
    BY <1>7 DEF DeleteUnhealthy, SpreadInv, Undisturbed
  <2>2. \A m \in Machines : Existed(m)' = Existed(m)
    BY <1>7 DEF DeleteUnhealthy, RequestDeletion, BaseInv, TypeOK, Existed
  <2>. QED BY <1>0, <2>1, <2>2 DEF SpreadInv, OutdatedExisted
<1>8. CASE ScaleUp
  <2>1. /\ pc = "machines" /\ pc' = "clear"
        /\ UNCHANGED <<events, outdated, unhealthy, view>>
    BY <1>8 DEF ScaleUp
  <2>2. /\ \A n \in Machines : Existed(n) => Existed(n)' /\ domain'[n] = domain[n]
    BY <1>8 DEF ScaleUp, BaseInv, TypeOK, Placed, Existed
  <2>3. OutdatedExisted'
    BY <1>0, <2>1, <2>2 DEF SpreadInv, OutdatedExisted
  <2>4. ASSUME events = 0 PROVE Undisturbed' /\ (Spared' => Even(Counted)')
    <3>1. Undisturbed' /\ Kept = Alive
      BY <2>1, <2>4 DEF SpreadInv, Undisturbed
    <3>2. Spared' => Spared
      BY <2>2, ControlPlaneConstants DEF Spared, EvenStart, FailureDomains
    <3>. QED BY <1>8, <2>4, <3>1, <3>2, ScaleUpSpread DEF SpreadInv
  <2>. QED BY <2>1, <2>3, <2>4 DEF SpreadInv
<1>9. CASE ScaleDown
  <2>1. /\ pc = "machines" /\ pc' = "patch"
        /\ UNCHANGED <<events, outdated, unhealthy, view, domain>>
    BY <1>9 DEF ScaleDown
  <2>2. \A n \in Machines : Existed(n)' = Existed(n)
    BY <1>9 DEF ScaleDown, RequestDeletion, BaseInv, TypeOK, Existed
  <2>3. OutdatedExisted'
    BY <1>0, <2>1, <2>2 DEF SpreadInv, OutdatedExisted
  <2>4. ASSUME events = 0 PROVE Undisturbed' /\ (Spared' => Even(Counted)')
    <3>1. Undisturbed' /\ Kept = Alive /\ Flagged = {}
      BY <2>1, <2>4 DEF SpreadInv, Undisturbed, Flagged
    <3>2. Spared' => Spared
      BY <2>1, <2>2, ControlPlaneConstants DEF Spared, EvenStart, FailureDomains
    <3>. QED BY <1>9, <2>4, <3>1, <3>2, ScaleDownSpread DEF SpreadInv
  <2>. QED BY <2>1, <2>3, <2>4 DEF SpreadInv
<1>10. CASE Edit
  <2>1. /\ UNCHANGED <<phase, domain, events, unhealthy, view>> /\ pc = "idle" /\ pc' = "idle"
        /\ outdated' = outdated \/ outdated' = Existing
    BY <1>10 DEF Edit
  <2>2. CASE outdated' = outdated
    BY <1>2, <2>1, <2>2
  <2>3. CASE outdated' = Existing
    <3>1. OutdatedExisted'
      BY <2>1, <2>3 DEF OutdatedExisted, Existing, Exists, Existed
    <3>2. events = 0 => Undisturbed'
      BY <2>1 DEF SpreadInv, Undisturbed
    <3>3. CASE OnDelete
      <4>1. Counted' = Counted /\ Spared' = Spared
        BY <2>1, <3>3 DEF Counted, Alive, Spared, EvenStart, Existed, FailureDomains
      <4>2. Even(Counted)' = Even(Counted)
        BY <2>1, <4>1 DEF Even, Count, FailureDomains
      <4>. QED BY <2>1, <3>1, <3>2, <4>1, <4>2 DEF SpreadInv
    <3>4. CASE ~OnDelete
      <4>1. Counted' = {}
        BY <2>1, <2>3, <3>4 DEF Counted, Alive, Existing, Exists
      <4>2. \A d \in FailureDomains : Count(d, Counted)' = 0
        BY <4>1, FS_EmptySet DEF Count
      <4>3. Even(Counted)'
        BY <4>2 DEF Even, FailureDomains
      <4>. QED BY <2>1, <3>1, <3>2, <4>3 DEF SpreadInv
    <3>. QED BY <3>3, <3>4
  <2>. QED BY <2>1, <2>2, <2>3
<1>11. ASSUME NEW m \in Machines, Break(m) \/ Join(m) \/ Age(m) PROVE SpreadInv'
  BY <1>1, <1>11 DEF Break, Join, Age, SpreadInv, Undisturbed, Kept, Alive
<1>12. ASSUME NEW m \in Machines, FindHealthy(m) PROVE SpreadInv'
  BY <1>1, <1>12 DEF FindHealthy, SpreadInv, Undisturbed, Kept, Alive
<1>13. ASSUME NEW m \in Machines, FindUnhealthy(m) \/ Delete(m) PROVE SpreadInv'
  <2>1. events' # 0 /\ UNCHANGED outdated
    BY <1>13 DEF FindUnhealthy, Delete, BaseInv, TypeOK
  <2>2. \A n \in Machines : Existed(n)' = Existed(n)
    BY <1>13 DEF FindUnhealthy, Delete, RequestDeletion, BaseInv, TypeOK, Existed
  <2>. QED BY <1>0, <2>1, <2>2 DEF SpreadInv, OutdatedExisted
<1>14. ASSUME NEW m \in Machines, Gone(m) PROVE SpreadInv'
  <2>1. /\ phase[m] = "deleting" /\ phase' = [phase EXCEPT ![m] = "gone"]
        /\ unhealthy' = unhealthy \ {m} /\ UNCHANGED <<view, pc, domain, outdated, events>>
    BY <1>14 DEF Gone
  <2>2. Alive' = Alive /\ \A n \in Machines : Existed(n)' = Existed(n)
    BY <2>1 DEF Alive, Existed, BaseInv, TypeOK
  <2>3. OutdatedExisted'
    BY <1>0, <2>1, <2>2 DEF SpreadInv, OutdatedExisted
  <2>4. events' = 0 => events = 0 /\ Undisturbed'
    BY <2>1, <2>2 DEF SpreadInv, Undisturbed, Kept
  <2>. QED BY <2>1, <2>2, <2>3, <2>4, SameSpread
<1>15. CASE UNCHANGED vars
  BY <1>1, <1>15 DEF vars, SpreadInv, Undisturbed, Kept, Alive
<1>. QED BY <1>4, <1>5, <1>6, <1>7, <1>8, <1>9, <1>10, <1>11, <1>12, <1>13, <1>14, <1>15
         DEF Next, Reconciler, Environment

\* The invariant holds throughout.
LEMMA SpreadInvariant ==
  ASSUME StaleCache = FALSE
  PROVE  Spec => [](BaseInv /\ SpreadInv)
<1>1. ASSUME Init PROVE SpreadInv
  <2>1. /\ outdated = {} /\ unhealthy = {} /\ view = Current /\ pc = "idle"
        /\ phase = [m \in Machines |-> IF m <= Initial THEN "running" ELSE "absent"]
        /\ domain = [m \in Machines |-> IF m <= Initial THEN Placement[m] ELSE NoDomain]
    BY <1>1 DEF Init
  <2>2. view.unhealthy = {}
    BY <2>1 DEF Current
  <2>3. Counted = 1..Initial
    <3>1. Alive = {m \in Machines : m <= Initial}
      BY <2>1 DEF Alive
    <3>2. {m \in Machines : m <= Initial} = 1..Initial
      BY ControlPlaneConstants DEF Machines
    <3>. QED BY <2>1, <3>1, <3>2 DEF Counted
  <2>4. \A m \in 1..Initial : domain[m] = Placement[m]
    BY <2>1, MachineTypes
  <2>5. \A d : {m \in 1..Initial : domain[m] = d} = {m \in 1..Initial : Placement[m] = d}
    BY <2>4
  <2>6. Spared => Even(Counted)
    BY <2>3, <2>5 DEF Spared, EvenStart, Even, Count
  <2>. QED BY <2>1, <2>2, <2>6 DEF SpreadInv, OutdatedExisted, Undisturbed
<1>2. BaseInv /\ SpreadInv /\ [Next]_vars => SpreadInv'
  BY StepSpread
<1>. QED BY <1>1, <1>2, BaseInvInductive, PTL DEF Spec

\* NextFailureDomainForScaleUp and MachineInFailureDomainWithMostMachines: Machines that
\* start evenly spread end up evenly spread, for every number of failure domains, after
\* any sequence of scale operations and rollouts, interrupted by any crashes and failed
\* calls, while the list of Machines is up to date.
THEOREM SpreadIsEven ==
  ASSUME StaleCache = FALSE, EvenStart
  PROVE  Spec => []EvenlySpread
<1>1. ASSUME BaseInv, SpreadInv PROVE EvenlySpread
  <2>. SUFFICES ASSUME events = 0, \A m \in ToDelete : domain[m] \notin FailureDomains,
                       \A m \in Existing : phase[m] = "running" /\ m \notin outdated
                PROVE  \A d, e \in FailureDomains : Count(d, Existing) <= Count(e, Existing) + 1
    BY DEF EvenlySpread
  <2>1. Even(Counted)
    BY <1>1 DEF SpreadInv, Spared
  <2>2. Existing = Counted
    BY DEF Counted, Alive, Existing, Exists
  <2>. QED BY <2>1, <2>2 DEF Even
<1>. QED BY <1>1, SpreadInvariant, PTL

-----------------------------------------------------------------------------
(* The number of Machines, during a rollout and at any time *)

\* A reconcile that may still create a Machine has all of them on its list.
Overlooked == pc \notin {"idle", "clear", "patch"} => Existing \subseteq Listed

SurgeInv(N) == replicas <= N /\ Overlooked /\ Cardinality(Existing) <= N + MaxSurge

\* Machines that are there, or listed, are finitely many.
LEMMA ExistingFinite ==
  /\ IsFiniteSet(Existing) /\ Cardinality(Existing) \in Nat
  /\ IsFiniteSet(Listed) /\ Cardinality(Listed) \in Nat
<1>1. Existing \in SUBSET Machines /\ Listed \in SUBSET Machines
  BY DEF Existing, Listed
<1>. QED BY <1>1, MachineTypes, FS_Subset, FS_CardinalityType

\* Steps that create no Machine, and after which a reconcile has its list or none.
LEMMA FewerExist ==
  ASSUME NEW N \in Nat, BaseInv, SurgeInv(N), replicas' <= N, Existing' \subseteq Existing,
         \/ pc' \in {"idle", "clear", "patch"}
         \/ view' = view /\ pc \notin {"idle", "clear", "patch"}
         \/ view' = Current /\ UNCHANGED phase
  PROVE  SurgeInv(N)'
<1>1. Cardinality(Existing') <= N + MaxSurge
  <2>1. Cardinality(Existing') \in Nat /\ Cardinality(Existing') <= Cardinality(Existing)
    BY ExistingFinite, FS_Subset, FS_CardinalityType
  <2>. QED BY <2>1, ExistingFinite, ControlPlaneConstants DEF SurgeInv
<1>2. Overlooked'
  <2>1. CASE view' = Current /\ UNCHANGED phase
    <3>1. view'.phase = phase /\ phase' = phase
      BY <2>1 DEF Current
    <3>. QED BY <3>1 DEF Overlooked, Listed, Existing, Exists
  <2>. QED BY <2>1 DEF SurgeInv, Overlooked, Listed
<1>. QED BY <1>1, <1>2 DEF SurgeInv

\* A Machine is created when fewer are listed than a rollout may have.
LEMMA ScaleUpSurge ==
  ASSUME NEW N \in Nat, BaseInv, SurgeInv(N), ScaleUp
  PROVE  SurgeInv(N)'
<1>1. PICK m \in Machines : phase[m] = "absent" /\ phase' = [phase EXCEPT ![m] = "running"]
  BY DEF ScaleUp
<1>2. /\ pc = "machines" /\ pc' = "clear" /\ UNCHANGED <<replicas, view>> /\ WantsMore
  BY DEF ScaleUp, MayScaleUp, spec, local
<1>3. Existing' = Existing \cup {m} /\ m \notin Existing
  BY <1>1 DEF Existing, Exists, BaseInv, TypeOK
<1>4. Cardinality(Existing') = Cardinality(Existing) + 1
  BY <1>3, ExistingFinite, FS_AddElement
<1>5. Cardinality(Existing) <= Cardinality(Listed)
  BY <1>2, ExistingFinite, FS_Subset DEF SurgeInv, Overlooked
<1>6. Cardinality(Listed) < replicas + MaxSurge /\ replicas \in Nat /\ MaxSurge \in Nat
  <2>1. replicas \in Nat /\ MaxSurge \in {0, 1}
    BY ControlPlaneConstants DEF BaseInv, TypeOK
  <2>. QED BY <1>2, <2>1, ExistingFinite DEF WantsMore
<1>7. Cardinality(Existing') <= N + MaxSurge
  BY <1>2, <1>4, <1>5, <1>6, ExistingFinite DEF SurgeInv
<1>. QED BY <1>2, <1>7 DEF SurgeInv, Overlooked

\* Every step.
LEMMA StepSurge ==
  ASSUME StaleCache = FALSE, NEW N \in Nat, \A r \in Sizes : r <= N, BaseInv, SurgeInv(N),
         [Next]_vars
  PROVE  SurgeInv(N)'
<1>. USE DEF objects, spec, local, bounds, history
<1>1. CASE ScaleUp
  BY <1>1, ScaleUpSurge
<1>2. ASSUME UNCHANGED <<phase, replicas>>,
             \/ UNCHANGED <<view, pc>>
             \/ pc' \in {"idle", "clear", "patch"}
             \/ view' = view /\ pc \notin {"idle", "clear", "patch"}
             \/ view' = Current
      PROVE  SurgeInv(N)'
  <2>1. Existing' \subseteq Existing /\ replicas' <= N
    BY <1>2 DEF Existing, Exists, SurgeInv
  <2>2. CASE UNCHANGED <<view, pc>> /\ pc \in {"idle", "clear", "patch"}
    BY <2>1, <2>2, FewerExist
  <2>. QED BY <1>2, <2>1, <2>2, FewerExist
<1>3. ASSUME NEW m \in Machines, Delete(m) \/ Gone(m) PROVE SurgeInv(N)'
  <2>1. Existing' \subseteq Existing /\ UNCHANGED <<replicas, view, pc>>
    BY <1>3 DEF Delete, Gone, RequestDeletion, Existing, Exists, BaseInv, TypeOK
  <2>2. replicas' <= N
    BY <2>1 DEF SurgeInv
  <2>. QED BY <2>1, <2>2, FewerExist
<1>4. CASE DeleteUnhealthy \/ ScaleDown
  <2>1. Existing' \subseteq Existing
    BY <1>4 DEF DeleteUnhealthy, ScaleDown, RequestDeletion, Existing, Exists, BaseInv, TypeOK
  <2>2. pc' = "patch" /\ replicas' <= N
    BY <1>4 DEF DeleteUnhealthy, ScaleDown, SurgeInv
  <2>. QED BY <2>1, <2>2, FewerExist
<1>5. CASE Edit
  <2>1. replicas' <= N
    BY <1>5 DEF Edit, SurgeInv
  <2>2. UNCHANGED phase /\ pc' = "idle"
    BY <1>5 DEF Edit
  <2>. QED BY <2>1, <2>2, FewerExist DEF Existing, Exists
<1>6. CASE \/ RecordFails \/ DeleteFails \/ ClearRecord \/ NoScaling \/ Patch \/ Crash
           \/ StartTimeout \/ Begin
  <2>1. /\ UNCHANGED <<phase, replicas>>
        /\ pc' \in {"idle", "clear", "patch"} \/ view' = Current
    BY <1>6 DEF RecordFails, DeleteFails, ClearRecord, NoScaling, Patch, Crash, StartTimeout, Begin
  <2>. QED BY <1>2, <2>1
<1>7. CASE CheckEtcd \/ Sweep \/ StartRemediation \/ NoRemediation \/ RecordRemediation
  <2>1. UNCHANGED <<phase, replicas, view>> /\ pc \notin {"idle", "clear", "patch"}
    BY <1>7 DEF CheckEtcd, Sweep, StartRemediation, NoRemediation, RecordRemediation
  <2>. QED BY <1>2, <2>1
<1>8. ASSUME NEW m \in Machines, Break(m) \/ Join(m) \/ FindUnhealthy(m) \/ FindHealthy(m) \/ Age(m)
      PROVE  SurgeInv(N)'
  BY <1>2, <1>8 DEF Break, Join, FindUnhealthy, FindHealthy, Age
<1>9. CASE UNCHANGED vars
  BY <1>2, <1>9 DEF vars
<1>. QED BY <1>1, <1>3, <1>4, <1>5, <1>6, <1>7, <1>8, <1>9 DEF Next, Reconciler, Environment

\* reconcileMachines and scaleUpControlPlane: with a list of Machines that is up to date,
\* there are never more Machines, those on their way out included, than the largest
\* spec.replicas there was and maxSurge more, although a remediation, a rollout and a
\* user's edit may each ask for one, and a crash may lose track of what was created.
THEOREM SurgeIsBounded ==
  ASSUME StaleCache = FALSE, NEW N \in Nat, \A r \in Sizes \cup {Initial} : r <= N
  PROVE  Spec => [](Cardinality(Existing) <= N + MaxSurge)
<1>1. ASSUME Init PROVE SurgeInv(N)
  <2>1. \A m \in Machines : phase[m] = IF m <= Initial THEN "running" ELSE "absent"
    BY <1>1 DEF Init
  <2>2. 1..Initial \subseteq Machines /\ \A m \in Machines : m <= Initial => m \in 1..Initial
    BY ControlPlaneConstants DEF Machines
  <2>3. Existing = 1..Initial
    BY <2>1, <2>2 DEF Existing, Exists
  <2>4. Initial \in Nat /\ Initial <= N /\ Cardinality(1..Initial) = Initial /\ MaxSurge \in {0, 1}
    BY MachineTypes, FS_Interval, ControlPlaneConstants
  <2>. QED BY <1>1, <2>3, <2>4 DEF Init, SurgeInv, Overlooked
<1>2. BaseInv /\ SurgeInv(N) /\ [Next]_vars => SurgeInv(N)'
  BY StepSurge
<1>3. SurgeInv(N) => Cardinality(Existing) <= N + MaxSurge
  BY DEF SurgeInv
<1>. QED BY <1>1, <1>2, <1>3, BaseInvInductive, PTL DEF Spec

\* A rollout takes away a Machine when it has at least the ones it may have.
LEMMA ScaleDownKeeps ==
  ASSUME BaseInv, Kept = Alive, NEW m \in Victims
  PROVE  Cardinality(Alive \ {m}) >= replicas - (1 - MaxSurge)
<1>1. InDeletion = {} /\ WantsLess /\ m \in Listed
  BY VictimListed DEF Victims, Picked, PreflightChecks
<1>2. Listed = Alive
  BY <1>1 DEF InDeletion, Listed, Kept
<1>3. Cardinality(Alive \ {m}) = Cardinality(Listed) - 1
  BY <1>1, <1>2, ExistingFinite, FS_RemoveElement
<1>4. replicas \in Nat /\ MaxSurge \in {0, 1}
  BY ControlPlaneConstants DEF BaseInv, TypeOK
<1>5. Cardinality(Listed) >= replicas + MaxSurge \/ Cardinality(Listed) > replicas
  BY <1>1, <1>4, ExistingFinite DEF WantsLess, WantsMore
<1>. QED BY <1>3, <1>4, <1>5, ExistingFinite

\* Scaling down and rolling out leave as many Machines as are wanted, or one less when no
\* surge is allowed.
RolloutKeepsReplicas ==
    [][\A m \in Machines : events = 0 /\ by[m] = "none" /\ by'[m] = "scaling"
         => Cardinality(Alive') >= replicas - (1 - MaxSurge)]_vars

\* reconcileMachines and scaleDownControlPlane: with a list of Machines that is up to
\* date, and as long as nobody else deletes Machines or finds one unhealthy, a rollout
\* with maxSurge 1 never leaves fewer running Machines than spec.replicas, and one with
\* maxSurge 0 at most one fewer, whatever is edited in between.
THEOREM RolloutLeavesReplicas ==
  ASSUME StaleCache = FALSE
  PROVE  Spec => RolloutKeepsReplicas
<1>1. ASSUME BaseInv, SpreadInv, [Next]_vars, NEW m \in Machines,
             events = 0, by[m] = "none", by'[m] = "scaling"
      PROVE  Cardinality(Alive') >= replicas - (1 - MaxSurge)
  <2>. USE DEF objects, spec, local, bounds, history
  <2>1. by' # by
    BY <1>1
  <2>2. CASE ScaleDown
    <3>1. pc = "machines" /\ m \in Victims /\ phase' = [phase EXCEPT ![m] = "deleting"]
      <4>1. PICK n \in Victims : RequestDeletion(n, "scaling")
        BY <2>2 DEF ScaleDown
      <4>2. m = n /\ phase[n] = "running"
        BY <1>1, <4>1 DEF RequestDeletion, BaseInv, TypeOK
      <4>. QED BY <2>2, <4>1, <4>2 DEF ScaleDown, RequestDeletion
    <3>2. Kept = Alive
      BY <1>1, <3>1 DEF SpreadInv, Undisturbed
    <3>3. Alive' = Alive \ {m}
      BY <1>1, <3>1 DEF Alive, BaseInv, TypeOK
    <3>. QED BY <1>1, <3>1, <3>2, <3>3, ScaleDownKeeps
  <2>3. CASE DeleteUnhealthy \/ Delete(m)
    BY <1>1, <2>3 DEF DeleteUnhealthy, Delete, RequestDeletion, BaseInv, TypeOK
  <2>4. ASSUME NEW n \in Machines, Delete(n) PROVE FALSE
    BY <1>1, <2>4 DEF Delete, RequestDeletion, BaseInv, TypeOK
  <2>5. CASE UNCHANGED by
    BY <2>1, <2>5
  <2>. QED BY <1>1, <2>2, <2>3, <2>4, <2>5
           DEF Next, Reconciler, Environment, vars, Begin, CheckEtcd, Sweep, StartRemediation,
               NoRemediation, RecordRemediation, RecordFails, DeleteFails, ScaleUp, ClearRecord,
               NoScaling, Patch, Crash, Edit, StartTimeout, Break, Join, FindUnhealthy,
               FindHealthy, Gone, Age
<1>2. BaseInv /\ SpreadInv /\ [Next]_vars =>
        [\A m \in Machines : events = 0 /\ by[m] = "none" /\ by'[m] = "scaling"
           => Cardinality(Alive') >= replicas - (1 - MaxSurge)]_vars
  BY <1>1
<1>. QED BY <1>2, SpreadInvariant, PTL DEF Spec, RolloutKeepsReplicas
=============================================================================
