-------------------------- MODULE EtcdHealthProofs --------------------------
(***************************************************************************)
(* Theorems about EtcdHealth, for every finite set of machines and every   *)
(* state of the world: which machines exist, have names, vote and run.     *)
(***************************************************************************)
EXTENDS EtcdHealth, EtcdQuorumProofs

-----------------------------------------------------------------------------
(* What the check recorded *)

\* In the reconcile of the check, while no node failed since: the machines
\* recorded as healthy run etcd, and a member list that was read is the list.
RecordIsCurrent ==
    pc = "checked" /\ stable =>
        /\ statuses \subseteq up
        /\ listed # {} => recorded = [voters |-> voters, learners |-> learners]

\* EtcdClusterHealthy is what the machines that answered justify.
ConditionEarned ==
    pc = "checked" /\ stable =>
        \E inspected \in SUBSET HealthCheckable :
            /\ statuses = inspected \cap up
            /\ condition = IF CheckPassed(inspected, statuses, listed) THEN "True"
                           ELSE ReasonOf(HealthOf(inspected, statuses, listed))

CheckInv == TypeOK /\ RecordIsCurrent /\ ConditionEarned

\* The counters of a check are natural numbers, and its verdict is a reason.
LEMMA HealthType ==
  ASSUME TypeOK, NEW inspected \in SUBSET HealthCheckable,
         NEW healthyOn \in SUBSET Machines, NEW read \in SUBSET Machines
  PROVE  /\ HealthOf(inspected, healthyOn, read) \in Health
         /\ ReasonOf(HealthOf(inspected, healthyOn, read))
              \in {"Unhealthy", "InspectionFailed", "QuorumLost"}
<1>1. \A S \in SUBSET Machines : Cardinality(S) \in Nat
  BY MachinesFinite, FS_Subset, FS_CardinalityType
<1>2. HealthCheckable \in SUBSET Machines /\ voters \in SUBSET Machines
  BY DEF TypeOK, HealthCheckable
<1>3. HealthOf(inspected, healthyOn, read) \in Health
  <2>. DEFINE H == healthyOn \ {m \in read : m \in learners /\ m \in matching}
              X == voters \cap MatchedBy(excluded, matching)
  <2>1. H \in SUBSET Machines /\ X \in SUBSET Machines /\ inspected \in SUBSET Machines
    BY <1>2
  <2>. HIDE DEF H, X
  <2>2. /\ Cardinality(H) \in Nat /\ Cardinality(X) \in Nat /\ Cardinality(inspected) \in Nat
        /\ Cardinality(HealthCheckable) \in Nat /\ Cardinality(voters) \in Nat
    BY <1>1, <1>2, <2>1
  <2>. QED BY <2>2 DEF HealthOf, Health, H, X
<1>4. ReasonOf(HealthOf(inspected, healthyOn, read))
        \in {"Unhealthy", "InspectionFailed", "QuorumLost"}
  BY DEF ReasonOf, ConditionReason, NoHealth
<1>. QED BY <1>3, <1>4

\* What etcdHealthcheck recorded stays true until a node fails or the reconcile ends.
LEMMA CheckInvInductive ==
  /\ Init => CheckInv
  /\ CheckInv /\ [Next]_vars => CheckInv'
<1>1. Init => CheckInv
  BY DEF Init, CheckInv, TypeOK, members, RecordIsCurrent, ConditionEarned, Health, NoHealth,
     NoMembers
<1>2. ASSUME CheckInv, [Next]_vars PROVE CheckInv'
  <2>. USE DEF CheckInv, world, checkVars
  <2>1. CASE HealthCheck
    <3>1. /\ pc' = "checked" /\ UNCHANGED <<world, up, stable>>
      BY <2>1 DEF HealthCheck
    <3>2. PICK inspected \in SUBSET HealthCheckable : \E read \in ProbeEtcd(inspected) :
             /\ health' = HealthOf(inspected, inspected \cap up, read)
             /\ statuses' = inspected \cap up
             /\ listed' = read
             /\ recorded' = IF read = {} THEN recorded
                            ELSE [voters |-> voters, learners |-> learners]
             /\ condition' = IF CheckPassed(inspected, inspected \cap up, read) THEN "True"
                             ELSE ReasonOf(HealthOf(inspected, inspected \cap up, read))
      BY <2>1 DEF HealthCheck
    <3>3. /\ health' = HealthOf(inspected, statuses', listed')
          /\ statuses' = inspected \cap up /\ listed' \subseteq statuses'
          /\ recorded' = IF listed' = {} THEN recorded
                         ELSE [voters |-> voters, learners |-> learners]
          /\ condition' = IF CheckPassed(inspected, statuses', listed') THEN "True"
                          ELSE ReasonOf(HealthOf(inspected, statuses', listed'))
      BY <3>2 DEF ProbeEtcd
    <3>4. inspected \subseteq owned /\ owned \subseteq Machines
      BY <1>2 DEF HealthCheckable, TypeOK
    <3>5. /\ health' \in Health
          /\ condition' \in {"True", "Unhealthy", "InspectionFailed", "QuorumLost"}
      <4>1. statuses' \in SUBSET Machines /\ listed' \in SUBSET Machines
        BY <3>3, <3>4
      <4>. QED BY <1>2, <3>3, <4>1, HealthType
    <3>6. TypeOK'
      BY <1>2, <3>1, <3>3, <3>4, <3>5 DEF TypeOK, members
    <3>7. RecordIsCurrent'
      BY <3>1, <3>3 DEF RecordIsCurrent
    <3>8. ConditionEarned'
      <4>1. HealthCheckable' = HealthCheckable
        BY <3>1 DEF HealthCheckable
      <4>2. CheckPassed(inspected, statuses, listed)' = CheckPassed(inspected, statuses', listed')
        BY <3>1 DEF CheckPassed, HealthCheckable, members
      <4>3. ReasonOf(HealthOf(inspected, statuses, listed))'
              = ReasonOf(HealthOf(inspected, statuses', listed'))
        BY <3>1 DEF ReasonOf, HealthOf, HealthCheckable
      <4>. QED BY <3>1, <3>3, <4>1, <4>2, <4>3 DEF ConditionEarned
    <3>. QED BY <3>6, <3>7, <3>8
  <2>2. ASSUME NEW m \in Machines, Fail(m) PROVE CheckInv'
    BY <1>2, <2>2 DEF Fail, TypeOK, members, RecordIsCurrent, ConditionEarned
  <2>3. CASE NextReconcile
    BY <1>2, <2>3 DEF NextReconcile, TypeOK, members, RecordIsCurrent, ConditionEarned, Health,
       NoHealth, NoMembers
  <2>4. CASE UNCHANGED vars
    BY <1>2, <2>4 DEF vars, TypeOK, members, RecordIsCurrent, ConditionEarned, CheckPassed,
       ReasonOf, HealthOf, HealthCheckable
  <2>. QED BY <1>2, <2>1, <2>2, <2>3, <2>4 DEF Next
<1>. QED BY <1>1, <1>2

\* Type correctness of the health check and of what it records.
THEOREM TypeCorrect == Spec => []TypeOK
<1>1. CheckInv => TypeOK
  BY DEF CheckInv
<1>. QED BY <1>1, CheckInvInductive, PTL DEF Spec

\* canSafelyRemediateMachine: for every control plane and every health check, the
\* remediation of a machine is committed by a majority and leaves one.
THEOREM RemediationSafe == Spec => []RemediationKeepsQuorum
<1>1. ASSUME CheckInv PROVE RemediationKeepsQuorum
  <2>. SUFFICES ASSUME pc = "checked", stable, NEW target \in owned \ excluded,
                       CanSafelyRemediateMachine(target)
                PROVE  HasMajority(voters, up) /\ HasMajority(VotersWithout(target), up)
    BY DEF RemediationKeepsQuorum
  <2>1. listed # {} /\ RecordedHealthy \subseteq up
    BY <1>1 DEF CanSafelyRemediateMachine, RecordedList, RecordedHealthy, CheckInv,
       RecordIsCurrent
  <2>2. recorded = [voters |-> voters, learners |-> learners]
    BY <1>1, <2>1 DEF CheckInv, RecordIsCurrent
  <2>3. CanSafelyRemoveEtcdMember(voters, learners, target, owned, matching, RecordedHealthy)
    BY <2>2 DEF CanSafelyRemediateMachine
  <2>4. IsFiniteSet(voters)
    BY <1>1, MachinesFinite, FS_Subset DEF CheckInv, TypeOK
  <2>. QED BY <2>1, <2>3, <2>4, SafeRemoval DEF VotersWithout
<1>. QED BY <1>1, CheckInvInductive, PTL DEF Spec

\* canSafelyAddEtcdMember: for every control plane of more than one voter, etcd
\* keeps its majority even if the replacement votes and never comes up.
THEOREM AdditionSafe == Spec => []AdditionKeepsQuorum
<1>1. ASSUME CheckInv PROVE AdditionKeepsQuorum
  <2>. SUFFICES ASSUME pc = "checked", stable, CanSafelyAddEtcdMember, Cardinality(voters) > 1
                PROVE  Cardinality(voters \cap up) >= Quorum(Cardinality(voters) + 1)
    BY DEF AdditionKeepsQuorum
  <2>1. listed # {} /\ RecordedHealthy \subseteq up
    BY <1>1 DEF CanSafelyAddEtcdMember, RecordedList, RecordedHealthy, CheckInv,
       RecordIsCurrent
  <2>2. recorded = [voters |-> voters, learners |-> learners]
    BY <1>1, <2>1 DEF CheckInv, RecordIsCurrent
  <2>3. CanSafelyAddEtcdMemberTo(voters, learners, owned, matching, RecordedHealthy)
    BY <2>2 DEF CanSafelyAddEtcdMember
  <2>4. IsFiniteSet(voters)
    BY <1>1, MachinesFinite, FS_Subset DEF CheckInv, TypeOK
  <2>. QED BY <2>1, <2>3, <2>4, SafeAddition
<1>. QED BY <1>1, CheckInvInductive, PTL DEF Spec

-----------------------------------------------------------------------------
(* What EtcdClusterHealthy means *)

\* All sets the health check counts are finite.
LEMMA Countable ==
  ASSUME NEW S \in SUBSET Machines
  PROVE  IsFiniteSet(S) /\ Cardinality(S) \in Nat
  BY MachinesFinite, FS_Subset, FS_CardinalityType

\* A union is no larger than its parts together.
LEMMA UnionBound ==
  ASSUME NEW S \in SUBSET Machines, NEW T \in SUBSET Machines
  PROVE  Cardinality(S \cup T) <= Cardinality(S) + Cardinality(T)
<1>1. Cardinality(S \cup T) = Cardinality(S) + Cardinality(T) - Cardinality(S \cap T)
  BY Countable, FS_Union
<1>2. /\ Cardinality(S) \in Nat /\ Cardinality(T) \in Nat /\ Cardinality(S \cap T) \in Nat
  BY Countable
<1>. QED BY <1>1, <1>2

\* etcdMembership.verify: when every machine is a member, there is no other member.
LEMMA VerifyComplete ==
  ASSUME NEW M \in SUBSET Machines, NEW own \in SUBSET M, NEW nm,
         NEW mt \in SUBSET nm, VerifyMembership(M, own, own, nm, mt)
  PROVE  M = own
<1>1. IsFiniteSet(M) /\ IsFiniteSet(own) /\ own \in SUBSET own
  BY Countable
<1>2. Cardinality(M) \in Nat /\ Cardinality(own) \in Nat
  BY <1>1, FS_CardinalityType
<1>3. Cardinality(M) = Cardinality(own)
  BY <1>1, <1>2, VerificationCounts
<1>. QED BY <1>1, <1>3, FS_Subset

\* EtcdClusterHealthy=True, for any number of machines: with nobody on the way out,
\* the members are exactly the machines, and all of them run.
THEOREM HealthyIsComplete == Spec => []HealthyMeansComplete
<1>1. ASSUME CheckInv PROVE HealthyMeansComplete
  <2>. SUFFICES ASSUME pc = "checked", stable, condition = "True", excluded = {}, owned # {}
                PROVE  members = owned /\ members \subseteq up
    BY DEF HealthyMeansComplete
  <2>1. PICK inspected \in SUBSET HealthCheckable :
          /\ statuses = inspected \cap up
          /\ condition = IF CheckPassed(inspected, statuses, listed) THEN "True"
                         ELSE ReasonOf(HealthOf(inspected, statuses, listed))
    BY <1>1 DEF CheckInv, ConditionEarned
  <2>2. CheckPassed(inspected, statuses, listed)
    BY <2>1 DEF ReasonOf, ConditionReason
  <2>3. /\ HealthCheckable = owned /\ listed = owned
        /\ VerifyMembership(members, owned, owned, named, matching)
    BY <2>2 DEF CheckPassed, HealthCheckable
  <2>4. /\ listed \subseteq statuses /\ statuses \subseteq up /\ up \subseteq members
        /\ members \in SUBSET Machines /\ matching \in SUBSET named
    BY <1>1, <2>1 DEF CheckInv, TypeOK, members
  <2>5. members = owned
    BY <2>3, <2>4, VerifyComplete
  <2>. QED BY <2>3, <2>4, <2>5
<1>. QED BY <1>1, CheckInvInductive, PTL DEF Spec

\* Enough healthy voters for canSafelyRemoveEtcdMember are enough machines for
\* quorumAfterRemoval, which probes no fewer of them.
LEMMA RemovalAgrees ==
  ASSUME NEW V \in SUBSET Machines, NEW own \in SUBSET Machines, NEW U, NEW H \in SUBSET U,
         NEW t, NEW nm, CanSafelyRemoveEtcdMember(V, {}, t, own, nm, H)
  PROVE  QuorumAfterRemoval((own \ {t}) \cap U, Cardinality(V))
<1>. DEFINE T == FindEtcdMember(V, t, nm)
            R == V \ T
            RH == R \cap MatchedBy(own \ {t}, nm) \cap H
            C == (own \ {t}) \cap U
<1>1. Cardinality(RH) >= Quorum(Cardinality(R))
  BY DEF CanSafelyRemoveEtcdMember
<1>2. T \subseteq {t} /\ T \subseteq V
  BY DEF FindEtcdMember, MatchedBy
<1>3. RH \in SUBSET C /\ C \in SUBSET Machines /\ R \in SUBSET Machines
  BY DEF MatchedBy
<1>4. Cardinality(RH) <= Cardinality(C)
  BY <1>3, Countable, FS_Subset
<1>5. Cardinality(V) - 1 <= Cardinality(R)
  <2>1. CASE T = {}
    <3>1. R = V /\ Cardinality(V) \in Nat
      BY <2>1, Countable
    <3>. QED BY <3>1
  <2>2. CASE T # {}
    <3>1. t \in V /\ R = V \ {t}
      BY <1>2, <2>2
    <3>. HIDE DEF R
    <3>2. Cardinality(V \ {t}) = Cardinality(V) - 1 /\ Cardinality(V) \in Nat
      BY <3>1, Countable, FS_RemoveElement
    <3>. QED BY <3>1, <3>2
  <2>. QED BY <2>1, <2>2
<1>6. /\ Cardinality(R) \in Nat /\ Cardinality(V) \in Nat
      /\ Cardinality(RH) \in Nat /\ Cardinality(C) \in Nat
  BY <1>3, Countable
<1>. HIDE DEF R, RH, C
<1>7. Quorum(Cardinality(V) - 1) <= Quorum(Cardinality(R))
  BY <1>5, <1>6 DEF Quorum
<1>8. Quorum(Cardinality(V) - 1) \in Int /\ Quorum(Cardinality(R)) \in Int
  BY <1>6 DEF Quorum
<1>9. Cardinality(C) >= Quorum(Cardinality(V) - 1)
  BY <1>1, <1>4, <1>6, <1>7, <1>8
<1>. QED BY <1>9 DEF QuorumAfterRemoval, C

\* canSafelyRemediateMachine and the pre-terminate hook agree for every control
\* plane: what the remediation may delete, the hook lets go while no node fails.
THEOREM RemediationIsNotParked == Spec => []RemediationPassesHook
<1>1. ASSUME CheckInv PROVE RemediationPassesHook
  <2>. SUFFICES ASSUME pc = "checked", stable, excluded = {}, NEW target \in owned,
                       CanSafelyRemediateMachine(target)
                PROVE  QuorumAfterRemoval(QuorumCandidates(owned, target, {}) \cap up,
                                          Cardinality(members))
    BY DEF RemediationPassesHook
  <2>1. listed # {} /\ RecordedHealthy \in SUBSET up
    BY <1>1 DEF CanSafelyRemediateMachine, RecordedList, RecordedHealthy, CheckInv,
       RecordIsCurrent
  <2>2. recorded = [voters |-> voters, learners |-> learners]
    BY <1>1, <2>1 DEF CheckInv, RecordIsCurrent
  <2>3. CanSafelyRemoveEtcdMember(voters, learners, target, owned, matching, RecordedHealthy)
    BY <2>2 DEF CanSafelyRemediateMachine
  <2>4. learners = {}
    BY <2>3 DEF CanSafelyRemoveEtcdMember
  <2>5. QuorumAfterRemoval((owned \ {target}) \cap up, Cardinality(voters))
    BY <1>1, <2>1, <2>3, <2>4, RemovalAgrees DEF CheckInv, TypeOK
  <2>6. members = voters /\ QuorumCandidates(owned, target, {}) = owned \ {target}
    BY <2>4 DEF members, QuorumCandidates
  <2>. QED BY <2>5, <2>6
<1>. QED BY <1>1, CheckInvInductive, PTL DEF Spec

\* conditionReason QuorumLost, for any number of machines: the voters that run are
\* healthy, not inspected, or on their way out, and all of these are counted.
THEOREM LostIsCertain == Spec => []QuorumLostIsCertain
<1>1. ASSUME CheckInv PROVE QuorumLostIsCertain
  <2>. SUFFICES ASSUME pc = "checked", stable, condition = "QuorumLost", listed # {},
                       members \subseteq MatchedBy(owned, matching)
                PROVE  ~HasMajority(voters, up)
    BY DEF QuorumLostIsCertain
  <2>1. PICK inspected \in SUBSET HealthCheckable :
          /\ statuses = inspected \cap up
          /\ condition = IF CheckPassed(inspected, statuses, listed) THEN "True"
                         ELSE ReasonOf(HealthOf(inspected, statuses, listed))
    BY <1>1 DEF CheckInv, ConditionEarned
  <2>. DEFINE h == HealthOf(inspected, statuses, listed)
              A == statuses \ {m \in listed : m \in learners /\ m \in matching}
              B == HealthCheckable \ inspected
              X == voters \cap MatchedBy(excluded, matching)
              Y == voters \cap up
  <2>2. ~HealthMayHaveQuorum(h)
    BY <2>1 DEF ReasonOf, ConditionReason, NoHealth
  <2>3. /\ h.machines = Cardinality(HealthCheckable) /\ h.inspected = Cardinality(inspected)
        /\ h.healthy = Cardinality(A) /\ h.members = Cardinality(voters)
        /\ h.excluded = Cardinality(X)
    BY DEF HealthOf
  <2>. HIDE DEF h
  <2>4. /\ owned \in SUBSET Machines /\ HealthCheckable \in SUBSET Machines
        /\ voters \in SUBSET Machines /\ statuses \in SUBSET Machines
        /\ voters \cap learners = {} /\ voters \subseteq owned /\ voters \subseteq matching
    BY <1>1 DEF CheckInv, TypeOK, HealthCheckable, members, MatchedBy
  <2>5. Y \in SUBSET (A \cup B \cup X)
    BY <2>1, <2>4 DEF HealthCheckable, MatchedBy
  <2>6. /\ A \in SUBSET Machines /\ B \in SUBSET Machines /\ X \in SUBSET Machines
        /\ inspected \in SUBSET Machines /\ Y \in SUBSET Machines
    BY <2>4
  <2>7. Cardinality(B) = Cardinality(HealthCheckable) - Cardinality(inspected)
    <3>1. B \cup inspected = HealthCheckable /\ B \cap inspected = {}
      OBVIOUS
    <3>2. Cardinality(B \cup inspected) = Cardinality(B) + Cardinality(inspected)
      BY <2>6, <3>1, Countable, DisjointUnion
    <3>3. Cardinality(B) \in Nat /\ Cardinality(inspected) \in Nat
      BY <2>6, Countable
    <3>4. Cardinality(HealthCheckable) = Cardinality(B) + Cardinality(inspected)
      BY <3>1, <3>2
    <3>. HIDE DEF B
    <3>. QED BY <3>3, <3>4
  <2>. HIDE DEF A, B, X, Y
  <2>8. Cardinality(Y) <= Cardinality(A) + Cardinality(B) + Cardinality(X)
    <3>1. A \cup B \in SUBSET Machines /\ A \cup B \cup X \in SUBSET Machines
      BY <2>6
    <3>2. Cardinality(Y) <= Cardinality(A \cup B \cup X)
      BY <2>5, <3>1, Countable, FS_Subset
    <3>3. Cardinality(A \cup B \cup X) <= Cardinality(A \cup B) + Cardinality(X)
      BY <2>6, <3>1, UnionBound
    <3>4. Cardinality(A \cup B) <= Cardinality(A) + Cardinality(B)
      BY <2>6, UnionBound
    <3>5. /\ Cardinality(Y) \in Nat /\ Cardinality(A \cup B \cup X) \in Nat
          /\ Cardinality(A \cup B) \in Nat /\ Cardinality(X) \in Nat
          /\ Cardinality(A) \in Nat /\ Cardinality(B) \in Nat
      BY <2>6, <3>1, Countable
    <3>. QED BY <3>2, <3>3, <3>4, <3>5
  <2>9. /\ Cardinality(voters) \in Nat /\ Cardinality(Y) \in Nat /\ Cardinality(A) \in Nat
        /\ Cardinality(B) \in Nat /\ Cardinality(X) \in Nat
    BY <2>4, <2>6, Countable
  <2>10. Cardinality(Y) <= Cardinality(voters)
    BY <2>4, Countable, FS_Subset DEF Y
  <2>11. Cardinality(Y) < Quorum(Cardinality(voters))
    <3>1. CASE Cardinality(voters) = 0
      BY <2>9, <2>10, <3>1 DEF Quorum
    <3>2. CASE Cardinality(voters) # 0
      <4>1. ~(Cardinality(A) + Cardinality(B) + Cardinality(X) >= Quorum(Cardinality(voters)))
        BY <2>2, <2>3, <2>7, <3>2 DEF HealthMayHaveQuorum, HealthQuorum
      <4>2. Quorum(Cardinality(voters)) \in Int
        BY <2>9 DEF Quorum
      <4>. QED BY <2>8, <2>9, <4>1, <4>2
    <3>. QED BY <3>1, <3>2
  <2>12. Quorum(Cardinality(voters)) \in Int
    BY <2>9 DEF Quorum
  <2>. QED BY <2>9, <2>11, <2>12 DEF HasMajority, Y
<1>. QED BY <1>1, CheckInvInductive, PTL DEF Spec

\* conditionReason Unhealthy, for any number of machines: every healthy machine
\* counted is a voter that runs.
THEOREM UnhealthyHasQuorum == Spec => []UnhealthyIsCertain
<1>1. ASSUME CheckInv PROVE UnhealthyIsCertain
  <2>. SUFFICES ASSUME pc = "checked", stable, condition = "Unhealthy", listed = statuses,
                       listed # {}, members \subseteq MatchedBy(owned, matching)
                PROVE  HasMajority(voters, up)
    BY DEF UnhealthyIsCertain
  <2>1. PICK inspected \in SUBSET HealthCheckable :
          /\ statuses = inspected \cap up
          /\ condition = IF CheckPassed(inspected, statuses, listed) THEN "True"
                         ELSE ReasonOf(HealthOf(inspected, statuses, listed))
    BY <1>1 DEF CheckInv, ConditionEarned
  <2>. DEFINE h == HealthOf(inspected, statuses, listed)
              A == statuses \ {m \in listed : m \in learners /\ m \in matching}
              Y == voters \cap up
  <2>2. HealthHasQuorum(h)
    BY <2>1 DEF ReasonOf, ConditionReason, NoHealth
  <2>3. /\ h.machines = Cardinality(HealthCheckable)
        /\ h.healthy = Cardinality(A) /\ h.members = Cardinality(voters)
    BY DEF HealthOf
  <2>. HIDE DEF h
  <2>4. /\ HealthCheckable \in SUBSET Machines /\ voters \in SUBSET Machines
        /\ A \in SUBSET Y /\ Y \in SUBSET voters /\ Y \in SUBSET Machines
    BY <1>1, <2>1 DEF CheckInv, TypeOK, HealthCheckable, members, MatchedBy
  <2>5. Cardinality(A) <= Cardinality(Y) /\ Cardinality(Y) <= Cardinality(voters)
    BY <2>4, Countable, FS_Subset
  <2>6. /\ Cardinality(voters) \in Nat /\ Cardinality(Y) \in Nat /\ Cardinality(A) \in Nat
        /\ Cardinality(HealthCheckable) \in Nat
    <3>1. A \in SUBSET Machines
      BY <2>4
    <3>. QED BY <2>4, <3>1, Countable
  <2>. HIDE DEF A, Y
  <2>7. Cardinality(voters) # 0
    BY <2>2, <2>3, <2>5, <2>6 DEF HealthHasQuorum, HealthQuorum, Quorum
  <2>8. Cardinality(A) >= Quorum(Cardinality(voters))
    BY <2>2, <2>3, <2>7 DEF HealthHasQuorum, HealthQuorum
  <2>9. Quorum(Cardinality(voters)) \in Int
    BY <2>6 DEF Quorum
  <2>. QED BY <2>5, <2>6, <2>8, <2>9 DEF HasMajority, Y
<1>. QED BY <1>1, CheckInvInductive, PTL DEF Spec
=============================================================================
