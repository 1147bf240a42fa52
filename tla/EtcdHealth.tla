----------------------------- MODULE EtcdHealth -----------------------------
(***************************************************************************)
(* One etcd health check of a reconcile and the decisions taken from what  *)
(* it recorded: reconcileEtcdMembers / etcdHealthcheck set the             *)
(* EtcdClusterHealthy condition, and later in the same reconcile the       *)
(* remediation (canSafelyRemediateMachine) and the relaxed scale-up        *)
(* preflight (canSafelyAddEtcdMember) judge quorum by the recorded         *)
(* statuses, without asking etcd again, while nodes may fail in between.   *)
(*                                                                         *)
(* The world (which Machines exist, which run etcd, which members vote) is *)
(* arbitrary: Init allows every one.  An inspection of a machine may fail, *)
(* and so may reading the member list from a machine that was inspected.   *)
(* The probes of one check see one member list: a disagreement between     *)
(* nodes only adds an error (compareEtcdMembers).                          *)
(***************************************************************************)
EXTENDS EtcdQuorum

CONSTANT Machines      \* names of control plane machines, past and present

\* etcd admits one learner at a time (its default, which Talos keeps).
MaxLearners == 1

ASSUME MachinesFinite == IsFiniteSet(Machines)

VARIABLES
    owned,      \* Machines that exist and belong to the TalosControlPlane
    excluded,   \* of these, deleting or marked as leaving etcd
    named,      \* of these, with a host name
    matching,   \* of these, with a host name that is the one of their own node
    nodeRef,    \* of these, with a nodeRef (whose name is such a host name)
    voters,     \* voting etcd members
    learners,   \* etcd members that do not vote yet
    up,         \* machines whose etcd service reports running and healthy
    pc,         \* "start" or "checked"
    health,     \* etcdHealth: the counters of the check
    statuses,   \* machines recorded as running a healthy etcd service
    listed,     \* of these, the ones whose member list was read
    recorded,   \* [voters, learners] of the member list that was read
    condition,  \* EtcdClusterHealthy: "True" or the reason it is False
    stable      \* no node failed since the check

world == <<owned, excluded, named, matching, nodeRef, voters, learners>>
checkVars == <<health, statuses, listed, recorded, condition>>
vars == <<world, up, pc, checkVars, stable>>

members == voters \cup learners

Health == [machines : Nat, inspected : Nat, healthy : Nat, members : Nat, excluded : Nat]
NoHealth == [machines |-> 0, inspected |-> 0, healthy |-> 0, members |-> 0, excluded |-> 0]
NoMembers == [voters |-> {}, learners |-> {}]

TypeOK ==
    /\ owned \subseteq Machines /\ excluded \subseteq owned
    /\ named \subseteq owned /\ matching \subseteq named /\ nodeRef \subseteq matching
    /\ voters \subseteq Machines /\ learners \subseteq Machines \ voters
    /\ up \subseteq members
    /\ pc \in {"start", "checked"}
    /\ health \in Health
    /\ statuses \subseteq owned /\ listed \subseteq statuses
    /\ recorded \in [voters : SUBSET Machines, learners : SUBSET Machines]
    /\ condition \in {"Unknown", "True", "Unhealthy", "InspectionFailed", "QuorumLost"}
    /\ stable \in BOOLEAN

Init ==
    /\ owned \in SUBSET Machines
    /\ excluded \in SUBSET owned
    /\ named \in SUBSET owned
    /\ matching \in SUBSET named
    /\ nodeRef \in SUBSET matching
    /\ voters \in (SUBSET Machines) \ {{}}
    /\ learners \in {l \in SUBSET (Machines \ voters) : Cardinality(l) <= MaxLearners}
    /\ up \in SUBSET (voters \cup learners)
    /\ pc = "start"
    /\ health = NoHealth
    /\ statuses = {} /\ listed = {}
    /\ recorded = NoMembers
    /\ condition = "Unknown"
    /\ stable = TRUE

-----------------------------------------------------------------------------
\* healthCheckable: neither deleting nor leaving etcd.
HealthCheckable == owned \ excluded

\* Mistake: learners count as healthy voters.
HealthOfWithLearners(inspected, healthyOn, read) ==
    [machines  |-> Cardinality(HealthCheckable),
     inspected |-> Cardinality(inspected),
     healthy   |-> Cardinality(healthyOn),
     members   |-> IF read = {} THEN 0 ELSE Cardinality(voters),
     excluded  |-> IF read = {} THEN 0
                   ELSE Cardinality(voters \cap MatchedBy(excluded, matching))]

\* etcdHealthcheck's counters, when `inspected` machines answered and `read`
\* of the healthy ones returned the member list.  A healthy learner is only
\* subtracted when findEtcdMember finds its member, that is by a matching name.
HealthOf(inspected, healthyOn, read) ==
    [machines  |-> Cardinality(HealthCheckable),
     inspected |-> Cardinality(inspected),
     healthy   |-> Cardinality(healthyOn \ {m \in read : m \in learners /\ m \in matching}),
     members   |-> IF read = {} THEN 0 ELSE Cardinality(voters),
     excluded  |-> IF read = {} THEN 0
                   ELSE Cardinality(voters \cap MatchedBy(excluded, matching))]

\* etcdHealthcheck returned no error: nobody is left out of the check because
\* everybody is on the way out, and every machine answered, is healthy, returned
\* the member list, and the list verifies.
CheckPassed(inspected, healthyOn, read) ==
    /\ owned # {} => HealthCheckable # {}
    /\ read = HealthCheckable
    /\ read # {} => VerifyMembership(members, owned, HealthCheckable, named, matching)

\* The health the EtcdClusterHealthy condition is computed from: nothing was
\* inspected when every machine is excluded (the early return).
ReasonOf(h) == IF HealthCheckable = {} THEN ConditionReason(NoHealth) ELSE ConditionReason(h)

\* probeEtcd: the machines that may return the member list, which is only asked
\* for where the etcd service was inspected and is healthy, and may fail.
ProbeEtcd(inspected) == SUBSET (inspected \cap up)

\* reconcileEtcdMembers after the audit: inspect, count, set the condition.
HealthCheck ==
    /\ pc = "start"
    /\ \E inspected \in SUBSET HealthCheckable :
         \E read \in ProbeEtcd(inspected) :
           LET healthyOn == inspected \cap up
               h == HealthOf(inspected, healthyOn, read)
           IN  /\ health' = h
               /\ statuses' = healthyOn
               /\ listed' = read
               /\ recorded' = IF read = {} THEN recorded
                              ELSE [voters |-> voters, learners |-> learners]
               /\ condition' = IF CheckPassed(inspected, healthyOn, read)
                               THEN "True" ELSE ReasonOf(h)
    /\ pc' = "checked"
    /\ UNCHANGED <<world, up, stable>>

\* A node fails between the check and the decision that uses it.
Fail(m) ==
    /\ pc = "checked" /\ stable /\ m \in up
    /\ up' = up \ {m}
    /\ stable' = FALSE
    /\ UNCHANGED <<world, pc, checkVars>>

\* Mistake: which machines reported a member list is remembered.
NextReconcileKeepsList ==
    /\ pc = "checked"
    /\ pc' = "start"
    /\ health' = NoHealth
    /\ statuses' = {}
    /\ recorded' = NoMembers
    /\ stable' = TRUE
    /\ UNCHANGED <<world, up, listed, condition>>

\* The reconcile ends: what the check recorded is dropped, the condition stays
\* on the TalosControlPlane, and the next reconcile starts with a new check.
NextReconcile ==
    /\ pc = "checked"
    /\ pc' = "start"
    /\ health' = NoHealth
    /\ statuses' = {} /\ listed' = {}
    /\ recorded' = NoMembers
    /\ stable' = TRUE
    /\ UNCHANGED <<world, up, condition>>

Next == HealthCheck \/ (\E m \in Machines : Fail(m)) \/ NextReconcile

Spec == Init /\ [][Next]_vars

-----------------------------------------------------------------------------
(* The decisions, as functions of what the check recorded *)

\* recordedEtcdFrom: which machines count as healthy, and whether some healthy
\* machine with a nodeRef reported the member list.
RecordedHealthy == nodeRef \cap statuses
RecordedList == RecordedHealthy \cap listed # {}

\* canSafelyRemediateMachine.
CanSafelyRemediateMachine(target) ==
    /\ RecordedList
    /\ CanSafelyRemoveEtcdMember(recorded.voters, recorded.learners, target,
                                 owned, matching, RecordedHealthy)

\* canSafelyAddEtcdMember.
CanSafelyAddEtcdMember ==
    /\ RecordedList
    /\ CanSafelyAddEtcdMemberTo(recorded.voters, recorded.learners,
                                owned, matching, RecordedHealthy)

\* The member a removal of the target takes out of the voters.
VotersWithout(target) == voters \ {target}

-----------------------------------------------------------------------------
(* Properties *)

\* EtcdClusterHealthy=True (preflight.go reads it before every scale operation)
\* while no machine is on its way out means that the members are exactly the
\* machines and that all of them are healthy, although machines without a name
\* are only accounted for by count (verify) and a name need not match.
HealthyMeansComplete ==
    (pc = "checked" /\ stable /\ condition = "True" /\ excluded = {} /\ owned # {})
        => members = owned /\ members \subseteq up

\* canSafelyRemediateMachine: when no node failed since the check, remediating
\* the target is committed by a majority and leaves one, whatever is not known
\* about members and machines without a name.
RemediationKeepsQuorum ==
    (pc = "checked" /\ stable)
        => \A target \in owned \ excluded :
             CanSafelyRemediateMachine(target)
               => HasMajority(voters, up) /\ HasMajority(VotersWithout(target), up)

\* canSafelyRemediateMachine and quorumAfterRemoval agree: a machine the
\* remediation deletes is not held by the pre-terminate hook for quorum as long
\* as no node failed, which would park the remediation forever.
RemediationPassesHook ==
    (pc = "checked" /\ stable /\ excluded = {})
        => \A target \in owned :
             CanSafelyRemediateMachine(target)
               => QuorumAfterRemoval(QuorumCandidates(owned, target, {}) \cap up,
                                     Cardinality(members))

\* canSafelyAddEtcdMember: when it allows the replacement, etcd keeps a majority
\* even if the new member votes and never comes up; a single-member cluster,
\* which cannot grow otherwise, is the exception the code makes.
AdditionKeepsQuorum ==
    (pc = "checked" /\ stable /\ CanSafelyAddEtcdMember /\ Cardinality(voters) > 1)
        => Cardinality(voters \cap up) >= Quorum(Cardinality(voters) + 1)

\* conditionReason QuorumLost is never a guess: with every member matched to an
\* existing machine by name, and its list read, etcd really has no majority of
\* healthy voters, however the machines that could not be inspected are doing.
QuorumLostIsCertain ==
    (pc = "checked" /\ stable /\ condition = "QuorumLost" /\ listed # {}
        /\ members \subseteq MatchedBy(owned, matching))
        => ~HasMajority(voters, up)

\* conditionReason Unhealthy never claims a quorum that is not there when every
\* member has a name to be matched by and every healthy machine returned the
\* member list: then each healthy learner was recognised and left out.
UnhealthyIsCertain ==
    (pc = "checked" /\ stable /\ condition = "Unhealthy" /\ listed = statuses /\ listed # {}
        /\ members \subseteq MatchedBy(owned, matching))
        => HasMajority(voters, up)
=============================================================================
