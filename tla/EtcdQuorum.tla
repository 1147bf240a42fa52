----------------------------- MODULE EtcdQuorum -----------------------------
(***************************************************************************)
(* The decisions the provider takes on an etcd member list.  Everything    *)
(* here is a pure function of what was read: nothing in this module        *)
(* touches a Machine or etcd.                                              *)
(*                                                                         *)
(* An etcd member is represented by the machine whose node runs it, also   *)
(* after that Machine object is gone (an orphan).  A machine is "named"    *)
(* when nodeNamesForMachine returns at least one host name for it, and     *)
(* "matching" when one of these names, lower-cased and without a domain,   *)
(* is the host name its node has in etcd.  The name of a nodeRef always    *)
(* is; a MachineHostName may be that of the infrastructure machine, and    *)
(* then matches no member at all.                                          *)
(***************************************************************************)
EXTENDS Integers, FiniteSets

\* etcd needs this many of n voting members (etcd.go quorum, n/2 + 1).
Quorum(n) == (n \div 2) + 1

\* etcd commits: a majority of the voters is up.
HasMajority(voters, up) == Cardinality(voters \cap up) >= Quorum(Cardinality(voters))

-----------------------------------------------------------------------------
(* Matching members and machines *)

\* etcdMemberNames: the members that match a host name of one of the machines.
MatchedBy(machines, matching) == machines \cap matching

\* findEtcdMember, as the empty set or the singleton of the member.
FindEtcdMember(members, m, matching) == members \cap MatchedBy({m}, matching)

\* A verdict of identifyEtcdMember: known is false when it cannot be told
\* whether the machine has a member; member is a set of at most one member.
Identified(member) == [known |-> TRUE, member |-> member]
Unidentified == [known |-> FALSE, member |-> {}]

\* The member of machine m: by name, or, for a machine without a name, by
\* elimination among the members that match no other machine.
IdentifyEtcdMember(members, m, machines, named, matching) ==
    LET others    == machines \ {m}
        unmatched == members \ MatchedBy(others, matching)
    IN  CASE m \in named -> Identified(FindEtcdMember(members, m, matching))
          [] m \notin named /\ unmatched = {} -> Identified({})
          [] m \notin named /\ Cardinality(unmatched) = 1 /\ others \subseteq named
               -> Identified(unmatched)
          [] OTHER -> Unidentified

-----------------------------------------------------------------------------
(* Quorum projections *)

\* quorumAfterRemoval of the pre-terminate hook: `healthy` is the set of
\* machines counted, memberCount the length of the member list.
QuorumAfterRemoval(healthy, memberCount) ==
    Cardinality(healthy) >= Quorum(memberCount - 1)

\* Mistake: the machine that leaves is counted as well.
QuorumCandidatesWithVictim(owned, victim, leaving) == owned \ leaving

\* The machines quorumAfterRemoval probes: every owned machine but the victim
\* and those marked as leaving etcd, deleting ones included.
QuorumCandidates(owned, victim, leaving) == (owned \ {victim}) \ leaving

\* Mistake: only the removal has to be committed, not what is left to have quorum.
RemoveIfCommitted(voters, learners, target, machines, matching, healthy) ==
    /\ learners = {}
    /\ Cardinality(voters \cap MatchedBy(machines, matching) \cap healthy)
         >= Quorum(Cardinality(voters))

\* Mistake: a learner does not block the removal.
RemoveDespiteLearner(voters, learners, target, machines, matching, healthy) ==
    LET targetMember     == FindEtcdMember(voters, target, matching)
        remaining        == voters \ targetMember
        remainingHealthy == remaining \cap MatchedBy(machines \ {target}, matching) \cap healthy
    IN  /\ Cardinality(remainingHealthy) + Cardinality(targetMember \cap healthy)
             >= Quorum(Cardinality(voters))
        /\ Cardinality(remainingHealthy) >= Quorum(Cardinality(remaining))

\* canSafelyRemoveEtcdMember: the removal must be committed by a majority of the
\* current voters and leave a majority; a learner blocks it.
CanSafelyRemoveEtcdMember(voters, learners, target, machines, matching, healthy) ==
    LET targetMember     == FindEtcdMember(voters, target, matching)
        remaining        == voters \ targetMember
        remainingHealthy == remaining \cap MatchedBy(machines \ {target}, matching) \cap healthy
        currentVoting    == Cardinality(remaining) + Cardinality(targetMember)
        currentHealthy   == Cardinality(remainingHealthy) + Cardinality(targetMember \cap healthy)
    IN  /\ learners = {}
        /\ currentHealthy >= Quorum(currentVoting)
        /\ Cardinality(remainingHealthy) >= Quorum(Cardinality(remaining))

\* Mistake: the new member is not counted.
AddWithoutCounting(voters, learners, machines, matching, healthy) ==
    /\ learners = {}
    /\ Cardinality(voters \cap MatchedBy(machines, matching) \cap healthy)
         >= Quorum(Cardinality(voters))

\* canSafelyAddEtcdMemberTo: the new member counts as a voter that is down,
\* except while the cluster has at most one voter; a learner blocks it.
CanSafelyAddEtcdMemberTo(voters, learners, machines, matching, healthy) ==
    LET voting        == Cardinality(voters)
        healthyVoters == Cardinality(voters \cap MatchedBy(machines, matching) \cap healthy)
        targetHealthy == healthyVoters + (IF voting <= 1 THEN 1 ELSE 0)
    IN  /\ learners = {}
        /\ targetHealthy >= Quorum(voting + 1)

-----------------------------------------------------------------------------
(* What the etcd health check concludes *)

\* etcdHealth.hasQuorum and mayHaveQuorum; h is a record with the counters of
\* etcdHealth.  A health check that read no member list counts machines instead.
HealthQuorum(h) == Quorum(IF h.members = 0 THEN h.machines ELSE h.members)

HealthHasQuorum(h) == h.healthy >= HealthQuorum(h)

\* Mistake: members of machines on their way out are taken to be down.
MayHaveQuorumWithoutExcluded(h) == h.healthy + (h.machines - h.inspected) >= HealthQuorum(h)

HealthMayHaveQuorum(h) ==
    h.healthy + (h.machines - h.inspected) + h.excluded >= HealthQuorum(h)

\* conditionReason: the reason of EtcdClusterHealthy when the check failed.
ConditionReason(h) ==
    CASE h.inspected = 0 -> "InspectionFailed"
      [] h.inspected # 0 /\ HealthHasQuorum(h) -> "Unhealthy"
      [] h.inspected # 0 /\ ~HealthHasQuorum(h) /\ HealthMayHaveQuorum(h) -> "InspectionFailed"
      [] OTHER -> "QuorumLost"

\* Mistake: members that match no machine are not counted.
VerifyNamesOnly(members, owned, checked, named, matching) ==
    checked \cap named \subseteq members \cap matching

\* etcdMembership.verify: the member list read matches the machines that must
\* be members (`checked`), where a machine without a name claims one member
\* that matches no owned machine.
VerifyMembership(members, owned, checked, named, matching) ==
    LET pending   == checked \ named
        unmatched == members \ MatchedBy(owned, matching)
    IN  /\ checked \cap named \subseteq members \cap matching
        /\ Cardinality(unmatched) = Cardinality(pending)
=============================================================================
