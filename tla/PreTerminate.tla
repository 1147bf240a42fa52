---------------------------- MODULE PreTerminate ----------------------------
(***************************************************************************)
(* Deletion of control plane Machines: the pre-terminate hook, the etcd    *)
(* member removal it performs, the fail-open deadline, the quorum hold,    *)
(* the etcd audit and the teardown of the whole control plane              *)
(* (controllers/preterminate.go, auditEtcd in controllers/etcd.go and      *)
(* reconcileDelete in controllers/taloscontrolplane_controller.go).        *)
(*                                                                         *)
(* Four actors interleave: the reconciler, one step per API or Talos call  *)
(* that changes or reads shared state; the core Machine controller and the *)
(* infrastructure provider (external); the nodes and their etcd            *)
(* (external); and the user.  The reconciler works from an informer cache  *)
(* that may lag behind the API server, and may crash between any two       *)
(* steps.  Machine names are positive numbers, ordered as the names are.   *)
(* A machine that is still provisioning is in Provisioning: it joins etcd   *)
(* and registers its node later, or never.  When a Machine is created is   *)
(* the subject of ControlPlane; here a reconcile may create one.           *)
(*                                                                         *)
(* Two assumptions on time: a new node joins etcd only after the cache has *)
(* seen its Machine, and a Machine does not reach the pre-terminate hook   *)
(* within the second in which it is deleted.                               *)
(***************************************************************************)
EXTENDS EtcdQuorum

CONSTANTS
    Machines,      \* the control plane Machines
    Predating,     \* of Machines, those created before the provider stamped hooks
    Provisioning,  \* of Machines, those not in etcd and without a node yet
    Creatable,     \* of Provisioning, those that are created later
    HostNamed,     \* of Machines, those whose infrastructure reports a MachineHostName
    Misnamed,      \* of HostNamed, those whose node and member have another host name
    LearnerJoin,   \* a node joins etcd as a learner and is promoted later
    StaleCache,    \* a reconcile may start from an outdated cache
    Teardowns,     \* of "cluster" and "controlplane", what may be deleted as a whole
    Escapable,     \* of Machines, those whose hook the user may remove
    MaxDeletes,    \* bound: deletions requested from outside
    MaxFailures,   \* bound: nodes going down
    MaxFaults      \* bound: crashes, API errors and lost or failed etcd calls

ASSUME MachinesAssumption == Machines \subseteq Nat \ {0} /\ IsFiniteSet(Machines)
ASSUME SubsetsAssumption ==
    /\ Predating \subseteq Machines
    /\ Provisioning \subseteq Machines
    /\ Creatable \subseteq Provisioning
    /\ HostNamed \subseteq Machines
    /\ Misnamed \subseteq HostNamed
    /\ Escapable \subseteq Machines
    /\ Teardowns \subseteq {"cluster", "controlplane"}
ASSUME SwitchesAssumption == LearnerJoin \in BOOLEAN /\ StaleCache \in BOOLEAN
ASSUME BoundsAssumption == MaxDeletes \in Nat /\ MaxFailures \in Nat /\ MaxFaults \in Nat

None == 0    \* no machine

VARIABLES
    \* Machine objects in the API server
    phase,      \* progress of the Machine's deletion workflow
    deletedAt,  \* deletionTimestamp in seconds, 0 if it is not set
    hook,       \* Machines carrying the pre-terminate hook annotation
    anchor,     \* etcd-cleanup-observed-at: "none", "fresh", or "expired" past the deadline
    leaving,    \* Machines marked etcd-leaving
    nodeRef,    \* Machines with status.nodeRef
    cache,      \* the reconciler's copy of the six above
    \* nodes and etcd
    voters, learners, up, joined,
    \* teardown of the whole Cluster or TalosControlPlane
    teardown, finalizer,
    \* the running reconcile
    pc, victim, target, seen, why, todo,
    \* bounds
    failures, faults,
    \* history, read by the properties only
    disturbed,      \* etcd changed from outside since the member list was read
    interceptable,  \* Machines that were hooked etcd members when deleted
    outcome,        \* how the hook of a Machine was released
    held            \* the last anchored attempt was put on hold for quorum

objects == <<phase, deletedAt, hook, anchor, leaving, nodeRef>>
etcd == <<voters, learners, up, joined>>
local == <<victim, target, seen, why, todo>>
history == <<disturbed, interceptable, outcome, held>>
vars == <<objects, cache, etcd, teardown, finalizer, pc, local, failures, faults, history>>

members == voters \cup learners
Phases == {"absent", "running", "draining", "atHook", "terminating", "gone"}
Deleting == {"draining", "atHook", "terminating"}
Anchors == {"none", "fresh", "expired"}
Outcomes == {"none", "left", "viaPeer", "notMember", "skipped", "orphaned", "escaped", "teardown"}
GivenUp == {"orphaned", "escaped", "skipped", "teardown"}
HookSteps == {"anchor", "decide", "probe", "hold", "mark", "leave", "force", "release"}
CacheType == [phase : [Machines -> Phases], deletedAt : [Machines -> Nat],
              hook : SUBSET Machines, anchor : [Machines -> Anchors],
              leaving : SUBSET Machines, nodeRef : SUBSET Machines]

TypeOK ==
    /\ phase \in [Machines -> Phases] /\ deletedAt \in [Machines -> Nat]
    /\ hook \subseteq Machines /\ anchor \in [Machines -> Anchors]
    /\ leaving \subseteq Machines /\ nodeRef \subseteq Machines
    /\ cache \in CacheType
    /\ voters \subseteq Machines /\ learners \subseteq Machines
    /\ up \subseteq Machines /\ joined \subseteq Machines
    /\ teardown \in {"no", "cluster", "controlplane"} /\ finalizer \in BOOLEAN
    /\ pc \in {"idle", "audit", "teardown"} \cup HookSteps
    /\ victim \in IF pc \in HookSteps THEN Machines ELSE {None}
    /\ target \in Machines \cup {None}
    /\ seen \subseteq Machines /\ why \in Outcomes /\ todo \subseteq Machines
    /\ failures \in Nat /\ faults \in Nat
    /\ disturbed \in BOOLEAN /\ interceptable \subseteq Machines
    /\ outcome \in [Machines -> Outcomes] /\ held \in [Machines -> BOOLEAN]

Current == [phase |-> phase, deletedAt |-> deletedAt, hook |-> hook,
            anchor |-> anchor, leaving |-> leaving, nodeRef |-> nodeRef]

Init ==
    /\ phase = [m \in Machines |-> IF m \in Creatable THEN "absent" ELSE "running"]
    /\ deletedAt = [m \in Machines |-> 0]
    /\ hook = Machines \ (Predating \cup Creatable)
    /\ anchor = [m \in Machines |-> "none"]
    /\ leaving = {}
    /\ nodeRef = Machines \ Provisioning
    /\ cache = Current
    /\ voters = Machines \ Provisioning /\ up = voters /\ joined = voters
    /\ learners = {}
    /\ teardown = "no" /\ finalizer = TRUE
    /\ pc = "idle" /\ victim = None /\ target = None /\ seen = {} /\ why = "none" /\ todo = {}
    /\ failures = 0 /\ faults = 0
    /\ disturbed = FALSE /\ interceptable = {}
    /\ outcome = [m \in Machines |-> "none"] /\ held = [m \in Machines |-> FALSE]

-----------------------------------------------------------------------------
(* The informer cache *)

\* The cache keeps up on its own between reconciles, unless StaleCache.  Conjunct
\* of every step that changes Machines or ends a reconcile.
Inform == cache' = IF StaleCache \/ pc' # "idle" THEN cache ELSE Current'

\* Informer events arrive: later reads of the cache see the current objects.
Sync ==
    /\ pc \in {"idle", "audit"} /\ cache # Current
    /\ cache' = Current
    /\ UNCHANGED <<objects, etcd, teardown, finalizer, pc, local, failures, faults, history>>

-----------------------------------------------------------------------------
(* External: nodes and etcd *)

\* What another step may do to etcd while the hook is between its calls.
Disturb == disturbed' = (disturbed \/ pc \in HookSteps)

Fail(m) ==
    /\ m \in up /\ failures < MaxFailures
    /\ up' = up \ {m} /\ failures' = failures + 1
    /\ Disturb
    /\ UNCHANGED <<objects, cache, voters, learners, joined, teardown, finalizer, pc, local,
                   faults, interceptable, outcome, held>>

Recover(m) ==
    /\ m \in members \ up /\ phase[m] # "gone"
    /\ up' = up \cup {m}
    /\ UNCHANGED <<objects, cache, voters, learners, joined, teardown, finalizer, pc, local,
                   failures, faults, history>>

\* A provisioning node joins etcd, which takes a majority of the voters; nothing
\* stops it from doing so after its Machine was deleted.  Assumption on time: it
\* takes longer to boot than the informer to deliver its Machine.
Join(m) ==
    /\ m \notin joined /\ phase[m] # "gone" /\ HasMajority(voters, up)
    /\ cache.phase[m] # "absent"
    /\ joined' = joined \cup {m} /\ up' = up \cup {m}
    /\ IF LearnerJoin THEN learners' = learners \cup {m} /\ voters' = voters
                      ELSE voters' = voters \cup {m} /\ learners' = learners
    /\ Disturb
    /\ UNCHANGED <<objects, cache, teardown, finalizer, pc, local, failures, faults,
                   interceptable, outcome, held>>

Promote(m) ==
    /\ m \in learners \cap up /\ HasMajority(voters, up)
    /\ learners' = learners \ {m} /\ voters' = voters \cup {m}
    /\ Disturb
    /\ UNCHANGED <<objects, cache, up, joined, teardown, finalizer, pc, local, failures, faults,
                   interceptable, outcome, held>>

\* The member m is taken out of the list, and its etcd stops.
RemoveMember(m) ==
    /\ voters' = voters \ {m} /\ learners' = learners \ {m} /\ up' = up \ {m}
    /\ joined' = joined

-----------------------------------------------------------------------------
(* External: users, the core Machine controller and the infrastructure *)

Requested == Cardinality({m \in Machines : deletedAt[m] # 0})

\* A deletionTimestamp is set: from now on the deletion cannot be undone.  It has
\* seconds, so that Machines deleted within one share it.  Assumption on time: none
\* of them reaches its pre-terminate hook within that second.
RequestDeletion(m) ==
    /\ phase' = [phase EXCEPT ![m] = "draining"]
    /\ \E second \in 1 .. Requested + 1 :
         /\ \A n \in Machines : /\ deletedAt[n] <= second
                                /\ deletedAt[n] = second => phase[n] = "draining"
         /\ deletedAt' = [deletedAt EXCEPT ![m] = second]
    /\ interceptable' = IF m \in hook' \cap members THEN interceptable \cup {m} ELSE interceptable

\* kubectl delete, a scale-down, a rollout or a remediation.
Delete(m) ==
    /\ phase[m] = "running" /\ Requested < MaxDeletes
    /\ UNCHANGED <<hook, anchor, leaving, nodeRef, etcd, teardown, finalizer, pc, local,
                   failures, faults, disturbed, outcome, held>>
    /\ RequestDeletion(m)
    /\ Inform

\* The core Machine controller reports the nodeRef; it does not for a Machine
\* that is being deleted.
Register(m) ==
    /\ phase[m] = "running" /\ m \notin nodeRef
    /\ nodeRef' = nodeRef \cup {m}
    /\ UNCHANGED <<phase, deletedAt, hook, anchor, leaving, etcd, teardown, finalizer, pc,
                   local, failures, faults, history>>
    /\ Inform

\* Drained and volumes detached: held while the hook is there, else torn down.
Drain(m) ==
    /\ phase[m] = "draining"
    /\ phase' = [phase EXCEPT ![m] = IF m \in hook THEN "atHook" ELSE "terminating"]
    /\ UNCHANGED <<deletedAt, hook, anchor, leaving, nodeRef, etcd, teardown, finalizer, pc,
                   local, failures, faults, history>>
    /\ Inform

\* The hook was released: the infrastructure is told to delete the machine.
Terminate(m) ==
    /\ phase[m] = "atHook" /\ m \notin hook
    /\ phase' = [phase EXCEPT ![m] = "terminating"]
    /\ UNCHANGED <<deletedAt, hook, anchor, leaving, nodeRef, etcd, teardown, finalizer, pc,
                   local, failures, faults, history>>
    /\ Inform

\* The node is powered off and the Machine object removed.
Gone(m) ==
    /\ phase[m] = "terminating"
    /\ phase' = [phase EXCEPT ![m] = "gone"]
    /\ up' = up \ {m}
    /\ hook' = hook \ {m} /\ leaving' = leaving \ {m} /\ nodeRef' = nodeRef \ {m}
    /\ anchor' = [anchor EXCEPT ![m] = "none"]
    /\ Disturb
    /\ UNCHANGED <<deletedAt, voters, learners, joined, teardown, finalizer, pc, local,
                   failures, faults, interceptable, outcome, held>>
    /\ Inform

\* The documented escape hatch: the user removes the hook of a deleting Machine.
EscapeHatch(m) ==
    /\ m \in Escapable /\ phase[m] \in {"draining", "atHook"} /\ m \in hook
    /\ hook' = hook \ {m}
    /\ outcome' = [outcome EXCEPT ![m] = "escaped"]
    /\ UNCHANGED <<phase, deletedAt, anchor, leaving, nodeRef, etcd, teardown, finalizer, pc,
                   local, failures, faults, disturbed, interceptable, held>>
    /\ Inform

\* The Cluster, and then the TalosControlPlane, is deleted.  A reconcile uses
\* what it read of them when it started.
StartTeardown(t) ==
    /\ pc = "idle" /\ t \in Teardowns
    /\ teardown = "no" \/ (teardown = "cluster" /\ t = "controlplane")
    /\ teardown' = t
    /\ UNCHANGED <<objects, cache, etcd, finalizer, pc, local, failures, faults, history>>

\* etcdCleanupTimeout passes since the anchor of m was stamped.
Tick(m) ==
    /\ anchor[m] = "fresh" \/ cache.anchor[m] = "fresh"
    /\ anchor' = IF anchor[m] = "fresh" THEN [anchor EXCEPT ![m] = "expired"] ELSE anchor
    /\ cache' = IF cache.anchor[m] = "fresh"
                THEN [cache EXCEPT !.anchor = [@ EXCEPT ![m] = "expired"]] ELSE cache
    /\ UNCHANGED <<phase, deletedAt, hook, leaving, nodeRef, etcd, teardown, finalizer, pc, local,
                   failures, faults, history>>

-----------------------------------------------------------------------------
(* What a reconcile reads off its cache *)

MinName(S) == CHOOSE m \in S : \A n \in S : m <= n

\* ownedControlPlaneMachines of the list the reconcile started from.
Listed == {m \in Machines : cache.phase[m] \notin {"absent", "gone"}}

\* nodeNamesForMachine is not empty; and it contains the name of the node, which
\* is that of the etcd member.
Named == cache.nodeRef \cup HostNamed
Matching == cache.nodeRef \cup (HostNamed \ Misnamed)

\* deletingMachines: the hooked ones, serviced by deletionTimestamp, and the
\* ones without the hook.
DeletingHooked == {m \in Listed : cache.phase[m] \in Deleting /\ m \in cache.hook}
DeletingUnhooked == {m \in Listed : cache.phase[m] \in Deleting /\ m \notin cache.hook}
\* Mistake: served in the order of names rather than of deletion.
ByName(S) == MinName(S)

\* The oldest deletionTimestamp first, and the name where they are equal.
Oldest(S) ==
    CHOOSE m \in S : \A n \in S :
        \/ cache.deletedAt[m] < cache.deletedAt[n]
        \/ cache.deletedAt[m] = cache.deletedAt[n] /\ m <= n

\* servicePreTerminateHooks: the one Machine to act on, which must be blocked on
\* pre-terminate hooks (the phase gate), or None.
Serviced ==
    IF /\ DeletingUnhooked = {} /\ DeletingHooked # {}
       /\ cache.phase[Oldest(DeletingHooked)] = "atHook"
    THEN Oldest(DeletingHooked) ELSE None

\* selectEtcdPeer: a set of at most one machine.
SelectEtcdPeer ==
    LET eligible == {m \in Listed \ {victim} : cache.phase[m] = "running"} \ cache.leaving
        withNode == eligible \cap cache.nodeRef
    IN  CASE withNode # {} -> {MinName(withNode)}
          [] withNode = {} /\ eligible # {} -> {MinName(eligible)}
          [] OTHER -> {}

\* stampPreTerminateHooks adopts these.
ToStamp == {m \in Listed : cache.phase[m] = "running"} \ cache.hook

-----------------------------------------------------------------------------
(* The reconciler *)

Fault == faults < MaxFaults /\ faults' = faults + 1
NoFault == faults' = faults

ForgetLocals == victim' = None /\ target' = None /\ seen' = {} /\ why' = "none"

\* Leave the hook handler; the reconcile goes on with the etcd audit.
LeaveHandler == pc' = "audit" /\ ForgetLocals

\* Releasing the hook for the given reason is next.
GoRelease(reason) ==
    /\ pc' = "release" /\ why' = reason /\ target' = None /\ seen' = {}
    /\ UNCHANGED victim

\* Mistake: the deadline is ignored.
AlwaysRetry == LeaveHandler

\* failOpenOrRetry: retry, or give up once the deadline has passed.
FailOpenOrRetry ==
    IF cache.anchor[victim] = "expired" THEN GoRelease("orphaned") ELSE LeaveHandler

\* Mistake: the handler runs although no Machine is ready for it.
BeginWithoutVictim ==
    /\ pc = "idle" /\ finalizer /\ teardown # "controlplane"
    /\ hook' = hook \cup {m \in ToStamp : phase[m] # "gone"}
    /\ victim' = Serviced
    /\ pc' = IF DeletingHooked = {} THEN "audit" ELSE "anchor"
    /\ UNCHANGED <<phase, deletedAt, anchor, leaving, nodeRef, cache, etcd, teardown, finalizer,
                   target, seen, why, todo, failures, faults, history>>

\* A reconcile of a live TalosControlPlane starts: hooks are stamped, where each
\* patch may fail on its own, and the Machine to service is picked.
Begin ==
    /\ pc = "idle" /\ finalizer /\ teardown # "controlplane"
    /\ LET patchable == {m \in ToStamp : phase[m] # "gone"}
       IN  \E stamped \in SUBSET patchable :
             /\ hook' = hook \cup stamped
             /\ IF stamped = patchable THEN NoFault ELSE Fault
    /\ victim' = Serviced
    /\ pc' = IF Serviced = None THEN "audit" ELSE "anchor"
    /\ UNCHANGED <<phase, deletedAt, anchor, leaving, nodeRef, cache, etcd, teardown, finalizer,
                   target, seen, why, todo, failures, history>>

\* stampEtcdCleanupObservedAt, once: an anchor that is there is left alone.
AnchorDeadline ==
    /\ pc = "anchor" /\ phase[victim] # "gone"
    /\ IF cache.anchor[victim] = "none"
       THEN /\ anchor' = [anchor EXCEPT ![victim] = "fresh"]
            /\ held' = [held EXCEPT ![victim] = FALSE]
       ELSE UNCHANGED <<anchor, held>>
    /\ pc' = "decide"
    /\ UNCHANGED <<phase, deletedAt, hook, leaving, nodeRef, cache, etcd, teardown, finalizer,
                   local, failures, faults, disturbed, interceptable, outcome>>

\* Whole-cluster teardown, or the last machine: etcd is not touched.
SkipCleanup ==
    /\ pc = "decide"
    /\ teardown = "cluster" \/ Cardinality(Listed) <= 1
    /\ GoRelease("skipped")
    /\ UNCHANGED <<objects, cache, etcd, teardown, finalizer, todo, failures, faults, history>>

\* No peer, a peer that cannot be reached, or a member list that cannot be read.
PeerUnavailable ==
    /\ pc = "decide" /\ teardown # "cluster" /\ Cardinality(Listed) > 1
    /\ FailOpenOrRetry
    /\ IF SelectEtcdPeer \subseteq up /\ SelectEtcdPeer # {} THEN Fault ELSE NoFault
    /\ UNCHANGED <<objects, cache, etcd, teardown, finalizer, todo, failures, history>>

\* The member list is read through the peer and the victim's member identified.
ListMembers ==
    /\ pc = "decide" /\ teardown # "cluster" /\ Cardinality(Listed) > 1
    /\ SelectEtcdPeer # {} /\ SelectEtcdPeer \subseteq up
    /\ LET id == IdentifyEtcdMember(members, victim, Listed, Named, Matching)
       IN  \/ ~id.known /\ GoRelease("orphaned")
           \/ id.known /\ id.member = {} /\ GoRelease("notMember")
           \/ /\ id.known /\ id.member # {}
              /\ target' = MinName(id.member) /\ seen' = members /\ pc' = "probe"
              /\ UNCHANGED <<victim, why>>
    /\ disturbed' = FALSE
    /\ UNCHANGED <<objects, cache, etcd, teardown, finalizer, todo, failures, faults,
                   interceptable, outcome, held>>

\* quorumAfterRemoval: the candidates are probed live, and one that does not
\* answer counts as unhealthy.
ProbeQuorum ==
    /\ pc = "probe"
    /\ \E healthy \in SUBSET (QuorumCandidates(Listed, victim, cache.leaving) \cap up) :
         pc' = IF QuorumAfterRemoval(healthy, Cardinality(seen)) THEN "mark" ELSE "hold"
    /\ UNCHANGED <<objects, cache, etcd, teardown, finalizer, local, failures, faults, history>>

\* Mistake: the fail-open clock keeps running during a quorum hold.
HoldKeepsAnchor ==
    /\ pc = "hold" /\ phase[victim] # "gone"
    /\ held' = [held EXCEPT ![victim] = TRUE]
    /\ LeaveHandler
    /\ UNCHANGED <<objects, cache, etcd, teardown, finalizer, todo, failures, faults, disturbed,
                   interceptable, outcome>>

\* holdForQuorum resets the fail-open clock and reports the hold.
HoldForQuorum ==
    /\ pc = "hold" /\ phase[victim] # "gone"
    /\ anchor' = [anchor EXCEPT ![victim] = "none"]
    /\ held' = [held EXCEPT ![victim] = TRUE]
    /\ LeaveHandler
    /\ UNCHANGED <<phase, deletedAt, hook, leaving, nodeRef, cache, etcd, teardown, finalizer,
                   todo, failures, faults, disturbed, interceptable, outcome>>

\* markEtcdLeaving, before the member leaves.
MarkLeaving ==
    /\ pc = "mark" /\ phase[victim] # "gone"
    /\ leaving' = leaving \cup {victim}
    /\ pc' = "leave"
    /\ UNCHANGED <<phase, deletedAt, hook, anchor, nodeRef, cache, etcd, teardown, finalizer,
                   local, failures, faults, history>>

\* etcdLeaveFromVictim: the victim's etcd takes itself out.
LeaveFromVictim ==
    /\ pc = "leave" /\ victim \in up /\ HasMajority(voters, up)
    /\ RemoveMember(victim)
    /\ \/ GoRelease("left") /\ NoFault
       \/ pc' = "force" /\ Fault /\ UNCHANGED <<victim, target, seen, why>>
    /\ UNCHANGED <<objects, cache, teardown, finalizer, todo, failures, history>>

\* Mistake: a failed leave is taken for a successful one.
LeaveErrorIgnored ==
    /\ pc = "leave"
    /\ GoRelease("left")
    /\ IF victim \in up /\ HasMajority(voters, up) THEN Fault ELSE NoFault
    /\ UNCHANGED <<objects, cache, etcd, teardown, finalizer, todo, failures, history>>

\* The victim cannot be reached, its etcd is stopped, or the call failed.
LeaveFails ==
    /\ pc = "leave"
    /\ pc' = "force"
    /\ IF victim \in up /\ HasMajority(voters, up) THEN Fault ELSE NoFault
    /\ UNCHANGED <<objects, cache, etcd, teardown, finalizer, local, failures, history>>

\* forceEtcdLeave: the member is removed through the peer; the answer may be lost.
ForceLeave ==
    /\ pc = "force" /\ SelectEtcdPeer \subseteq up
    /\ target \in members /\ HasMajority(voters, up)
    /\ RemoveMember(target)
    /\ \/ GoRelease("viaPeer") /\ NoFault
       \/ FailOpenOrRetry /\ Fault
    /\ UNCHANGED <<objects, cache, teardown, finalizer, todo, failures, history>>

ForceFails ==
    /\ pc = "force"
    /\ FailOpenOrRetry
    /\ IF SelectEtcdPeer \subseteq up /\ target \in members /\ HasMajority(voters, up)
       THEN Fault ELSE NoFault
    /\ UNCHANGED <<objects, cache, etcd, teardown, finalizer, todo, failures, history>>

\* releasePreTerminateHookWithEvent: the hook and the anchor go.
ReleaseHook ==
    /\ pc = "release" /\ phase[victim] # "gone"
    /\ hook' = hook \ {victim}
    /\ anchor' = [anchor EXCEPT ![victim] = "none"]
    /\ outcome' = IF victim \in hook THEN [outcome EXCEPT ![victim] = why] ELSE outcome
    /\ LeaveHandler
    /\ UNCHANGED <<phase, deletedAt, leaving, nodeRef, cache, etcd, teardown, finalizer, todo,
                   failures, faults, disturbed, interceptable, held>>

\* A patch of the victim failed, or the Machine is gone: back out with the error.
PatchFails ==
    /\ pc \in {"anchor", "hold", "mark", "release"}
    /\ IF phase[victim] = "gone" THEN NoFault ELSE Fault
    /\ LeaveHandler
    /\ UNCHANGED <<objects, cache, etcd, teardown, finalizer, todo, failures, history>>

-----------------------------------------------------------------------------
(* The etcd audit, the last step modelled of a reconcile *)

\* Mistake: Machines without a node do not put the audit off.
AuditUnnamed(o) ==
    /\ pc = "audit"
    /\ \E d \in Listed : cache.phase[d] = "running" /\ d \in up
    /\ o \in members \ (Listed \cap Matching) /\ HasMajority(voters, up)
    /\ RemoveMember(o)
    /\ UNCHANGED <<objects, cache, teardown, finalizer, pc, local, failures, faults, history>>

\* Mistake: as many members as Machines are taken for the right ones.
AuditByCount(o) ==
    /\ pc = "audit"
    /\ Listed \subseteq cache.nodeRef /\ Cardinality(members) > Cardinality(Listed) + 1
    /\ \E d \in Listed : cache.phase[d] = "running" /\ d \in up
    /\ o \in members \ (Listed \cap Matching) /\ HasMajority(voters, up)
    /\ RemoveMember(o)
    /\ UNCHANGED <<objects, cache, teardown, finalizer, pc, local, failures, faults, history>>

\* auditEtcd removes a member that matches no listed machine, provided every
\* machine has a nodeRef, through a machine that is not being deleted.
AuditRemove(o) ==
    /\ pc = "audit"
    /\ Listed \subseteq cache.nodeRef
    /\ \E d \in Listed : cache.phase[d] = "running" /\ d \in up
    /\ o \in members \ (Listed \cap Matching) /\ HasMajority(voters, up)
    /\ RemoveMember(o)
    /\ UNCHANGED <<objects, cache, teardown, finalizer, pc, local, failures, faults, history>>

\* The audit has nothing to remove, is refused or fails; the reconcile ends.
EndReconcile ==
    /\ pc = "audit"
    /\ pc' = "idle"
    /\ UNCHANGED <<objects, etcd, teardown, finalizer, local, failures, faults, history>>
    /\ Inform

\* bootControlPlane, the last step of a reconcile that has to create a Machine: it
\* carries the hook from the start.
Create(m) ==
    /\ pc = "audit" /\ phase[m] = "absent"
    /\ phase' = [phase EXCEPT ![m] = "running"]
    /\ hook' = hook \cup {m}
    /\ pc' = "idle"
    /\ UNCHANGED <<deletedAt, anchor, leaving, nodeRef, etcd, teardown, finalizer, local,
                   failures, faults, history>>
    /\ Inform

-----------------------------------------------------------------------------
(* reconcileDelete: the whole control plane goes away *)

\* Mistake: Machines that are being deleted do not keep the finalizer.
BeginTeardownEarly ==
    /\ pc = "idle" /\ finalizer /\ teardown = "controlplane"
    /\ IF \A m \in Listed : cache.phase[m] # "running"
       THEN finalizer' = FALSE /\ UNCHANGED <<pc, todo>>
       ELSE pc' = "teardown" /\ todo' = Listed /\ UNCHANGED finalizer
    /\ UNCHANGED <<objects, cache, etcd, teardown, victim, target, seen, why, failures, faults,
                   history>>

BeginTeardown ==
    /\ pc = "idle" /\ finalizer /\ teardown = "controlplane"
    /\ IF Listed = {} THEN finalizer' = FALSE /\ UNCHANGED <<pc, todo>>
                      ELSE pc' = "teardown" /\ todo' = Listed /\ UNCHANGED finalizer
    /\ UNCHANGED <<objects, cache, etcd, teardown, victim, target, seen, why, failures, faults,
                   history>>

\* The hook of a Machine that is gone cannot be released: the patch finds nothing.
PatchesGone(m) == phase[m] = "gone" /\ (m \in cache.hook \/ cache.anchor[m] # "none")

\* One Machine of the loop: release the hook and the anchor that the cached copy
\* shows, then delete it unless that shows it deleted already.  The deletion may
\* fail after the release, which ends the pass.
TeardownMachine(m) ==
    /\ pc = "teardown" /\ m \in todo /\ ~PatchesGone(m)
    /\ hook' = hook \ ({m} \cap cache.hook)
    /\ anchor' = IF cache.anchor[m] # "none" THEN [anchor EXCEPT ![m] = "none"] ELSE anchor
    /\ outcome' = IF m \in hook \ hook' THEN [outcome EXCEPT ![m] = "teardown"] ELSE outcome
    /\ \/ /\ todo' = todo \ {m} /\ NoFault
          /\ IF cache.phase[m] = "running" /\ phase[m] = "running"
             THEN RequestDeletion(m) ELSE UNCHANGED <<phase, deletedAt, interceptable>>
          /\ UNCHANGED pc
       \/ /\ cache.phase[m] = "running" /\ Fault
          /\ pc' = "idle" /\ todo' = {}
          /\ UNCHANGED <<phase, deletedAt, interceptable>>
    /\ UNCHANGED <<leaving, nodeRef, etcd, teardown, finalizer, victim, target, seen, why,
                   failures, disturbed, held>>
    /\ Inform

\* Releasing the hook of some Machine fails, which ends the pass.
TeardownFails ==
    /\ pc = "teardown" /\ todo # {}
    /\ IF \E m \in todo : PatchesGone(m) THEN NoFault ELSE Fault
    /\ pc' = "idle" /\ todo' = {}
    /\ UNCHANGED <<objects, etcd, teardown, finalizer, victim, target, seen, why, failures,
                   history>>
    /\ Inform

EndTeardown ==
    /\ pc = "teardown" /\ todo = {}
    /\ pc' = "idle"
    /\ UNCHANGED <<objects, etcd, teardown, finalizer, local, failures, faults, history>>
    /\ Inform

\* The manager dies: what the reconcile held in memory is lost.
Crash ==
    /\ pc # "idle" /\ Fault
    /\ pc' = "idle" /\ ForgetLocals /\ todo' = {}
    /\ UNCHANGED <<objects, etcd, teardown, finalizer, failures, history>>
    /\ Inform

-----------------------------------------------------------------------------
Handler ==
    \/ AnchorDeadline \/ SkipCleanup \/ PeerUnavailable \/ ListMembers \/ ProbeQuorum
    \/ HoldForQuorum \/ MarkLeaving \/ LeaveFromVictim \/ LeaveFails \/ ForceLeave
    \/ ForceFails \/ ReleaseHook \/ PatchFails

Reconciler ==
    \/ Begin \/ Handler \/ EndReconcile \/ BeginTeardown \/ TeardownFails \/ EndTeardown
    \/ \E m \in Machines : AuditRemove(m) \/ Create(m) \/ TeardownMachine(m)

MachineController == \E m \in Machines : Drain(m) \/ Terminate(m) \/ Gone(m) \/ Register(m)

Nodes == \E m \in Machines : Fail(m) \/ Recover(m) \/ Join(m) \/ Promote(m)

User ==
    \/ \E m \in Machines : Delete(m) \/ EscapeHatch(m)
    \/ \E t \in Teardowns : StartTeardown(t)

Next ==
    \/ Reconciler \/ Crash \/ Sync \/ MachineController \/ Nodes \/ User
    \/ \E m \in Machines : Tick(m)

Spec == Init /\ [][Next]_vars

\* The workqueue retries a TalosControlPlane for as long as it exists, informers
\* deliver their events, and the core Machine controller and the infrastructure
\* finish a drain and a teardown (nodeDrainTimeout bounds the former).  Faults
\* are bounded, so no fairness is needed against them; nodes and users owe nothing.
BasicFairness ==
    /\ WF_vars(Reconciler) /\ SF_vars(Sync)
    /\ \A m \in Machines : WF_vars(Drain(m)) /\ WF_vars(Terminate(m)) /\ WF_vars(Gone(m))

\* Besides, time passes, and a removal the audit can do is not put off forever.
Fairness ==
    /\ BasicFairness
    /\ \A m \in Machines : WF_vars(Tick(m)) /\ SF_vars(AuditRemove(m))

\* A teardown depends neither on the deadline nor on the audit.
TeardownSpec == Spec /\ BasicFairness

FairSpec == Spec /\ Fairness

-----------------------------------------------------------------------------
(* Properties *)

Exists(m) == phase[m] \notin {"absent", "gone"}

\* quorumAfterRemoval and the serialization around it: a removal the hook asks
\* for, gracefully or through a peer, never takes the majority from an etcd that
\* nothing else changed since the member list was read; unless elimination hits
\* the member of another machine, whose MachineHostName is not that of its node.
HookKeepsQuorum ==
    [][(LeaveFromVictim \/ ForceLeave) /\ ~disturbed /\ (target \in Misnamed => target = victim)
         => voters' = {} \/ HasMajority(voters', up')]_vars

\* servicePreTerminateHooks: two existing Machines are never both on their way out
\* of etcd, that is marked as leaving, across crashes, failed calls, fail-open
\* releases and outdated caches.
OneChangeAtATime == \A m, n \in leaving : Exists(m) /\ Exists(n) => m = n

\* README "etcd membership is resolved before any infrastructure provider powers
\* off or reprovisions the node": a hooked member that was deleted is out of etcd
\* when its infrastructure goes, unless the hook was released by the user, by a
\* teardown, for the last machine, or reported as orphaned; or its MachineHostName
\* is not that of its node, and the handler took it for no member.
Excused(m) == outcome[m] \in GivenUp \/ (m \in Misnamed /\ outcome[m] = "notMember")
ResolvedBeforeTeardown ==
    \A m \in interceptable :
        phase[m] \in {"terminating", "gone"} /\ m \in members => Excused(m)

\* auditEtcd never removes the member of a Machine that still exists, although it
\* works from a cache, and from names that new Machines do not have yet.
AuditSparesMachines ==
    [][\A m \in members : pc = "audit" /\ pc' = "audit" /\ m \notin members' => ~Exists(m)]_vars

\* holdForQuorum "never fails open": the deadline a Machine is given up on never
\* includes an attempt that ended in a reported quorum hold.
HoldNeverFailsOpen ==
    \A m \in Machines : pc = "release" /\ victim = m /\ why = "orphaned" => ~held[m]

\* A deletion is never parked at the hook forever, except by a quorum hold.
DeletionNeverParked ==
    \A m \in Machines : phase[m] = "atHook" ~> (phase[m] = "gone" \/ pc = "hold")

\* Once the control plane is stable again (every Machine that exists has a node,
\* runs and is not deleted), the audit collects the members fail-open left behind.
Stable ==
    /\ teardown # "controlplane" /\ \E m \in Machines : Exists(m)
    /\ \A m \in Machines : Exists(m) => phase[m] = "running" /\ m \in nodeRef \cap up
    /\ HasMajority(voters, up)
OrphansCollected == <>[]Stable => <>[](\A m \in members : Exists(m))

\* reconcileDelete: a teardown of the control plane ends, whatever the state of etcd
\* and whoever deleted a Machine before: the finalizer is removed, with every Machine
\* gone by then, except one so new that the cache has not seen it.
TeardownCompletes ==
    teardown = "controlplane" /\ finalizer
        ~> ~finalizer /\ \A m \in Machines : Exists(m) => cache.phase[m] = "absent"

-----------------------------------------------------------------------------
(* Refinement of EtcdMembership *)

requested == {m \in Machines : phase[m] \notin {"absent", "running"}}
torn == {m \in Machines : phase[m] \in {"terminating", "gone"}}
waived == (requested \ interceptable) \cup {m \in Machines : Excused(m)}

Membership ==
    INSTANCE EtcdMembership WITH Machines <- Machines, Misnamed <- Misnamed,
                                 members <- members, requested <- requested,
                                 waived <- waived, torn <- torn

\* The hook, the audit and the teardown together keep the promise README makes of
\* etcd membership: whatever they do to the member list, by the victim, by a peer
\* or by the audit, is a step of EtcdMembership, so no member of a Machine that
\* stays is ever removed, unless its MachineHostName is not that of its node, and
\* no Machine is torn down as a member unless waived.
ImplementsMembership == Membership!Spec
=============================================================================
