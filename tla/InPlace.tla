------------------------------- MODULE InPlace -------------------------------
(***************************************************************************)
(* Changes of the control plane's spec, applied in place or by a rolling   *)
(* replacement (controllers/inplace.go, inplace_trigger.go, internal/hooks *)
(* and their place in reconcileMachines): which outdated Machine is        *)
(* offered to the runtime extension, what its answer decides, the five     *)
(* writes that commit a Machine to an in-place update, and the remediation *)
(* and scaling that the same reconcile may do instead.                     *)
(*                                                                         *)
(* The objects of a Machine (Machine, TalosConfig, InfraMachine) and of    *)
(* the control plane's spec are told apart by a generation per part.  The  *)
(* core Machine controller, which calls the UpdateMachine hook, and the    *)
(* nodes are external.  Reconciles see current objects: the lag of the     *)
(* cache, the record of a remediation and failure domains are in           *)
(* ControlPlane.  Machines are numbered in the order of creation; a node   *)
(* joins etcd and registers in one step, and leaves it with its Machine.   *)
(***************************************************************************)
EXTENDS EtcdQuorum

CONSTANTS
    MaxMachines,   \* bound: Machines ever created
    Replicas,      \* spec.replicas, and the number of Machines at the start
    MaxSurge,      \* spec.rolloutStrategy.rollingUpdate.maxSurge
    Enabled,       \* the InPlaceUpdates feature gate is on
    Answers,       \* what extensions may absorb: sets of parts, {} for none registered
    Changes,       \* the sets of parts an edit of the TalosControlPlane's spec changes
    MaxEdits,      \* bound: edits
    MaxBreaks,     \* bound: nodes whose etcd and components stop
    Deletable,     \* Machines that users may delete
    MaxEvents,     \* bound: verdicts of the MachineHealthCheck and deletions by users
    MaxFaults      \* bound: crashes and failed calls

Machines == 1..MaxMachines
Parts == {"machine", "config", "infra"}

ASSUME InPlaceConstants ==
    /\ MaxMachines \in Nat /\ Replicas \in Machines /\ MaxSurge \in {0, 1}
    /\ Enabled \in BOOLEAN /\ Answers \subseteq SUBSET Parts /\ Changes \subseteq SUBSET Parts
    /\ Deletable \subseteq Machines
    /\ {MaxEdits, MaxBreaks, MaxEvents, MaxFaults} \subseteq Nat

VARIABLES
    \* the TalosControlPlane
    want,      \* the generation of each part its spec asks for
    \* Machines and their objects
    phase,     \* "absent", "running", "deleting" or "gone"
    nodeRef,   \* Machines with a node, which runs an etcd member
    flagged,   \* Machines the MachineHealthCheck wants remediated
    objects,   \* the generation of each part that a Machine's objects hold
    mark,      \* of these objects, the ones with the UpdateInProgress annotation
    hook,      \* Machines with the UpdateMachine hook pending
    \* nodes
    runs,      \* the generation of each part a node runs
    promised,  \* the parts an extension said it would update on a node
    down,      \* nodes that an update restarts
    broken,    \* nodes whose etcd and components do not run
    \* the running reconcile
    view,      \* what it read when it started
    pc,
    target,    \* the Machine offered to the extension
    rollout,   \* the Machines that have to be replaced
    \* bounds
    edits, breaks, events, faults,
    \* history, read by the properties only
    stable     \* nothing happened to nodes or Machines since the last health check

machines == <<phase, nodeRef, flagged>>
update == <<objects, mark, hook>>
nodes == <<runs, promised, down, broken>>
local == <<view, target, rollout>>
bounds == <<edits, breaks, events, faults>>
vars == <<want, machines, update, nodes, local, pc, bounds, stable>>

None == 0
Phases == {"absent", "running", "deleting", "gone"}
Spec0 == [p \in Parts |-> 0]
Generations == [Parts -> 0..MaxEdits]

Exists(m) == phase[m] \in {"running", "deleting"}
Existing == {m \in Machines : Exists(m)}
voters == nodeRef \cap Existing
up == voters \ (broken \cup down)

\* isUpdatingInPlace.
UpdatingInPlace == {m \in Machines : "machine" \in mark[m] \/ m \in hook}

Current ==
    [want |-> want, phase |-> phase, nodeRef |-> nodeRef, flagged |-> flagged,
     updating |-> UpdatingInPlace, objects |-> objects,
     etcd |-> [healthy |-> {m \in voters : phase[m] = "running"} \cap up, voters |-> voters]]
NoView == [want |-> Spec0]

TypeOK ==
    /\ want \in Generations
    /\ phase \in [Machines -> Phases] /\ nodeRef \subseteq Machines /\ flagged \subseteq Machines
    /\ objects \in [Machines -> Generations] /\ mark \in [Machines -> SUBSET Parts]
    /\ hook \subseteq Machines
    /\ runs \in [Machines -> Generations] /\ promised \in [Machines -> SUBSET Parts]
    /\ down \subseteq hook /\ broken \subseteq Machines
    /\ pc \in {"idle", "remediate", "decide", "offer", "annotate", "infra", "config", "machine",
               "pending", "scale"}
    /\ (view = NoView) <=> (pc = "idle")
    /\ target \in Machines \cup {None} /\ rollout \subseteq Machines
    /\ \A b \in {edits, breaks, events, faults} : b \in Nat
    /\ stable \in BOOLEAN

Init ==
    /\ want = Spec0
    /\ phase = [m \in Machines |-> IF m <= Replicas THEN "running" ELSE "absent"]
    /\ nodeRef = 1..Replicas /\ flagged = {}
    /\ objects = [m \in Machines |-> Spec0] /\ runs = [m \in Machines |-> Spec0]
    /\ mark = [m \in Machines |-> {}] /\ hook = {} /\ promised = [m \in Machines |-> {}]
    /\ down = {} /\ broken = {}
    /\ view = NoView /\ pc = "idle" /\ target = None /\ rollout = {}
    /\ edits = 0 /\ breaks = 0 /\ events = 0 /\ faults = 0
    /\ stable = TRUE

Fault == faults < MaxFaults /\ faults' = faults + 1
NoFault == faults' = faults
SameButFaults == UNCHANGED <<edits, breaks, events>>

\* Something happens that a health check of this reconcile did not see.
Disturb == stable' = FALSE

-----------------------------------------------------------------------------
(* External: users, nodes, the MachineHealthCheck, the core Machine controller *)

\* The user changes some parts of the spec: the version, the Talos configuration
\* or the infrastructure template.
Edit ==
    /\ edits < MaxEdits /\ edits' = edits + 1
    /\ \E parts \in Changes :
         want' = [p \in Parts |-> IF p \in parts THEN edits + 1 ELSE want[p]]
    /\ UNCHANGED <<machines, update, nodes, local, pc, breaks, events, faults, stable>>

Break(m) ==
    /\ m \in up /\ breaks < MaxBreaks
    /\ broken' = broken \cup {m} /\ breaks' = breaks + 1 /\ Disturb
    /\ UNCHANGED <<want, machines, update, runs, promised, down, local, pc, edits, events, faults>>

\* A new node joins etcd, which takes a majority, and registers.
Join(m) ==
    /\ phase[m] = "running" /\ m \notin nodeRef /\ HasMajority(voters, up)
    /\ nodeRef' = nodeRef \cup {m} /\ Disturb
    /\ UNCHANGED <<want, phase, flagged, update, nodes, local, pc, bounds>>

FlagUnhealthy(m) ==
    /\ phase[m] = "running" /\ m \notin flagged /\ events < MaxEvents
    /\ flagged' = flagged \cup {m} /\ events' = events + 1
    /\ UNCHANGED <<want, phase, nodeRef, update, nodes, local, pc, edits, breaks, faults, stable>>

RequestDeletion(m) == phase' = [phase EXCEPT ![m] = IF @ = "running" THEN "deleting" ELSE @]

Delete(m) ==
    /\ phase[m] = "running" /\ m \in Deletable /\ events < MaxEvents
    /\ RequestDeletion(m) /\ events' = events + 1 /\ Disturb
    /\ UNCHANGED <<want, nodeRef, flagged, update, nodes, local, pc, edits, breaks, faults>>

\* The Machine goes away with its etcd member, which takes a majority that stays.
Gone(m) ==
    /\ phase[m] = "deleting"
    /\ m \in voters /\ voters # {m} => HasMajority(voters, up) /\ HasMajority(voters \ {m}, up)
    /\ phase' = [phase EXCEPT ![m] = "gone"]
    /\ nodeRef' = nodeRef \ {m} /\ flagged' = flagged \ {m}
    /\ mark' = [mark EXCEPT ![m] = {}] /\ hook' = hook \ {m}
    /\ promised' = [promised EXCEPT ![m] = {}]
    /\ objects' = [objects EXCEPT ![m] = Spec0] /\ runs' = [runs EXCEPT ![m] = Spec0]
    /\ down' = down \ {m} /\ broken' = broken \ {m} /\ Disturb
    /\ UNCHANGED <<want, local, pc, bounds>>

\* The core Machine controller calls the UpdateMachine hook once it is pending and
\* all three objects carry the annotation; it does not for a deleting Machine.
MayUpdate(m) == phase[m] = "running" /\ m \in hook /\ mark[m] = Parts

\* The update restarts the node, as a Talos upgrade does.
Restart(m) ==
    /\ MayUpdate(m) /\ m \notin down
    /\ down' = down \cup {m} /\ Disturb
    /\ UNCHANGED <<want, machines, update, runs, promised, broken, local, pc, bounds>>

\* The deletion of the Machine stops the update: the node comes back.
CancelUpdate(m) ==
    /\ phase[m] = "deleting" /\ m \in down
    /\ down' = down \ {m} /\ Disturb
    /\ UNCHANGED <<want, machines, update, runs, promised, broken, local, pc, bounds>>

\* The update is done: the node runs what the extension promised of its objects,
\* and the annotations and the hook are removed.
FinishUpdate(m) ==
    /\ MayUpdate(m)
    /\ runs' = [runs EXCEPT ![m] = [p \in Parts |-> IF p \in promised[m] THEN objects[m][p] ELSE @[p]]]
    /\ mark' = [mark EXCEPT ![m] = {}] /\ hook' = hook \ {m} /\ down' = down \ {m}
    /\ promised' = [promised EXCEPT ![m] = {}] /\ Disturb
    /\ UNCHANGED <<want, machines, objects, broken, local, pc, bounds>>

-----------------------------------------------------------------------------
(* What a reconcile reads off its list of Machines *)

Listed == {m \in Machines : view.phase[m] \in {"running", "deleting"}}
Kept == {m \in Machines : view.phase[m] = "running"}
Provisioned == view.nodeRef \cap Listed
OldestOf(S) == CHOOSE m \in S : \A n \in S : m <= n

\* The three comparisons of MatchesSpec: version, infrastructure template, TalosConfig.
MatchesTemplateClonedFrom(m) == view.objects[m]["infra"] = view.want["infra"]
MatchesControlPlaneConfig(m) == view.objects[m]["config"] = view.want["config"]
MatchesSpec(m) ==
    /\ view.objects[m]["machine"] = view.want["machine"]
    /\ MatchesTemplateClonedFrom(m) /\ MatchesControlPlaneConfig(m)

MachinesNeedingRollout == {m \in Kept : ~MatchesSpec(m)}

\* nodesHealthcheck of the machines in S that are healthCheckable.
NodesHealthcheck(S) == S \cap Kept \subseteq up

\* etcdHealthcheck: asked now, of the machines that are not being deleted.
EtcdHealthcheck ==
    /\ Kept # {} /\ Kept \subseteq up
    /\ VerifyMembership(voters, Listed, Kept, Provisioned, Provisioned)

\* EtcdClusterHealthy, as the check at the start of the reconcile found it.
EtcdClusterHealthy ==
    /\ Kept # {} /\ Kept = view.etcd.healthy
    /\ VerifyMembership(view.etcd.voters, Listed, Kept, Provisioned, Provisioned)

-----------------------------------------------------------------------------
(* The start of a reconcile, and remediation *)

Begin ==
    /\ pc = "idle"
    /\ view' = Current /\ pc' = "remediate" /\ stable' = TRUE
    /\ UNCHANGED <<want, machines, update, nodes, target, rollout, bounds>>

\* Mistake: what was read is kept for the next reconcile.
EndKeepsView == pc' = "idle" /\ target' = None /\ rollout' = {} /\ UNCHANGED view

\* The end of a reconcile.
End == pc' = "idle" /\ view' = NoView /\ target' = None /\ rollout' = {}

\* Mistake: the in-place update of another machine is not waited for.
MayRemediateDuringUpdate(m) ==
    /\ Cardinality(Listed) > 1
    /\ \A n \in Listed \ {m} : n \in Kept /\ n \in Provisioned
    /\ CanSafelyRemoveEtcdMember(view.etcd.voters, {}, m, Listed, Provisioned, view.etcd.healthy)

\* reconcileUnhealthyMachines, without the retry limits: no other machine is in
\* an in-place update, deleted or provisioning, and etcd keeps its majority.
MayRemediate(m) ==
    /\ view.updating \cap Listed \subseteq {m}
    /\ Cardinality(Listed) > 1
    /\ \A n \in Listed \ {m} : n \in Kept /\ (n \in view.flagged \/ n \in Provisioned)
    /\ CanSafelyRemoveEtcdMember(view.etcd.voters, {}, m, Listed, Provisioned, view.etcd.healthy)

\* A flagged Machine is deleted, which ends the reconcile.
Remediate(m) ==
    /\ pc = "remediate" /\ m \in Kept \cap view.flagged /\ MayRemediate(m)
    /\ RequestDeletion(m) /\ Disturb /\ End
    /\ UNCHANGED <<want, nodeRef, flagged, update, nodes, bounds>>

\* There is nothing to remediate, or another check defers it.
NoRemediation ==
    /\ pc = "remediate"
    /\ pc' = "decide"
    /\ UNCHANGED <<want, machines, update, nodes, local, bounds, stable>>

-----------------------------------------------------------------------------
(* reconcileInPlaceUpdates *)

\* Mistake: Machines of a superseded template are offered too.
CandidatesOfAnyTemplate == MachinesNeedingRollout \cap view.nodeRef

\* nextInPlaceCandidate: Machines of the current infrastructure template with a node.
Candidates ==
    {m \in MachinesNeedingRollout \cap view.nodeRef : MatchesTemplateClonedFrom(m)}

\* Mistake: Machines that are being updated are offered, or replaced, again.
ClaimedNone == {}

\* Outdated Machines that are being updated: the others wait.
Claimed == MachinesNeedingRollout \cap view.updating

\* Mistake: an update starts whatever the health of the control plane.
HealthyForUpdateUnchecked(candidate) == Kept # {}

\* etcd is healthy, and the components of every other machine.
HealthyForUpdate(candidate) == EtcdHealthcheck /\ NodesHealthcheck(Listed \ {candidate})

\* The decision up to the call of the extension: nothing to replace, everything
\* outdated, or one Machine to offer.
Decide ==
    /\ pc = "decide"
    /\ LET outdated == MachinesNeedingRollout
       IN  \/ /\ ~Enabled \/ (Claimed = {} /\ Candidates = {})
              /\ rollout' = outdated /\ pc' = "scale" /\ UNCHANGED <<target, stable>>
           \/ /\ Enabled /\ Claimed # {}
              /\ rollout' = {} /\ pc' = "scale" /\ UNCHANGED <<target, stable>>
           \/ /\ Enabled /\ Claimed = {} /\ Candidates # {}
              /\ ~HealthyForUpdate(OldestOf(Candidates))
              /\ rollout' = {} /\ pc' = "scale" /\ UNCHANGED <<target, stable>>
           \/ /\ Enabled /\ Claimed = {} /\ Candidates # {}
              /\ HealthyForUpdate(OldestOf(Candidates))
              /\ target' = OldestOf(Candidates) /\ pc' = "offer" /\ stable' = TRUE
              /\ UNCHANGED rollout
    /\ UNCHANGED <<want, machines, update, nodes, view, bounds>>

\* buildInPlacePlan: the InfraMachine is carried through unchanged.
Plan(m) == [view.want EXCEPT !["infra"] = view.objects[m]["infra"]]

\* The patch that the extension answers for a part leaves no difference.
PatchReaches(m, part, covered) == part \in covered \/ view.objects[m][part] = Plan(m)[part]

CanUpdateMachine(m, covered) == \A part \in Parts : PatchReaches(m, part, covered)

\* offerInPlace up to the trigger: the extension takes the whole change, or the
\* Machine is replaced.
Offer ==
    /\ pc = "offer"
    /\ \E covered \in Answers :
         \/ /\ CanUpdateMachine(target, covered)
            /\ promised' = [promised EXCEPT ![target] = IF Exists(target) THEN covered ELSE {}]
            /\ pc' = "annotate" /\ UNCHANGED <<target, rollout>>
         \/ /\ ~CanUpdateMachine(target, covered)
            /\ rollout' = {target} /\ target' = None
            /\ pc' = "scale" /\ UNCHANGED promised
    /\ UNCHANGED <<want, machines, update, runs, down, broken, view, bounds, stable>>

-----------------------------------------------------------------------------
(* triggerInPlaceUpdate: five writes, each of which may be the last *)

\* The part of the target's objects is written, as the plan has it, with the
\* annotation.
Write(part) ==
    /\ objects' = [objects EXCEPT ![target][part] = Plan(target)[part]]
    /\ mark' = [mark EXCEPT ![target] = @ \cup {part}]

\* Mistake: the TalosConfig is written before the Machine is committed.
AnnotateLater ==
    /\ pc = "annotate" /\ Exists(target)
    /\ UNCHANGED mark
    /\ pc' = "infra"
    /\ UNCHANGED <<want, machines, objects, hook, nodes, local, bounds, stable>>

\* 1. The annotation on the Machine.
Annotate ==
    /\ pc = "annotate" /\ Exists(target)
    /\ mark' = [mark EXCEPT ![target] = @ \cup {"machine"}]
    /\ pc' = "infra"
    /\ UNCHANGED <<want, machines, objects, hook, nodes, local, bounds, stable>>

\* 2. The InfraMachine, which only gets the annotation.
WriteInfraMachine ==
    /\ pc = "infra" /\ Exists(target)
    /\ mark' = [mark EXCEPT ![target] = @ \cup {"infra"}]
    /\ pc' = "config"
    /\ UNCHANGED <<want, machines, objects, hook, nodes, local, bounds, stable>>

\* 3. The TalosConfig.
WriteTalosConfig ==
    /\ pc = "config" /\ Exists(target)
    /\ Write("config")
    /\ pc' = "machine"
    /\ UNCHANGED <<want, machines, hook, nodes, local, bounds, stable>>

\* 4. The Machine; its annotation is left as it is.
WriteMachine ==
    /\ pc = "machine" /\ Exists(target)
    /\ objects' = [objects EXCEPT ![target]["machine"] = Plan(target)["machine"]]
    /\ pc' = "pending"
    /\ UNCHANGED <<want, machines, mark, hook, nodes, local, bounds, stable>>

\* 5. The hook, which releases the core Machine controller.  The Machine is now
\* claimed, and the reconcile goes on with the scaling.
MarkAsPending ==
    /\ pc = "pending" /\ Exists(target)
    /\ hook' = hook \cup {target}
    /\ pc' = "scale" /\ target' = None
    /\ UNCHANGED <<want, machines, objects, mark, nodes, view, rollout, bounds, stable>>

\* Several extensions are registered, or the call of the one there is fails: no
\* answer in time, a status other than 200, a reply or a patch that is not valid.
ExtensionFails ==
    /\ pc = "offer" /\ Fault
    /\ End
    /\ SameButFaults
    /\ UNCHANGED <<want, machines, update, nodes, stable>>

\* A write fails, and reconcileMachines returns the error; a Machine that is gone
\* cannot be written.
WriteFails ==
    /\ pc \in {"annotate", "infra", "config", "machine", "pending"}
    /\ IF Exists(target) THEN Fault ELSE NoFault
    /\ End
    /\ SameButFaults
    /\ UNCHANGED <<want, machines, update, nodes, stable>>

-----------------------------------------------------------------------------
(* The rest of reconcileMachines: rollout and scaling *)

\* preflightChecks, with the Machine that is about to be deleted excluded.
PreflightChecks(excluded) ==
    /\ Kept = Listed
    /\ Listed \ excluded \subseteq Provisioned
    /\ NodesHealthcheck(Listed \ excluded)
    /\ EtcdClusterHealthy

WantsMore == Cardinality(Listed) < Replicas + (IF rollout # {} THEN MaxSurge ELSE 0)
WantsLess == IF rollout # {} THEN ~WantsMore ELSE Cardinality(Listed) > Replicas

MayScaleUp == WantsMore /\ (Listed = {} \/ PreflightChecks({}))

\* selectMachineForScaleDown, without delete annotations and failure domains.
ScaleDownCandidates ==
    CASE rollout \cap view.flagged # {} -> rollout \cap view.flagged
      [] rollout \cap view.flagged = {} /\ Kept \cap view.flagged # {} -> Kept \cap view.flagged
      [] Kept \cap view.flagged = {} /\ rollout # {} -> rollout
      [] OTHER -> Listed

\* Mistake: a Machine to replace is deleted without preflight checks.
VictimsUnchecked ==
    IF WantsLess /\ Cardinality(Listed) > 1 THEN {OldestOf(ScaleDownCandidates)} ELSE {}

\* The Machine scaleDownControlPlane deletes now; never the last one.
Victims ==
    LET m == OldestOf(ScaleDownCandidates)
    IN  IF /\ WantsLess /\ Cardinality(Listed) > 1
           /\ PreflightChecks({m}) /\ NodesHealthcheck(Listed \ view.flagged)
        THEN {m} ELSE {}

\* A Machine is created with the spec the reconcile read.
ScaleUp ==
    /\ pc = "scale" /\ MayScaleUp
    /\ \E m \in Machines :
         /\ phase[m] = "absent" /\ \A n \in 1..(m - 1) : phase[n] # "absent"
         /\ phase' = [phase EXCEPT ![m] = "running"]
         /\ objects' = [objects EXCEPT ![m] = view.want] /\ runs' = [runs EXCEPT ![m] = view.want]
    /\ End /\ Disturb
    /\ UNCHANGED <<want, nodeRef, flagged, mark, hook, promised, down, broken, bounds>>

ScaleDown ==
    /\ pc = "scale"
    /\ \E m \in Victims : RequestDeletion(m)
    /\ End /\ Disturb
    /\ UNCHANGED <<want, nodeRef, flagged, update, nodes, bounds>>

\* Nothing to do, or held by the preflight checks, or a call failed.
NoScaling ==
    /\ pc = "scale"
    /\ IF Victims # {} \/ (MayScaleUp /\ \E m \in Machines : phase[m] = "absent")
       THEN Fault ELSE NoFault
    /\ End
    /\ SameButFaults
    /\ UNCHANGED <<want, machines, update, nodes, stable>>

\* The manager dies.
Crash ==
    /\ pc # "idle" /\ Fault
    /\ End
    /\ SameButFaults
    /\ UNCHANGED <<want, machines, update, nodes, stable>>

-----------------------------------------------------------------------------
Reconciler ==
    \/ Begin \/ NoRemediation \/ Decide \/ Offer \/ Annotate \/ WriteInfraMachine
    \/ WriteTalosConfig \/ WriteMachine \/ MarkAsPending \/ ExtensionFails \/ WriteFails
    \/ ScaleUp \/ ScaleDown \/ NoScaling
    \/ \E m \in Machines : Remediate(m)

Environment ==
    \/ Edit
    \/ \E m \in Machines : \/ Break(m) \/ Join(m) \/ FlagUnhealthy(m) \/ Delete(m) \/ Gone(m)
                          \/ Restart(m) \/ CancelUpdate(m) \/ FinishUpdate(m)

Next == Reconciler \/ Crash \/ Environment

Spec == Init /\ [][Next]_vars

\* The workqueue retries, nodes that can join do, Machines whose hook is released
\* go away, and an update the core Machine controller may run ends, as does one
\* that a deletion cancels.
Fairness ==
    /\ WF_vars(Reconciler)
    /\ \A m \in Machines : /\ WF_vars(Join(m)) /\ WF_vars(Gone(m))
                           /\ WF_vars(FinishUpdate(m)) /\ WF_vars(CancelUpdate(m))

FairSpec == Spec /\ Fairness

-----------------------------------------------------------------------------
(* Properties *)

\* triggerInPlaceUpdate and canUpdateMachine: a running Machine that is not marked
\* as being updated runs exactly what its objects say, so "up to date" is never a
\* lie that no later reconcile notices, whatever crashed or failed part-way.
UnmarkedRunsItsSpec ==
    \A m \in Machines :
        phase[m] = "running" /\ m \notin UpdatingInPlace => runs[m] = objects[m]

\* inplace.go:108-110: an update starts only while etcd can do without the node.
\* When nothing happened since the health check, no Machine is being deleted and
\* no other update is in progress, the node's restart leaves etcd its majority.
UpdateSparesQuorum ==
    [][\A m \in Machines :
         /\ m \notin UpdatingInPlace /\ m \in UpdatingInPlace'
         /\ stable /\ UpdatingInPlace = {} /\ \A n \in Machines : phase[n] # "deleting"
         /\ Cardinality(voters) > 2
         => HasMajority(voters, up \ {m})]_vars

\* preflightChecks and canSafelyRemoveEtcdMember: every deletion of the controller,
\* remediation, scale-down or rollout, leaves etcd with a majority, when nothing
\* happened to nodes and Machines since the last health check.
DeletionsKeepQuorum ==
    [][\A m \in Machines :
         pc \in {"remediate", "scale"} /\ pc' = "idle" /\ stable
         /\ phase[m] = "running" /\ phase'[m] = "deleting"
           => HasMajority(voters \ {m}, up)]_vars

\* remediation.go:258-262: a remediation counts on no node that an in-place update
\* may restart: etcd keeps its majority without the Machine and all of them.
RemediationSparesUpdates ==
    [][\A m \in Machines :
         /\ pc = "remediate" /\ phase[m] = "running" /\ phase'[m] = "deleting" /\ pc' = "idle"
         /\ stable
         => HasMajority(voters \ {m}, up \ UpdatingInPlace)]_vars

\* inplace.go:47-48: "The rollout path must leave them alone": no rollout replaces
\* a Machine that is committed to an in-place update.
CommittedNotReplaced ==
    [][\A m \in rollout :
         pc = "scale" /\ phase[m] = "running" /\ phase'[m] = "deleting" /\ pc' = "idle"
           => m \notin UpdatingInPlace]_vars

\* An update whose trigger was interrupted: the hook is not pending.
HalfTriggered(m) == phase[m] = "running" /\ m \in UpdatingInPlace \ hook

AllCurrent ==
    \A m \in Existing : phase[m] = "running" /\ objects[m] = want /\ runs[m] = want

\* With finitely many edits, faults, deletions and verdicts and no node broken, a
\* change of the spec reaches every node, in place or by replacement.  Only an
\* interrupted trigger may stand in its way.
ChangeReachesNodes == <>[](AllCurrent \/ \E m \in Machines : HalfTriggered(m))

\* inplace.go:93-94: "One control plane machine at a time. An in-place update can
\* reboot the node (a Talos upgrade always does), so concurrent updates would risk
\* etcd quorum": updates alone never cost a control plane of three its majority.
UpdatesKeepQuorum == broken = {} /\ Cardinality(voters) > 2 => HasMajority(voters, up)
=============================================================================
