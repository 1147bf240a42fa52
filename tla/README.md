# Verification of the Talos control plane provider

TLA+ models of the controller in `src/controllers`, model-checked with TLC on small
instances, with theorems checked by TLAPS. All paths below are relative to `src/`.

The provider reconciles one `TalosControlPlane`: it creates control plane Machines, founds
etcd on the first one, keeps the wanted number of them up to date, replaces unhealthy ones,
and takes a machine's etcd member out of the cluster before the machine is powered off. What
can go wrong is almost always the same thing, a decision about etcd's majority or about *who
runs etcd* that is taken from one set of facts and carried out when another holds. The models
concentrate on that.

## 1. Inventory

| Component | State it keeps | Operations | Hard part | Correct when |
| --- | --- | --- | --- | --- |
| etcd health check (`etcd.go`, `health.go`) | `EtcdClusterHealthy`; per-machine statuses, in memory, for one reconcile | `etcdHealthcheck`, `verify`, `conditionReason`, `recordedEtcdFrom` | inspections fail one by one; members without a name; learners; statuses used later in the reconcile | the condition and its reason say what they mean; decisions from the statuses keep quorum |
| pre-terminate hook (`preterminate.go`) | annotations on Machines: hook, `etcd-cleanup-observed-at`, `etcd-leaving` | `servicePreTerminateHooks`, `reconcilePreTerminateHookForMachine`, hold, fail open, release | calls to several nodes with crashes between; cached list; deadline against hold | one change at a time; majority kept; member out before the node goes; never parked, except on hold |
| etcd audit (`auditEtcd`) | none | removes members no Machine owns | works from a cached list, no quorum check | never hits an existing machine; collects orphans |
| teardown (`reconcileDelete`) | the finalizer | releases hooks, deletes Machines | partial failure; list that lags | ends; the finalizer outlives every Machine the cache has seen |
| bootstrap (`bootstrap.go`) | `status.bootstrapped`, `.bootstrappedMachine`, `controlPlaneInitialized` | `reconcileBootstrap`, `bootstrapControlPlane`, `releaseBootstrap` | the request is sent before anything is persisted | one etcd cluster; never stuck; never again once initialized |
| remediation (`remediation.go`) | annotations `remediation-in-progress` (TalosControlPlane) and `remediation-for` (Machine) | pick, retry limits, quorum check, record, delete, sweep; before initialization: find the holder of the etcd data | crash between record, delete, replacement and patch; list that lags | one at a time, bounded retries, quorum kept, the record never sticks; before initialization, the last copy of etcd's data is spared |
| preflight checks (`preflight.go`) | none | three checks before a create or a delete | facts of different age | no scale operation on an unhealthy control plane |
| scale and rollout (`scale.go`, `upgrade.go`, `reconcileMachines`, `bootControlPlane`) | Machines | create one, delete one | interplay with remediation and with users | one deletion at a time; converges |
| in-place updates (`inplace*.go`, `internal/hooks`, `internal/runtimeclient`) | annotations on Machines and their objects | offer to an extension, five writes that commit a machine, claim, fall back to rollout | a crash between the writes; updates next to rollout, remediation and each other | no machine passes for updated that is not; quorum kept; changes reach the nodes |
| failure domains, spec matching (`controlplane.go`) | `spec.failureDomain` | pick a domain to create in or delete from | sequences of a rollout, a domain that is gone | evenly spread in the end; outdated machines are found |
| webhooks, conversion, kubeconfig, manager, test harness | | | no shared state | not modelled, see section 8 |

The components share the Machines (through a cache), the TalosControlPlane (read from the API
server, patched at the end of a reconcile) and etcd itself. One worker handles one
TalosControlPlane at a time, so components of one reconcile do not run in parallel; they
interleave with the core Machine controller, the MachineHealthCheck, nodes, users and the
crash of the manager. A reconcile runs, in this order: pre-terminate hooks, audit, etcd health
check, node health, conditions, kubeconfig, remediation, bootstrap, scaling, status, patch.

`PROJECT.json` lists the hazards this leads to, each at its line, with the property that
would catch it.

## 2. Modules

| Module | Models |
| --- | --- |
| `EtcdQuorum` | the pure decisions on a member list: matching, identification by elimination, the quorum projections of hook, remediation and scale-up, the verdicts of the health check |
| `EtcdHealth` | one health check and the decisions taken from it in the same reconcile, on *every* control plane of the given machines |
| `PreTerminate` | deletion of Machines: stamping, servicing, deadline, probe, hold, mark, leave, force, release; the audit; the teardown |
| `EtcdMembership` | what hook, audit and teardown promise together about who is in etcd; `PreTerminate` refines it |
| `Bootstrap` | from no machine to an initialized control plane, composed with the remediation before initialization |
| `ControlPlane` | remediation, preflight checks, scale-up, scale-down and rollout of an initialized control plane |
| `Remediations` | what remediation promises about replacements; `ControlPlane` refines it |
| `InPlace` | changes of the spec: matching, in-place updates, and the rollout and remediation that the same reconcile may do instead |
| `EtcdQuorumProofs` | lemmas and theorems about the decisions of `EtcdQuorum`, on any member list |
| `EtcdHealthProofs`, `BootstrapProofs`, `ControlPlaneProofs`, `InPlaceProofs` | theorems about the module of that name |
| `PreTerminateProofs`, `DeletionOrderProofs`, `MembershipProofs` | theorems about `PreTerminate`: quorum, audit and finalizer; order and hold; the refinement of `EtcdMembership` |
| `MC*` | instances for TLC, one per model; the `.cfg` files give the constants |

`EtcdHealth`, `PreTerminate`, `ControlPlane` and `InPlace` all use `EtcdQuorum`, so a quorum rule is
written once and each model shows what it is worth in its own surroundings.

### How state and actions correspond to the code

*Machines* are numbers, in the order of names (`PreTerminate`) or of creation (the others). An
etcd member is represented by the machine whose node runs it, also after the Machine is gone
(an orphan).

*Host names.* A machine is *named* when `nodeNamesForMachine` returns a host name, and *matching*
when one of its names, lower-cased and without its domain, is the host name its node has in etcd.
The two differ: a nodeRef is the name of the node, but an infrastructure provider may report the
name of the infrastructure machine as MachineHostName, "which may not match the node hostname"
(`controllers/etcd.go:305`). `EtcdQuorum` takes both sets, `EtcdHealth` any two, and in
`PreTerminate` `HostNamed` are the machines with a MachineHostName and `Misnamed`, of these, the
ones where it is wrong: named but, until they have a nodeRef, not matching. That a wrong name is
by chance the host name of another node is left out. `ControlPlane` and `InPlace` have no
MachineHostNames: a machine is named, and matching, once it has a nodeRef.

*One action is one call that reads or changes shared state*, because between any two of them
another actor may act or the manager may die. `pc` says which call is next, `Crash` is allowed
before every one of them and forgets what the reconcile held in memory. A call that can fail
has a branch, or an action of its own, for the failure; where the answer can be lost after the
effect (leave, forced removal, deletion, bootstrap request), that is a third outcome. Failures
and crashes draw on one bounded budget, `MaxFaults`. A call that fails because the node is
down, or the object gone, costs nothing.

*The cache.* A reconcile lists Machines from an informer cache but reads the TalosControlPlane
from the API server (`Reconcile`, `taloscontrolplane_controller.go:115`). `PreTerminate` keeps
the cache as a variable that is a past state of the Machines and moves on by `Sync`, also
between the hook and the audit, which lists again; it may miss a Machine that was just created
as well as a deletion. `Bootstrap` and `ControlPlane` keep the list
of the running reconcile in `view`; with `StaleCache` the next reconcile may get the same one
again. `InPlace` always starts from the current state, and so do the others without
`StaleCache`: a reconcile then starts from the current state, and what happens during
it is still unseen.

*Time.* The fail-open deadline is the state of the anchor annotation, `fresh` until `Tick`
makes it `expired`. The retry period and the min healthy period of remediation are the `age` of
a machine; `StartTimeout` is `remediationStartTimeout`, which the cache never exceeds.

*EtcdHealth.* `Init` is any set of existing machines, excluded ones (deleting or leaving), names,
nodeRefs, voters, at most one learner, and running nodes. `HealthCheck` chooses which
inspections and which member list requests answer. The counters of `etcdHealth` are computed as
the code does, with the learner subtracted only when its member is found by name.

*PreTerminate.* `phase` follows the core Machine controller: `running`, `draining`, `atHook`
(the phase gate: waiting for pre-terminate hooks), `terminating`, `gone`; a Machine of `Creatable`
is `absent` until `Create`, the last step of a reconcile, creates it with its hook. Why it is
created is the subject of `ControlPlane`. Deletion timestamps have seconds, so Machines deleted
within one share it and the name decides (`Oldest`). Two assumptions about time are made: a new
node joins etcd only after the cache has seen its Machine, and no Machine of those that share a
timestamp is at its hook before that second is over (otherwise the order of names could pass
over a Machine that is already being serviced). A removal of a member
takes a majority of the voters, as in etcd; a node that does not run answers nothing. `history`
variables (how the hook was released, whether etcd was disturbed from outside since the member
list was read) are only read by properties.

*EtcdMembership* has four sets: the members, the Machines whose deletion was requested, those
whose removal was waived, and those torn down. Under the mapping at the end of `PreTerminate` a
Machine is requested from its deletion timestamp on, torn down from the moment the core Machine
controller goes on to the infrastructure, and waived if it was not a hooked member when its
deletion was requested, or if its hook was released without its member being out: past the
deadline (`orphaned`), by a user (`escaped`), with the whole Cluster or as the last machine
(`skipped`), or by a teardown of the control plane; or if it is `Misnamed` and the handler took it
for no member. A removal that was given up may still be done
(`Resolve`): a list that does not show the deletion yet has the hook of such a Machine stamped
again (`controllers/preterminate.go:347`), and then it is serviced. `ImplementsMembership` says
that no interleaving of hook, audit, teardown, lost answers and stale lists removes a member of a
Machine that stays, or tears down a member without one of these reasons. It promises nothing of
the member of a `Misnamed` Machine, which may be removed for another one's (`Leave`).

*Bootstrap.* `data[m]` is the etcd cluster, named after its founder, that a node holds data of;
a node that joins takes the cluster of any node it finds. `mem` is the reconcile's copy of the
status, which `PatchStatus` persists or `PatchFails` loses. Remediation runs earlier in the same
reconcile: it finds the holder of the data from the record or by asking every machine, and
leaves it alone while it may be the only copy. `meddled` (a user deleted a Machine) and `lagged`
(a list in use was outdated) are history.

*ControlPlane.* `record` and `mem` are the persisted and the in-memory remediation record. A
node joins etcd and registers in one step, and a Machine goes away together with its member,
under the condition the hook enforces: `EtcdHealth` and `PreTerminate` are about what happens in
between. `depth`, `pending` (the remediations in a row that led to a Machine, and to the one that
is due) and `rushed` (a Machine was created on a list that did not show a remediation yet) are
history: properties read them, the controller does not. New Machines are placed in, and removed
from, failure domains as the code asks the Cluster API helpers `PickFewest` and `PickMost` to;
domains that tie are picked freely, and `PickMost`, which may weigh eligible or all Machines
first, is allowed either. A deferral for a pending topology upgrade, and failed calls that leave
no trace, are `NoRemediation` and `NoScaling`.

*Remediations* has the Machines that are `alive` and the remediated ones `leaving`, the remediations
in a row that led to each (`chain`) and to the replacement that is due (`owed`), and `hasty`, once
a Machine was created while one was leaving. Under the mapping at the end of `ControlPlane` a
Machine is alive as long as its deletion is not requested, leaving if remediation requested it
(`by`), and `chain`, `owed`, `hasty` are the history variables `depth`, `pending`, `rushed`. The
record, its timestamps, the timeouts, the list and the order of the calls do not occur: a
remediation needs nothing owed and nobody leaving, a creation settles what is owed, and a
replacement is withdrawn only when nobody is leaving.

*InPlace.* The spec, a Machine's three objects (Machine, TalosConfig, InfraMachine) and what its
node runs are each a generation per part, so matching compares generations and a JSON patch is
the set of parts it covers. `mark` holds the objects that carry the UpdateInProgress
annotation, `hook` the Machines with the UpdateMachine hook pending. The trigger is five
actions, `Annotate`, `WriteInfraMachine`, `WriteTalosConfig`, `WriteMachine` and
`MarkAsPending`; a crash or a failed write may follow each. The core Machine controller
(external) updates a node once the hook is pending and all objects are marked: it may restart
the node, and in the end the node runs what the extension promised.

## 3. Runs

All runs finish within four minutes on two workers.

| Run | Instance | What it shows |
| --- | --- | --- |
| `etcd_health` | every control plane of 4 machines, with symmetry | `EtcdClusterHealthy` without anyone on the way out means that the members are exactly the machines and all run (`HealthyMeansComplete`); the decisions of remediation and scale-up keep quorum; what remediation allows the hook does not hold; the reasons QuorumLost and Unhealthy are right whenever every member has a name and a list was read |
| `hook` | 3 machines, one of them without a hook at first and one that joins late, with a MachineHostName that is not that of its node; lagging cache, 2 deletions, 1 node failure, 1 fault (4.4 million states) | one membership change at a time, the hook keeps the majority, members leave before teardown, but for the misnamed one |
| `teardown` | 2 machines, one of them created, joining as a learner under a name nobody knows yet, one whose hook a user may remove; lagging cache, 1 deletion, Cluster and TalosControlPlane deleted, 1 fault | elimination and audit do not hit the wrong member; the teardown ends, without the help of deadline or audit and with no Machine left that the cache had seen; every step is one of `EtcdMembership` |
| `hook_live` | 3 machines, 2 deletions, 1 failure, 1 fault | no deletion is parked, except by a quorum hold, which never fails open; orphans are collected; every step is one of `EtcdMembership` |
| `bootstrap` | 4 machines for 3 replicas, two of them watched by a MachineHealthCheck, lagging list, 2 deletions or verdicts, 2 faults | one etcd cluster among the machines that stay; the lock names a machine that has etcd; remediation spares the last copy of the data; never bootstrapped once initialized; initialized in the end |
| `remediation` | 3 machines, one of them a replacement already, and a new one; 1 node that may break, 2 verdicts, 1 fault, lagging list, `maxRetry` 1 | no deletion costs the majority; no second remediation before the first is gone or replaced; a machine that always fails is given up after `maxRetry` retries, whatever crashes; every step is one of `Remediations` |
| `converges` | 2 machines, one of them in a lost failure domain, scale to 1 or 3 or rollout, 1 remediation or deletion by a user, 1 fault | the wanted machines, up to date, with no record left; the controller deletes one at a time; and (`EvenlySpread`) spread over the failure domains unless a verdict or a user picked the machine to go |
| `inplace` | 3 machines, a change of version or template, an extension that absorbs all or part of it, 1 broken node, 1 verdict or deletion, 2 faults, `maxSurge` 0 | a machine that is not marked runs what its objects say; neither updates, remediation nor rollout cost the majority; a machine committed to an update is not replaced |
| `inplace_live` | 2 machines, 2 changes, 2 faults | the changes reach every node, in place or by replacement, unless a trigger was interrupted |
| `hook_learner` | 3 members and a learner, 1 failure | expected violation, see section 7 |
| `bootstrap_release` | 3 machines, 2 deletions | expected violation, see section 7 |
| `inplace_overlap` | 3 machines, 1 change | expected violation, see section 7 |

*Why the bounds are enough.* The quorum rules change character between one, two, three and four
voters (even and odd, and the smallest cluster that tolerates a failure), and every interplay
the code knows involves at most the victim, its peer, one more voter and one machine on its way
in or out. Faults are interesting in what they fall between: one crash or one failed call
already separates any two steps, and two allow a retry to fail as well. Machines that have
come and gone are bounded by `MaxMachines`; the runs that replace machines leave room for every
replacement the other bounds allow. A machine without any name is in `teardown` only, with two
machines, and a misnamed one in `hook` only: what elimination does among more of them is the
subject of the theorems `IdentificationSound`, `HookSafeAmongVoters` and `StayingMembersStay`.

Deadlock is checked in all runs but `teardown`, where the system is supposed to stop once the
TalosControlPlane is gone.

Every property of a passing run has a mutant in `PROJECT.json`: a version of one definition
with a plausible mistake (the definitions commented `Mistake:`), under which TLC finds the
property violated.

## 4. Fairness

`FairSpec` assumes: the workqueue reconciles again for as long as the object exists (every
return path requeues or returns an error, which requeues with backoff), informers deliver,
time passes, the core Machine controller finishes a drain (`nodeDrainTimeout`), an update it may
run and one that a deletion cancels, the infrastructure reports addresses and finishes a
deletion, a node that can start etcd, join or register does, and an API server that runs answers
one of endlessly many probes. Strong fairness is used where the step is only enabled now and
then: informer events and the audit between other steps of the reconciler, the probe in each
reconcile, and the start timeout between reconciles. Nothing is assumed of users or of nodes
that fail. Of the MachineHealthCheck, `Bootstrap` assumes that it ends its verdict on a machine
that got its node. Faults are bounded, so no fairness is needed against them.

The `teardown` run uses `TeardownSpec`, with less: neither time nor audits are owed, because a
teardown must not depend on them.

`converges` and `inplace_live` have no broken nodes: one without a MachineHealthCheck verdict
blocks every preflight check, for good reason. A user who deletes one of two machines while the
controller deletes the other loses the etcd cluster, which no later step repairs; `Converges`
excepts this case (`voters = {}`).

## 5. Theorems

For every set of Machines, every value of the other constants, and with no bound on edits,
verdicts, deletions, crashes and failed calls but the one a property names itself. Every
safety and action property of a passing run, and every refinement, has its theorem. A theorem
about decisions holds for any member list and any machines; the two `PromiseSuffices` hold for
whatever implements the abstract specification.

| Theorem | States that `Spec` implies | In words |
| --- | --- | --- |
| `EtcdQuorumProofs` | | |
| `IdentificationSound` | (of `IdentifyEtcdMember`) | a machine with a matching name or with none is never denied its member; elimination errs only on a member of no machine, or of one whose names do not match |
| `VerificationCounts` | (of `VerifyMembership`) | no fewer members than machines that must be members, no more than machines |
| `PreTerminateProofs` | | |
| `TypeCorrect` | `[]TypeOK` | the handler runs only with a Machine to service |
| `FinalizerSafe` | `FinalizerLast` | when the finalizer goes, no Machine exists that the cache has seen |
| `AuditSafe` | `AuditSparesMachines` | the audit removes no member of a Machine that exists |
| `HookSafeAmongVoters` | `KeepsQuorumOfVoters` | a removal by the hook keeps the majority if no learner stays in etcd and elimination hit no other machine's member |
| `HookSafe`, with `LearnerJoin = FALSE` | `HookKeepsQuorum` | the same without the condition on learners |
| `DeletionOrderProofs` | | |
| `OneAtATime` | `[]OneChangeAtATime` | no second Machine is serviced before the first is out or given up |
| `HoldSafe`, with `StaleCache = FALSE` | `[]HoldNeverFailsOpen` | a quorum hold is not released by the deadline |
| `MembershipProofs` | | |
| `TeardownResolved` | `[]ResolvedBeforeTeardown` | a member is out of etcd, or given up, or misnamed and not found, before its node goes |
| `MembershipImplemented` | `ImplementsMembership` | every step is one of `EtcdMembership`, or none |
| `PromiseSuffices` | (of `ImplementsMembership`) `[]ResolvedBeforeTeardown`, `OnlyRequestedLeave` | `EtcdMembership` is enough of a promise |
| `StayingMembersStay` | `OnlyRequestedLeave` | no member is removed whose Machine nobody deleted, except a misnamed one |
| `EtcdHealthProofs` | | |
| `TypeCorrect` | `[]TypeOK` | |
| `HealthyIsComplete` | `[]HealthyMeansComplete` | EtcdClusterHealthy: the members are the Machines, and run |
| `RemediationSafe` | `[]RemediationKeepsQuorum` | the quorum check of remediation |
| `AdditionSafe` | `[]AdditionKeepsQuorum` | the quorum check of scale-up |
| `RemediationIsNotParked` | `[]RemediationPassesHook` | the hook does not hold what remediation deletes |
| `LostIsCertain`, `UnhealthyHasQuorum` | `[]QuorumLostIsCertain`, `[]UnhealthyIsCertain` | the reasons reported are right |
| `BootstrapProofs` | | |
| `TypeCorrect` | `[]TypeOK` | |
| `LockNamesAFounder` | `[]RecordedMachineHoldsEtcd` | the lock names a machine that has etcd |
| `NoBootstrapOnceInitialized` | `InitializedNeverBootstrapped` | |
| `OneClusterIsKept` | `[]KeptInOneCluster` | the machines that stay are in one etcd cluster |
| `RemediationSparesEtcd` | `[]EtcdOutlivesRemediation` | remediation spares the last copy of etcd's data |
| `ControlPlaneProofs` | | |
| `TypeCorrect` | `[]TypeOK` | |
| `RetriesAreBounded` | `[]RetriesBounded` | at most `maxRetry + 1` remediations in a row |
| `RemediationsOneByOne` | `[]OneRemediationAtATime` | no second remediation next to one on its way |
| `DeletionsLeaveQuorum` | `DeletionsKeepQuorum` | no deletion takes the majority |
| `DeletionsOneByOne`, with `StaleCache = FALSE` | `[]OneDeletionAtATime` | one deletion by the controller at a time |
| `SpreadIsEven`, with `StaleCache = FALSE` and `EvenStart` | `[]EvenlySpread` | the Machines end up evenly spread over the failure domains |
| `SurgeIsBounded`, with `StaleCache = FALSE` | `[](Cardinality(Existing) <= N + MaxSurge)` | never more Machines than the most ever wanted, `N`, and the surge |
| `RolloutLeavesReplicas`, with `StaleCache = FALSE` | `RolloutKeepsReplicas` | scaling leaves the Machines wanted, or one fewer without surge |
| `RemediationsImplemented` | `ImplementsRemediations` | every step is one of `Remediations`, or none |
| `PromiseSuffices` | (of `ImplementsRemediations`) `[]RetriesBounded`, `[]OneRemediationAtATime` | `Remediations` is enough of a promise |
| `InPlaceProofs` | | |
| `TypeCorrect` | `[]TypeOK` | |
| `NoUnmarkedDrift` | `[]UnmarkedRunsItsSpec` | an unmarked machine runs what its objects say |
| `UpdatesAreNotReplaced` | `CommittedNotReplaced` | a rollout spares machines committed to an update |
| `DeletionsSpareQuorum` | `DeletionsKeepQuorum` | no deletion takes the majority |
| `RemediationCountsOnNoUpdate` | `RemediationSparesUpdates` | nor together with nodes that restart |
| `UpdateWaitsForQuorum` | `UpdateSparesQuorum` | an update starts when etcd can do without the node |

*Assumptions.* The named `ASSUME`s of the modules: a finite set of Machines (positive numbers),
subsets and switches of the right kind, bounds that are naturals. Some theorems assume more, and
are false without; TLC shows each counterexample:

- `HookSafe` that nodes join as voters (section 7); `HookSafeAmongVoters` says what is left without.
- `HookSafe` and the theorems of `MembershipProofs` except, inside their properties, Machines whose
  MachineHostName is not that of their node, and nothing else about names. Without the exception
  TLC finds `ResolvedBeforeTeardown` violated in the run `hook`: such a Machine joins etcd, is
  deleted before it has a nodeRef, and is released as no member. And with two such late Machines,
  one misnamed and one without a name, `HookKeepsQuorum` is violated on four machines: the nameless
  one, not in etcd yet, is deleted, elimination takes the misnamed one's member for its own, and
  that was counted among the healthy ones.
- `FinalizerSafe` excepts a Machine that the cache has not seen: a list that lags behind a creation
  is as empty as one after the last deletion (section 7).
- `HoldSafe` that the cache is current when a reconcile starts: a list that still shows the expired
  anchor fails open after a hold.
- `DeletionsOneByOne` the same: a rollout on a list that does not show a remediation yet deletes a
  second Machine. `DeletionsLeaveQuorum` does not need it: that deletion, too, leaves etcd its
  majority.
- `SurgeIsBounded`, `RolloutLeavesReplicas` and `SpreadIsEven` the same: on a list that does not show
  the last step yet the step is taken twice, a Machine too many is created, two go at once from
  domains that tie, or two replacements land in one domain.
- `SpreadIsEven` also that the Machines are evenly spread at the start (`EvenStart`). They are never
  moved, so from an arbitrary placement no sequence of single steps makes them even.

*Arguments.* Each proof names an inductive invariant, conjunct by conjunct, and has one step per
action; all invariants were model-checked first, on the runs' instances and on variations of them.

- `PreTerminateProofs.TypeCorrect`: the type invariant is inductive. Its one strong part is that
  `victim` is a Machine exactly in the steps of the handler, which rests on
  `servicePreTerminateHooks` picking a Machine (`OldestType`, `ServicedType`) and on every way out
  of the handler forgetting it. The type invariants of the other modules are of the same kind.
- `FinalizerSafe`, `AuditSafe`: neither is inductive, because both act on the cache. The
  strengthening `DeletionInv` adds that the cache is never ahead: a Machine that the cache shows
  as gone is gone, for good (`CacheNotAhead`, `GoneIsFinal`); and that it has seen every Machine
  with a member (`MembersKnown`). An empty list then means no Machine but one just created; and
  with every listed Machine holding a nodeRef, a member that matches none of them is of a Machine
  not listed, hence gone. That a removal by the audit keeps the majority follows: what it removes
  does not run.
- `HookSafeAmongVoters`: while the handler is between its calls and nobody else changed etcd, the
  member it is about to remove was identified from the list read (`TargetIdentified`), and enough
  voters other than victim and target run to be a majority of what remains (`MajorityReserved`).
  `ListMembers` establishes the first, `ProbeQuorum` the second, other actors either keep them or
  set `disturbed` (`HandlerUndisturbed`). Identification by elimination is the delicate case:
  the victim has no name, and every other machine does, so the unmatched member is the victim's,
  an orphan's or that of a misnamed machine, and only the last can be one that was counted
  (`RightTarget`). A learner other than victim and target is the other way to miscount
  (`OnlyVotersStay`). `HookSafe` follows where there are no learners (`NoLearners`).
- `OneAtATime`: deletions are ranked by timestamp and then by name (`Before`, `Ranked`), and a
  cache that lags, where it shows a Machine past its drain (not `Early`), knows every deletion of
  that second and before (`CacheIsPrefix`). So the Machine the handler
  picks, and every Machine marked as leaving, is *next to go*: all that were deleted before it are
  gone. Two Machines next to go are the same one.
- `HoldSafe`: a held Machine has no anchor, and the next attempt, from a current cache, stamps a new
  one before it looks at the deadline (`HoldInv`).
- `TeardownResolved`, `MembershipImplemented`: `Accounts` says for every Machine that was a hooked
  member when it was deleted how its hook came off: the handler earned the release by taking the
  member out, gave up, or did not find the member of a misnamed Machine. The cache is what makes
  it delicate (`CacheLags`, `ReleaseAccounted`): a hook may be stamped again only while the
  cache shows no deletion, and a hook that came off before the cache saw the deletion was given up. The refinement is then proved action by action;
  most steps are invisible to `EtcdMembership`, those that remove a member are its `Leave`, those
  that end the hook are `Waive`, `Resolve` or a stutter.
- `EtcdHealthProofs`: what the check recorded is true until a node fails (`CheckInv`); the rest is
  counting on arbitrary member lists (`SafeRemoval`, `SafeAddition`), also where the target votes
  under a name it cannot be matched with, and where healthy, uninspected and excluded machines
  have to cover the voters that run.
- `LockNamesAFounder`: what is recorded is founded, in the status, in the reconcile's copy of it,
  and in every step from the request or the answer on (`Recorded`, `OnTrack`).
- `OneClusterIsKept`: at most one machine does not have etcd data when no list lags (`OneEmpty`),
  and the others that stay agree (`Agreed`), so what the empty one founds or joins is one cluster;
  a reconcile that decided to bootstrap knows that no other node holds data (`Sole`). With a
  list that lags but nothing lost, the first founder is recorded before anything else is decided,
  and is on every later list (`Founder`).
- `RemediationSparesEtcd`: with at most one fault, a control plane recorded as bootstrapped has a
  holder that stays (`HolderKept`), and before anything is recorded there is one Machine at most
  (`Single`), which is what makes a lost record harmless.
- `RetriesAreBounded`, `RemediationsOneByOne`: a replacement that is due, and a remediated Machine
  that is still there, is on the persisted record, with the retry it counts as, and no Machine is
  newer (`Awaited`, `Shielded`). So `reconcileRemediationInProgress` can take the record for stale
  in none of its three ways, and a reconcile that found it stale has found that nothing depends
  on it (`InMemory`); the deferred patch may then write or lose what it likes.
- `ControlPlaneProofs.DeletionsLeaveQuorum`: until something happens to etcd, what the check
  recorded is what is (`Fresh`), even where the list of Machines is outdated. A remediation then
  is `SafeRemoval`. For a scale-down, `etcd.ok` and the preflight checks say that every listed
  Machine but the victim runs and is named, and `verify` that as many members are unmatched as
  Machines unnamed: so no voter but the victim is outside the list.
- `DeletionsOneByOne`: a reconcile that may still delete has the earlier deletion on its list
  (`Noticed`), and both ways to a deletion check for one.
- `SpreadIsEven`: what stays even is the count of the Machines that are running and not about to be
  replaced (`Counted`, `SpreadInv`), while nobody but the controller creates or deletes any. A
  scale-up adds to a domain with the fewest of them (`EvenWith`); a scale-down takes one of them
  only when no Machine is to be replaced, and then from a domain with the most or from none
  (`EvenWithout`, `CandidateKinds`); the deletion of an outdated Machine changes nothing; and an
  edit of the template leaves no Machine to count. Once a rollout completes, all Machines count.
- `SurgeIsBounded`: a reconcile that may still create a Machine has every one that exists on its list
  (`Overlooked`), so `reconcileMachines` compares no fewer than there are. `RolloutLeavesReplicas`
  uses the other half, from `SpreadInv`: with nobody else about, every Machine on the list runs.
- `RemediationsImplemented`: on top of `RecordInv` every action is a step of `Remediations` or
  invisible to it. The deletion of an unhealthy Machine is `Remediate`, because by the record
  nothing is owed and nobody is waited for; a scale-up is `Create`, whatever it was for; the record
  that is found stale because its Machine is gone and not needed is `Withdraw`; writing, clearing
  and losing the record is invisible. The abstract specification is enough of a promise
  (`PromiseSuffices`), so the two properties of the record follow from the refinement alone.
- `IdentificationSound`, `VerificationCounts`: case analysis and counting on arbitrary sets. The first
  is what `HookSafeAmongVoters` and `MembershipImplemented` rest on, the second what
  `HealthyIsComplete` does.
- `NoUnmarkedDrift`, `UpdatesAreNotReplaced`: the mark is the first write and the hook the last, so
  a node differs from its Machine's objects only in what an extension promised (`PromiseKept`,
  `TriggerOnTrack`); a reconcile replaces no Machine that is committed (`RolloutFree`).
- `InPlaceProofs.DeletionsSpareQuorum`, `RemediationCountsOnNoUpdate`, `UpdateWaitsForQuorum`: what
  was read is current (`SeenCurrent`), and etcd passes the check until the first write
  (`CheckedHealthy`); then `SafeRemoval` on the voters and nodes that do not restart.

*Only model-checked*: liveness (`TeardownCompletes`, `DeletionNeverParked`, `OrphansCollected`,
`BootstrapCompletes`, `Converges`, `ChangeReachesNodes`), which is out of the prover's reach.

*What the proofs changed.* Some properties turned out to claim more than the code does; TLC found
the counterexamples, most of them beyond the bounds of the runs, and the properties now say what
holds:

- A machine with a MachineHostName was taken to match its member, and every Machine to exist and
  to be in the cache from the start: theorems for any `HostNamed` and any lag of the cache said
  more than the code keeps. Section 7 lists what it does instead.
- `EtcdMembership` had no `Resolve`: a waived removal that is done after all was not foreseen.
- `KeptInOneCluster` allowed a lagging list whenever no user deleted a Machine. Outdated lists can
  create four Machines of which remediation takes two, founder and holder among them.
- `OneRemediationAtATime` knew no exception. When a Machine is created for another reason on a list
  that still shows the remediated one as running, the remediation counts as complete
  (`controllers/taloscontrolplane_controller.go:576`), and the next reconcile on the same list may
  remediate a second Machine. That one, too, leaves etcd its majority (`DeletionsLeaveQuorum`).
- `RetriesBounded` counted a Machine created long after a remediation, for a surge, as its
  replacement. The record is stale by then because the remediated Machine was not needed, and
  `pending` is reset as the record is dropped.

## 6. Plan

Done, in this order: `EtcdQuorum`, `EtcdHealth`, `PreTerminate` with proofs, `Bootstrap`,
`ControlPlane`, `InPlace`, remediation before initialization in `Bootstrap`, `EtcdMembership`
and its refinement, `Remediations` and its refinement; the theorems of section 5 along with them.

Next:

1. An abstract specification of in-place updates (a machine is claimed, then runs the new spec or is
   replaced) that `InPlace` refines.
2. `RolloutKeepsReplicas` next to remediations and deletions by users, counting what they took.
3. The conditions other than `EtcdClusterHealthy`, as far as a controller outside reads them.

## 7. Where code and documentation disagree

Shown by runs:

- `hook_learner`: `quorumAfterRemoval` compares healthy machines with the length of the member
  list, learners on both sides. A healthy learner stands in for a voter that is down, and the
  hook removes a voter the majority depends on. The design document says the hook "refuses to do
  so when that would cost etcd its quorum"; `canSafelyRemoveEtcdMember` refuses on any learner.
- `bootstrap_release`: `releaseBootstrap` and `bootstrapCandidates` skip deleting machines, so
  when the recorded machine is gone and a deleting machine runs the etcd it founded, a second
  cluster is founded next to it. The comment on `reconcileBootstrap` says that no machine is
  bootstrapped while another cannot be asked, and the lock is held because "a deleting machine
  may still be the only one running etcd". Among the machines that stay there is still one
  cluster (`KeptInOneCluster`).
- `inplace_overlap`: `reconcileInPlaceUpdates` looks for machines that are being updated among
  the outdated ones only (`controllers/inplace.go:87`). From the last write of the trigger on a
  machine is up to date, and no longer looked at, while its node has yet to restart. When the
  health checks still pass, the next machine is triggered, and two nodes of three restart at
  once. The comment at `controllers/inplace.go:93` says "One control plane machine at a time".

Met while modelling, and the reason some properties carry a precondition:

- `QuorumLostIsCertain` requires a member list and names. Without a list the majority is counted
  over machines, and an excluded machine without a name is not counted as possibly healthy, so
  `EtcdClusterQuorumLost` may be reported of an etcd that has its quorum.
- `UnhealthyIsCertain` requires names: the learner of a machine without a name counts as a
  healthy voter, so `EtcdClusterUnhealthy` may be reported of an etcd without quorum.
- `ResolvedBeforeTeardown`, `HookKeepsQuorum` and `EtcdMembership` except Machines whose
  MachineHostName is not that of their node. Until such a Machine has a nodeRef, which it never
  gets once it is deleted, `identifyEtcdMember` finds no member for it, and its hook is released
  with "machine is no longer an etcd member" (`controllers/preterminate.go:251`) while the member
  is in etcd; the audit collects it once the Machine is gone. And elimination for a Machine
  without a name (`controllers/etcd.go:484`) may return its member.
- `TeardownCompletes` and `FinalizerSafe` except a Machine the cache has not seen. `reconcileDelete`
  removes the finalizer when the list is empty (`controllers/taloscontrolplane_controller.go:335`),
  and a list that lags behind a creation is. That Machine then carries a hook that no reconcile
  releases.
- `HookKeepsQuorum` judges a removal from an etcd that nothing changed since the member list was
  read. A node that fails between the probe and the leave may cost the majority; no check can see
  it.
- `HoldNeverFailsOpen` is checked without a lagging cache: a cache that still shows the expired
  anchor lets the pass after a hold fail open.
- `OneDeletionAtATime` is checked without a lagging cache, and `OneRemediationAtATime` excepts a
  Machine created on an outdated list (section 5).
- `KeptInOneCluster` allows a lagging list only as long as nothing is lost and no user deletes a
  Machine besides: a list that lags lets a second first machine be created, and when the patch
  that records the bootstrap is lost as well, a list that shows only the second lets it be
  bootstrapped too.
- `EtcdOutlivesRemediation` requires fewer than two faults: when two records in a row are lost,
  remediation takes it that "until a machine is bootstrapped, no etcd exists" and may delete the
  only copy.
- `UpdateSparesQuorum` requires that no Machine is being deleted: the check of the "whole control
  plane" before an update leaves deleting machines out. It also requires that no other update
  is in progress (`inplace_overlap`).
- `ChangeReachesNodes` excepts an interrupted trigger: a Machine that is annotated but whose hook
  never became pending stays claimed, and nothing finishes or undoes its update.
- `CommittedNotReplaced` is about rollouts: a plain scale-down may delete a machine that is being
  updated.
- A remediation record whose deletion never happened is not always withdrawn, as the comment at
  `controllers/remediation.go:331` has it: a scale-up within `remediationStartTimeout` puts it on
  the new machine, which then starts with a retry counted.
- A remediation may start while another, unhealthy machine has no node
  (`controllers/remediation.go:295`), unlike the comment at `controllers/preflight.go:156` says.

## 8. Not modelled, and why

- Conditions other than `EtcdClusterHealthy`, ready replicas, events, logging: reported, not acted
  on; among them the UpToDate condition of Machines.
- Kubeconfig and certificates: input and output without shared state.
- Defaulting, validation and conversion of API versions: stateless; the constants of the models
  respect what validation enforces.
- Disagreeing member lists of different nodes: they only add an error to the health check.
- Pausing: a paused reconcile does nothing.
- In cloning a Machine, the clean-up of the objects that were created before one failed; in
  matching, objects that are missing and count as matching.
- URLs, TLS and encoding of the calls to extensions, and the manager that field ownership of
  server-side apply is about: one call that succeeds or fails.
- Manager wiring and integration tests.
