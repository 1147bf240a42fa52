---------------------------- MODULE ControlPlane ----------------------------
(***************************************************************************)
(* The last phase of a reconcile of an initialized control plane, the one  *)
(* that creates and deletes Machines: reconcileRemediationAndMachines with *)
(* the remediation record and its retry count, the preflight checks,       *)
(* scale-up, scale-down and rollout (controllers/remediation.go,           *)
(* preflight.go, scale.go, upgrade.go, reconcileMachines and               *)
(* bootControlPlane in controllers/taloscontrolplane_controller.go).       *)
(*                                                                         *)
(* The TalosControlPlane is read from the API server when a reconcile      *)
(* starts and patched at its end; the remediation record is also patched   *)
(* in between.  Machines are read from a cache that may lag, by less than  *)
(* remediationStartTimeout.  The manager may crash between any two steps.  *)
(* Users, the MachineHealthCheck, nodes and the deletion of a Machine,     *)
(* which PreTerminate models in detail, are external.                      *)
(*                                                                         *)
(* Machines are numbered in the order of creation.  A node joins etcd and  *)
(* registers in one step, and a Machine goes away with its etcd member:    *)
(* EtcdHealth and PreTerminate are about what happens in between.          *)
(* Before initialization a remediation is part of Bootstrap; here every    *)
(* outdated Machine is rolled out, in-place updates are in InPlace.        *)
(***************************************************************************)
EXTENDS EtcdQuorum

CONSTANTS
    MaxMachines,   \* bound: Machines ever created
    Initial,       \* the number of Machines, and spec.replicas, at the start
    Replacements,  \* of these, the ones that replaced a remediated Machine
    Sizes,         \* values a user may change spec.replicas to
    MaxSurge,      \* spec.rolloutStrategy.rollingUpdate.maxSurge
    OnDelete,      \* the rollout strategy is OnDelete
    MaxRetry,      \* spec.remediation.maxRetry
    ToRemediate,   \* Machines with the remediate-machine annotation
    Deletable,     \* Machines that users may delete
    ToDelete,      \* Machines with the delete-machine annotation
    Domains,       \* failure domains in the Cluster's status
    Marked,        \* of these, the ones marked for the control plane
    Placement,     \* the failure domains of the Machines at the start
    StaleCache,    \* a reconcile may see the Machines of the previous one
    Breakable,     \* Machines whose etcd and components may stop
    MaxEvents,     \* bound: verdicts of the MachineHealthCheck and deletions by users
    MaxEdits,      \* bound: changes of the TalosControlPlane's spec
    MaxFaults      \* bound: crashes and failed or unanswered calls

Machines == 1..MaxMachines

ASSUME ControlPlaneConstants ==
    /\ MaxMachines \in Nat /\ Initial \in Machines /\ Replacements \subseteq 1..Initial
    /\ Sizes \subseteq Nat \ {0}
    /\ MaxSurge \in {0, 1} /\ OnDelete \in BOOLEAN /\ MaxRetry \in Nat
    /\ Deletable \subseteq Machines /\ ToRemediate \subseteq Machines /\ ToDelete \subseteq Machines
    /\ Marked \subseteq Domains /\ DOMAIN Placement = 1..Initial
    /\ StaleCache \in BOOLEAN
    /\ Breakable \subseteq Machines /\ {MaxEvents, MaxEdits, MaxFaults} \subseteq Nat

VARIABLES
    \* Machines in the API server
    phase,      \* "absent", "running", "deleting" or "gone"
    nodeRef,    \* Machines with a node, which runs an etcd member
    unhealthy,  \* Machines with HealthCheckSucceeded=False
    owner,      \* Machines with OwnerRemediated=False
    domain,     \* spec.failureDomain, which never changes
    origin,     \* the remediation-for annotation of a Machine
    age,        \* time since it was needed: "retrying", "due" or "forgotten"
    \* nodes
    broken,     \* nodes whose etcd and components do not run
    \* the TalosControlPlane
    replicas, outdated, record,
    \* the running reconcile
    view,       \* its list of Machines
    mem,        \* its copy of the remediation-in-progress annotation
    etcd,       \* what its etcd health check recorded
    pc, target,
    \* bounds
    events, edits, faults,
    \* history, read by the properties only
    by,         \* who deleted a Machine
    depth,      \* remediations in a row that led to a Machine
    pending,    \* the depth the next replacement has
    stable,     \* nothing happened to etcd since the health check
    rushed      \* a Machine was created on a list that did not show a remediation yet

objects == <<phase, nodeRef, unhealthy, owner, domain, origin, age>>
spec == <<replicas, outdated>>
local == <<view, mem, etcd, target>>
bounds == <<events, edits, faults>>
history == <<by, depth, pending, stable, rushed>>
vars == <<objects, broken, spec, record, local, pc, bounds, history>>

None == 0
NoDomain == ""
Record == [machine : Machines \cup {None}, count : Nat, after : Nat, started : BOOLEAN]
NoRecord == [machine |-> None, count |-> 0, after |-> 0, started |-> FALSE]
\* What a Machine of Replacements carries: a first remediation, of a Machine long gone.
PastRecord == [machine |-> None, count |-> 0, after |-> 0, started |-> TRUE]
Phases == {"absent", "running", "deleting", "gone"}
View == [phase : [Machines -> Phases], nodeRef : SUBSET Machines,
         unhealthy : SUBSET Machines, owner : SUBSET Machines]
NoEtcd == [voters |-> {}, healthy |-> {}, ok |-> FALSE]
Current == [phase |-> phase, nodeRef |-> nodeRef, unhealthy |-> unhealthy, owner |-> owner]

Steps == {"idle", "check", "sweep", "remediate", "record", "delete", "machines", "clear", "patch"}

TypeOK ==
    /\ phase \in [Machines -> Phases] /\ nodeRef \subseteq Machines
    /\ unhealthy \subseteq Machines /\ owner \subseteq Machines
    /\ \A m \in Machines : domain[m] \in Domains \cup {NoDomain} \cup {Placement[n] : n \in 1..Initial}
    /\ origin \in [Machines -> Record \cup {NoRecord}]
    /\ age \in [Machines -> {"retrying", "due", "forgotten"}]
    /\ broken \subseteq Machines
    /\ replicas \in Nat /\ outdated \subseteq Machines
    /\ record \in Record \cup {NoRecord} /\ mem \in Record \cup {NoRecord}
    /\ view \in View
    /\ etcd \in [voters : SUBSET Machines, healthy : SUBSET Machines, ok : BOOLEAN]
    /\ pc \in Steps
    /\ target \in IF pc \in {"record", "delete"} THEN Machines ELSE {None}
    /\ \A b \in {events, edits, faults, pending} : b \in Nat
    /\ by \in [Machines -> {"none", "user", "remediation", "scaling"}]
    /\ depth \in [Machines -> Nat] /\ stable \in BOOLEAN /\ rushed \in BOOLEAN

Exists(m) == phase[m] \in {"running", "deleting"}
Existing == {m \in Machines : Exists(m)}
voters == nodeRef \cap Existing
up == voters \ broken

Init ==
    /\ phase = [m \in Machines |-> IF m <= Initial THEN "running" ELSE "absent"]
    /\ nodeRef = 1..Initial
    /\ unhealthy = {} /\ owner = {} /\ broken = {}
    /\ domain = [m \in Machines |-> IF m <= Initial THEN Placement[m] ELSE NoDomain]
    /\ origin = [m \in Machines |-> IF m \in Replacements THEN PastRecord ELSE NoRecord]
    /\ age = [m \in Machines |-> "retrying"]
    /\ replicas = Initial /\ outdated = {} /\ record = NoRecord
    /\ view = Current /\ mem = NoRecord /\ etcd = NoEtcd /\ pc = "idle" /\ target = None
    /\ events = 0 /\ edits = 0 /\ faults = 0
    /\ by = [m \in Machines |-> "none"]
    /\ depth = [m \in Machines |-> IF m \in Replacements THEN 1 ELSE 0] /\ pending = 0
    /\ stable = TRUE /\ rushed = FALSE

Fault == faults < MaxFaults /\ faults' = faults + 1
NoFault == faults' = faults
SameButFaults == UNCHANGED <<events, edits>>

\* Something happens to etcd, which a health check of this reconcile did not see.
Disturb == stable' = (stable /\ pc \in {"idle", "check"})

-----------------------------------------------------------------------------
(* External: nodes, the MachineHealthCheck, users, the Machine controller *)

Break(m) ==
    /\ m \in up \cap Breakable
    /\ broken' = broken \cup {m} /\ Disturb
    /\ UNCHANGED <<objects, spec, record, local, pc, bounds, by, depth, pending,
                   rushed>>

\* A new node joins etcd, which takes a majority, and registers.
Join(m) ==
    /\ phase[m] = "running" /\ m \notin nodeRef /\ HasMajority(voters, up)
    /\ nodeRef' = nodeRef \cup {m} /\ Disturb
    /\ UNCHANGED <<phase, unhealthy, owner, domain, origin, age, broken, spec, record, local, pc, bounds,
                   by, depth, pending, rushed>>

\* The MachineHealthCheck finds a Machine unhealthy; it also asks for its
\* remediation, unless too many are unhealthy or the Machine is exempt.
FindUnhealthy(m) ==
    /\ phase[m] = "running" /\ m \notin unhealthy \cap owner /\ events < MaxEvents
    /\ unhealthy' = unhealthy \cup {m} /\ owner' \in {owner, owner \cup {m}}
    /\ events' = events + 1
    /\ UNCHANGED <<phase, nodeRef, domain, origin, age, broken, spec, record, local, pc,
                   edits, faults, history>>

\* It finds the Machine healthy again, and leaves OwnerRemediated to the owner.
FindHealthy(m) ==
    /\ phase[m] = "running" /\ m \in unhealthy \cap up
    /\ unhealthy' = unhealthy \ {m}
    /\ UNCHANGED <<phase, nodeRef, owner, domain, origin, age, broken, spec, record, local, pc, bounds,
                   history>>

RequestDeletion(m, who) ==
    /\ phase' = [phase EXCEPT ![m] = IF @ = "running" THEN "deleting" ELSE @]
    /\ by' = IF phase[m] = "running" THEN [by EXCEPT ![m] = who] ELSE by

Delete(m) ==
    /\ phase[m] = "running" /\ m \in Deletable /\ events < MaxEvents
    /\ RequestDeletion(m, "user") /\ events' = events + 1
    /\ UNCHANGED <<nodeRef, unhealthy, owner, domain, origin, age, broken, spec, record, local, pc,
                   edits, faults, depth, pending, stable, rushed>>

\* The Machine goes away.  Its pre-terminate hook took its member out of etcd,
\* which it only does when etcd keeps its majority.
Gone(m) ==
    /\ phase[m] = "deleting"
    /\ m \in voters /\ voters # {m} => HasMajority(voters, up) /\ HasMajority(voters \ {m}, up)
    /\ phase' = [phase EXCEPT ![m] = "gone"]
    /\ nodeRef' = nodeRef \ {m} /\ unhealthy' = unhealthy \ {m} /\ owner' = owner \ {m}
    /\ origin' = [origin EXCEPT ![m] = NoRecord] /\ age' = [age EXCEPT ![m] = "retrying"]
    /\ broken' = broken \ {m}
    /\ Disturb
    /\ UNCHANGED <<domain, spec, record, local, pc, bounds, by, depth, pending,
                   rushed>>

\* The user changes spec.replicas, or the template.  A reconcile uses the spec
\* it read when it started.
Edit ==
    /\ pc = "idle" /\ edits < MaxEdits /\ edits' = edits + 1
    /\ \/ replicas' \in Sizes \ {replicas} /\ UNCHANGED outdated
       \/ outdated' = Existing /\ UNCHANGED replicas
    /\ UNCHANGED <<objects, broken, record, local, pc, events, faults, history>>

\* The retry period, or the min healthy period, has passed since the remediation
\* that m is the replacement of.
Age(m) ==
    /\ Exists(m) /\ (origin[m] # NoRecord \/ depth[m] > 0) /\ age[m] # "forgotten"
    /\ age' = [age EXCEPT ![m] = IF @ = "retrying" THEN "due" ELSE "forgotten"]
    /\ UNCHANGED <<phase, nodeRef, unhealthy, owner, domain, origin, broken, spec, record, local, pc,
                   bounds, history>>

\* remediationStartTimeout passes, longer than the cache ever lags behind.
StartTimeout ==
    /\ pc = "idle" /\ record # NoRecord /\ ~record.started
    /\ record' = [record EXCEPT !.started = TRUE]
    /\ view' = Current
    /\ UNCHANGED <<objects, broken, spec, mem, etcd, target, pc, bounds, history>>

-----------------------------------------------------------------------------
(* What a reconcile reads off its list of Machines *)

Listed == {m \in Machines : view.phase[m] \in {"running", "deleting"}}
Kept == {m \in Machines : view.phase[m] = "running"}
InDeletion == Listed \ Kept
Flagged == view.unhealthy \cap view.owner \cap Listed
Provisioned == view.nodeRef \cap Listed

\* What nodesHealthcheck and ensureNodesBooted find out by asking the nodes.
ComponentsHealthy(S) == S \subseteq up

\* recordedEtcdFrom: the machines counted as healthy, each of which reported the
\* member list.
RecordedHealthy == etcd.healthy \cap Provisioned

-----------------------------------------------------------------------------
(* The remediation record *)

\* Mistake: a record whose deletion never happened is not withdrawn.
RecordStaleWithoutTimeout ==
    \/ \E m \in Listed : m > mem.after
    \/ mem.machine \notin Listed /\ Cardinality(Kept) >= replicas

\* Mistake: the list is trusted to show a deletion that was just made.
RecordStaleAtOnce ==
    \/ \E m \in Listed : m > mem.after
    \/ mem.machine \notin Listed /\ Cardinality(Kept) >= replicas
    \/ mem.machine \in Kept

\* reconcileRemediationInProgress: the record is stale.
RecordStale ==
    \/ \E m \in Listed : m > mem.after
    \/ mem.machine \notin Listed /\ Cardinality(Kept) >= replicas
    \/ mem.machine \in Kept /\ mem.started

SweptRecord == IF mem # NoRecord /\ RecordStale THEN NoRecord ELSE mem

\* cleanupOwnerRemediated: the Machines that are healthy again.
Recovered == (Kept \cap view.owner) \ view.unhealthy

-----------------------------------------------------------------------------
(* Remediation *)

Prefer(S, P) == IF S \cap P # {} THEN S \cap P ELSE S
OldestOf(S) == CHOOSE m \in S : \A n \in S : m <= n

\* machineToBeRemediated: the most broken candidate.
MachineToBeRemediated ==
    OldestOf(Prefer(Prefer(Prefer(Flagged, ToRemediate), Machines \ view.nodeRef),
                    Machines \ etcd.healthy))

\* checkRemediationRetryLimits: whether m may be remediated, and as which retry.
RetryStarts(m) == origin[m] = NoRecord \/ age[m] = "forgotten"
RetryAllowed(m) == RetryStarts(m) \/ (age[m] = "due" /\ origin[m].count < MaxRetry)
\* Mistake: every remediation is a first one.
RetryCountRestarts(m) == 0

RetryCount(m) == IF RetryStarts(m) THEN 0 ELSE origin[m].count + 1

\* The checks of reconcileUnhealthyMachines once the control plane is initialized.
MayRemediate(m) ==
    /\ Cardinality(Listed) > 1
    /\ \A n \in Listed \ {m} : n \in Kept /\ (n \in view.unhealthy \/ n \in Provisioned)
    /\ RecordedHealthy # {}
    /\ CanSafelyRemoveEtcdMember(etcd.voters, {}, m, Listed, Provisioned, RecordedHealthy)

-----------------------------------------------------------------------------
(* Preflight checks *)

\* Mistake: the deletion of another Machine is not waited for.
PreflightDuringDeletion(excluded) ==
    ComponentsHealthy(Kept \ excluded) /\ Listed \ excluded \subseteq Provisioned /\ etcd.ok

\* preflightChecks, with the Machines that are about to be deleted excluded.
PreflightChecks(excluded) ==
    /\ InDeletion = {}
    /\ Listed \ excluded \subseteq Provisioned
    /\ ComponentsHealthy(Listed \ excluded)
    /\ etcd.ok

\* preflightChecksWhileRemediating: a healthy machine to join through, and an
\* etcd that takes one more member.
PreflightChecksWhileRemediating ==
    /\ \E m \in Provisioned : ComponentsHealthy({m})
    /\ RecordedHealthy # {}
    /\ CanSafelyAddEtcdMemberTo(etcd.voters, {}, Listed, Provisioned, RecordedHealthy)

\* preflightChecksForScaleUp.
PreflightChecksForScaleUp ==
    \/ PreflightChecks({})
    \/ mem # NoRecord /\ InDeletion = {} /\ PreflightChecksWhileRemediating

-----------------------------------------------------------------------------
(* What reconcileMachines decides *)

MachinesNeedingRollout == IF OnDelete THEN {} ELSE Kept \cap outdated

WantsMore ==
    IF MachinesNeedingRollout # {} THEN Cardinality(Listed) < replicas + MaxSurge
                                   ELSE Cardinality(Listed) < replicas
WantsLess ==
    IF MachinesNeedingRollout # {} THEN ~WantsMore ELSE Cardinality(Listed) > replicas

\* selectMachineForScaleDown: the candidates, before failure domains are compared.
ScaleDownCandidates ==
    LET old   == MachinesNeedingRollout
        marks == <<old \cap ToDelete, Listed \cap ToDelete, old \cap Flagged, Kept \cap Flagged, old>>
    IN  IF \E i \in 1..5 : marks[i] # {}
        THEN marks[CHOOSE i \in 1..5 : marks[i] # {} /\ \A j \in 1..(i - 1) : marks[j] = {}]
        ELSE Listed

\* FailureDomains: the marked ones, or all when none is marked.
FailureDomains == IF Marked # {} THEN Marked ELSE Domains

Count(d, S) == Cardinality({m \in S : domain[m] = d})

\* External, failuredomains.PickFewest: the fewest of the Machines that matter
\* most, then the fewest of all.  Any of the domains that tie.
PickFewest(all, first) ==
    {d \in FailureDomains : \A e \in FailureDomains :
        \/ Count(d, first) < Count(e, first)
        \/ Count(d, first) = Count(e, first) /\ Count(d, all) <= Count(e, all)}

\* External, failuredomains.PickMost: a domain with an eligible Machine, unless
\* another has as many of the eligible and of all Machines and more of one kind.
PickMost(all, eligible) ==
    {d \in FailureDomains :
        /\ Count(d, eligible) > 0
        /\ \A e \in FailureDomains :
             Count(e, eligible) >= Count(d, eligible) /\ Count(e, all) >= Count(d, all)
               => Count(e, eligible) = Count(d, eligible) /\ Count(e, all) = Count(d, all)}

\* Mistake: outdated Machines, about to be replaced, count like the others.
NextFailureDomainOverall ==
    IF FailureDomains = {} THEN {NoDomain} ELSE PickFewest(Listed, Listed)

\* The domains a new Machine may be placed in.
NextFailureDomainForScaleUp ==
    IF FailureDomains = {} THEN {NoDomain}
    ELSE PickFewest(Listed, Kept \ MachinesNeedingRollout)

\* The domains a Machine may be removed from: a domain that is gone goes first.
FailureDomainWithMostMachines(eligible) ==
    LET lost == {m \in eligible : domain[m] \notin FailureDomains}
    IN  IF lost # {} THEN {domain[OldestOf(lost)]} ELSE PickMost(Listed, eligible)

\* The Machines that may be picked: the oldest in such a domain.
MachineInFailureDomainWithMostMachines(eligible) ==
    {OldestOf({m \in eligible : domain[m] = d}) : d \in FailureDomainWithMostMachines(eligible)}

\* A Machine may be created: the first one without a preflight check.
MayScaleUp == WantsMore /\ (Listed # {} => PreflightChecksForScaleUp)

\* The Machines a scale-down may pick; never the last one.
Picked ==
    IF WantsLess /\ Cardinality(Listed) > 1
    THEN MachineInFailureDomainWithMostMachines(ScaleDownCandidates) ELSE {}

\* Of these, the ones it may delete now.
Victims == {m \in Picked : PreflightChecks({m}) /\ ComponentsHealthy(Listed \ Flagged)}

-----------------------------------------------------------------------------
(* The reconciler *)

Begin ==
    /\ pc = "idle"
    /\ view' \in IF StaleCache THEN {view, Current} ELSE {Current}
    /\ mem' = record
    /\ pc' = "check"
    /\ UNCHANGED <<objects, broken, spec, record, etcd, target, bounds, history>>

\* reconcileEtcdMembers records which machines run etcd and the member list, and
\* sets EtcdClusterHealthy; an inspection may fail.
CheckEtcd ==
    /\ pc = "check"
    /\ LET healthy == Kept \cap up
       IN  \E seen \in SUBSET healthy :
             /\ IF seen = healthy THEN NoFault ELSE Fault
             /\ etcd' = [voters |-> IF seen = {} THEN {} ELSE voters, healthy |-> seen,
                         ok |-> /\ Kept # {} /\ Kept = seen
                                /\ VerifyMembership(voters, Listed, Kept, Provisioned, Provisioned)]
    /\ pc' = "sweep"
    /\ SameButFaults
    /\ UNCHANGED <<objects, broken, spec, record, view, mem, target, history>>

\* The start of reconcileUnhealthyMachines: a stale record is dropped in memory,
\* and OwnerRemediated from Machines that recovered, where a patch may fail.  (The
\* Machine created next replaces none that is gone and was not needed.)
Sweep ==
    /\ pc = "sweep"
    /\ mem' = SweptRecord
    /\ pending' = IF mem # NoRecord /\ mem.machine \notin Listed /\ Cardinality(Kept) >= replicas
                  THEN 0 ELSE pending
    /\ LET patchable == Recovered \cap Existing
       IN  \E patched \in SUBSET patchable :
             /\ owner' = owner \ patched
             /\ IF patched = patchable THEN NoFault ELSE Fault
             /\ pc' = IF patched = Recovered THEN "remediate" ELSE "machines"
    /\ SameButFaults
    /\ UNCHANGED <<phase, nodeRef, unhealthy, domain, origin, age, broken, spec, record, view, etcd, target,
                   by, depth, stable, rushed>>

\* Mistake: a remediation in progress is not waited for.
StartDespiteRecord ==
    /\ pc = "remediate" /\ Flagged # {}
    /\ LET m == MachineToBeRemediated
       IN  m \in Kept /\ RetryAllowed(m) /\ MayRemediate(m) /\ target' = m
    /\ pc' = "record"
    /\ UNCHANGED <<objects, broken, spec, record, view, mem, etcd, bounds, history>>

\* A Machine is picked and passes every check.
StartRemediation ==
    /\ pc = "remediate" /\ Flagged # {}
    /\ LET m == MachineToBeRemediated
       IN  /\ m \in Kept /\ mem = NoRecord /\ RetryAllowed(m) /\ MayRemediate(m)
           /\ target' = m
    /\ pc' = "record"
    /\ UNCHANGED <<objects, broken, spec, record, view, mem, etcd, bounds, history>>

\* There is no Machine to remediate, or a check defers or refuses it; also a
\* pending topology upgrade and an in-place update elsewhere do.
NoRemediation ==
    /\ pc = "remediate"
    /\ pc' = "machines"
    /\ UNCHANGED <<objects, broken, spec, record, local, bounds, history>>

\* patchRemediationInProgress, before the deletion.
RecordRemediation ==
    /\ pc = "record"
    /\ LET r == [machine |-> target, count |-> RetryCount(target), started |-> FALSE,
                 after |-> Cardinality({m \in Machines : phase[m] # "absent"})]
       IN  record' = r /\ mem' = r
    /\ pc' = "delete"
    /\ UNCHANGED <<objects, broken, spec, view, etcd, target, bounds, history>>

\* The record cannot be patched: nothing is deleted in this reconcile.
RecordFails ==
    /\ pc = "record" /\ Fault
    /\ pc' = "patch" /\ target' = None
    /\ SameButFaults
    /\ UNCHANGED <<objects, broken, spec, record, view, mem, etcd, history>>

\* The Machine is deleted, which is the whole remediation; the answer may be lost.
DeleteUnhealthy ==
    /\ pc = "delete"
    /\ RequestDeletion(target, "remediation")
    /\ pending' = IF phase[target] # "running" THEN pending
                  ELSE (IF age[target] = "forgotten" THEN 0 ELSE depth[target]) + 1
    /\ NoFault \/ Fault
    /\ pc' = "patch" /\ target' = None
    /\ SameButFaults
    /\ UNCHANGED <<nodeRef, unhealthy, owner, domain, origin, age, broken, spec, record, view, mem, etcd,
                   depth, stable, rushed>>

\* Mistake: scaling goes on in the same reconcile after a deletion that failed.
DeleteFailsGoesOn ==
    /\ pc = "delete" /\ Fault
    /\ pc' = "machines"
    /\ SameButFaults
    /\ UNCHANGED <<objects, broken, spec, record, local, history>>

DeleteFails ==
    /\ pc = "delete" /\ Fault
    /\ pc' = "patch" /\ target' = None
    /\ SameButFaults
    /\ UNCHANGED <<objects, broken, spec, record, view, mem, etcd, history>>

\* scaleUpControlPlane: bootControlPlane creates a Machine, with the remediation
\* it completes recorded on it.
ScaleUp ==
    /\ pc = "machines" /\ MayScaleUp
    /\ \E m \in Machines :
         /\ phase[m] = "absent" /\ \A n \in 1..(m - 1) : phase[n] # "absent"
         /\ phase' = [phase EXCEPT ![m] = "running"]
         /\ \E d \in NextFailureDomainForScaleUp : domain' = [domain EXCEPT ![m] = d]
         /\ origin' = [origin EXCEPT ![m] = mem]
         /\ depth' = [depth EXCEPT ![m] = pending]
    /\ pending' = 0
    /\ rushed' = (rushed \/ \E m \in Kept : phase[m] = "deleting" /\ by[m] = "remediation")
    /\ pc' = "clear"
    /\ UNCHANGED <<nodeRef, unhealthy, owner, age, broken, spec, record, local, bounds, by, stable>>

\* clearRemediationInProgress, right after the creation; the patch may fail.
ClearRecord ==
    /\ pc = "clear"
    /\ \/ mem = NoRecord /\ NoFault /\ UNCHANGED <<record, mem>>
       \/ mem # NoRecord /\ record' = NoRecord /\ mem' = NoRecord /\ NoFault
       \/ mem # NoRecord /\ Fault /\ UNCHANGED <<record, mem>>
    /\ pc' = "patch"
    /\ SameButFaults
    /\ UNCHANGED <<objects, broken, spec, view, etcd, target, history>>

\* scaleDownControlPlane: one Machine is deleted; the answer may be lost.
ScaleDown ==
    /\ pc = "machines"
    /\ \E m \in Victims : RequestDeletion(m, "scaling")
    /\ NoFault \/ Fault
    /\ pc' = "patch"
    /\ SameButFaults
    /\ UNCHANGED <<nodeRef, unhealthy, owner, domain, origin, age, broken, spec, record, local,
                   depth, pending, stable, rushed>>

\* Nothing to do, or held by the preflight checks, or a call failed.
NoScaling ==
    /\ pc = "machines"
    /\ IF (Picked # {} /\ Victims = Picked) \/ (MayScaleUp /\ \E m \in Machines : phase[m] = "absent")
       THEN Fault ELSE NoFault
    /\ pc' = "patch"
    /\ SameButFaults
    /\ UNCHANGED <<objects, broken, spec, record, local, history>>

\* The deferred patch of Reconcile.
Patch ==
    /\ pc = "patch"
    /\ \/ record' = mem /\ NoFault
       \/ record' = record /\ Fault
    /\ pc' = "idle" /\ etcd' = NoEtcd /\ mem' = NoRecord /\ stable' = TRUE
    /\ SameButFaults
    /\ UNCHANGED <<objects, broken, spec, view, target, by, depth, pending, rushed>>

\* The manager dies, and starts again with a new cache.
Crash ==
    /\ pc # "idle" /\ Fault
    /\ pc' = "idle" /\ view' = Current /\ mem' = NoRecord /\ etcd' = NoEtcd /\ target' = None
    /\ stable' = TRUE
    /\ SameButFaults
    /\ UNCHANGED <<objects, broken, spec, record, by, depth, pending, rushed>>
-----------------------------------------------------------------------------
Reconciler ==
    \/ Begin \/ CheckEtcd \/ Sweep \/ StartRemediation \/ NoRemediation
    \/ RecordRemediation \/ RecordFails \/ DeleteUnhealthy \/ DeleteFails
    \/ ScaleUp \/ ClearRecord \/ ScaleDown \/ NoScaling \/ Patch

Environment ==
    \/ Edit \/ StartTimeout
    \/ \E m \in Machines : \/ Break(m) \/ Join(m) \/ FindUnhealthy(m) \/ FindHealthy(m)
                          \/ Delete(m) \/ Gone(m) \/ Age(m)

Next == Reconciler \/ Crash \/ Environment

Spec == Init /\ [][Next]_vars

\* The workqueue retries, nodes that can join do, Machines whose hook is released
\* go away, and time passes between reconciles.
Fairness ==
    /\ WF_vars(Reconciler) /\ SF_vars(StartTimeout)
    /\ \A m \in Machines : WF_vars(Join(m)) /\ WF_vars(Gone(m))

FairSpec == Spec /\ Fairness

-----------------------------------------------------------------------------
(* Properties *)

\* reconcileRemediationAndMachines: the controller deletes no Machine while one it
\* deleted before, for whichever reason, is still on its way out.
OneDeletionAtATime ==
    \A m, n \in Machines :
        /\ phase[m] = "deleting" /\ by[m] \in {"remediation", "scaling"}
        /\ phase[n] = "deleting" /\ by[n] \in {"remediation", "scaling"}
        => m = n

\* patchRemediationInProgress: no second Machine is deleted by remediation while
\* one is on its way out, although the list of Machines may not show it yet; unless
\* such a list had a Machine created meanwhile, which completes the remediation.
OneRemediationAtATime ==
    ~rushed => \A m, n \in Machines :
        /\ phase[m] = "deleting" /\ by[m] = "remediation"
        /\ phase[n] = "deleting" /\ by[n] = "remediation"
        => m = n

\* checkRemediationRetryLimits: a Machine that always fails is not replaced
\* forever.  No Machine stands at the end of more than MaxRetry + 1 remediations
\* in a row, nor does the one about to be created, whatever crashed or failed
\* between them.
RetriesBounded == pending <= MaxRetry + 1 /\ \A m \in Machines : depth[m] <= MaxRetry + 1

\* What is alive, on its way out and due, in the terms of the abstract specification.
Remediation ==
    INSTANCE Remediations WITH First <- 1..Initial, Repaired <- Replacements,
        alive <- {m \in Machines : phase[m] = "running"},
        leaving <- {m \in Machines : phase[m] = "deleting" /\ by[m] = "remediation"},
        chain <- depth, owed <- pending, hasty <- rushed

\* reconcileRemediationInProgress: every step is one of the abstract specification: a
\* Machine is remediated only when the one before is replaced or given up, and given up
\* only once it is gone, although the record that ensures it is written and dropped in
\* steps of their own, each of which may fail or be the last before a crash.
ImplementsRemediations == Remediation!Spec

\* Every deletion of the controller, remediation, scale-down or rollout, leaves
\* etcd with a majority, when nothing happened to etcd since the health check.
DeletionsKeepQuorum ==
    [][\A m \in Machines :
         by'[m] \in {"remediation", "scaling"} /\ by[m] = "none" /\ stable
           => HasMajority(voters \ {m}, up)]_vars

\* NextFailureDomainForScaleUp and MachineInFailureDomainWithMostMachines: "the
\* machines end up evenly spread once a rollout completes" (controlplane.go), and
\* after a scale operation, also when a domain is gone and after crashes.  Where a
\* user or a MachineHealthCheck picks the Machine to go, spreading comes second,
\* unless the user picks one that goes first anyway.
EvenlySpread ==
    /\ events = 0 /\ \A m \in ToDelete : domain[m] \notin FailureDomains
    /\ \A m \in Existing : phase[m] = "running" /\ m \notin outdated
    /\ Cardinality(Existing) = replicas
    => \A d, e \in FailureDomains : Count(d, Existing) <= Count(e, Existing) + 1

\* With finitely many faults, edits, deletions and verdicts, and no node breaking,
\* the control plane ends up with the Machines it wants, all up to date, and no
\* remediation waiting, unless users deleted the last etcd member.
Converges ==
    <>[](\/ voters = {}
         \/ /\ Cardinality(Existing) = replicas /\ Existing \subseteq nodeRef
            /\ OnDelete \/ Existing \cap outdated = {}
            /\ record = NoRecord)
=============================================================================
