------------------------------ MODULE Bootstrap ------------------------------
(***************************************************************************)
(* Creation of the first control plane machine and the Talos bootstrap     *)
(* request that founds the etcd cluster (controllers/bootstrap.go, with    *)
(* the creation of machines in reconcileMachines and the status that the   *)
(* deferred patch of Reconcile persists).                                  *)
(*                                                                         *)
(* A reconcile reads the TalosControlPlane from the API server and the     *)
(* Machines from an informer cache, asks one node after the other for etcd *)
(* data, and writes what it recorded back only at its end, so a crash or a *)
(* failed patch loses it after the bootstrap request was sent.  Machines   *)
(* are numbered in the order of creation.  An etcd cluster is named after  *)
(* the machine that founded it.  A remediation before initialization       *)
(* (remediationBeforeInitialization in controllers/remediation.go) precedes*)
(* the bootstrap in the same reconcile; the ones after it, rollout and     *)
(* scale-down are in ControlPlane.  Users delete Machines at any time.     *)
(***************************************************************************)
EXTENDS Naturals, FiniteSets

CONSTANTS
    MaxMachines,  \* bound: machines ever created
    Replicas,     \* spec.replicas
    StaleCache,   \* a reconcile may see the Machines of the previous reconcile
    Checked,      \* Machines a MachineHealthCheck may find unhealthy
    MaxEvents,    \* bound: deletions by users, verdicts of the MachineHealthCheck and
                  \* reconciles with an outdated list
    MaxFaults     \* bound: crashes, failed patches and lost or failed calls

ASSUME BootstrapConstants ==
    /\ MaxMachines \in Nat /\ Replicas \in Nat \ {0} /\ StaleCache \in BOOLEAN
    /\ Checked \subseteq 1..MaxMachines /\ MaxEvents \in Nat /\ MaxFaults \in Nat

Machines == 1..MaxMachines
None == 0

VARIABLES
    phase,      \* Machine objects: "absent", "running", "deleting" or "gone"
    addressed,  \* Machines that report an address
    nodeRef,    \* Machines with a node
    flagged,    \* Machines a MachineHealthCheck wants remediated
    view,       \* the reconcile's list of Machines: the four above
    accepted,   \* nodes that accepted a bootstrap request
    data,       \* the etcd cluster a node holds data of, or None
    status,     \* persisted status of the TalosControlPlane
    mem,        \* the running reconcile's copy of it
    pc, target, remaining, unknown,
    events, faults,
    \* history, read by the properties only
    meddled,    \* a user deleted a Machine
    lagged      \* a reconcile saw an outdated list

objects == <<phase, addressed, nodeRef, flagged>>
nodes == <<accepted, data>>
bounds == <<events, faults, meddled, lagged>>
vars == <<objects, view, nodes, status, mem, pc, target, remaining, unknown, bounds>>

Status == {s \in [bootstrapped : BOOLEAN, machine : Machines \cup {None}, initialized : BOOLEAN] :
             s.machine # None => s.bootstrapped}
NoStatus == [bootstrapped |-> FALSE, machine |-> None, initialized |-> FALSE]
Phases == {"absent", "running", "deleting", "gone"}
View == [phase : [Machines -> Phases], addressed : SUBSET Machines, nodeRef : SUBSET Machines,
         flagged : SUBSET Machines]
Current == [phase |-> phase, addressed |-> addressed, nodeRef |-> nodeRef, flagged |-> flagged]

TypeOK ==
    /\ phase \in [Machines -> Phases]
    /\ addressed \subseteq Machines /\ nodeRef \subseteq Machines /\ flagged \subseteq Machines
    /\ view \in View
    /\ accepted \subseteq Machines /\ data \in [Machines -> Machines \cup {None}]
    /\ status \in Status /\ mem \in Status
    /\ pc \in {"idle", "remediate", "delete", "route", "release", "ask", "send", "scale", "status",
               "patch"}
    /\ target \in IF pc = "delete" THEN Machines ELSE {None}
    /\ remaining \subseteq Machines /\ unknown \in BOOLEAN
    /\ events \in Nat /\ faults \in Nat /\ meddled \in BOOLEAN /\ lagged \in BOOLEAN

Init ==
    /\ phase = [m \in Machines |-> "absent"]
    /\ addressed = {} /\ nodeRef = {} /\ flagged = {} /\ view = Current
    /\ accepted = {} /\ data = [m \in Machines |-> None]
    /\ status = NoStatus /\ mem = NoStatus
    /\ pc = "idle" /\ target = None /\ remaining = {} /\ unknown = FALSE
    /\ events = 0 /\ faults = 0 /\ meddled = FALSE /\ lagged = FALSE

Exists(m) == phase[m] \in {"running", "deleting"}

Fault == faults < MaxFaults /\ faults' = faults + 1
NoFault == faults' = faults

-----------------------------------------------------------------------------
(* External: infrastructure, nodes, etcd, users *)

ReportAddress(m) ==
    /\ Exists(m) /\ m \notin addressed
    /\ addressed' = addressed \cup {m}
    /\ UNCHANGED <<phase, nodeRef, flagged, view, nodes, status, mem, pc, target, remaining,
                   unknown, bounds>>

\* A bootstrapped node founds its cluster, some time after it took the request.
StartEtcd(m) ==
    /\ Exists(m) /\ m \in accepted /\ data[m] = None
    /\ data' = [data EXCEPT ![m] = m]
    /\ UNCHANGED <<objects, view, accepted, status, mem, pc, target, remaining, unknown, bounds>>

\* Any other node joins the cluster of a node it finds.
JoinEtcd(m) ==
    /\ Exists(m) /\ m \in addressed \ accepted /\ data[m] = None
    /\ \E n \in Machines : Exists(n) /\ data[n] # None /\ data' = [data EXCEPT ![m] = data[n]]
    /\ UNCHANGED <<objects, view, accepted, status, mem, pc, target, remaining, unknown, bounds>>

RegisterNode(m) ==
    /\ phase[m] = "running" /\ data[m] # None /\ m \notin nodeRef
    /\ nodeRef' = nodeRef \cup {m}
    /\ UNCHANGED <<phase, addressed, flagged, view, nodes, status, mem, pc, target, remaining,
                   unknown, bounds>>

Delete(m) ==
    /\ phase[m] = "running" /\ events < MaxEvents
    /\ phase' = [phase EXCEPT ![m] = "deleting"]
    /\ events' = events + 1 /\ meddled' = TRUE /\ UNCHANGED lagged
    /\ UNCHANGED <<addressed, nodeRef, flagged, view, nodes, status, mem, pc, target, remaining,
                   unknown, faults>>

\* The MachineHealthCheck leaves a Machine to its owner to remediate, for instance
\* one whose node does not come up in time.
FindUnhealthy(m) ==
    /\ phase[m] = "running" /\ m \in Checked \ flagged /\ events < MaxEvents
    /\ flagged' = flagged \cup {m} /\ events' = events + 1
    /\ UNCHANGED <<phase, addressed, nodeRef, view, nodes, status, mem, pc, target, remaining,
                   unknown, faults, meddled, lagged>>

\* It finds a Machine with a node healthy again.
FindHealthy(m) ==
    /\ phase[m] = "running" /\ m \in flagged \cap nodeRef
    /\ flagged' = flagged \ {m}
    /\ UNCHANGED <<phase, addressed, nodeRef, view, nodes, status, mem, pc, target, remaining,
                   unknown, bounds>>

Remove(m) ==
    /\ phase[m] = "deleting"
    /\ phase' = [phase EXCEPT ![m] = "gone"]
    /\ addressed' = addressed \ {m} /\ nodeRef' = nodeRef \ {m} /\ flagged' = flagged \ {m}
    /\ accepted' = accepted \ {m} /\ data' = [data EXCEPT ![m] = None]
    /\ UNCHANGED <<view, status, mem, pc, target, remaining, unknown, bounds>>

-----------------------------------------------------------------------------
(* What the reconcile reads off its list of Machines *)

Listed == {m \in Machines : view.phase[m] \in {"running", "deleting"}}
Kept == {m \in Machines : view.phase[m] = "running"}

\* bootstrapCandidates, oldest first.
BootstrapCandidates == Kept \cap view.addressed
OldestOf(S) == CHOOSE m \in S : \A n \in S : m <= n

-----------------------------------------------------------------------------
(* The reconciler *)

\* The TalosControlPlane is read from the API server, the Machines from the cache.
Begin ==
    /\ pc = "idle"
    /\ \/ view' = Current /\ UNCHANGED <<events, lagged>>
       \/ /\ StaleCache /\ view # Current /\ events < MaxEvents
          /\ events' = events + 1 /\ lagged' = TRUE /\ UNCHANGED view
    /\ mem' = status
    /\ pc' = "remediate"
    /\ UNCHANGED <<objects, nodes, status, target, remaining, unknown, faults, meddled>>

-----------------------------------------------------------------------------
(* reconcileUnhealthyMachines before initialization *)

\* remediationBeforeInitialization, with etcdDataHolder: of a control plane that
\* was bootstrapped, only a Machine that never joined goes, and only when another
\* one that stays says it holds etcd data.
RemediationBeforeInitialization(m) ==
    mem.bootstrapped =>
        /\ m \notin view.nodeRef
        /\ \E holder \in Kept \ {m} : Exists(holder) /\ data[holder] # None

\* machineToBeRemediated picks a Machine without a node first; it passes the checks.
StartRemediation ==
    /\ pc = "remediate" /\ ~mem.initialized
    /\ LET candidates == view.flagged \cap Listed
           first == IF candidates \subseteq view.nodeRef THEN candidates
                                                       ELSE candidates \ view.nodeRef
       IN  \E m \in first \cap Kept : RemediationBeforeInitialization(m) /\ target' = m
    /\ pc' = "delete"
    /\ UNCHANGED <<objects, view, nodes, status, mem, remaining, unknown, bounds>>

\* There is no such Machine, or a check defers it: also a machine that cannot be
\* asked, the retry limits and an earlier remediation do.
NoRemediation ==
    /\ pc = "remediate"
    /\ pc' = "route"
    /\ UNCHANGED <<objects, view, nodes, status, mem, target, remaining, unknown, bounds>>

\* The Machine is deleted, or that fails; reconcileMachines is skipped.
DeleteUnhealthy ==
    /\ pc = "delete"
    /\ \/ /\ phase' = [phase EXCEPT ![target] = IF @ = "running" THEN "deleting" ELSE @]
          /\ NoFault
       \/ Fault /\ UNCHANGED phase
    /\ pc' = "status" /\ target' = None
    /\ UNCHANGED <<addressed, nodeRef, flagged, view, nodes, status, mem, remaining, unknown,
                   events, meddled, lagged>>

-----------------------------------------------------------------------------
(* reconcileBootstrap and the rest of the reconcile *)

\* Mistake: the lock outlives the machine it names.
LockNeverReleased == mem.bootstrapped

\* The lock of status.bootstrappedMachine is held: nothing to bootstrap.
LockHeld ==
    mem.bootstrapped /\ (mem.initialized \/ mem.machine = None \/ mem.machine \in Listed)

\* releaseBootstrap waits for addresses; bootstrapControlPlane waits for a candidate.
WaitingForAddress ==
    \/ mem.bootstrapped /\ ~(Kept \subseteq view.addressed)
    \/ ~mem.bootstrapped /\ BootstrapCandidates = {}

\* Go through the nodes given, asking each for etcd data.
StartAsking(step) == pc' = step /\ remaining' = BootstrapCandidates /\ unknown' = FALSE

\* Mistake: an initialized control plane is bootstrapped again.
ReconcileInitialized ==
    /\ pc = "route"
    /\ LET held == mem.bootstrapped /\ (mem.machine = None \/ mem.machine \in Listed)
       IN  \/ /\ Listed = {} \/ held
              /\ pc' = "scale" /\ UNCHANGED <<remaining, unknown>>
           \/ /\ Listed # {} /\ ~held
              /\ IF WaitingForAddress THEN pc' = "status" /\ UNCHANGED <<remaining, unknown>>
                 ELSE StartAsking(IF mem.bootstrapped THEN "release" ELSE "ask")
    /\ UNCHANGED <<objects, view, nodes, status, mem, target, bounds>>

\* reconcileBootstrap up to the first call to a node.
ReconcileBootstrap ==
    /\ pc = "route"
    /\ \/ /\ Listed = {} \/ LockHeld
          /\ pc' = "scale" /\ UNCHANGED <<mem, remaining, unknown>>
       \/ /\ Listed # {} /\ ~mem.bootstrapped /\ mem.initialized
          /\ mem' = [mem EXCEPT !.bootstrapped = TRUE]
          /\ pc' = "scale" /\ UNCHANGED <<remaining, unknown>>
       \/ /\ Listed # {} /\ ~LockHeld /\ ~mem.initialized
          /\ IF WaitingForAddress THEN pc' = "status" /\ UNCHANGED <<remaining, unknown>>
             ELSE StartAsking(IF mem.bootstrapped THEN "release" ELSE "ask")
          /\ UNCHANGED mem
    /\ UNCHANGED <<objects, view, nodes, status, target, bounds>>

\* recordBootstrapped, in memory.
RecordBootstrapped(m) == mem' = [mem EXCEPT !.bootstrapped = TRUE, !.machine = m]

\* etcdDataHolderAmong asks the next node.  The first holder found is recorded;
\* after a release that ends reconcileBootstrap without a new bootstrap.
AskNode ==
    /\ pc \in {"release", "ask"} /\ remaining # {}
    /\ LET m == OldestOf(remaining)
       IN  \/ /\ Exists(m) /\ data[m] # None
              /\ RecordBootstrapped(m) /\ pc' = "scale" /\ remaining' = {}
              /\ NoFault /\ UNCHANGED unknown
           \/ /\ Exists(m) /\ data[m] = None
              /\ remaining' = remaining \ {m}
              /\ NoFault /\ UNCHANGED <<mem, pc, unknown>>
           \/ /\ IF Exists(m) THEN Fault ELSE NoFault
              /\ remaining' = remaining \ {m} /\ unknown' = TRUE
              /\ UNCHANGED <<mem, pc>>
    /\ UNCHANGED <<objects, view, nodes, status, target, events, meddled, lagged>>

\* Mistake: the release keeps the name of the machine.
NoHolderKeepsName ==
    /\ pc \in {"release", "ask"} /\ remaining = {}
    /\ IF unknown THEN pc' = "status" /\ UNCHANGED <<mem, remaining, unknown>>
       ELSE IF pc = "ask" THEN pc' = "send" /\ UNCHANGED <<mem, remaining, unknown>>
       ELSE /\ mem' = [mem EXCEPT !.bootstrapped = FALSE]
            /\ IF BootstrapCandidates = {} THEN pc' = "status" /\ UNCHANGED <<remaining, unknown>>
               ELSE StartAsking("ask")
    /\ UNCHANGED <<objects, view, nodes, status, target, bounds>>

\* Every node was asked and no holder found: hold when one did not answer, else
\* clear the record and bootstrap.
NoHolder ==
    /\ pc \in {"release", "ask"} /\ remaining = {}
    /\ IF unknown THEN pc' = "status" /\ UNCHANGED <<mem, remaining, unknown>>
       ELSE IF pc = "ask" THEN pc' = "send" /\ UNCHANGED <<mem, remaining, unknown>>
       ELSE /\ mem' = [mem EXCEPT !.bootstrapped = FALSE, !.machine = None]
            /\ IF BootstrapCandidates = {} THEN pc' = "status" /\ UNCHANGED <<remaining, unknown>>
               ELSE StartAsking("ask")
    /\ UNCHANGED <<objects, view, nodes, status, target, bounds>>

\* Mistake: the machine is recorded whether or not it took the request.
SendRecordsAlways ==
    /\ pc = "send"
    /\ LET m == OldestOf(BootstrapCandidates)
       IN  /\ RecordBootstrapped(m) /\ pc' = "scale"
           /\ \/ /\ Exists(m) /\ NoFault
                 /\ accepted' = IF data[m] = None THEN accepted \cup {m} ELSE accepted
              \/ Fault /\ UNCHANGED accepted
    /\ UNCHANGED <<objects, view, data, status, target, remaining, unknown, events, meddled,
                   lagged>>

\* bootstrapMachine: the request reaches the node and the answer comes back, or
\* only the former, or neither.  A bootstrapped node answers AlreadyExists.
SendBootstrap ==
    /\ pc = "send"
    /\ LET m == OldestOf(BootstrapCandidates)
       IN  \/ /\ Exists(m)
              /\ accepted' = IF data[m] = None THEN accepted \cup {m} ELSE accepted
              /\ \/ RecordBootstrapped(m) /\ pc' = "scale" /\ NoFault
                 \/ Fault /\ pc' = "status" /\ UNCHANGED mem
           \/ /\ IF Exists(m) THEN Fault ELSE NoFault
              /\ pc' = "status"
              /\ UNCHANGED <<mem, accepted>>
    /\ UNCHANGED <<objects, view, data, status, target, remaining, unknown, events, meddled,
                   lagged>>

\* Mistake: machines are added before the first one has a node and etcd.
PreflightAlwaysOK == TRUE

\* preflightChecks of a scale-up, as far as it depends on the state kept here: no
\* deletion in flight, every machine with a node, and one etcd with all of them.
PreflightOK ==
    /\ Listed = Kept /\ Listed \subseteq view.nodeRef
    /\ \A m, n \in Listed : data[m] = data[n] /\ data[m] # None

\* The rest of reconcileMachines: the first machine is created without a check,
\* any other only after the preflight checks, which may fail for other reasons.
\* bootControlPlane may fail, and then leaves no Machine.
CreateMachine ==
    /\ pc = "scale"
    /\ Cardinality(Listed) < Replicas
    /\ Listed # {} => PreflightOK
    /\ \E m \in Machines :
         /\ phase[m] = "absent" /\ \A n \in 1..(m - 1) : phase[n] # "absent"
         /\ phase' = [phase EXCEPT ![m] = "running"]
    /\ pc' = "status"
    /\ UNCHANGED <<addressed, nodeRef, flagged, view, nodes, status, mem, target, remaining,
                   unknown, bounds>>

NoCreate ==
    /\ pc = "scale"
    /\ IF Listed = {} /\ \E m \in Machines : phase[m] = "absent" THEN Fault ELSE NoFault
    /\ pc' = "status"
    /\ UNCHANGED <<objects, view, nodes, status, mem, target, remaining, unknown, events,
                   meddled, lagged>>

\* Mistake: a Machine that was handed over for remediation does not count.
InitializationOnHoldByDeletion == Cardinality(Listed) = 1 /\ Kept = {}

\* initializationOnHold, on the Machines listed once more.
InitializationOnHold == Cardinality(Listed) = 1 /\ Kept \subseteq view.flagged

\* updateStatus: the API server answers through the control plane endpoint, which
\* takes a node that runs etcd.
ProbeAnswers ==
    /\ pc = "status"
    /\ mem.initialized \/ ~InitializationOnHold
    /\ \E m \in Machines : Exists(m) /\ data[m] # None
    /\ mem' = [mem EXCEPT !.initialized = TRUE]
    /\ pc' = "patch"
    /\ UNCHANGED <<objects, view, nodes, status, target, remaining, unknown, bounds>>

\* updateStatus without an answer.
ProbeSkipped ==
    /\ pc = "status"
    /\ pc' = "patch"
    /\ UNCHANGED <<objects, view, nodes, status, mem, target, remaining, unknown, bounds>>

\* updateStatus lists the Machines again: informer events may have come in.
Relist ==
    /\ pc = "status" /\ view # Current
    /\ view' = Current
    /\ UNCHANGED <<objects, nodes, status, mem, pc, target, remaining, unknown, bounds>>

\* The deferred patch persists what the reconcile recorded.
PatchStatus ==
    /\ pc = "patch"
    /\ status' = mem
    /\ pc' = "idle"
    /\ UNCHANGED <<objects, view, nodes, target, mem, remaining, unknown, bounds>>

\* The patch fails: what was recorded in memory is lost.
PatchFails ==
    /\ pc = "patch" /\ Fault
    /\ pc' = "idle" /\ mem' = status
    /\ UNCHANGED <<objects, view, nodes, status, target, remaining, unknown, events, meddled,
                   lagged>>

\* The manager dies, and starts again with a new cache.
Crash ==
    /\ pc # "idle" /\ Fault
    /\ pc' = "idle" /\ mem' = status /\ target' = None /\ remaining' = {} /\ unknown' = FALSE
    /\ view' = Current
    /\ UNCHANGED <<objects, nodes, status, events, meddled, lagged>>

-----------------------------------------------------------------------------
Reconciler ==
    \/ Begin \/ StartRemediation \/ NoRemediation \/ DeleteUnhealthy \/ ReconcileBootstrap
    \/ AskNode \/ NoHolder \/ SendBootstrap
    \/ CreateMachine \/ NoCreate \/ ProbeAnswers \/ ProbeSkipped \/ Relist \/ PatchStatus
    \/ PatchFails

Environment == \E m \in Machines :
    ReportAddress(m) \/ StartEtcd(m) \/ JoinEtcd(m) \/ RegisterNode(m)
    \/ FindUnhealthy(m) \/ FindHealthy(m) \/ Delete(m) \/ Remove(m)

Next == Reconciler \/ Crash \/ Environment

Spec == Init /\ [][Next]_vars

\* The workqueue retries, infrastructure and nodes make progress, the
\* MachineHealthCheck ends its verdict on a machine that got its node, and an API
\* server that runs answers one of the probes of an endless sequence of them.
Fairness ==
    /\ WF_vars(Reconciler) /\ SF_vars(ProbeAnswers)
    /\ \A m \in Machines : /\ WF_vars(ReportAddress(m)) /\ WF_vars(StartEtcd(m))
                           /\ WF_vars(RegisterNode(m)) /\ WF_vars(FindHealthy(m))
                           /\ WF_vars(Remove(m))

FairSpec == Spec /\ Fairness

-----------------------------------------------------------------------------
(* Properties *)

\* "two bootstrapped machines are two etcd clusters" (bootstrap.go:63-64): the
\* machines that stay, those not being deleted, never hold data of different etcd
\* clusters, whatever answers, patches and manager processes were lost; nor when an
\* outdated list of Machines had the first machine created twice, as long as
\* nothing is lost and no Machine deleted besides.
KeptInOneCluster ==
    (lagged => faults = 0 /\ \A m \in Machines : phase[m] \in {"absent", "running"})
        => \A m, n \in Machines :
               phase[m] = "running" /\ phase[n] = "running" /\ data[m] # None /\ data[n] # None
                   => data[m] = data[n]

\* recordBootstrapped: for as long as it exists, the machine persisted as the
\* holder of the bootstrap lock holds etcd data or has accepted the request to
\* create it; otherwise the lock would keep every machine from being bootstrapped.
RecordedMachineHoldsEtcd ==
    status.machine # None /\ Exists(status.machine)
        => data[status.machine] # None \/ status.machine \in accepted

\* reconcileBootstrap: "an initialized control plane is never bootstrapped", also
\* not by a reconcile that started before, and not after its machines are gone.
InitializedNeverBootstrapped == [][status.initialized => accepted' \subseteq accepted]_vars

\* bootstrapControlPlane and releaseBootstrap: "no machine is bootstrapped while
\* another one cannot be asked: two bootstrapped machines are two etcd clusters".
\* No two etcd clusters exist side by side, deleting machines included.
OneEtcdCluster ==
    \A m, n \in Machines :
        Exists(m) /\ Exists(n) /\ data[m] # None /\ data[n] # None => data[m] = data[n]

\* remediationBeforeInitialization and initializationOnHold: no remediation takes the
\* etcd of a control plane that is recorded as bootstrapped or initialized.  Without
\* users deleting Machines, one that stays holds etcd data or accepted the request
\* to create it, also when one call, patch or manager was lost.  (Two lost records
\* in a row are not survived: "until a machine is bootstrapped, no etcd exists" is
\* then taken for granted with two Machines.)  An initialized control plane without
\* etcd would never be bootstrapped again.
EtcdOutlivesRemediation ==
    ~meddled /\ ~lagged /\ faults < 2 /\ (status.bootstrapped \/ status.initialized)
        => \E m \in Machines : phase[m] = "running" /\ (data[m] # None \/ m \in accepted)

\* The bootstrap is never stuck: with finitely many deletions and faults the
\* control plane is initialized in the end, whichever machine received the
\* request, went away, or was forgotten.
BootstrapCompletes == <>(status.initialized)
=============================================================================
