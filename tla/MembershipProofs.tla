-------------------------- MODULE MembershipProofs --------------------------
(***************************************************************************)
(* PreTerminate implements EtcdMembership: for every set of Machines, with *)
(* learners or without, with any lag of the cache, crashes, failed calls,  *)
(* escape hatches and teardowns.                                           *)
(***************************************************************************)
EXTENDS PreTerminateProofs

-----------------------------------------------------------------------------
(* The inductive invariant *)

\* The cache lags behind the Machines.  A hook stamped from an outdated cache onto
\* a Machine that is torn down already is stamped before the cache saw it deleted.
CacheLags ==
    \A m \in Machines :
        /\ cache.phase[m] \notin {"absent", "running"} => phase[m] \notin {"absent", "running"}
        /\ cache.phase[m] \in {"draining", "atHook"} /\ m \in torn => m \notin hook

\* Whoever is or was a member has joined, and a node joins once.
EverJoined == up \subseteq members /\ interceptable \subseteq joined \cap requested

\* The phase gate: the hook handler works on a Machine blocked on its hook.
Servicing == pc \in HookSteps => cache.phase[victim] = "atHook"

\* The member to remove is the victim's own, one of a Machine that is gone, or one
\* whose Machine has another host name.
TargetLeaving ==
    pc \in {"probe", "hold", "mark", "leave", "force"} =>
        /\ target = victim \/ target \notin Listed \/ target \in Misnamed
        /\ victim \in interceptable \cap members => target = victim

\* The handler releases the hook of a member only when it gives up on it, or takes
\* the Machine for no member because their host names differ.
Excuses(m, reason) == reason \in GivenUp \/ (m \in Misnamed /\ reason = "notMember")
ReleaseEarned == pc = "release" /\ victim \in interceptable \cap members => Excuses(victim, why)

\* A hook that is gone was released by the handler, which took the member out or has
\* an excuse, or was given up on; only the latter can happen before the cache sees
\* the deletion, and so only then can the hook be stamped again.
ReleaseAccounted ==
    \A m \in interceptable :
        /\ m \notin hook /\ (m \in members \/ cache.phase[m] = "running") => Excused(m)
        /\ m \in hook \cap torn => Excused(m)

Accounts ==
    /\ CacheLags /\ EverJoined /\ Servicing /\ TargetLeaving /\ ReleaseEarned
    /\ ReleaseAccounted /\ ResolvedBeforeTeardown

MembershipInv == DeletionInv /\ Accounts

-----------------------------------------------------------------------------
(* Every step keeps it *)

\* At first nothing is requested and no hook handler runs.
LEMMA MembershipInit == Init => MembershipInv
<1>. SUFFICES ASSUME Init PROVE MembershipInv
  OBVIOUS
<1>1. DeletionInv
  BY DeletionInvInductive
<1>2. Accounts
  BY DEF Init, Current, Accounts, CacheLags, EverJoined, Servicing, TargetLeaving, ReleaseEarned,
     ReleaseAccounted, ResolvedBeforeTeardown, members, requested, torn, HookSteps
<1>. QED BY <1>1, <1>2 DEF MembershipInv

\* ListMembers: whichever way identifyEtcdMember finds a member, it is the victim's
\* own or one that no listed machine has; and it finds the victim's if there is one.
LEMMA ListMembersTargets ==
  ASSUME TypeOK, Accounts, ListMembers
  PROVE  TargetLeaving' /\ ReleaseEarned'
<1>. DEFINE id == IdentifyEtcdMember(members, victim, Listed, Named, Matching)
<1>1. /\ UNCHANGED <<victim, cache, voters, learners, interceptable>>
      /\ Listed' = Listed /\ members' = members
  BY DEF ListMembers, GoRelease, etcd, Listed, members
<1>2. CASE ~id.known
  BY <1>2 DEF ListMembers, GoRelease, TargetLeaving, ReleaseEarned, Excuses, GivenUp
<1>. DEFINE found == id.member
<1>3. id.known =>
        /\ victim \in members /\ (victim \in Matching \/ victim \notin Named) => found = {victim}
        /\ victim \in Named \ Matching => found = {}
        /\ found \cap Listed \subseteq {victim} \cup (Named \ Matching)
  <2>1. IsFiniteSet(members)
    <3>1. members \in SUBSET Machines
      BY DEF TypeOK, members
    <3>. QED BY <3>1, MachinesAssumption, FS_Subset
  <2>2. Matching \in SUBSET Named
    BY SubsetsAssumption DEF Named, Matching
  <2>. QED BY <2>1, <2>2, IdentificationSound
<1>4. Named \ Matching \subseteq Misnamed
  BY DEF Named, Matching
<1>5. CASE id.known /\ id.member = {}
  <2>1. pc' = "release" /\ why' = "notMember"
    BY <1>5 DEF ListMembers, GoRelease
  <2>2. victim \in members => victim \in Misnamed
    BY <1>3, <1>4, <1>5
  <2>. QED BY <1>1, <2>1, <2>2 DEF TargetLeaving, ReleaseEarned, Excuses
<1>6. CASE id.known /\ id.member # {}
  <2>1. pc' = "probe" /\ target' = MinName(id.member)
    BY <1>6 DEF ListMembers, GoRelease
  <2>2. id.member \subseteq members /\ members \subseteq Machines
    BY IdentifiedMembers DEF TypeOK, members
  <2>3. target' \in id.member
    BY <1>6, <2>1, <2>2, MinNameType
  <2>4. /\ target' = victim \/ target' \notin Listed \/ target' \in Misnamed
        /\ victim \in members => target' = victim
    BY <1>3, <1>4, <1>6, <2>3
  <2>. QED BY <1>1, <2>1, <2>4 DEF TargetLeaving, ReleaseEarned
<1>. QED BY <1>2, <1>5, <1>6

\* The steps of the hook handler.
LEMMA HandlerMembership == ASSUME TypeOK, Accounts, Handler PROVE Accounts'
<1>. USE DEF objects, etcd, local, history, Excused, Excuses
<1>. DEFINE Quiet == UNCHANGED <<phase, hook, cache, voters, learners, up, joined,
                                 interceptable, outcome>>
<1>1. ASSUME Quiet, UNCHANGED victim, Servicing', TargetLeaving', ReleaseEarned'
      PROVE  Accounts'
  BY <1>1 DEF Accounts, CacheLags, EverJoined, ReleaseAccounted, ResolvedBeforeTeardown, members,
     requested, torn
<1>2. ASSUME Quiet, pc' = "audit" PROVE Accounts'
  BY <1>2 DEF Accounts, CacheLags, EverJoined, Servicing, TargetLeaving, ReleaseEarned,
     ReleaseAccounted, ResolvedBeforeTeardown, members, requested, torn, HookSteps
<1>3. CASE AnchorDeadline \/ SkipCleanup
  <2>1. Quiet /\ UNCHANGED victim /\ pc' \in {"decide", "release"} /\ pc \in HookSteps
    BY <1>3 DEF AnchorDeadline, SkipCleanup, GoRelease, HookSteps
  <2>2. pc' = "release" => why' \in GivenUp
    BY <1>3 DEF AnchorDeadline, SkipCleanup, GoRelease, GivenUp
  <2>3. Servicing' /\ TargetLeaving' /\ ReleaseEarned'
    BY <2>1, <2>2 DEF Accounts, Servicing, TargetLeaving, ReleaseEarned
  <2>. QED BY <1>1, <2>1, <2>3
<1>4. CASE PeerUnavailable \/ ForceFails
  <2>1. Quiet /\ pc \in HookSteps
    BY <1>4 DEF PeerUnavailable, ForceFails, HookSteps
  <2>2. CASE pc' = "audit"
    BY <1>2, <2>1, <2>2
  <2>3. CASE pc' # "audit"
    <3>1. pc' = "release" /\ why' \in GivenUp /\ UNCHANGED victim
      BY <1>4, <2>3 DEF PeerUnavailable, ForceFails, FailOpenOrRetry, LeaveHandler, GoRelease,
         GivenUp
    <3>2. Servicing' /\ TargetLeaving' /\ ReleaseEarned'
      BY <2>1, <3>1 DEF Accounts, Servicing, TargetLeaving, ReleaseEarned
    <3>. QED BY <1>1, <2>1, <3>1, <3>2
  <2>. QED BY <2>2, <2>3
<1>5. CASE ListMembers
  <2>1. Quiet /\ UNCHANGED victim /\ pc \in HookSteps
    BY <1>5 DEF ListMembers, GoRelease, HookSteps
  <2>2. Servicing'
    BY <2>1 DEF Accounts, Servicing
  <2>. QED BY <1>1, <1>5, <2>1, <2>2, ListMembersTargets
<1>6. CASE ProbeQuorum \/ MarkLeaving \/ LeaveFails
  <2>1. /\ Quiet /\ UNCHANGED <<victim, target>>
        /\ pc \in {"probe", "mark", "leave"} /\ pc' \in {"mark", "hold", "leave", "force"}
    BY <1>6 DEF ProbeQuorum, MarkLeaving, LeaveFails
  <2>2. Servicing' /\ TargetLeaving' /\ ReleaseEarned'
    BY <2>1 DEF Accounts, Servicing, TargetLeaving, ReleaseEarned, HookSteps, Listed, members
  <2>. QED BY <1>1, <2>1, <2>2
<1>7. CASE HoldForQuorum \/ PatchFails
  BY <1>2, <1>7 DEF HoldForQuorum, PatchFails, LeaveHandler
<1>8. CASE LeaveFromVictim
  <2>1. /\ UNCHANGED <<phase, hook, cache, joined, interceptable, outcome, victim>>
        /\ members' = members \ {victim} /\ up' = up \ {victim}
        /\ pc = "leave" /\ pc' \in {"release", "force"} /\ (pc' = "force" => target' = target)
    BY <1>8 DEF LeaveFromVictim, RemoveMember, GoRelease, members
  <2>. QED
    BY <2>1 DEF Accounts, CacheLags, EverJoined, Servicing, TargetLeaving, ReleaseEarned,
       ReleaseAccounted, ResolvedBeforeTeardown, requested, torn, HookSteps, Listed
<1>9. CASE ForceLeave
  <2>1. /\ UNCHANGED <<phase, hook, cache, joined, interceptable, outcome>>
        /\ members' = members \ {target} /\ up' = up \ {target}
        /\ pc = "force" /\ pc' \in {"release", "audit"}
        /\ pc' = "release" => victim' = victim
    BY <1>9 DEF ForceLeave, RemoveMember, GoRelease, FailOpenOrRetry, LeaveHandler, members
  <2>2. victim \in interceptable => victim \notin members'
    BY <2>1 DEF Accounts, TargetLeaving
  <2>. QED
    BY <2>1, <2>2 DEF Accounts, CacheLags, EverJoined, Servicing, TargetLeaving, ReleaseEarned,
       ReleaseAccounted, ResolvedBeforeTeardown, requested, torn, HookSteps
<1>10. CASE ReleaseHook
  <2>1. /\ UNCHANGED <<phase, cache, voters, learners, up, joined, interceptable>>
        /\ hook' = hook \ {victim} /\ pc = "release" /\ pc' = "audit"
        /\ outcome' = IF victim \in hook THEN [outcome EXCEPT ![victim] = why] ELSE outcome
    BY <1>10 DEF ReleaseHook, LeaveHandler
  <2>2. cache.phase[victim] = "atHook" /\ victim \in Machines
    BY <2>1 DEF Accounts, Servicing, TypeOK, HookSteps
  <2>3. victim \in hook => victim \notin torn
    BY <2>2 DEF Accounts, CacheLags
  <2>4. CacheLags' /\ EverJoined' /\ Servicing' /\ TargetLeaving' /\ ReleaseEarned'
    BY <2>1 DEF Accounts, CacheLags, EverJoined, Servicing, TargetLeaving, ReleaseEarned, members,
       requested, torn, HookSteps
  <2>5. \A m \in Machines : m # victim \/ victim \notin hook => outcome'[m] = outcome[m]
    BY <2>1 DEF TypeOK
  <2>6. victim \in hook => outcome'[victim] = why
    BY <2>1, <2>2 DEF TypeOK
  <2>7. ReleaseAccounted'
    BY <2>1, <2>2, <2>3, <2>5, <2>6
    DEF Accounts, ReleaseAccounted, ReleaseEarned, members, torn, TypeOK
  <2>8. ResolvedBeforeTeardown'
    BY <2>1, <2>2, <2>3, <2>5, <2>6
    DEF Accounts, ResolvedBeforeTeardown, members, torn, TypeOK
  <2>. QED BY <2>4, <2>7, <2>8 DEF Accounts
<1>. QED
  BY <1>3, <1>4, <1>5, <1>6, <1>7, <1>8, <1>9, <1>10 DEF Handler

\* The other steps of a reconcile.
LEMMA ReconcilerMembership ==
  ASSUME DeletionInv, Accounts, Reconciler \/ Crash \/ Sync
  PROVE  Accounts'
<1>. USE DEF objects, etcd, local, history, DeletionInv, Excused
<1>. DEFINE Quiet == UNCHANGED <<phase, hook, voters, learners, up, joined, interceptable,
                                 outcome>>
<1>1. ASSUME Quiet, pc' \notin HookSteps, cache'.phase = cache.phase \/ cache'.phase = phase
      PROVE  Accounts'
  <2>1. CacheLags' /\ ReleaseAccounted'
    BY <1>1 DEF Accounts, CacheLags, ReleaseAccounted, EverJoined, members, requested, torn
  <2>. QED
    BY <1>1, <2>1 DEF Accounts, EverJoined, Servicing, TargetLeaving, ReleaseEarned,
       ResolvedBeforeTeardown, members, requested, torn, HookSteps
<1>2. CASE Begin
  <2>1. /\ UNCHANGED <<phase, cache, voters, learners, up, joined, interceptable, outcome>>
        /\ hook \subseteq hook'
        /\ hook' \subseteq hook \cup {m \in Machines : cache.phase[m] = "running"}
        /\ victim' = Serviced /\ pc' = IF Serviced = None THEN "audit" ELSE "anchor"
    BY <1>2 DEF Begin, ToStamp, Listed
  <2>2. Servicing'
    <3>1. Serviced # None => cache.phase[Serviced] = "atHook"
      BY DEF Serviced
    <3>. QED BY <2>1, <3>1 DEF Servicing, HookSteps
  <2>3. CacheLags'
    BY <2>1 DEF Accounts, CacheLags, torn
  <2>4. ReleaseAccounted'
    BY <2>1 DEF Accounts, ReleaseAccounted, members, torn
  <2>. QED
    BY <2>1, <2>2, <2>3, <2>4 DEF Accounts, EverJoined, TargetLeaving, ReleaseEarned,
       ResolvedBeforeTeardown, members, requested
<1>3. CASE Handler
  BY <1>3, HandlerMembership
<1>4. CASE EndReconcile \/ TeardownFails \/ EndTeardown \/ Crash
  BY <1>1, <1>4 DEF EndReconcile, TeardownFails, EndTeardown, Crash, Inform, Current, HookSteps
<1>5. CASE Sync \/ BeginTeardown
  BY <1>1, <1>5 DEF Sync, BeginTeardown, Current, HookSteps
<1>6. ASSUME NEW o \in Machines, AuditRemove(o) PROVE Accounts'
  <2>1. /\ UNCHANGED <<phase, hook, cache, joined, interceptable, outcome>>
        /\ members' = members \ {o} /\ up' = up \ {o} /\ pc' = "audit"
    BY <1>6 DEF AuditRemove, RemoveMember, members
  <2>. QED
    BY <2>1 DEF Accounts, CacheLags, EverJoined, Servicing, TargetLeaving, ReleaseEarned,
       ReleaseAccounted, ResolvedBeforeTeardown, requested, torn, HookSteps
<1>7. ASSUME NEW m \in Machines, TeardownMachine(m) PROVE Accounts'
  <2>1. /\ UNCHANGED <<voters, learners, up, joined>>
        /\ hook' \in {hook, hook \ {m}} /\ pc' \notin HookSteps
        /\ outcome' = IF m \in hook \ hook' THEN [outcome EXCEPT ![m] = "teardown"] ELSE outcome
        /\ \/ phase' = phase /\ interceptable' = interceptable
           \/ /\ phase[m] = "running" /\ phase' = [phase EXCEPT ![m] = "draining"]
              /\ \/ interceptable' = interceptable
                 \/ interceptable' = interceptable \cup {m} /\ m \in hook' \cap members
        /\ cache'.phase = cache.phase \/ cache'.phase = phase'
    BY <1>7 DEF TeardownMachine, RequestDeletion, Inform, Current, HookSteps
  <2>2. /\ torn' = torn /\ requested \subseteq requested'
        /\ phase[m] = "running" => m \notin torn
        /\ m \in interceptable' \ interceptable => m \in requested' /\ m \in hook' \cap members
    BY <2>1 DEF torn, requested, TypeOK
  <2>3. \A n \in Machines :
          outcome'[n] = IF n = m /\ m \in hook \ hook' THEN "teardown" ELSE outcome[n]
    BY <2>1 DEF TypeOK
  <2>4. CacheLags'
    BY <2>1, <2>2 DEF Accounts, CacheLags, TypeOK, torn
  <2>5. ReleaseAccounted'
    BY <2>1, <2>2, <2>3 DEF Accounts, ReleaseAccounted, EverJoined, members, requested, GivenUp,
       TypeOK
  <2>6. ResolvedBeforeTeardown'
    BY <2>1, <2>2, <2>3 DEF Accounts, ResolvedBeforeTeardown, members, torn, GivenUp, TypeOK
  <2>7. EverJoined'
    BY <2>1, <2>2 DEF Accounts, EverJoined, MembersKnown, members
  <2>. QED
    BY <2>1, <2>4, <2>5, <2>6, <2>7 DEF Accounts, Servicing, TargetLeaving, ReleaseEarned,
       HookSteps
<1>8. ASSUME NEW m \in Machines, Create(m) PROVE Accounts'
  <2>1. /\ UNCHANGED <<voters, learners, up, joined, interceptable, outcome>>
        /\ phase[m] = "absent" /\ phase' = [phase EXCEPT ![m] = "running"]
        /\ hook' = hook \cup {m} /\ pc' = "idle"
        /\ cache'.phase = cache.phase \/ cache'.phase = phase'
    BY <1>8 DEF Create, Inform, Current
  <2>2. torn' = torn /\ requested' = requested /\ m \notin requested
    BY <2>1 DEF torn, requested, TypeOK
  <2>3. m \notin interceptable /\ cache.phase[m] = "absent"
    BY <2>1, <2>2 DEF Accounts, EverJoined, MembersKnown
  <2>4. \A n \in Machines \ {m} : phase'[n] = phase[n]
    BY <2>1 DEF TypeOK
  <2>5. CacheLags'
    BY <2>1, <2>2, <2>3, <2>4 DEF Accounts, CacheLags, requested, torn
  <2>6. ReleaseAccounted'
    BY <2>1, <2>2, <2>3, <2>4 DEF Accounts, ReleaseAccounted, EverJoined, members, requested
  <2>7. ResolvedBeforeTeardown'
    BY <2>1, <2>2, <2>3, <2>4 DEF Accounts, ResolvedBeforeTeardown, members
  <2>. QED
    BY <2>1, <2>2, <2>5, <2>6, <2>7 DEF Accounts, EverJoined, Servicing, TargetLeaving,
       ReleaseEarned, members, HookSteps
<1>. QED
  BY <1>2, <1>3, <1>4, <1>5, <1>6, <1>7, <1>8 DEF Reconciler

\* The steps of the nodes, the Machine controller, the user and the clock.
LEMMA EnvironmentMembership ==
  ASSUME DeletionInv, Accounts, MachineController \/ Nodes \/ User \/ \E m \in Machines : Tick(m)
  PROVE  Accounts'
<1>. USE DEF objects, etcd, local, history, DeletionInv, Excused
<1>. DEFINE Same == UNCHANGED <<pc, victim, target, why>>
<1>1. ASSUME NEW m \in Machines, Fail(m) \/ Recover(m) \/ Promote(m) PROVE Accounts'
  <2>1. /\ Same /\ UNCHANGED <<phase, hook, cache, members, joined, interceptable, outcome>>
        /\ up' \subseteq members'
    BY <1>1 DEF Fail, Recover, Promote, members, Accounts, EverJoined
  <2>. QED
    BY <2>1 DEF Accounts, CacheLags, EverJoined, Servicing, TargetLeaving, ReleaseEarned,
       ReleaseAccounted, ResolvedBeforeTeardown, requested, torn, Listed
<1>2. ASSUME NEW m \in Machines, Join(m) PROVE Accounts'
  <2>1. /\ Same /\ UNCHANGED <<phase, hook, cache, interceptable, outcome>>
        /\ members' = members \cup {m} /\ up' = up \cup {m} /\ joined' = joined \cup {m}
        /\ m \notin joined
    BY <1>2 DEF Join, members
  <2>2. m \notin interceptable
    BY <2>1 DEF Accounts, EverJoined
  <2>. QED
    BY <2>1, <2>2 DEF Accounts, CacheLags, EverJoined, Servicing, TargetLeaving, ReleaseEarned,
       ReleaseAccounted, ResolvedBeforeTeardown, requested, torn, Listed
<1>3. ASSUME NEW m \in Machines, Register(m) PROVE Accounts'
  <2>1. /\ Same /\ UNCHANGED <<phase, hook, members, up, joined, interceptable, outcome>>
        /\ cache' = cache \/ (pc = "idle" /\ cache'.phase = phase)
    BY <1>3 DEF Register, Inform, Current, members
  <2>. QED
    BY <2>1 DEF Accounts, CacheLags, EverJoined, Servicing, TargetLeaving, ReleaseEarned,
       ReleaseAccounted, ResolvedBeforeTeardown, requested, torn, Listed, HookSteps
<1>4. ASSUME NEW m \in Machines, Drain(m) \/ Terminate(m) PROVE Accounts'
  <2>1. /\ Same /\ UNCHANGED <<hook, members, up, joined, interceptable, outcome>>
        /\ phase[m] \in {"draining", "atHook"}
        /\ \/ phase' = [phase EXCEPT ![m] = "atHook"]
           \/ m \notin hook /\ phase' = [phase EXCEPT ![m] = "terminating"]
        /\ cache' = cache \/ (pc = "idle" /\ cache'.phase = phase')
    BY <1>4 DEF Drain, Terminate, Inform, Current, members
  <2>2. /\ requested' = requested /\ torn \subseteq torn'
        /\ torn' \subseteq torn \cup {n \in {m} : m \notin hook}
    BY <2>1 DEF requested, torn, TypeOK
  <2>3. CacheLags'
    BY <2>1, <2>2 DEF Accounts, CacheLags, torn, TypeOK
  <2>4. EverJoined' /\ Servicing' /\ TargetLeaving' /\ ReleaseEarned'
    BY <2>1, <2>2 DEF Accounts, EverJoined, Servicing, TargetLeaving, ReleaseEarned, Listed,
       HookSteps
  <2>5. ReleaseAccounted'
    BY <2>1, <2>2 DEF Accounts, ReleaseAccounted, EverJoined, requested, TypeOK
  <2>6. ResolvedBeforeTeardown'
    BY <2>1, <2>2 DEF Accounts, ResolvedBeforeTeardown, ReleaseAccounted, TypeOK
  <2>. QED BY <2>3, <2>4, <2>5, <2>6 DEF Accounts
<1>5. ASSUME NEW m \in Machines, Gone(m) PROVE Accounts'
  <2>1. /\ Same /\ UNCHANGED <<members, joined, interceptable, outcome>>
        /\ phase[m] = "terminating" /\ phase' = [phase EXCEPT ![m] = "gone"]
        /\ hook' = hook \ {m} /\ up' = up \ {m}
        /\ cache' = cache \/ (pc = "idle" /\ cache'.phase = phase')
    BY <1>5 DEF Gone, Inform, Current, members
  <2>2. requested' = requested /\ torn' = torn /\ m \in torn
    BY <2>1 DEF requested, torn, TypeOK
  <2>3. CacheLags'
    BY <2>1, <2>2 DEF Accounts, CacheLags, torn, TypeOK
  <2>4. EverJoined' /\ Servicing' /\ TargetLeaving' /\ ReleaseEarned'
    BY <2>1, <2>2 DEF Accounts, EverJoined, Servicing, TargetLeaving, ReleaseEarned, Listed,
       HookSteps
  <2>5. ReleaseAccounted'
    BY <2>1, <2>2 DEF Accounts, ReleaseAccounted, EverJoined, requested, TypeOK
  <2>6. ResolvedBeforeTeardown'
    BY <2>1, <2>2 DEF Accounts, ResolvedBeforeTeardown, torn, TypeOK
  <2>. QED BY <2>3, <2>4, <2>5, <2>6 DEF Accounts
<1>6. ASSUME NEW m \in Machines, Delete(m) PROVE Accounts'
  <2>1. /\ Same /\ UNCHANGED <<hook, members, up, joined, outcome>>
        /\ phase[m] = "running" /\ phase' = [phase EXCEPT ![m] = "draining"]
        /\ \/ interceptable' = interceptable
           \/ interceptable' = interceptable \cup {m} /\ m \in hook \cap members
        /\ cache' = cache \/ (pc = "idle" /\ cache'.phase = phase')
    BY <1>6 DEF Delete, RequestDeletion, Inform, Current, members
  <2>2. requested' = requested \cup {m} /\ torn' = torn /\ m \notin torn /\ m \notin requested
    BY <2>1 DEF requested, torn, TypeOK
  <2>3. CacheLags'
    BY <2>1, <2>2 DEF Accounts, CacheLags, torn, TypeOK
  <2>4. pc \in HookSteps => victim # m
    BY <2>1 DEF Accounts, CacheLags, Servicing, TypeOK
  <2>5. EverJoined' /\ Servicing' /\ TargetLeaving' /\ ReleaseEarned'
    BY <2>1, <2>2, <2>4 DEF Accounts, EverJoined, Servicing, TargetLeaving, ReleaseEarned, Listed,
       HookSteps
  <2>6. ReleaseAccounted'
    <3>1. ASSUME NEW n \in interceptable
          PROVE  /\ n \in Machines /\ n # m /\ phase'[n] # "running"
                 /\ n \in interceptable' /\ Excused(n)' = Excused(n)
      BY <2>1, <2>2 DEF Accounts, EverJoined, requested, TypeOK
    <3>2. \A n \in interceptable :
            cache'.phase[n] = "running" => cache.phase[n] = "running"
      BY <2>1, <3>1
    <3>3. interceptable' # interceptable => m \in hook' \ torn'
      BY <2>1, <2>2
    <3>4. interceptable' \subseteq interceptable \cup {m}
      BY <2>1
    <3>. QED
      BY <2>1, <2>2, <3>1, <3>2, <3>3, <3>4 DEF Accounts, ReleaseAccounted
  <2>7. ResolvedBeforeTeardown'
    BY <2>1, <2>2 DEF Accounts, ResolvedBeforeTeardown, torn, TypeOK
  <2>. QED BY <2>3, <2>5, <2>6, <2>7 DEF Accounts
<1>7. ASSUME NEW m \in Machines, EscapeHatch(m) PROVE Accounts'
  <2>1. /\ Same /\ UNCHANGED <<phase, members, up, joined, interceptable>>
        /\ hook' = hook \ {m} /\ outcome' = [outcome EXCEPT ![m] = "escaped"]
        /\ cache' = cache \/ (pc = "idle" /\ cache'.phase = phase)
    BY <1>7 DEF EscapeHatch, Inform, Current, members
  <2>2. \A n \in Machines : outcome'[n] = IF n = m THEN "escaped" ELSE outcome[n]
    BY <2>1 DEF TypeOK
  <2>3. CacheLags' /\ EverJoined' /\ Servicing' /\ TargetLeaving' /\ ReleaseEarned'
    BY <2>1 DEF Accounts, CacheLags, EverJoined, Servicing, TargetLeaving, ReleaseEarned, Listed,
       HookSteps, requested, torn
  <2>4. ReleaseAccounted'
    BY <2>1, <2>2 DEF Accounts, ReleaseAccounted, EverJoined, requested, torn, GivenUp, TypeOK
  <2>5. ResolvedBeforeTeardown'
    BY <2>1, <2>2 DEF Accounts, ResolvedBeforeTeardown, GivenUp, TypeOK
  <2>. QED BY <2>3, <2>4, <2>5 DEF Accounts
<1>8. CASE \/ \E t \in Teardowns : StartTeardown(t)
           \/ \E m \in Machines : Tick(m)
  <2>1. /\ Same /\ UNCHANGED <<phase, hook, members, up, joined, interceptable, outcome>>
        /\ cache'.phase = cache.phase
    BY <1>8 DEF StartTeardown, Tick, TypeOK, CacheType, members
  <2>. QED
    BY <2>1 DEF Accounts, CacheLags, EverJoined, Servicing, TargetLeaving, ReleaseEarned,
       ReleaseAccounted, ResolvedBeforeTeardown, requested, torn, Listed
<1>. QED
  BY <1>1, <1>2, <1>3, <1>4, <1>5, <1>6, <1>7, <1>8 DEF MachineController, Nodes, User

\* MembershipInv is inductive.
LEMMA MembershipInvInductive ==
  /\ Init => MembershipInv
  /\ MembershipInv /\ [Next]_vars => MembershipInv'
<1>1. ASSUME MembershipInv, [Next]_vars PROVE MembershipInv'
  <2>. USE DEF MembershipInv
  <2>1. DeletionInv'
    BY <1>1, DeletionInvInductive
  <2>2. CASE Reconciler \/ Crash \/ Sync
    BY <1>1, <2>1, <2>2, ReconcilerMembership
  <2>3. CASE MachineController \/ Nodes \/ User \/ \E m \in Machines : Tick(m)
    BY <1>1, <2>1, <2>3, EnvironmentMembership
  <2>4. CASE UNCHANGED vars
    BY <1>1, <2>1, <2>4 DEF vars, objects, etcd, local, history, Accounts, CacheLags, EverJoined,
       Servicing, TargetLeaving, ReleaseEarned, ReleaseAccounted, ResolvedBeforeTeardown, Excused,
       members, requested, torn, Listed
  <2>. QED BY <1>1, <2>2, <2>3, <2>4 DEF Next
<1>. QED BY <1>1, MembershipInit

\* README "etcd membership is resolved before any infrastructure provider powers
\* off or reprovisions the node", for any number of Machines: the teardown of a
\* Machine that was a hooked member when it was deleted starts only once its
\* member left, or once the removal was given up on, or the Machine was taken for no
\* member because its MachineHostName is not that of its node.
THEOREM TeardownResolved == Spec => []ResolvedBeforeTeardown
<1>1. MembershipInv => ResolvedBeforeTeardown
  BY DEF MembershipInv, Accounts
<1>. QED BY <1>1, MembershipInvInductive, PTL DEF Spec

-----------------------------------------------------------------------------
(* The refinement, step by step *)

Unchanged == UNCHANGED <<members, requested, waived, torn>>

\* A step that changes neither phases, nor the member list, nor the history of the
\* deletions and releases is invisible to EtcdMembership.
LEMMA Invisible ==
  ASSUME UNCHANGED <<phase, voters, learners, interceptable, outcome>>
  PROVE  Unchanged
  BY DEF Unchanged, members, requested, waived, torn, Excused

\* The member of a Machine that is being deleted, or is gone, leaves, or that of a
\* Misnamed one.
LEMMA LeaveStep ==
  ASSUME NEW m \in Machines, m \in requested \cup Misnamed, members' = members \ {m},
         UNCHANGED <<phase, interceptable, outcome>>
  PROVE  Membership!Next \/ Unchanged
<1>1. UNCHANGED <<requested, waived, torn>>
  BY DEF requested, waived, torn, Excused
<1>2. m \in members => Membership!Leave(m)
  BY <1>1 DEF Membership!Leave
<1>3. m \notin members => Unchanged
  BY <1>1 DEF Unchanged
<1>. QED BY <1>2, <1>3 DEF Membership!Next

\* The release of a hook waives the removal, needs no waiver any more, or changes
\* nothing: a Machine whose infrastructure goes is released only if it was waived.
LEMMA ReleaseStep ==
  ASSUME MembershipInv, NEW m \in Machines, NEW reason \in Outcomes,
         m \in interceptable \cap torn => Excused(m) /\ Excuses(m, reason),
         ~Excuses(m, reason) => m \in requested /\ m \notin interceptable \cap members,
         outcome' = [outcome EXCEPT ![m] = reason],
         UNCHANGED <<phase, voters, learners, interceptable>>
  PROVE  Membership!Next \/ Unchanged
<1>1. UNCHANGED <<members, requested, torn, interceptable>>
  BY DEF members, requested, torn
<1>2. \A n \in Machines : Excused(n)' = IF n = m THEN Excuses(m, reason) ELSE Excused(n)
  BY DEF MembershipInv, DeletionInv, TypeOK, Excused, Excuses
<1>3. CASE Excuses(m, reason)
  <2>1. waived' = waived \cup {m}
    <3>1. waived' = (requested \ interceptable) \cup {n \in Machines : Excused(n)'}
      BY <1>1 DEF waived
    <3>. QED BY <1>2, <1>3, <3>1 DEF waived
  <2>2. m \in torn => m \in waived
    BY DEF waived, torn, requested
  <2>3. CASE m \in torn
    BY <1>1, <2>1, <2>2, <2>3 DEF Unchanged
  <2>4. CASE m \notin torn
    BY <1>1, <2>1, <2>4 DEF Membership!Waive, Membership!Next
  <2>. QED BY <2>3, <2>4
<1>4. CASE ~Excuses(m, reason)
  <2>1. CASE m \in requested \ interceptable \/ m \notin waived
    <3>1. waived' = waived
      BY <1>1, <1>2, <1>4, <2>1 DEF waived
    <3>. QED BY <1>1, <3>1 DEF Unchanged
  <2>2. CASE m \notin requested \ interceptable /\ m \in waived
    <3>1. waived' = waived \ {m}
      BY <1>1, <1>2, <1>4, <2>2 DEF waived
    <3>2. m \in interceptable /\ m \notin members /\ m \notin torn
      BY <1>4, <2>2
    <3>. QED BY <1>1, <2>2, <3>1, <3>2 DEF Membership!Resolve, Membership!Next
  <2>. QED BY <2>1, <2>2
<1>. QED BY <1>3, <1>4

\* A member whose Machine is not listed is that of a Machine that is gone.
LEMMA UnlistedMember ==
  ASSUME MembershipInv, NEW m \in members, m \notin Listed
  PROVE  m \in requested
<1>1. m \in Machines /\ cache.phase[m] # "absent"
  BY DEF MembershipInv, DeletionInv, TypeOK, MembersKnown, members
<1>. QED BY <1>1 DEF MembershipInv, DeletionInv, CacheNotAhead, Listed, requested

\* The steps of the hook handler: a removal by the victim or a peer is a Leave, a
\* release of the hook at most a Waive or a Resolve.
LEMMA HandlerImplements ==
  ASSUME MembershipInv, Handler
  PROVE  Membership!Next \/ Unchanged
<1>. USE DEF objects, etcd, local, history
<1>1. CASE \/ AnchorDeadline \/ SkipCleanup \/ PeerUnavailable \/ ListMembers \/ ProbeQuorum
           \/ HoldForQuorum \/ MarkLeaving \/ LeaveFails \/ ForceFails \/ PatchFails
  <2>1. UNCHANGED <<phase, voters, learners, interceptable, outcome>>
    BY <1>1 DEF AnchorDeadline, SkipCleanup, PeerUnavailable, ListMembers, ProbeQuorum,
       HoldForQuorum, MarkLeaving, LeaveFails, ForceFails, PatchFails
  <2>. QED BY <2>1, Invisible
<1>2. pc \in HookSteps => victim \in Machines /\ victim \in requested
  BY DEF MembershipInv, DeletionInv, TypeOK, Accounts, Servicing, CacheLags, requested
<1>3. CASE LeaveFromVictim
  <2>1. /\ pc \in HookSteps /\ members' = members \ {victim}
        /\ UNCHANGED <<phase, interceptable, outcome>>
    BY <1>3 DEF LeaveFromVictim, RemoveMember, members, HookSteps
  <2>. QED BY <1>2, <2>1, LeaveStep
<1>4. CASE ForceLeave
  <2>1. /\ pc = "force" /\ target \in members /\ members' = members \ {target}
        /\ UNCHANGED <<phase, interceptable, outcome>>
    BY <1>4 DEF ForceLeave, RemoveMember, members
  <2>2. target \in Machines
    BY <2>1 DEF MembershipInv, DeletionInv, TypeOK, members
  <2>3. target \in requested \cup Misnamed
    <3>1. target = victim \/ target \notin Listed \/ target \in Misnamed
      BY <2>1 DEF MembershipInv, Accounts, TargetLeaving
    <3>2. target \notin Listed => target \in requested
      BY <2>1, <2>2, UnlistedMember
    <3>. QED BY <1>2, <2>1, <3>1, <3>2 DEF HookSteps
  <2>. QED BY <2>1, <2>2, <2>3, LeaveStep
<1>5. CASE ReleaseHook
  <2>1. /\ pc = "release" /\ UNCHANGED <<phase, voters, learners, interceptable>>
        /\ outcome' = IF victim \in hook THEN [outcome EXCEPT ![victim] = why] ELSE outcome
    BY <1>5 DEF ReleaseHook
  <2>2. CASE victim \notin hook
    BY <2>1, <2>2, Invisible
  <2>3. CASE victim \in hook
    <3>1. victim \in Machines /\ victim \in requested /\ why \in Outcomes
      BY <1>2, <2>1 DEF MembershipInv, DeletionInv, TypeOK, HookSteps
    <3>2. victim \notin torn
      BY <2>1, <2>3, <3>1 DEF MembershipInv, Accounts, Servicing, CacheLags, HookSteps
    <3>3. ~Excuses(victim, why) => victim \notin interceptable \cap members
      BY <2>1 DEF MembershipInv, Accounts, ReleaseEarned
    <3>. QED BY <2>1, <2>3, <3>1, <3>2, <3>3, ReleaseStep
  <2>. QED BY <2>2, <2>3
<1>. QED
  BY <1>1, <1>3, <1>4, <1>5 DEF Handler

\* The other steps of a reconcile: the audit removes members of Machines that are
\* gone, the teardown gives up on a removal and requests the deletion in one go.
LEMMA ReconcilerImplements ==
  ASSUME MembershipInv, Reconciler \/ Crash \/ Sync
  PROVE  Membership!Next \/ Unchanged
<1>. USE DEF objects, etcd, local, history
<1>1. CASE \/ Begin \/ EndReconcile \/ BeginTeardown \/ TeardownFails \/ EndTeardown
           \/ Crash \/ Sync
  <2>1. UNCHANGED <<phase, voters, learners, interceptable, outcome>>
    BY <1>1 DEF Begin, EndReconcile, BeginTeardown, TeardownFails, EndTeardown, Crash, Sync
  <2>. QED BY <2>1, Invisible
<1>2. ASSUME NEW o \in Machines, AuditRemove(o) PROVE Membership!Next \/ Unchanged
  <2>1. members' = members \ {o} /\ UNCHANGED <<phase, interceptable, outcome>>
    BY <1>2 DEF AuditRemove, RemoveMember, members
  <2>2. o \in members /\ o \notin Listed
    BY <1>2 DEF AuditRemove, Matching
  <2>3. o \in requested
    BY <2>2, UnlistedMember
  <2>. QED BY <2>1, <2>3, LeaveStep
<1>3. ASSUME NEW m \in Machines, TeardownMachine(m) PROVE Membership!Next \/ Unchanged
  <2>1. /\ UNCHANGED <<voters, learners>>
        /\ outcome' \in {outcome, [outcome EXCEPT ![m] = "teardown"]}
        /\ outcome' # outcome => m \in hook
        /\ \/ phase' = phase /\ interceptable' = interceptable
           \/ /\ phase[m] = "running" /\ phase' = [phase EXCEPT ![m] = "draining"]
              /\ interceptable' \in {interceptable, interceptable \cup {m}}
    BY <1>3 DEF TeardownMachine, RequestDeletion
  <2>2. CASE phase' = phase /\ interceptable' = interceptable /\ outcome' = outcome
    BY <2>1, <2>2, Invisible
  <2>3. CASE phase' = phase /\ interceptable' = interceptable /\ outcome' # outcome
    <3>1. m \in interceptable \cap torn => Excused(m)
      BY <2>1, <2>3 DEF MembershipInv, Accounts, ReleaseAccounted
    <3>2. Excuses(m, "teardown")
      BY DEF Excuses, GivenUp
    <3>. QED BY <2>1, <2>3, <3>1, <3>2, ReleaseStep DEF Outcomes
  <2>4. CASE /\ phase[m] = "running" /\ phase' = [phase EXCEPT ![m] = "draining"]
             /\ interceptable' \in {interceptable, interceptable \cup {m}}
    <3>1. m \notin interceptable /\ m \notin requested
      BY <2>4 DEF MembershipInv, Accounts, EverJoined, requested
    <3>2. requested' = requested \cup {m} /\ torn' = torn /\ members' = members
      BY <2>1, <2>4 DEF MembershipInv, DeletionInv, TypeOK, requested, torn, members
    <3>3. \A n \in Machines : n # m => Excused(n)' = Excused(n)
      BY <2>1 DEF MembershipInv, DeletionInv, TypeOK, Excused
    <3>4. Excused(m) => Excused(m)'
      BY <2>1 DEF MembershipInv, DeletionInv, TypeOK, Excused, GivenUp
    <3>5. waived' \in {waived, waived \cup {m}}
      BY <2>4, <3>1, <3>2, <3>3, <3>4 DEF waived
    <3>. QED BY <3>1, <3>2, <3>5 DEF Membership!Request, Membership!Next
  <2>. QED BY <2>1, <2>2, <2>3, <2>4
<1>4. ASSUME NEW m \in Machines, Create(m) PROVE Unchanged
  <2>1. /\ UNCHANGED <<voters, learners, interceptable, outcome>>
        /\ phase[m] = "absent" /\ phase' = [phase EXCEPT ![m] = "running"]
    BY <1>4 DEF Create
  <2>2. UNCHANGED <<requested, torn, members>>
    BY <2>1 DEF MembershipInv, DeletionInv, TypeOK, requested, torn, members
  <2>. QED BY <2>1, <2>2 DEF Unchanged, waived, Excused
<1>. QED
  BY <1>1, <1>2, <1>3, <1>4, HandlerImplements DEF Reconciler

\* The steps around the reconciler: nodes join, deletions are requested, the hook
\* is removed by hand, and the infrastructure starts to go.
LEMMA EnvironmentImplements ==
  ASSUME MembershipInv,
         MachineController \/ Nodes \/ User \/ \E m \in Machines : Tick(m)
  PROVE  Membership!Next \/ Unchanged
<1>. USE DEF objects, etcd, local, history
<1>1. ASSUME NEW m \in Machines, Fail(m) \/ Recover(m) \/ Register(m) \/ Tick(m)
      PROVE  Unchanged
  <2>1. UNCHANGED <<phase, voters, learners, interceptable, outcome>>
    BY <1>1 DEF Fail, Recover, Register, Tick
  <2>. QED BY <2>1, Invisible
<1>2. ASSUME NEW t \in Teardowns, StartTeardown(t) PROVE Unchanged
  BY <1>2, Invisible DEF StartTeardown
<1>3. ASSUME NEW m \in Machines, Promote(m) PROVE Unchanged
  <2>1. members' = members /\ UNCHANGED <<phase, interceptable, outcome>>
    BY <1>3 DEF Promote, members
  <2>. QED BY <2>1 DEF Unchanged, requested, waived, torn, Excused
<1>4. ASSUME NEW m \in Machines, Join(m) PROVE Membership!Next
  <2>1. /\ m \notin joined /\ members' = members \cup {m}
        /\ UNCHANGED <<phase, interceptable, outcome>>
    BY <1>4 DEF Join, members
  <2>2. m \notin interceptable /\ m \notin members
    BY <2>1 DEF MembershipInv, DeletionInv, MembersKnown, Accounts, EverJoined
  <2>3. m \in requested => m \in waived
    BY <2>2 DEF waived
  <2>4. UNCHANGED <<requested, waived, torn>>
    BY <2>1 DEF requested, waived, torn, Excused
  <2>. QED BY <2>1, <2>2, <2>3, <2>4 DEF Membership!Join, Membership!Next
<1>5. ASSUME NEW m \in Machines, Drain(m) \/ Terminate(m) \/ Gone(m)
      PROVE  Membership!Next \/ Unchanged
  <2>1. /\ UNCHANGED <<voters, learners, interceptable, outcome>>
        /\ \/ phase[m] = "draining" /\ phase' = [phase EXCEPT ![m] = "atHook"]
           \/ phase[m] = "terminating" /\ phase' = [phase EXCEPT ![m] = "gone"]
           \/ /\ phase[m] \in {"draining", "atHook"} /\ m \notin hook
              /\ phase' = [phase EXCEPT ![m] = "terminating"]
    BY <1>5 DEF Drain, Terminate, Gone
  <2>2. requested' = requested /\ waived' = waived /\ members' = members /\ m \in requested
    BY <2>1 DEF MembershipInv, DeletionInv, TypeOK, requested, waived, members, Excused
  <2>3. CASE phase' # [phase EXCEPT ![m] = "terminating"]
    <3>1. torn' = torn
      BY <2>1, <2>3 DEF MembershipInv, DeletionInv, TypeOK, torn
    <3>. QED BY <2>2, <3>1 DEF Unchanged
  <2>4. CASE /\ phase[m] \in {"draining", "atHook"} /\ m \notin hook
             /\ phase' = [phase EXCEPT ![m] = "terminating"]
    <3>1. m \notin torn /\ torn' = torn \cup {m}
      BY <2>4 DEF MembershipInv, DeletionInv, TypeOK, torn
    <3>2. m \in members => m \in waived
      BY <2>2, <2>4 DEF MembershipInv, Accounts, ReleaseAccounted, waived
    <3>. QED BY <2>2, <3>1, <3>2 DEF Membership!TearDown, Membership!Next
  <2>. QED BY <2>1, <2>3, <2>4 DEF MembershipInv, DeletionInv, TypeOK
<1>6. ASSUME NEW m \in Machines, Delete(m) PROVE Membership!Next
  <2>1. /\ UNCHANGED <<voters, learners, outcome>>
        /\ phase[m] = "running" /\ phase' = [phase EXCEPT ![m] = "draining"]
        /\ interceptable' = interceptable \/ interceptable' = interceptable \cup {m}
    BY <1>6 DEF Delete, RequestDeletion
  <2>2. m \notin interceptable /\ m \notin requested
    BY <2>1 DEF MembershipInv, Accounts, EverJoined, requested
  <2>3. requested' = requested \cup {m} /\ torn' = torn /\ members' = members
    BY <2>1 DEF MembershipInv, DeletionInv, TypeOK, requested, torn, members
  <2>4. waived' = waived \/ waived' = waived \cup {m}
    BY <2>1, <2>2, <2>3 DEF waived, requested, Excused
  <2>. QED BY <2>2, <2>3, <2>4 DEF Membership!Request, Membership!Next
<1>7. ASSUME NEW m \in Machines, EscapeHatch(m) PROVE Membership!Next \/ Unchanged
  <2>1. /\ UNCHANGED <<phase, voters, learners, interceptable>>
        /\ phase[m] \in {"draining", "atHook"}
        /\ outcome' = [outcome EXCEPT ![m] = "escaped"]
    BY <1>7 DEF EscapeHatch
  <2>2. m \notin torn
    BY <2>1 DEF torn
  <2>3. Excuses(m, "escaped")
    BY DEF Excuses, GivenUp
  <2>. QED BY <2>1, <2>2, <2>3, ReleaseStep DEF Outcomes
<1>. QED
  BY <1>1, <1>2, <1>3, <1>4, <1>5, <1>6, <1>7 DEF MachineController, Nodes, User

\* The hook, the audit, the teardown and everything around them implement the
\* promise on etcd membership: no member of a Machine that stays is ever removed,
\* no Machine is torn down as a member unless its removal was given up on, and
\* without that no Machine whose deletion was requested becomes a member again;
\* except that the member of a Machine with another MachineHostName may be taken for
\* that of a Machine on its way out, or not be found at all.
THEOREM MembershipImplemented == Spec => ImplementsMembership
<1>1. Init => Membership!Init
  <2>. SUFFICES ASSUME Init PROVE Membership!Init
    OBVIOUS
  <2>1. requested = {} /\ torn = {} /\ waived = {}
    BY DEF Init, requested, torn, waived, Excused, GivenUp
  <2>2. members \subseteq Machines
    BY DEF Init, members
  <2>. QED BY <2>1, <2>2 DEF Membership!Init
<1>2. MembershipInv /\ [Next]_vars => [Membership!Next]_Membership!mvars
  <2>. SUFFICES ASSUME MembershipInv, [Next]_vars
                PROVE  Membership!Next \/ Unchanged
    BY DEF Unchanged, Membership!mvars
  <2>1. CASE Reconciler \/ Crash \/ Sync
    BY <2>1, ReconcilerImplements
  <2>2. CASE MachineController \/ Nodes \/ User \/ \E m \in Machines : Tick(m)
    BY <2>2, EnvironmentImplements
  <2>3. CASE UNCHANGED vars
    BY <2>3, Invisible DEF vars, objects, etcd, history
  <2>. QED BY <2>1, <2>2, <2>3 DEF Next
<1>. QED
  BY <1>1, <1>2, MembershipInvInductive, PTL DEF Spec, ImplementsMembership, Membership!Spec

-----------------------------------------------------------------------------
(* What the abstract specification promises *)

\* A Machine is torn down after its deletion is requested, and not as a member unless waived.
TornResolved ==
    members \subseteq Machines /\ torn \subseteq requested /\ members \cap torn \subseteq waived

\* No member is removed but that of a Machine whose deletion was requested, or whose
\* MachineHostName is not that of its node.
OnlyRequestedLeave == [][members \ members' \subseteq requested \cup Misnamed]_vars

\* Every step of the abstract specification.
LEMMA PromiseKept ==
  ASSUME TornResolved, [Membership!Next]_Membership!mvars
  PROVE  TornResolved' /\ members \ members' \subseteq requested \cup Misnamed
<1>1. CASE UNCHANGED Membership!mvars
  BY <1>1 DEF Membership!mvars, TornResolved
<1>2. ASSUME NEW m \in Machines,
             \/ Membership!Join(m) \/ Membership!Request(m) \/ Membership!Waive(m)
             \/ Membership!Resolve(m) \/ Membership!Leave(m) \/ Membership!TearDown(m)
      PROVE  TornResolved' /\ members \ members' \subseteq requested \cup Misnamed
  BY <1>2 DEF TornResolved, Membership!Join, Membership!Request, Membership!Waive,
     Membership!Resolve, Membership!Leave, Membership!TearDown
<1>. QED BY <1>1, <1>2 DEF Membership!Next

\* EtcdMembership is enough of a promise: whatever keeps it tears no hooked Machine down as a
\* member of etcd unless its removal was given up on, and removes no member of a Machine that
\* stays; both but for Machines with another host name.
THEOREM PromiseSuffices == ImplementsMembership => []ResolvedBeforeTeardown /\ OnlyRequestedLeave
<1>1. Membership!Init => TornResolved
  BY DEF Membership!Init, TornResolved
<1>2. TornResolved /\ [Membership!Next]_Membership!mvars => TornResolved'
  BY PromiseKept
<1>3. TornResolved /\ [Membership!Next]_Membership!mvars
        => [members \ members' \subseteq requested \cup Misnamed]_vars
  BY PromiseKept
<1>4. TornResolved => ResolvedBeforeTeardown
  BY DEF TornResolved, ResolvedBeforeTeardown, torn, waived
<1>. QED
  BY <1>1, <1>2, <1>3, <1>4, PTL
  DEF ImplementsMembership, Membership!Spec, OnlyRequestedLeave

\* The hook, the forced removal by a peer, the audit and the teardown: none of them, for any
\* late cache, crash and failed call, takes the member of a Machine out of etcd whose deletion
\* nobody requested; but for a Machine whose MachineHostName is not that of its node, whose
\* member elimination may take for another one's.
THEOREM StayingMembersStay == Spec => OnlyRequestedLeave
BY MembershipImplemented, PromiseSuffices, PTL
=============================================================================
