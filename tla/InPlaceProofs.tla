---------------------------- MODULE InPlaceProofs ----------------------------
(***************************************************************************)
(* Theorems about InPlace, for every number of Machines, edits, failures,  *)
(* verdicts and faults, and every set of answers of the extensions.        *)
(***************************************************************************)
EXTENDS InPlace, EtcdQuorumProofs

-----------------------------------------------------------------------------
(* Types *)

\* What a reconcile reads.
View ==
    [want : Generations, phase : [Machines -> Phases], nodeRef : SUBSET Machines,
     flagged : SUBSET Machines, updating : SUBSET Machines,
     objects : [Machines -> Generations],
     etcd : [healthy : SUBSET Machines, voters : SUBSET Machines]]

\* The steps at which a Machine was offered to the extension.
Triggering == {"offer", "annotate", "infra", "config", "machine", "pending"}

TypeInv ==
    /\ TypeOK
    /\ pc # "idle" => view \in View
    /\ pc \in Triggering => target \in Machines

\* The list of Machines is finite, and a subset of the naturals.
LEMMA MachinesNumbered == IsFiniteSet(Machines) /\ Machines \subseteq Nat
<1>1. MaxMachines \in Nat
  BY InPlaceConstants
<1>2. IsFiniteSet(1..MaxMachines)
  BY <1>1, FS_Interval
<1>. QED BY <1>1, <1>2 DEF Machines

\* The oldest of some Machines is one of them.
LEMMA OldestType ==
  ASSUME NEW S \in SUBSET Machines, S # {}
  PROVE  OldestOf(S) \in S
<1>1. \E x \in S : \A y \in S : x <= y
  BY MachinesNumbered, MinimumExists
<1>. QED BY <1>1 DEF OldestOf

\* Reading yields a view, and a view is not the state before any reading.
LEMMA ViewType == ASSUME TypeOK PROVE Current \in View
<1>1. voters \subseteq Machines /\ UpdatingInPlace \subseteq Machines
  BY DEF TypeOK, voters, UpdatingInPlace
<1>. QED BY <1>1 DEF TypeOK, Current, View

\* What a reconcile has between two lists is told apart from a list.
LEMMA NoViewIsNoView == NoView \notin View
  <1>. SUFFICES ASSUME NoView \in View PROVE FALSE
    OBVIOUS
  <1>1. DOMAIN NoView = {"want"}
    BY DEF NoView
  <1>2. \A v \in View : "phase" \in DOMAIN v
    BY DEF View
  <1>3. "phase" \in {"want"}
    BY <1>1, <1>2
  <1>. QED BY <1>3

\* The initial states are well typed.
LEMMA InitType == Init => TypeInv
<1>. SUFFICES ASSUME Init PROVE TypeInv
  OBVIOUS
<1>1. Spec0 \in Generations
  BY InPlaceConstants DEF Spec0, Generations
<1>2. 1..Replicas \subseteq Machines
  BY InPlaceConstants DEF Machines
<1>. QED BY <1>1, <1>2, MachinesNumbered
         DEF Init, TypeInv, TypeOK, Phases, None, Triggering

\* Every step outside the reconcile keeps the types.
LEMMA EnvironmentType == ASSUME TypeInv, Environment PROVE TypeInv'
<1>. USE DEF TypeInv, TypeOK, Disturb, machines, update, nodes, local, bounds
<1>1. CASE Edit
  <2>1. edits + 1 \in 0..MaxEdits
    BY <1>1, InPlaceConstants DEF Edit
  <2>2. want' \in Generations
    BY <1>1, <2>1 DEF Edit, Generations
  <2>. QED BY <1>1, <2>2 DEF Edit
<1>2. ASSUME NEW m \in Machines, Delete(m) PROVE TypeInv'
  <2>1. phase' \in [Machines -> Phases]
    BY <1>2 DEF Delete, RequestDeletion, Phases
  <2>2. events' \in Nat
    BY <1>2 DEF Delete
  <2>. QED BY <1>2, <2>1, <2>2 DEF Delete
<1>3. ASSUME NEW m \in Machines, Break(m) \/ Join(m) \/ FlagUnhealthy(m) PROVE TypeInv'
  <2>1. breaks' \in Nat /\ events' \in Nat
    BY <1>3 DEF Break, Join, FlagUnhealthy
  <2>. QED BY <1>3, <2>1 DEF Break, Join, FlagUnhealthy
<1>4. ASSUME NEW m \in Machines, Restart(m) \/ CancelUpdate(m) PROVE TypeInv'
  BY <1>4 DEF Restart, CancelUpdate, MayUpdate
<1>5. ASSUME NEW m \in Machines, Gone(m) PROVE TypeInv'
  <2>1. Spec0 \in Generations
    BY InPlaceConstants DEF Spec0, Generations
  <2>. QED BY <1>5, <2>1 DEF Gone, Phases
<1>6. ASSUME NEW m \in Machines, FinishUpdate(m) PROVE TypeInv'
  <2>1. [p \in Parts |-> IF p \in promised[m] THEN objects[m][p] ELSE runs[m][p]] \in Generations
    BY DEF Generations
  <2>. QED BY <1>6, <2>1 DEF FinishUpdate
<1>. QED BY <1>1, <1>2, <1>3, <1>4, <1>5, <1>6 DEF Environment

\* Every step of a reconcile keeps the types.
LEMMA ReconcilerType == ASSUME TypeInv, Reconciler \/ Crash PROVE TypeInv'
<1>. USE DEF TypeInv, TypeOK, Disturb, machines, update, nodes, local, bounds,
             End, Fault, NoFault, SameButFaults, None
<1>1. CASE Begin
  BY <1>1, ViewType, NoViewIsNoView DEF Begin, Triggering
<1>2. CASE NoRemediation
  BY <1>2 DEF NoRemediation, Triggering
<1>3. CASE Decide
  <2>1. MachinesNeedingRollout \subseteq Machines /\ Candidates \in SUBSET Machines
    BY DEF MachinesNeedingRollout, Kept, Candidates
  <2>2. Candidates # {} => OldestOf(Candidates) \in Machines
    BY <2>1, OldestType
  <2>. HIDE DEF TypeInv, TypeOK
  <2>3. /\ pc # "idle"
        /\ \/ pc' = "scale" /\ target' = target
           \/ pc' = "offer" /\ target' = OldestOf(Candidates) /\ Candidates # {}
        /\ rollout' \subseteq rollout \cup MachinesNeedingRollout
        /\ stable' \in {stable, TRUE}
        /\ UNCHANGED <<want, machines, update, nodes, view, bounds>>
    BY <1>3 DEF Decide
  <2>4. target' \in Machines \cup {None} /\ rollout' \subseteq Machines
    BY <2>1, <2>2, <2>3 DEF TypeInv, TypeOK
  <2>. QED BY <2>2, <2>3, <2>4 DEF TypeInv, TypeOK, Triggering
<1>4. CASE Offer
  <2>1. promised' \in [Machines -> SUBSET Parts]
    BY <1>4, InPlaceConstants DEF Offer, Triggering
  <2>. QED BY <1>4, <2>1 DEF Offer, Triggering
<1>5. CASE Annotate \/ WriteInfraMachine \/ MarkAsPending
  BY <1>5 DEF Annotate, WriteInfraMachine, MarkAsPending, Parts, Triggering
<1>6. CASE WriteTalosConfig \/ WriteMachine
  <2>1. view.want \in Generations /\ view.objects[target] \in Generations /\ target \in Machines
    BY <1>6 DEF WriteTalosConfig, WriteMachine, View, Triggering
  <2>2. \A p \in Parts : Plan(target)[p] \in 0..MaxEdits
    BY <2>1 DEF Plan, Generations, Parts
  <2>3. ASSUME NEW p \in Parts
        PROVE  [objects EXCEPT ![target][p] = Plan(target)[p]] \in [Machines -> Generations]
    BY <2>1, <2>2 DEF Generations
  <2>4. objects' \in [Machines -> Generations]
    BY <1>6, <2>3 DEF WriteTalosConfig, WriteMachine, Write, Parts
  <2>. QED BY <1>6, <2>1, <2>4 DEF WriteTalosConfig, WriteMachine, Write, Parts, Triggering
<1>7. CASE ExtensionFails \/ WriteFails \/ NoScaling \/ Crash
  BY <1>7 DEF ExtensionFails, WriteFails, NoScaling, Crash, Triggering
<1>8. CASE ScaleUp
  BY <1>8 DEF ScaleUp, View, Phases, Triggering
<1>9. ASSUME NEW m \in Machines, Remediate(m) PROVE TypeInv'
  BY <1>9 DEF Remediate, RequestDeletion, Phases, Triggering
<1>10. CASE ScaleDown
  BY <1>10 DEF ScaleDown, RequestDeletion, Phases, Triggering
<1>. QED BY <1>1, <1>2, <1>3, <1>4, <1>5, <1>6, <1>7, <1>8, <1>9, <1>10 DEF Reconciler

\* The types are an inductive invariant.
LEMMA TypeInvInductive ==
  /\ Init => TypeInv
  /\ TypeInv /\ [Next]_vars => TypeInv'
<1>1. ASSUME TypeInv, UNCHANGED vars PROVE TypeInv'
  BY <1>1 DEF vars, TypeInv, TypeOK, machines, update, nodes, local, bounds
<1>. QED BY <1>1, InitType, EnvironmentType, ReconcilerType DEF Next

-----------------------------------------------------------------------------
(* What a reconcile knows of the update it commits a Machine to *)

\* A Machine that runs ran when the reconcile read it, and one that exists existed:
\* the reconcile that creates one ends with it.
ViewIsPast ==
    pc # "idle" =>
        \A m \in Machines : /\ phase[m] = "running" => view.phase[m] = "running"
                            /\ Exists(m) => m \in Listed

\* Only the decision chooses Machines to replace.
NothingChosen == pc # "scale" => rollout = {}

\* Up to the decision nobody but the reconcile itself changes the objects of a
\* Machine, and no Machine is committed.
ViewIsCurrent ==
    pc \in {"remediate", "decide"} =>
        \A m \in Machines : phase[m] = "running" =>
            /\ view.objects[m] = objects[m]
            /\ m \notin view.updating => m \notin UpdatingInPlace

\* The part is written, at most.
Pending(p) == (p = "config" /\ pc \in {"machine", "pending"}) \/ (p = "machine" /\ pc = "pending")

\* While a Machine is offered and committed: its hook is not pending, it is marked
\* once the first write is done, the extension promised the plan, and the parts
\* that are not yet written are as they were read.
TriggerOnTrack ==
    pc \in Triggering =>
        /\ Enabled
        /\ phase[target] = "running" =>
             /\ target \notin hook
             /\ pc \in {"offer", "annotate"} <=> "machine" \notin mark[target]
             /\ pc # "offer" => \A p \in Parts : PatchReaches(target, p, promised[target])
             /\ \A p \in Parts : Pending(p) \/ objects[target][p] = view.objects[target][p]

\* What a node does not run of its Machine's objects, an extension promised to update.
PromiseKept ==
    \A m \in Machines : phase[m] = "running" =>
        \A p \in Parts : p \in promised[m] \/ runs[m][p] = objects[m][p]

\* With the feature gate off nothing is ever updated in place.
DisabledNone == ~Enabled => UpdatingInPlace = {}

\* A Machine chosen for replacement is not committed to an update.
RolloutFree == \A m \in rollout : phase[m] = "running" => m \notin UpdatingInPlace

UpdateInv ==
    /\ ViewIsPast /\ NothingChosen /\ ViewIsCurrent /\ TriggerOnTrack
    /\ PromiseKept /\ DisabledNone /\ RolloutFree /\ UnmarkedRunsItsSpec

\* Two generations that agree on every part are the same.
LEMMA SameGenerations ==
  ASSUME NEW a \in Generations, NEW b \in Generations, \A p \in Parts : a[p] = b[p]
  PROVE  a = b
  BY DEF Generations

\* The update of machine m, if it ends in this step, leaves its node as promised.
Finished(m) ==
    /\ m \in hook /\ m \notin hook' /\ mark'[m] = {} /\ promised'[m] = {}
    /\ \A p \in Parts : runs'[m][p] = IF p \in promised[m] THEN objects[m][p] ELSE runs[m][p]

Untouched(m) ==
    /\ m \in hook' <=> m \in hook
    /\ mark'[m] = mark[m] /\ promised'[m] = promised[m] /\ runs'[m] = runs[m]

\* What happens outside the reconcile starts no Machine, changes no objects of one
\* that runs, and commits none to an update.
SparesReconcile ==
    /\ view' = view /\ pc' = pc /\ target' = target /\ rollout' = rollout
    /\ UpdatingInPlace' \subseteq UpdatingInPlace
    /\ \A m \in Machines :
         /\ Exists(m)' => Exists(m)
         /\ phase'[m] = "running" =>
              /\ phase[m] = "running" /\ objects'[m] = objects[m]
              /\ Finished(m) \/ Untouched(m)

\* What happens outside the reconcile does not touch what it decided.
LEMMA EnvironmentSpares == ASSUME TypeInv, Environment PROVE SparesReconcile
<1>. USE DEF TypeInv, TypeOK, machines, update, nodes, local, Exists, Untouched, UpdatingInPlace,
            SparesReconcile
<1>1. CASE Edit
  BY <1>1 DEF Edit
<1>2. ASSUME NEW m \in Machines, Break(m) \/ Join(m) \/ FlagUnhealthy(m) PROVE SparesReconcile
  BY <1>2 DEF Break, Join, FlagUnhealthy
<1>3. ASSUME NEW m \in Machines, Restart(m) \/ CancelUpdate(m) PROVE SparesReconcile
  BY <1>3 DEF Restart, CancelUpdate
<1>4. ASSUME NEW m \in Machines, Delete(m) PROVE SparesReconcile
  BY <1>4 DEF Delete, RequestDeletion
<1>5. ASSUME NEW m \in Machines, Gone(m) PROVE SparesReconcile
  BY <1>5 DEF Gone
<1>6. ASSUME NEW m \in Machines, FinishUpdate(m) PROVE SparesReconcile
  <2>1. Finished(m)
    BY <1>6 DEF FinishUpdate, Finished, MayUpdate
  <2>2. \A n \in Machines \ {m} : Untouched(n)
    BY <1>6 DEF FinishUpdate
  <2>. QED BY <1>6, <2>1, <2>2 DEF FinishUpdate
<1>. QED BY <1>1, <1>2, <1>3, <1>4, <1>5, <1>6 DEF Environment

\* An update that ends leaves the node running what its Machine's objects say, and
\* everything a reconcile knows of the others stays true.
LEMMA SparesUpdateInv == ASSUME TypeInv, TypeInv', UpdateInv, SparesReconcile PROVE UpdateInv'
<1>. USE DEF SparesReconcile
<1>1. ViewIsPast' /\ NothingChosen'
  BY DEF UpdateInv, ViewIsPast, NothingChosen, Listed
<1>2. ViewIsCurrent' /\ DisabledNone' /\ RolloutFree'
  BY DEF UpdateInv, ViewIsCurrent, DisabledNone, RolloutFree, TypeInv, TypeOK
<1>3. TriggerOnTrack'
  BY DEF UpdateInv, TriggerOnTrack, Untouched, Finished, Pending, PatchReaches, Plan, TypeInv
<1>4. ASSUME NEW m \in Machines, phase'[m] = "running", Finished(m)
      PROVE  runs'[m] = objects'[m]
  <2>1. \A p \in Parts : runs'[m][p] = objects'[m][p]
    BY <1>4 DEF Finished, UpdateInv, PromiseKept
  <2>2. runs'[m] \in Generations /\ objects'[m] \in Generations
    BY DEF TypeInv, TypeOK
  <2>. QED BY <2>1, <2>2, SameGenerations
<1>5. PromiseKept'
  BY <1>4 DEF UpdateInv, PromiseKept, Untouched
<1>6. UnmarkedRunsItsSpec'
  BY <1>4 DEF UpdateInv, UnmarkedRunsItsSpec, Untouched, UpdatingInPlace
<1>. QED BY <1>1, <1>2, <1>3, <1>5, <1>6 DEF UpdateInv

\* A reconcile that ends, and deletes or creates a Machine as it does, forgets what
\* it knew, and a new Machine's node runs what its objects say.
LEMMA EndUpdateInv ==
  ASSUME TypeInv, TypeInv', UpdateInv, End, UNCHANGED <<mark, hook, promised>>,
         \A m \in Machines : phase'[m] = "running" =>
             \/ phase[m] = "running" /\ objects'[m] = objects[m] /\ runs'[m] = runs[m]
             \/ objects'[m] = runs'[m]
  PROVE  UpdateInv'
<1>1. ViewIsPast' /\ NothingChosen' /\ ViewIsCurrent' /\ TriggerOnTrack' /\ RolloutFree'
  BY DEF End, ViewIsPast, NothingChosen, ViewIsCurrent, TriggerOnTrack, Triggering, RolloutFree
<1>2. UpdatingInPlace' = UpdatingInPlace
  BY DEF UpdatingInPlace
<1>3. PromiseKept' /\ DisabledNone' /\ UnmarkedRunsItsSpec'
  BY <1>2 DEF UpdateInv, PromiseKept, DisabledNone, UnmarkedRunsItsSpec
<1>. QED BY <1>1, <1>3 DEF UpdateInv

\* The decision to replace: of the outdated Machines none is being updated.  The
\* decision to offer: the oldest candidate is not being updated either.
LEMMA DecideUpdateInv == ASSUME TypeInv, UpdateInv, Decide PROVE UpdateInv'
<1>. USE DEF TypeInv, machines, update, nodes, local, bounds
<1>1. UNCHANGED <<phase, objects, mark, hook, runs, promised, view>> /\ pc = "decide" /\ pc' \in {"scale", "offer"}
  BY DEF Decide
<1>2. UpdatingInPlace' = UpdatingInPlace
  BY <1>1 DEF UpdatingInPlace
<1>3. ViewIsPast' /\ ViewIsCurrent' /\ PromiseKept' /\ DisabledNone' /\ UnmarkedRunsItsSpec'
  BY <1>1, <1>2 DEF UpdateInv, ViewIsPast, ViewIsCurrent, PromiseKept, DisabledNone,
     UnmarkedRunsItsSpec, Exists, Listed
<1>4. rollout = {}
  BY <1>1 DEF UpdateInv, NothingChosen
<1>5. ASSUME Claimed = {} \/ ~Enabled
      PROVE  \A m \in MachinesNeedingRollout : phase[m] = "running" => m \notin UpdatingInPlace
  BY <1>1, <1>5 DEF UpdateInv, ViewIsCurrent, DisabledNone, Claimed, MachinesNeedingRollout, Kept
<1>6. CASE pc' = "scale"
  <2>1. rollout' = {} \/ (rollout' = MachinesNeedingRollout /\ (Claimed = {} \/ ~Enabled))
    BY <1>6 DEF Decide
  <2>2. RolloutFree'
    BY <1>1, <1>2, <1>5, <2>1 DEF RolloutFree
  <2>. QED BY <1>3, <1>6, <2>2 DEF UpdateInv, NothingChosen, TriggerOnTrack, Triggering
<1>7. CASE pc' = "offer"
  <2>1. /\ Enabled /\ Claimed = {} /\ Candidates # {} /\ target' = OldestOf(Candidates)
        /\ rollout' = {}
    BY <1>4, <1>7 DEF Decide
  <2>2. target' \in Candidates
    BY <2>1, OldestType DEF Candidates, MachinesNeedingRollout, Kept
  <2>3. target' \in Machines /\ target' \in MachinesNeedingRollout
    BY <2>2 DEF Candidates, MachinesNeedingRollout, Kept
  <2>4. phase[target'] = "running" => target' \notin UpdatingInPlace
    BY <1>5, <2>1, <2>3
  <2>5. phase[target'] = "running" => view.objects[target'] = objects[target']
    BY <1>1, <2>3 DEF UpdateInv, ViewIsCurrent
  <2>6. TriggerOnTrack'
    BY <1>1, <1>7, <2>1, <2>3, <2>4, <2>5 DEF TriggerOnTrack, UpdatingInPlace
  <2>. QED BY <1>3, <1>7, <2>1, <2>6 DEF UpdateInv, NothingChosen, RolloutFree
<1>. QED BY <1>1, <1>6, <1>7

\* The extension that takes the whole change promises it; of a Machine that it does
\* not take in full nothing is marked, and it is replaced.
LEMMA OfferUpdateInv == ASSUME TypeInv, UpdateInv, Offer PROVE UpdateInv'
<1>. USE DEF TypeInv, machines, update, nodes, local, bounds
<1>1. /\ UNCHANGED <<phase, objects, mark, hook, runs, view>>
      /\ pc = "offer" /\ pc' \in {"scale", "annotate"}
      /\ target \in Machines
  BY DEF Offer, Triggering
<1>2. UpdatingInPlace' = UpdatingInPlace
  BY <1>1 DEF UpdatingInPlace
<1>3. ViewIsPast' /\ ViewIsCurrent' /\ DisabledNone' /\ UnmarkedRunsItsSpec'
  BY <1>1, <1>2 DEF UpdateInv, ViewIsPast, ViewIsCurrent, DisabledNone, UnmarkedRunsItsSpec,
     Exists, Listed
<1>4. phase[target] = "running" => target \notin UpdatingInPlace
  BY <1>1 DEF UpdateInv, TriggerOnTrack, Triggering, UpdatingInPlace
<1>5. CASE pc' = "scale"
  <2>1. promised' = promised /\ rollout' = {target}
    BY <1>5 DEF Offer
  <2>. QED BY <1>1, <1>2, <1>3, <1>4, <1>5, <2>1
           DEF UpdateInv, NothingChosen, TriggerOnTrack, Triggering, PromiseKept, RolloutFree
<1>6. CASE pc' = "annotate"
  <2>1. PICK covered \in Answers :
           /\ CanUpdateMachine(target, covered) /\ target' = target /\ rollout' = rollout
           /\ promised' = [promised EXCEPT ![target] = IF Exists(target) THEN covered ELSE {}]
    BY <1>6 DEF Offer
  <2>2. phase[target] = "running" => promised'[target] = covered
    BY <1>1, <2>1 DEF TypeOK, Exists
  <2>3. TriggerOnTrack'
    BY <1>1, <1>6, <2>1, <2>2
       DEF UpdateInv, TriggerOnTrack, Triggering, Pending, CanUpdateMachine, PatchReaches, Plan
  <2>4. phase[target] = "running" => runs[target] = objects[target]
    BY <1>1, <1>4 DEF UpdateInv, UnmarkedRunsItsSpec
  <2>5. PromiseKept'
    BY <1>1, <2>1, <2>4 DEF UpdateInv, PromiseKept, TypeOK
  <2>. QED BY <1>1, <1>3, <1>6, <2>1, <2>3, <2>5 DEF UpdateInv, NothingChosen, RolloutFree
<1>. QED BY <1>1, <1>5, <1>6

\* The writes of triggerInPlaceUpdate: the mark comes first, so whichever is the
\* last, the node does not pass for one that runs what its objects say.
LEMMA TriggerUpdateInv ==
  ASSUME TypeInv, UpdateInv, Annotate \/ WriteInfraMachine \/ WriteTalosConfig \/ WriteMachine
  PROVE  UpdateInv'
<1>. USE DEF TypeInv, machines, update, nodes, local, bounds
<1>1. /\ UNCHANGED <<phase, hook, runs, promised, view, target, rollout>>
      /\ <<pc, pc'>> \in {<<"annotate", "infra">>, <<"infra", "config">>,
                          <<"config", "machine">>, <<"machine", "pending">>}
      /\ target \in Machines
  BY DEF Annotate, WriteInfraMachine, WriteTalosConfig, WriteMachine, Triggering
<1>2. /\ mark' = mark \/ \E p \in Parts : mark' = [mark EXCEPT ![target] = @ \cup {p}]
      /\ pc = "annotate" => mark' = [mark EXCEPT ![target] = @ \cup {"machine"}]
      /\ objects' = objects \/ \E p \in Parts :
           /\ objects' = [objects EXCEPT ![target][p] = Plan(target)[p]]
           /\ p = pc /\ p # "infra"
  BY DEF Annotate, WriteInfraMachine, WriteTalosConfig, WriteMachine, Write, Parts
<1>3. \A m \in Machines \ {target} : mark'[m] = mark[m] /\ objects'[m] = objects[m]
  BY <1>1, <1>2 DEF TypeOK
<1>4. /\ Enabled
      /\ phase[target] = "running" => target \notin hook /\ "machine" \in mark'[target]
  <2>1. phase[target] = "running" /\ pc # "annotate" => "machine" \in mark[target]
    BY <1>1 DEF UpdateInv, TriggerOnTrack, Triggering
  <2>2. mark[target] \subseteq mark'[target]
    BY <1>1, <1>2 DEF TypeOK
  <2>3. pc = "annotate" => "machine" \in mark'[target]
    BY <1>1, <1>2 DEF TypeOK
  <2>. QED BY <1>1, <2>1, <2>2, <2>3 DEF UpdateInv, TriggerOnTrack, Triggering
<1>5. ViewIsPast' /\ NothingChosen' /\ ViewIsCurrent' /\ RolloutFree'
  BY <1>1 DEF UpdateInv, ViewIsPast, NothingChosen, ViewIsCurrent, RolloutFree, Exists, Listed
<1>6. /\ pc \in Triggering /\ pc' \in Triggering /\ pc \notin {"offer", "pending"}
      /\ pc' \notin {"offer", "annotate"}
  BY <1>1 DEF Triggering
<1>7. ASSUME phase[target] = "running", NEW p \in Parts
      PROVE  /\ PatchReaches(target, p, promised[target])
             /\ Pending(p) \/ objects[target][p] = view.objects[target][p]
  BY <1>6, <1>7 DEF UpdateInv, TriggerOnTrack
<1>8. ASSUME NEW p \in Parts, p # pc \/ p = "infra"
      PROVE  objects'[target][p] = objects[target][p]
  BY <1>1, <1>2, <1>8 DEF TypeOK, Generations
<1>9. TriggerOnTrack'
  <2>1. ASSUME phase[target] = "running", NEW p \in Parts
        PROVE  Pending(p)' \/ objects'[target][p] = view.objects[target][p]
    <3>1. CASE p = pc /\ p # "infra"
      BY <1>1, <3>1 DEF Pending, Parts
    <3>2. CASE p # pc \/ p = "infra"
      BY <1>1, <1>7, <1>8, <2>1, <3>2 DEF Pending
    <3>. QED BY <3>1, <3>2
  <2>. QED BY <1>1, <1>4, <1>6, <1>7, <2>1 DEF TriggerOnTrack, PatchReaches, Plan
<1>10. PromiseKept'
  <2>1. ASSUME phase[target] = "running", NEW p \in Parts, p = pc, p # "infra",
               p \notin promised[target]
        PROVE  objects'[target][p] = objects[target][p]
    <3>1. view.objects[target][p] = Plan(target)[p] /\ objects[target][p] = view.objects[target][p]
      BY <1>7, <2>1 DEF PatchReaches, Pending
    <3>2. objects' = objects \/ objects'[target][p] = Plan(target)[p]
      BY <1>1, <1>2, <2>1 DEF TypeOK, Generations
    <3>. QED BY <3>1, <3>2
  <2>2. ASSUME phase[target] = "running", NEW p \in Parts, p \notin promised[target]
        PROVE  runs[target][p] = objects'[target][p]
    BY <1>1, <1>8, <2>1, <2>2 DEF UpdateInv, PromiseKept
  <2>. QED BY <1>1, <1>3, <2>2 DEF UpdateInv, PromiseKept
<1>11. DisabledNone' /\ UnmarkedRunsItsSpec'
  BY <1>1, <1>3, <1>4 DEF UpdateInv, DisabledNone, UnmarkedRunsItsSpec, UpdatingInPlace
<1>. QED BY <1>5, <1>9, <1>10, <1>11 DEF UpdateInv

\* The last write, the hook: the Machine is marked by then, and the reconcile has
\* chosen none to replace.
LEMMA MarkAsPendingUpdateInv == ASSUME TypeInv, UpdateInv, MarkAsPending PROVE UpdateInv'
<1>. USE DEF TypeInv, machines, update, nodes, local, bounds
<1>1. /\ UNCHANGED <<phase, objects, mark, runs, promised, view, rollout>>
      /\ pc = "pending" /\ pc' = "scale" /\ hook' = hook \cup {target} /\ target \in Machines
  BY DEF MarkAsPending, Triggering
<1>2. rollout' = {} /\ Enabled
  BY <1>1 DEF UpdateInv, NothingChosen, TriggerOnTrack, Triggering
<1>3. UpdatingInPlace \subseteq UpdatingInPlace'
  BY <1>1 DEF UpdatingInPlace
<1>. QED BY <1>1, <1>2, <1>3
         DEF UpdateInv, ViewIsPast, NothingChosen, ViewIsCurrent, TriggerOnTrack, Triggering,
             PromiseKept, DisabledNone, RolloutFree, UnmarkedRunsItsSpec, Exists, Listed

\* What a reconcile reads when it starts is current.
LEMMA BeginUpdateInv == ASSUME TypeInv, UpdateInv, Begin \/ NoRemediation PROVE UpdateInv'
<1>. USE DEF TypeInv, machines, update, nodes, local, bounds
<1>1. UNCHANGED <<phase, objects, mark, hook, runs, promised, rollout>> /\ UpdatingInPlace' = UpdatingInPlace
  BY DEF Begin, NoRemediation, UpdatingInPlace
<1>2. NothingChosen' /\ TriggerOnTrack' /\ PromiseKept' /\ DisabledNone' /\ RolloutFree' /\ UnmarkedRunsItsSpec'
  BY <1>1 DEF UpdateInv, NothingChosen, TriggerOnTrack, Triggering, PromiseKept, DisabledNone,
     RolloutFree, UnmarkedRunsItsSpec, Begin, NoRemediation
<1>3. CASE Begin
  <2>1. /\ view'.phase = phase /\ view'.objects = objects /\ view'.updating = UpdatingInPlace
    BY <1>3 DEF Begin, Current
  <2>2. ViewIsPast' /\ ViewIsCurrent'
    BY <1>1, <2>1 DEF ViewIsPast, ViewIsCurrent, Listed, Exists
  <2>. QED BY <1>2, <2>2 DEF UpdateInv
<1>4. CASE NoRemediation
  <2>1. ViewIsPast' /\ ViewIsCurrent'
    BY <1>1, <1>4 DEF NoRemediation, UpdateInv, ViewIsPast, ViewIsCurrent, Listed, Exists
  <2>. QED BY <1>2, <2>1 DEF UpdateInv
<1>. QED BY <1>3, <1>4

\* The invariant of in-place updates holds throughout.
LEMMA UpdateInvInductive ==
  /\ Init => UpdateInv
  /\ TypeInv /\ UpdateInv /\ [Next]_vars => UpdateInv'
<1>1. Init => UpdateInv
  BY DEF Init, UpdateInv, ViewIsPast, NothingChosen, ViewIsCurrent, TriggerOnTrack, Triggering,
     PromiseKept, DisabledNone, RolloutFree, UnmarkedRunsItsSpec, UpdatingInPlace
<1>2. ASSUME TypeInv, UpdateInv, [Next]_vars PROVE UpdateInv'
  <2>1. TypeInv'
    BY <1>2, TypeInvInductive
  <2>. USE DEF TypeInv, machines, update, nodes, local, bounds
  <2>2. CASE Environment
    BY <1>2, <2>1, <2>2, EnvironmentSpares, SparesUpdateInv
  <2>3. CASE Decide \/ Offer \/ Annotate \/ WriteInfraMachine \/ WriteTalosConfig \/ WriteMachine
             \/ MarkAsPending \/ Begin \/ NoRemediation
    BY <1>2, <2>3, DecideUpdateInv, OfferUpdateInv, TriggerUpdateInv, MarkAsPendingUpdateInv,
       BeginUpdateInv
  <2>4. CASE ExtensionFails \/ WriteFails \/ NoScaling \/ Crash
    BY <1>2, <2>1, <2>4, EndUpdateInv DEF ExtensionFails, WriteFails, NoScaling, Crash
  <2>5. CASE ScaleUp
    BY <1>2, <2>1, <2>5, EndUpdateInv DEF ScaleUp, TypeOK
  <2>6. CASE ScaleDown \/ \E m \in Machines : Remediate(m)
    BY <1>2, <2>1, <2>6, EndUpdateInv DEF ScaleDown, Remediate, RequestDeletion, TypeOK
  <2>7. CASE UNCHANGED vars
    BY <1>2, <2>7 DEF vars, UpdateInv, ViewIsPast, NothingChosen, ViewIsCurrent, TriggerOnTrack,
       Pending, PatchReaches, Plan, PromiseKept, DisabledNone, RolloutFree, UnmarkedRunsItsSpec,
       UpdatingInPlace, Exists, Listed
  <2>. QED BY <1>2, <2>2, <2>3, <2>4, <2>5, <2>6, <2>7 DEF Next, Reconciler
<1>. QED BY <1>1, <1>2

-----------------------------------------------------------------------------
(* What a reconcile knows of etcd, while nothing happened since it looked *)

\* Before a remediation: what was read is what is.
SeenCurrent ==
    pc = "remediate" /\ stable =>
        /\ view.phase = phase /\ view.updating = UpdatingInPlace
        /\ view.etcd.voters = voters /\ view.etcd.healthy \subseteq Kept \cap up

\* Until the Machine is committed: etcd passes the check made before the offer.
CheckedHealthy == pc \in {"offer", "annotate"} /\ stable => EtcdHealthcheck

HealthInv == SeenCurrent /\ CheckedHealthy

\* Nothing that the health checks look at changed.
SameHealth == UNCHANGED <<phase, nodeRef, mark, hook, down, broken, view>>

\* The health checks then come to the same result.
LEMMA SameHealthKeeps ==
  ASSUME SameHealth
  PROVE  /\ voters' = voters /\ up' = up /\ UpdatingInPlace' = UpdatingInPlace
         /\ Kept' = Kept /\ (EtcdHealthcheck' <=> EtcdHealthcheck)
  BY DEF SameHealth, voters, up, UpdatingInPlace, Kept, EtcdHealthcheck, Existing, Exists, Listed,
     Provisioned

\* The reconcile goes on only with what it checked, and forgets it at the end.
LEMMA HealthInvInductive ==
  /\ Init => HealthInv
  /\ TypeInv /\ HealthInv /\ [Next]_vars => HealthInv'
<1>1. Init => HealthInv
  BY DEF Init, HealthInv, SeenCurrent, CheckedHealthy
<1>2. ASSUME TypeInv, HealthInv, [Next]_vars PROVE HealthInv'
  <2>. USE DEF machines, update, nodes, local, bounds
  <2>1. ASSUME SameHealth, pc' = pc, stable' = stable PROVE HealthInv'
    BY <1>2, <2>1, SameHealthKeeps DEF HealthInv, SeenCurrent, CheckedHealthy, SameHealth
  <2>2. CASE Environment
    <3>1. pc' = pc /\ (stable' = FALSE \/ (SameHealth /\ stable' = stable))
      BY <2>2 DEF Environment, Edit, Break, Join, FlagUnhealthy, Delete, Gone, Restart,
         CancelUpdate, FinishUpdate, Disturb, SameHealth
    <3>. QED BY <2>1, <3>1 DEF HealthInv, SeenCurrent, CheckedHealthy
  <2>3. CASE UNCHANGED vars
    BY <2>1, <2>3 DEF vars, SameHealth
  <2>4. CASE Begin
    <3>1. /\ view'.phase = phase /\ view'.updating = UpdatingInPlace /\ view'.etcd.voters = voters
          /\ view'.etcd.healthy = {m \in voters : phase[m] = "running"} \cap up
      BY <2>4 DEF Begin, Current
    <3>2. UNCHANGED <<phase, nodeRef, mark, hook, down, broken>> /\ pc' = "remediate"
      BY <2>4 DEF Begin
    <3>3. voters' = voters /\ up' = up /\ UpdatingInPlace' = UpdatingInPlace
      BY <3>2 DEF voters, up, UpdatingInPlace, Existing, Exists
    <3>4. SeenCurrent'
      BY <3>1, <3>2, <3>3 DEF SeenCurrent, Kept, voters, Existing
    <3>. QED BY <3>2, <3>4 DEF HealthInv, CheckedHealthy
  <2>5. CASE Decide
    <3>1. SameHealth /\ pc' \in {"scale", "offer"} /\ (pc' = "offer" => EtcdHealthcheck)
      BY <2>5 DEF Decide, SameHealth, HealthyForUpdate
    <3>. QED BY <3>1, SameHealthKeeps DEF HealthInv, SeenCurrent, CheckedHealthy
  <2>6. CASE Offer
    <3>1. /\ SameHealth /\ pc = "offer" /\ pc' \in {"scale", "annotate"} /\ stable' = stable
      BY <2>6 DEF Offer, SameHealth
    <3>. QED BY <1>2, <3>1, SameHealthKeeps DEF HealthInv, SeenCurrent, CheckedHealthy
  <2>7. CASE NoRemediation \/ Annotate \/ WriteInfraMachine \/ WriteTalosConfig \/ WriteMachine
             \/ MarkAsPending
    BY <2>7 DEF NoRemediation, Annotate, WriteInfraMachine, WriteTalosConfig, WriteMachine,
       MarkAsPending, HealthInv, SeenCurrent, CheckedHealthy
  <2>8. CASE \/ ExtensionFails \/ WriteFails \/ NoScaling \/ Crash \/ ScaleUp \/ ScaleDown
             \/ \E m \in Machines : Remediate(m)
    <3>1. pc' = "idle"
      BY <2>8 DEF ExtensionFails, WriteFails, NoScaling, Crash, ScaleUp, ScaleDown, Remediate, End
    <3>. QED BY <3>1 DEF HealthInv, SeenCurrent, CheckedHealthy
  <2>. QED BY <1>2, <2>2, <2>3, <2>4, <2>5, <2>6, <2>7, <2>8 DEF Next, Reconciler
<1>. QED BY <1>1, <1>2

-----------------------------------------------------------------------------
(* Theorems *)

InPlaceInv == TypeInv /\ UpdateInv /\ HealthInv

\* The invariant holds throughout.
LEMMA InPlaceInvariant == Spec => []InPlaceInv
<1>1. Init => InPlaceInv
  BY TypeInvInductive, UpdateInvInductive, HealthInvInductive DEF InPlaceInv
<1>2. InPlaceInv /\ [Next]_vars => InPlaceInv'
  BY TypeInvInductive, UpdateInvInductive, HealthInvInductive DEF InPlaceInv
<1>. QED BY <1>1, <1>2, PTL DEF Spec

\* Every state is well typed: a reconcile has a view exactly while it runs, and a
\* node restarts only for an update whose hook is pending.
THEOREM TypeCorrect == Spec => []TypeOK
<1>1. InPlaceInv => TypeOK
  BY DEF InPlaceInv, TypeInv
<1>. QED BY <1>1, InPlaceInvariant, PTL

\* triggerInPlaceUpdate: whichever write is the last, a Machine that is not marked
\* runs what its objects say.
THEOREM NoUnmarkedDrift == Spec => []UnmarkedRunsItsSpec
<1>1. InPlaceInv => UnmarkedRunsItsSpec
  BY DEF InPlaceInv, UpdateInv
<1>. QED BY <1>1, InPlaceInvariant, PTL

\* A deletion that ends a reconcile is a remediation's or a scale-down's.
LEMMA DeletionStep ==
  ASSUME TypeInv, [Next]_vars, NEW m \in Machines, pc' = "idle", pc # "idle",
         phase[m] = "running", phase'[m] = "deleting"
  PROVE  Remediate(m) \/ (ScaleDown /\ m \in Victims)
<1>. USE DEF machines, update, nodes, local, bounds, TypeInv, TypeOK
<1>1. CASE Environment
  <2>1. pc' = pc
    BY <1>1, EnvironmentSpares DEF SparesReconcile
  <2>. QED BY <2>1
<1>2. CASE UNCHANGED vars
  BY <1>2 DEF vars
<1>3. CASE ScaleDown
  BY <1>3 DEF ScaleDown, RequestDeletion
<1>4. ASSUME NEW n \in Machines, Remediate(n) PROVE Remediate(m)
  BY <1>4 DEF Remediate, RequestDeletion
<1>5. CASE ScaleUp
  BY <1>5 DEF ScaleUp
<1>6. CASE \/ Begin \/ NoRemediation \/ Decide \/ Offer \/ Annotate \/ WriteInfraMachine
           \/ WriteTalosConfig \/ WriteMachine \/ MarkAsPending \/ ExtensionFails \/ WriteFails
           \/ NoScaling \/ Crash
  BY <1>6 DEF Begin, NoRemediation, Decide, Offer, Annotate, WriteInfraMachine,
     WriteTalosConfig, WriteMachine, MarkAsPending, ExtensionFails, WriteFails, NoScaling, Crash
<1>. QED BY <1>1, <1>2, <1>3, <1>4, <1>5, <1>6 DEF Next, Reconciler

\* The rollout leaves the Machines alone that are committed to an in-place update.
THEOREM UpdatesAreNotReplaced == Spec => CommittedNotReplaced
<1>. DEFINE Spared == \A m \in rollout :
         pc = "scale" /\ phase[m] = "running" /\ phase'[m] = "deleting" /\ pc' = "idle"
           => m \notin UpdatingInPlace
<1>1. InPlaceInv /\ [Next]_vars => Spared
  BY DEF InPlaceInv, UpdateInv, RolloutFree
<1>2. Spec => [][Spared]_vars
  BY <1>1, InPlaceInvariant, PTL DEF Spec
<1>. QED BY <1>2 DEF CommittedNotReplaced

\* Voters are Machines, finitely many.
LEMMA VotersFinite == IsFiniteSet(voters) /\ voters \subseteq Machines
<1>1. voters \in SUBSET Machines
  BY DEF voters, Existing
<1>. QED BY <1>1, MachinesNumbered, FS_Subset

\* canSafelyRemoveEtcdMember, asked of what was read and not of what is: a
\* remediation leaves etcd a majority, without the nodes an update may restart.
LEMMA RemediationKeepsQuorum ==
  ASSUME InPlaceInv, NEW m \in Machines, Remediate(m), stable
  PROVE  HasMajority(voters \ {m}, up \ UpdatingInPlace)
<1>. DEFINE U == (up \ UpdatingInPlace) \cup {m}
<1>1. /\ view.updating = UpdatingInPlace /\ view.etcd.voters = voters
      /\ view.etcd.healthy \subseteq Kept \cap up
  BY DEF InPlaceInv, HealthInv, SeenCurrent, Remediate
<1>2. /\ view.updating \cap Listed \subseteq {m}
      /\ CanSafelyRemoveEtcdMember(voters, {}, m, Listed, Provisioned, view.etcd.healthy)
  BY <1>1 DEF Remediate, MayRemediate
<1>3. view.etcd.healthy \subseteq U
  BY <1>1, <1>2 DEF Kept, Listed
<1>4. HasMajority(voters \ {m}, U)
  BY <1>2, <1>3, VotersFinite, SafeRemoval
<1>5. (voters \ {m}) \cap U = (voters \ {m}) \cap (up \ UpdatingInPlace)
  OBVIOUS
<1>. QED BY <1>4, <1>5 DEF HasMajority

\* preflightChecks: when the scale-down deletes a Machine, every other node of the
\* list is up, and there is one.
LEMMA ScaleDownKeepsQuorum ==
  ASSUME InPlaceInv, ScaleDown, NEW m \in Victims
  PROVE  HasMajority(voters \ {m}, up)
<1>1. /\ m = OldestOf(ScaleDownCandidates) /\ Cardinality(Listed) > 1 /\ PreflightChecks({m})
  BY DEF Victims
<1>2. Listed \ {m} \subseteq up
  BY <1>1 DEF PreflightChecks, NodesHealthcheck
<1>3. voters \subseteq Listed
  <2>1. \A n \in Machines : Exists(n) => n \in Listed
    BY DEF InPlaceInv, UpdateInv, ViewIsPast, ScaleDown
  <2>. QED BY <2>1 DEF voters, Existing
<1>4. Listed \ {m} # {}
  <2>. SUFFICES ASSUME Listed \subseteq {m} PROVE FALSE
    OBVIOUS
  <2>1. IsFiniteSet({m}) /\ Cardinality({m}) = 1
    BY FS_Singleton
  <2>2. Cardinality(Listed) <= 1 /\ Cardinality(Listed) \in Nat
    BY <2>1, FS_Subset, FS_CardinalityType
  <2>. QED BY <1>1, <2>2
<1>5. voters \ {m} # {} /\ voters \ {m} \subseteq up
  BY <1>2, <1>3, <1>4 DEF up
<1>6. IsFiniteSet(voters \ {m})
  BY VotersFinite, FS_Subset
<1>. QED BY <1>5, <1>6, AllUpIsMajority

\* Every deletion of the controller leaves etcd a majority, when nothing happened
\* to nodes and Machines since the last health check.
THEOREM DeletionsSpareQuorum == Spec => DeletionsKeepQuorum
<1>. DEFINE Spared == \A m \in Machines :
         pc \in {"remediate", "scale"} /\ pc' = "idle" /\ stable
         /\ phase[m] = "running" /\ phase'[m] = "deleting"
           => HasMajority(voters \ {m}, up)
<1>1. ASSUME InPlaceInv, [Next]_vars PROVE Spared
  <2>. SUFFICES ASSUME NEW m \in Machines, pc \in {"remediate", "scale"}, pc' = "idle", stable,
                       phase[m] = "running", phase'[m] = "deleting"
                PROVE  HasMajority(voters \ {m}, up)
    OBVIOUS
  <2>1. Remediate(m) \/ (ScaleDown /\ m \in Victims)
    BY <1>1, DeletionStep DEF InPlaceInv
  <2>2. CASE ScaleDown /\ m \in Victims
    BY <1>1, <2>2, ScaleDownKeepsQuorum
  <2>3. CASE Remediate(m)
    <3>1. HasMajority(voters \ {m}, up \ UpdatingInPlace)
      BY <1>1, <2>3, RemediationKeepsQuorum
    <3>2. HasMajority(voters \ {m}, up)
      <4>. DEFINE V == voters \ {m}
      <4>1. IsFiniteSet(V) /\ IsFiniteSet(V \cap up)
        BY VotersFinite, FS_Subset
      <4>2. V \cap (up \ UpdatingInPlace) \in SUBSET (V \cap up)
        OBVIOUS
      <4>3. /\ Cardinality(V \cap (up \ UpdatingInPlace)) <= Cardinality(V \cap up)
            /\ Cardinality(V \cap (up \ UpdatingInPlace)) \in Nat
        BY <4>1, <4>2, FS_Subset, FS_CardinalityType
      <4>4. Cardinality(V) \in Nat /\ Cardinality(V \cap up) \in Nat
        BY <4>1, FS_CardinalityType
      <4>. HIDE DEF V
      <4>5. Cardinality(V \cap (up \ UpdatingInPlace)) >= Quorum(Cardinality(V))
        BY <3>1 DEF HasMajority, V
      <4>6. Cardinality(V \cap up) >= Quorum(Cardinality(V))
        BY <4>3, <4>4, <4>5 DEF Quorum
      <4>. QED BY <4>6 DEF HasMajority, V
    <3>. QED BY <3>2
  <2>. QED BY <2>1, <2>2, <2>3
<1>2. Spec => [][Spared]_vars
  BY <1>1, InPlaceInvariant, PTL DEF Spec
<1>. QED BY <1>2 DEF DeletionsKeepQuorum

\* A remediation counts on no node that an in-place update may restart.
THEOREM RemediationCountsOnNoUpdate == Spec => RemediationSparesUpdates
<1>. DEFINE Spared == \A m \in Machines :
         /\ pc = "remediate" /\ phase[m] = "running" /\ phase'[m] = "deleting" /\ pc' = "idle"
         /\ stable
         => HasMajority(voters \ {m}, up \ UpdatingInPlace)
<1>1. ASSUME InPlaceInv, [Next]_vars PROVE Spared
  <2>. SUFFICES ASSUME NEW m \in Machines, pc = "remediate", phase[m] = "running",
                       phase'[m] = "deleting", pc' = "idle", stable
                PROVE  HasMajority(voters \ {m}, up \ UpdatingInPlace)
    OBVIOUS
  <2>1. Remediate(m)
    BY <1>1, DeletionStep DEF InPlaceInv, ScaleDown
  <2>. QED BY <1>1, <2>1, RemediationKeepsQuorum
<1>2. Spec => [][Spared]_vars
  BY <1>1, InPlaceInvariant, PTL DEF Spec
<1>. QED BY <1>2 DEF RemediationSparesUpdates

\* A step that commits a Machine, where none is committed or being deleted, is the
\* first write of the trigger.
LEMMA CommitStep ==
  ASSUME InPlaceInv, [Next]_vars, NEW m \in Machines,
         m \notin UpdatingInPlace, m \in UpdatingInPlace', \A n \in Machines : phase[n] # "deleting"
  PROVE  Annotate
<1>. USE DEF machines, update, nodes, local, bounds
<1>1. TypeInv /\ UpdateInv
  BY DEF InPlaceInv
<1>2. ASSUME UNCHANGED <<mark, hook>> PROVE FALSE
  BY <1>2 DEF UpdatingInPlace
<1>3. CASE Environment
  BY <1>1, <1>3, EnvironmentSpares DEF SparesReconcile
<1>4. CASE WriteInfraMachine \/ WriteTalosConfig
  BY <1>1, <1>4 DEF WriteInfraMachine, WriteTalosConfig, Write, UpdatingInPlace, TypeInv, TypeOK
<1>5. CASE MarkAsPending
  <2>1. target \in Machines /\ phase[target] = "running" /\ pc = "pending"
    BY <1>1, <1>5 DEF MarkAsPending, Exists, TypeInv, Triggering
  <2>2. target \in UpdatingInPlace
    BY <1>1, <2>1 DEF UpdateInv, TriggerOnTrack, Triggering, UpdatingInPlace
  <2>. QED BY <1>5, <2>2 DEF MarkAsPending, UpdatingInPlace
<1>6. CASE \/ Begin \/ NoRemediation \/ Decide \/ Offer \/ WriteMachine \/ ExtensionFails
           \/ WriteFails \/ NoScaling \/ Crash \/ ScaleUp \/ ScaleDown
           \/ (\E n \in Machines : Remediate(n)) \/ UNCHANGED vars
  BY <1>2, <1>6 DEF Begin, NoRemediation, Decide, Offer, WriteMachine, ExtensionFails,
     WriteFails, NoScaling, Crash, ScaleUp, ScaleDown, Remediate, vars
<1>. QED BY <1>3, <1>4, <1>5, <1>6 DEF Next, Reconciler

\* An update starts only while etcd can do without the node.
THEOREM UpdateWaitsForQuorum == Spec => UpdateSparesQuorum
<1>. DEFINE Spared == \A m \in Machines :
         /\ m \notin UpdatingInPlace /\ m \in UpdatingInPlace'
         /\ stable /\ UpdatingInPlace = {} /\ \A n \in Machines : phase[n] # "deleting"
         /\ Cardinality(voters) > 2
         => HasMajority(voters, up \ {m})
<1>1. ASSUME InPlaceInv, [Next]_vars PROVE Spared
  <2>. SUFFICES ASSUME NEW m \in Machines, m \notin UpdatingInPlace, m \in UpdatingInPlace',
                       stable, \A n \in Machines : phase[n] # "deleting", Cardinality(voters) > 2
                PROVE  HasMajority(voters, up \ {m})
    OBVIOUS
  <2>1. Annotate
    BY <1>1, CommitStep
  <2>2. Kept \subseteq up
    BY <1>1, <2>1 DEF InPlaceInv, HealthInv, CheckedHealthy, EtcdHealthcheck, Annotate
  <2>3. voters \subseteq Kept
    <3>1. \A n \in Machines : phase[n] = "running" => n \in Kept
      BY <1>1, <2>1 DEF InPlaceInv, UpdateInv, ViewIsPast, Kept, Annotate
    <3>. QED BY <3>1 DEF voters, Existing, Exists
  <2>4. voters \cap (up \ {m}) = voters \ {m}
    BY <2>2, <2>3
  <2>5. Cardinality(voters \ {m}) >= Cardinality(voters) - 1 /\ Cardinality(voters) \in Nat
    <3>1. Cardinality(voters) \in Nat
      BY VotersFinite, FS_CardinalityType
    <3>2. Cardinality(voters \ {m}) =
            IF m \in voters THEN Cardinality(voters) - 1 ELSE Cardinality(voters)
      BY VotersFinite, FS_RemoveElement
    <3>. HIDE DEF voters
    <3>. QED BY <3>1, <3>2
  <2>6. Cardinality(voters \ {m}) \in Nat
    BY VotersFinite, FS_Subset, FS_CardinalityType
  <2>7. Cardinality(voters \ {m}) >= Quorum(Cardinality(voters))
    BY <2>5, <2>6 DEF Quorum
  <2>. QED BY <2>4, <2>7 DEF HasMajority
<1>2. Spec => [][Spared]_vars
  BY <1>1, InPlaceInvariant, PTL DEF Spec
<1>. QED BY <1>2 DEF UpdateSparesQuorum
=============================================================================
