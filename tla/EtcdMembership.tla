---------------------------- MODULE EtcdMembership ----------------------------
(***************************************************************************)
(* What the provider promises about etcd membership, without the hook, the *)
(* deadline, the audit, the cache or the order of calls by which it keeps  *)
(* the promise: a member leaves etcd only for a Machine whose deletion was *)
(* requested, a Machine is torn down only when it is out of etcd or when   *)
(* its removal was waived, and a Machine that left does not come back      *)
(* unless it was waived.  Nothing is promised of the member of a Misnamed  *)
(* Machine, whose host names do not tell that the member is its own.       *)
(***************************************************************************)
CONSTANTS Machines, Misnamed

VARIABLES
    members,    \* Machines whose node is in the etcd member list
    requested,  \* Machines whose deletion was requested
    waived,     \* Machines that may be torn down as members
    torn        \* Machines whose infrastructure is being or has been deleted

mvars == <<members, requested, waived, torn>>

Init ==
    /\ members \subseteq Machines
    /\ requested = {} /\ waived = {} /\ torn = {}

\* A node joins, also after the deletion of its Machine if nobody waits for it.
Join(m) ==
    /\ m \notin members /\ (m \in requested => m \in waived)
    /\ members' = members \cup {m}
    /\ UNCHANGED <<requested, waived, torn>>

\* The deletion of a Machine is requested; it is waived if the Machine was not a
\* member or carried no hook at that time.
Request(m) ==
    /\ m \notin requested
    /\ requested' = requested \cup {m}
    /\ waived' \in {waived, waived \cup {m}}
    /\ UNCHANGED <<members, torn>>

\* The removal is given up on: by a user, by a teardown of the control plane, for
\* the last machine, or past the deadline.
Waive(m) ==
    /\ m \notin torn
    /\ waived' = waived \cup {m}
    /\ UNCHANGED <<members, requested, torn>>

\* A removal that had been given up on is done after all, ahead of the teardown.
Resolve(m) ==
    /\ m \in waived \ (members \cup torn)
    /\ waived' = waived \ {m}
    /\ UNCHANGED <<members, requested, torn>>

\* The member of a Machine that is on its way out is removed, before its teardown
\* or, as an orphan, after it; that of a Misnamed one may go for another Machine.
Leave(m) ==
    /\ m \in members \cap (requested \cup Misnamed)
    /\ members' = members \ {m}
    /\ UNCHANGED <<requested, waived, torn>>

TearDown(m) ==
    /\ m \in requested \ torn /\ (m \in members => m \in waived)
    /\ torn' = torn \cup {m}
    /\ UNCHANGED <<members, requested, waived>>

Next ==
    \E m \in Machines :
        Join(m) \/ Request(m) \/ Waive(m) \/ Resolve(m) \/ Leave(m) \/ TearDown(m)

Spec == Init /\ [][Next]_mvars
=============================================================================
