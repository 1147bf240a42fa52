----------------------------- MODULE Remediations -----------------------------
(***************************************************************************)
(* What the provider promises about remediations, without the record, its  *)
(* timestamps, the cache or the order of calls by which it keeps the       *)
(* promise: a Machine is remediated only when the one before is replaced   *)
(* or given up, it is given up only once it is gone, and a Machine that    *)
(* replaces another takes over its number of remediations in a row, which  *)
(* is limited.                                                             *)
(*                                                                         *)
(* A list of Machines from the cache may have one created while another is *)
(* on its way out; from then on the provider no longer waits for it.       *)
(***************************************************************************)
EXTENDS Naturals

CONSTANTS
    Machines,
    First,      \* the Machines at the start
    Repaired,   \* of these, the ones that replaced a remediated Machine
    MaxRetry    \* spec.remediation.maxRetry

VARIABLES
    alive,      \* Machines that are there to stay
    leaving,    \* remediated Machines that are on their way out
    chain,      \* remediations in a row that led to a Machine
    owed,       \* those that lead to the next replacement, 0 when none is due
    hasty       \* a Machine was created while a remediated one was leaving

rvars == <<alive, leaving, chain, owed, hasty>>

Init ==
    /\ alive = First /\ leaving = {}
    /\ chain = [m \in Machines |-> IF m \in Repaired THEN 1 ELSE 0]
    /\ owed = 0 /\ hasty = FALSE

Settled == hasty \/ leaving = {}

\* A Machine is remediated; the remediations before may be long enough ago to be
\* forgotten.
Remediate(m) ==
    /\ m \in alive /\ owed = 0 /\ Settled
    /\ owed' \in {1, chain[m] + 1} /\ owed' <= MaxRetry + 1
    /\ alive' = alive \ {m} /\ leaving' = leaving \cup {m}
    /\ UNCHANGED <<chain, hasty>>

\* A Machine is created, and is the replacement if one is due.
Create(m) ==
    /\ m \notin alive \cup leaving
    /\ alive' = alive \cup {m} /\ chain' = [chain EXCEPT ![m] = owed]
    /\ owed' = 0 /\ hasty' = (hasty \/ leaving # {})
    /\ UNCHANGED leaving

\* No replacement is needed any more.
Withdraw ==
    /\ Settled
    /\ owed' = 0
    /\ UNCHANGED <<alive, leaving, chain, hasty>>

\* A remediated Machine is gone.
Leave(m) ==
    /\ m \in leaving
    /\ leaving' = leaving \ {m}
    /\ UNCHANGED <<alive, chain, owed, hasty>>

\* A user or a scale-down deletes a Machine.
Remove(m) ==
    /\ m \in alive
    /\ alive' = alive \ {m}
    /\ UNCHANGED <<leaving, chain, owed, hasty>>

Next ==
    \/ Withdraw
    \/ \E m \in Machines : Remediate(m) \/ Create(m) \/ Leave(m) \/ Remove(m)

Spec == Init /\ [][Next]_rvars
=============================================================================
