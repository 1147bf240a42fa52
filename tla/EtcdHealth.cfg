SPECIFICATION Spec
CONSTANT Machines = {m1, m2, m3, m4}
SYMMETRY Symmetry
INVARIANTS
    TypeOK
    HealthyMeansComplete
    RemediationKeepsQuorum
    RemediationPassesHook
    AdditionKeepsQuorum
    QuorumLostIsCertain
    UnhealthyIsCertain
