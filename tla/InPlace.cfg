SPECIFICATION Spec
CONSTANTS
    MaxMachines = 4
    Replicas = 3
    MaxSurge = 0
    Enabled = TRUE
    Answers <- WholeOrPart
    Changes <- UpgradeOrTemplate
    MaxEdits = 1
    MaxBreaks = 1
    Deletable = {1}
    MaxEvents = 1
    MaxFaults = 2
INVARIANTS
    TypeOK
    UnmarkedRunsItsSpec
PROPERTIES
    UpdateSparesQuorum
    RemediationSparesUpdates
    DeletionsKeepQuorum
    CommittedNotReplaced
