SPECIFICATION Spec
CONSTANTS
    MaxMachines = 3
    Replicas = 3
    MaxSurge = 1
    Enabled = TRUE
    Answers <- Whole
    Changes <- Upgrade
    MaxEdits = 1
    MaxBreaks = 0
    Deletable = {}
    MaxEvents = 0
    MaxFaults = 0
INVARIANTS
    UpdatesKeepQuorum
