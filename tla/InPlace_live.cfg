SPECIFICATION FairSpec
CONSTANTS
    MaxMachines = 6
    Replicas = 2
    MaxSurge = 1
    Enabled = TRUE
    Answers <- WholeOrPart
    Changes <- UpgradeOrTemplate
    MaxEdits = 2
    MaxBreaks = 0
    Deletable = {}
    MaxEvents = 0
    MaxFaults = 2
PROPERTIES
    ChangeReachesNodes
