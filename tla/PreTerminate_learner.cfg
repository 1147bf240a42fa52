SPECIFICATION Spec
CONSTANTS
    Machines = {1, 2, 3, 4}
    Predating = {}
    Provisioning = {4}
    Creatable = {}
    HostNamed = {}
    Misnamed = {}
    LearnerJoin = TRUE
    StaleCache = FALSE
    Teardowns = {}
    Escapable = {}
    MaxDeletes = 1
    MaxFailures = 1
    MaxFaults = 0
PROPERTIES
    HookKeepsQuorum
