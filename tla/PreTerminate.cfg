SPECIFICATION Spec
CONSTANTS
    Machines = {1, 2, 3}
    Predating = {2}
    Provisioning = {3}
    Creatable = {}
    HostNamed = {3}
    Misnamed = {3}
    LearnerJoin = FALSE
    StaleCache = TRUE
    Teardowns = {}
    Escapable = {}
    MaxDeletes = 2
    MaxFailures = 1
    MaxFaults = 1
INVARIANTS
    TypeOK
    ResolvedBeforeTeardown
    OneChangeAtATime
PROPERTIES
    HookKeepsQuorum
