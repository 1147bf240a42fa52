SPECIFICATION TeardownSpec
CONSTANTS
    Machines = {1, 2}
    Predating = {}
    Provisioning = {2}
    Creatable = {2}
    HostNamed = {}
    Misnamed = {}
    LearnerJoin = TRUE
    StaleCache = TRUE
    Teardowns = {"cluster", "controlplane"}
    Escapable = {1}
    MaxDeletes = 1
    MaxFailures = 0
    MaxFaults = 1
PROPERTIES
    AuditSparesMachines
    TeardownCompletes
    ImplementsMembership
CHECK_DEADLOCK FALSE
