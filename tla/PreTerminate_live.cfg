SPECIFICATION FairSpec
CONSTANTS
    Machines = {1, 2, 3}
    Predating = {}
    Provisioning = {}
    Creatable = {}
    HostNamed = {}
    Misnamed = {}
    LearnerJoin = FALSE
    StaleCache = FALSE
    Teardowns = {}
    Escapable = {}
    MaxDeletes = 2
    MaxFailures = 1
    MaxFaults = 1
INVARIANTS
    HoldNeverFailsOpen
PROPERTIES
    DeletionNeverParked
    OrphansCollected
    ImplementsMembership
