SPECIFICATION Spec
CONSTANTS
    MaxMachines = 3
    Replicas = 3
    StaleCache = FALSE
    Checked = {}
    MaxEvents = 2
    MaxFaults = 0
INVARIANTS
    OneEtcdCluster
