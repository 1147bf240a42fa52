SPECIFICATION FairSpec
CONSTANTS
    MaxMachines = 4
    Replicas = 3
    StaleCache = TRUE
    Checked = {1, 2}
    MaxEvents = 2
    MaxFaults = 2
INVARIANTS
    TypeOK
    KeptInOneCluster
    RecordedMachineHoldsEtcd
    EtcdOutlivesRemediation
PROPERTIES
    InitializedNeverBootstrapped
    BootstrapCompletes
