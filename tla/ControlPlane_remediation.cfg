SPECIFICATION Spec
CONSTANTS
    MaxMachines = 4
    Initial = 3
    Replacements = {2}
    Sizes = {}
    MaxSurge = 1
    OnDelete = FALSE
    MaxRetry = 1
    ToRemediate = {2}
    Deletable = {}
    ToDelete = {}
    Domains = {"a", "b", "c"}
    Marked = {}
    Placement <- OneEach
    StaleCache = TRUE
    Breakable = {1}
    MaxEvents = 2
    MaxEdits = 0
    MaxFaults = 1
INVARIANTS
    TypeOK
    OneRemediationAtATime
    RetriesBounded
PROPERTIES
    DeletionsKeepQuorum
    ImplementsRemediations
