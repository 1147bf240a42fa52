SPECIFICATION FairSpec
CONSTANTS
    MaxMachines = 6
    Initial = 2
    Replacements = {}
    Sizes = {1, 3}
    MaxSurge = 1
    OnDelete = FALSE
    MaxRetry = 1
    ToRemediate = {}
    Deletable = {1}
    ToDelete = {1}
    Domains = {"a", "b", "x"}
    Marked = {"a", "b"}
    Placement <- OneLost
    StaleCache = FALSE
    Breakable = {}
    MaxEvents = 1
    MaxEdits = 1
    MaxFaults = 1
INVARIANTS
    EvenlySpread
    OneDeletionAtATime
PROPERTIES
    Converges
