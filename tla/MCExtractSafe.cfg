\* Both methods, faults, and a second call after a failed one.
CONSTANTS
    w1 = w1
    w2 = w2
    Paths <- MCPaths
    Workers <- MCWorkers
    Methods <- MCMethods
    Faulty = TRUE
    Chunks = 2
    MaxEntries = 2
    MaxAttempts = 2
SPECIFICATION Spec
INVARIANTS
    OkMeansComplete
PROPERTIES
    NothingOverwritten
SYMMETRY MCSymmetry
CHECK_DEADLOCK FALSE
