\* Both methods, no faults; three entries that can be extracted, or two.
CONSTANTS
    w1 = w1
    w2 = w2
    Paths <- MCPaths
    Workers <- MCWorkers
    Methods <- MCMethods
    Faulty = FALSE
    Chunks = 1
    MaxEntries = 3
    MaxAttempts = 1
SPECIFICATION MCFairSpec
PROPERTIES
    ExtractSucceeds
    ExtractsWithoutDirectories
    Returns
CHECK_DEADLOCK FALSE
