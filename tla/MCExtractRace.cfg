\* Two threads on an archive that lists directories first.
CONSTANTS
    w1 = w1
    w2 = w2
    Paths <- MCPaths
    Workers <- MCWorkers
    Methods <- MCParallel
    Faulty = FALSE
    Chunks = 1
    MaxEntries = 2
    MaxAttempts = 1
SPECIFICATION FairSpec
PROPERTIES
    ParallelSucceeds
CHECK_DEADLOCK FALSE
