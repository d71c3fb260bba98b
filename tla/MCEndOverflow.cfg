\* A record_size near 2^64.
CONSTANTS
    Bytes <- MCBytes
    Sig = 9
    EocdLen = 2
    LocatorLen = 1
    Eocd64Len = 3
    CentralLen = 2
    RecordHead = 2
    MaxComment = 2
    Top16 = 3
    Top32 = 15
    Top64 = 15
    Files <- MCRecordFiles
    Eocds <- MCEocds
    Locators <- MCLocators
    Eocd64s <- MCEocd64s
    Builds <- MCBuilds
SPECIFICATION Spec
INVARIANTS
    NeverPanics
CHECK_DEADLOCK FALSE
