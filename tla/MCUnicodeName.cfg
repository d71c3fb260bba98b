\* Up to three entries with names.
CONSTANTS
    Sat = 9
    NtEpoch = 2
    Ticks = 3
    BadBases <- MCNone
    Headers <- MCHeaders
    MaxEntries = 3
SPECIFICATION NamesSpec
INVARIANTS
    FoundByName
CHECK_DEADLOCK FALSE
