\* Two usable names, one refused, contents of up to one byte; the device is
\* full at cell 15; the reader looks for the end record in the last
\* MaxComment + 1 cells.  Content may be an end record for offset 2.
CONSTANTS
    a = a
    b = b
    bad = bad
    x = x
    y = y
    Bases <- MCBases
    BadBases <- MCBadBases
    Bytes <- MCBytes
    Start = 0
    Capacity = 15
    MaxContent = 1
    MaxComment = 2
    EndAt = 2
    AsRecord <- MCAsRecord
SPECIFICATION Spec
INVARIANTS
    TypeOK
    CommittedIntact
    Contiguous
    ResumePoint
    NamesExact
    FinishedListed
    FinishedReadsBack
PROPERTIES
    BlockedUntilRecovered
    ImplementsLog
SYMMETRY MCSymmetry
CHECK_DEADLOCK FALSE
