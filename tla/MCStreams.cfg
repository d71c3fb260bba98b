\* One name and contents of up to two bytes: writes that fail halfway, with
\* bytes still in the compressor, and are tried again.  Content may be an end
\* record for offset 3: a file that is torn after it is one that the reader
\* opens.  A stale tail may be longer than what the reader searches.
CONSTANTS
    a = a
    b = b
    bad = bad
    x = x
    y = y
    Bases <- MCOneBase
    BadBases <- MCNoBases
    Bytes <- MCBytes
    Start = 0
    Capacity = 10
    MaxContent = 2
    MaxComment = 2
    EndAt = 3
    AsRecord <- MCAsRecord
SPECIFICATION Spec
INVARIANTS
    StreamFaithful
    UnfinishedRefused
    StaleTailRefused
CHECK_DEADLOCK FALSE
