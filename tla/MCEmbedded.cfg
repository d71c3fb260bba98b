\* The writer handed to ArchiveWriter::new does not stand at offset 0.
CONSTANTS
    a = a
    b = b
    bad = bad
    x = x
    y = y
    Bases <- MCBases
    BadBases <- MCBadBases
    Bytes <- MCBytes
    Start = 1
    Capacity = 15
    MaxContent = 1
SPECIFICATION Spec
INVARIANTS
    PrefixIntact
SYMMETRY MCSymmetry
CHECK_DEADLOCK FALSE
