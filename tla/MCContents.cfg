\* Contents and metadata of up to three bytes of two values, read into
\* buffers of up to three; up to four buffers written with one call.
CONSTANTS
    x = x
    y = y
    Bytes <- MCBytes
    MinBuffer = 1
    MaxBuffer = 3
    MaxLength = 3
    MaxHashed = 6
    Octets <- MCOctets
    Inputs <- MCInputs
SPECIFICATION MCSpec
INVARIANTS
    VerifiedAtEof
    NeverTooMuch
    NothingLostOrTwice
    CountedAsSent
    NeverOffersNothing
PROPERTIES
    NoFalseAlarm
SYMMETRY MCSymmetry
CHECK_DEADLOCK FALSE
