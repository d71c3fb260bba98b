\* The caller may also read into an empty buffer.
CONSTANTS
    x = x
    y = y
    Bytes <- MCBytes
    MinBuffer = 0
    MaxBuffer = 2
    MaxLength = 2
    MaxHashed = 3
SPECIFICATION Spec
PROPERTIES
    NoFalseAlarm
SYMMETRY MCSymmetry
