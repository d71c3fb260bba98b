\* Saturated numbers are 9; 64-bit numbers of the writer go to 10; a second
\* has three ticks, and 1970 is two seconds after the NT epoch; a 32-bit time
\* ends at 3.  Up to three entries with names.  Bytes have eight values, the
\* last of which is in no text.
CONSTANTS
    Sat = 9
    NtEpoch = 2
    Ticks = 3
    U32Max = 3
    BadBases <- MCBadBases
    Groups <- MCGroups
    Written <- MCWritten
    Headers <- MCHeaders
    MaxEntries = 3
    Base = 8
    IdOf <- MCIdOf
    Vendor = 45
    NotUtf8 = 7
    Given <- MCGiven
SPECIFICATION MCSpec
INVARIANTS
    SizesAreOwn
    DescriptorTells
    TimesWin
    SameInstantAgrees
    NameOfHeader
    EncryptionTold
    WriterListed
    FoundOnce
    PlainFoundByName
    FieldsAsWritten
    CutIsRefused
CHECK_DEADLOCK FALSE
