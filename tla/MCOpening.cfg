\* Every file of up to seven bytes for the search, and one with records of
\* every kind; numbers of 16 bits end at 3, those of 32 and 64 bits at 15.
\* Names and links of up to four parts.
CONSTANTS
    Bytes <- MCBytes
    Sig = 9
    EocdLen = 2
    LocatorLen = 1
    Eocd64Len = 3
    CentralLen = 2
    RecordHead = 2
    MaxComment = 2
    Top16 = 3
    Top32 = 15
    Top64 = 15
    Files <- MCFiles
    Eocds <- MCEocds
    Locators <- MCLocators
    Eocd64s <- MCEocd64s
    Builds <- MCBuilds
    Plain <- MCPlain
    MaxParts = 4
SPECIFICATION MCSpec
INVARIANTS
    SearchExact
    DirectoryFits
    OpensExactly
    Canonical
    RefusedNames
    LinkRule
CHECK_DEADLOCK FALSE
