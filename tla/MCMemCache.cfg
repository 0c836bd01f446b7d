CONSTANTS
    Tags = 8
    RowTags = 4
    NSets = 2
    HW = 4
    Undef = Undef
    Reads <- MCReads
    Writes <- MCWrites
    InitMem <- MCInitMem
    HalfVal <- MCHalfVal

SPECIFICATION FairSpec

INVARIANTS
    TagsUnique
PROPERTIES
    StoresAreKept
    PortSpec
    RequestAnswered
