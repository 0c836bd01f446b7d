SPECIFICATION Spec
CONSTANTS
    Sector <- MCSector
    L = 2
    Wide = 8
    Images <- MCDisks
    Data <- MCData
    Kinds <- MCKinds
    MaxCount = 2
    CLOCKS = 2
    FRAME = 1
    READY_TRIES = 2
    R1_TRIES = 2
    TOKEN_TRIES = 2
    ACMD41_TRIES = 2
    WRITE_BUSY_TRIES = 2
    MaxLag = 2
    MaxIdle = 1
    MaxFaults = 2
    MaxSwaps = 1
INVARIANTS
    AddressRight
PROPERTIES
    DeviceSpec
    Recovers
