SPECIFICATION FairSpec
CONSTANTS
    W = 5
    EotByte = 1
    Big = 2
    ProgMax = 7
    DataMax = 5
    Top = 9
    YM_START_TRIES = 4
    YM_MAX_ERRORS = 3
    Files <- MCFiles
    Forces <- MCForces
    MaxRetries = 7
    MaxFaults = 3
CHECK_DEADLOCK FALSE
INVARIANTS
    Intact
    Confined
    Agreed
PROPERTIES
    TransferSpec
    Completes
    Returns
