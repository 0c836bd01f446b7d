SPECIFICATION Spec
CONSTANTS
    SS = 2
    SZ = 2
    FE = 4
    MAX_DIR = 6
    None = None
    Short <- MCShort
    Cards <- MCCards
    Image <- MCImage
    Handle <- MCHandle
    Calls <- MCCalls
    Wide = 1024
    MaxMounts = 2
    MaxSwaps = 1
    MaxFaults = 1
PROPERTIES SeeksRefused
CHECK_DEADLOCK FALSE
