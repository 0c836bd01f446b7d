CONSTANTS
    l1 = l1
    l2 = l2
    Line <- MCLine
    NextLine <- MCNextLine
    NoLine = NoLine
    HW = 32
    LineBursts = 5
    START_DELAY = 20
    CAS_DELAY = 2
    BANK_DELAY = 2
    TRC_DELAY = 8
    TMRD_DELAY = 1
    WRITE_DELAY = 1

SPECIFICATION FairSpec

INVARIANTS
    CommandsLegal
    BeatsAreHalves
    ScanlineSample
    LineWhole

PROPERTIES
    BurstContract
    BothServed
