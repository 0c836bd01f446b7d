SPECIFICATION FairSpec
CONSTANTS
    r1 = r1
    r2 = r2
    x0 = x0
    Zero = 0
    Word <- MCWord
    Reg <- MCReg
    Fn <- MCFn
    DivFn <- MCDivFn
    DIV_DELAY = 2
    CounterMax = 3
    Latency = 3
    PowerUpF3 <- MCPowerUpF3
    PowerUpCount = {0}
    NextPc <- MCNextPc
    AluResult <- MCAluResult
    DivResult <- MCDivResult
    Taken <- MCTaken
    Target <- MCTarget
    LsAddr <- MCLsAddr
    Misaligned <- MCMisaligned
    LoadValue <- MCLoadValue
    StoreValue <- MCStoreValue
    CsrValue <- MCCsrValue
    Cause <- MCCause
    Programs <- MCPrograms
    Unknown = {1}
INVARIANTS Consecutive OperandsFresh
PROPERTIES IsaSpec DataPortHeld Progress
