SPECIFICATION Spec
CONSTANTS
    BlockDelay = 1
    MaxBlocks = 2
    StartIsOffset = FALSE
    StartingBlock = 1
    CacheSize = 2
    LogKinds = {}
    ReorgDepth = 0
    MaxLag = 0
    FaultKinds = {}
    MaxFaults = 1
    MaxHead = 4
    MaxReorgs = 0
    Unrouted = {}
    MaxMessages = 2
INVARIANT SwapAnnouncedOnce
CHECK_DEADLOCK FALSE
