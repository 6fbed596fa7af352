SPECIFICATION FairSpec
CONSTANTS
    BlockDelay = 1
    MaxBlocks = 0
    StartIsOffset = TRUE
    StartingBlock = 1
    CacheSize = 1
    LogKinds = {"SwapUnderwritten"}
    ReorgDepth = 1
    MaxLag = 1
    FaultKinds = {"store", "malformed", "disconnect"}
    MaxFaults = 1
    MaxHead = 3
    MaxReorgs = 1
    Unrouted = {2}
    MaxMessages = 2
INVARIANTS EventsSavedInOrder NoEventMissed SavedEventsStay StoredSwapsStay DroppedOnlyIfReorged NoMessageLost
PROPERTIES EveryBlockScanned EveryMessageHandled
CHECK_DEADLOCK FALSE
