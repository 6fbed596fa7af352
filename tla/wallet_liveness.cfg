SPECIFICATION FairSpec
CONSTANTS
    NumRequests = 2
    MaxPending = 2
    MaxTries = 2
    WithDeadline = {}
    NeverRequeued = {}
    FaultKinds = {"rpc", "lost", "drop", "foreign", "crash"}
    MaxFaults = 2
PROPERTY EveryRequestAnswered
CHECK_DEADLOCK FALSE
