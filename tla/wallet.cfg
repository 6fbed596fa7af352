SPECIFICATION Spec
CONSTANTS
    NumRequests = 3
    MaxPending = 2
    MaxTries = 2
    WithDeadline = {2}
    NeverRequeued = {1}
    FaultKinds = {"rpc", "lost", "revert", "drop", "foreign", "crash"}
    MaxFaults = 2
INVARIANTS CapacityRespected HeldUntilAnswered NoNonceGap OrderMaintained
PROPERTY PromiseSpec
CHECK_DEADLOCK FALSE
