SPECIFICATION Spec
CONSTANTS
    NumRequests = 1
    MaxPending = 1
    MaxTries = 3
    WithDeadline = {}
    NeverRequeued = {}
    FaultKinds = {}
    MaxFaults = 0
INVARIANT CancelledNotExecuted
