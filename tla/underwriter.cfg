SPECIFICATION Spec
CONSTANTS
    s1 = s1
    s2 = s2
    Swaps = {s1, s2}
    Saves <- SavedSwaps
    Cost <- CostOf
    Amount <- AmountWithBuffer
    Funds = 4
    InitialAllowance = 1
    AllowanceBuffers = {1, None}
    MaxUint = 20
    LowBalance = 2
    UpdateInterval = 1
    MaxPending = 2
    MaxTries = 2
    MayEnd = {s1}
    MaxFaults = 1
    None = None
INVARIANTS CapacityRespected RequiredMatchesOrders AllowanceSuffices SubmittedOnce RegisteredAtRest
PROPERTIES RefusedOnlyIfPoor
