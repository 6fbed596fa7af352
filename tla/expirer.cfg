SPECIFICATION FairSpec
CONSTANTS
    u1 = u1
    UnderwriteIds = {u1}
    Swaps = {s1}
    UnderwriteOf <- UnderwriteOfSwap
    Observed <- SameBlock
    None = None
    Duration = 2
    ExpireBlocksMargin = 1
    MinAge = 1
    MaxPending = 1
    MaxTries = 2
    MaxBlock = 2
    MaxUnderwrites = 2
    MaxRestarts = 0
INVARIANTS CapacityRespected
PROPERTIES EveryUnderwriteExpired
