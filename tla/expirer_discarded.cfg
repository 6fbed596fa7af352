SPECIFICATION Spec
CONSTANTS
    u1 = u1
    UnderwriteIds = {u1}
    Swaps = {s1}
    UnderwriteOf <- UnderwriteOfSwap
    None = None
    Duration = 2
    ExpireBlocksMargin = 1
    MinAge = 1
    MaxPending = 1
    MaxTries = 2
    MaxBlock = 2
    MaxUnderwrites = 1
    MaxRestarts = 0
    Observed <- SameBlock
PROPERTY FulfilledDiscarded
