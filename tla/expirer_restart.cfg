SPECIFICATION Spec
CONSTANTS
    u1 = u1
    UnderwriteIds = {u1}
    Swaps = {s1}
    UnderwriteOf <- UnderwriteOfSwap
    Observed <- BlockOfL1
    None = None
    Duration = 2
    ExpireBlocksMargin = 1
    MinAge = 1
    MaxPending = 1
    MaxTries = 2
    MaxBlock = 3
    MaxUnderwrites = 2
    MaxRestarts = 2
INVARIANTS ActiveStaysScheduled StoreFollowsChain
PROPERTY NotBeforeDue
