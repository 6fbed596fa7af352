SPECIFICATION Spec
CONSTANTS
    Transactions = {o1, t1}
    Orders = {o1}
    None = None
    DecimalBase = 10
    GasPriceFactor = 11
    MaxGasPrice = 20
    MaxFee = 22
    PriorityFeeFactor = None
    MaxPriorityFee = 9
    PriorityFactor = 12
    Markets <- MarketsOf
    Bump = 11
    LowBalanceWarning = 2
    BalanceUpdateInterval = 0
    GasCost = 1
    MaxBalance = 2
    Offers <- OffersOf
    NodeAnswers <- NodeAnswersOf
    RatioBase = 10
    Unlimited = 1000000
    Exorbitant = 1000000
INVARIANTS CapsHold FirstBidAccepted LowBalanceNoticed LimitIsExact ProfitableAtEstimate
