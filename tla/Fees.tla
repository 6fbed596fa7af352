--------------------------------- MODULE Fees ---------------------------------
(***************************************************************************)
(* The fees of the wallet's transactions (src/wallet/transaction-helper.ts)*)
(* as functions of what the node recommends, of the configuration and of   *)
(* the transaction to be replaced.  An amount that is `undefined` is None. *)
(***************************************************************************)
EXTENDS Integers

CONSTANTS
    None,
    DecimalBase,              \* DECIMAL_BASE: factors are given in this unit
    GasPriceFactor,           \* gasPriceAdjustmentFactor, or None
    MaxGasPrice,              \* maxAllowedGasPrice, or None
    MaxFee,                   \* maxFeePerGas, or None
    PriorityFeeFactor,        \* maxPriorityFeeAdjustmentFactor, or None
    MaxPriorityFee,           \* maxAllowedPriorityFeePerGas, or None
    PriorityFactor            \* priorityAdjustmentFactor

Amount == Nat \cup {None}

\* MAX_GAS_PRICE_ADJUSTMENT_FACTOR, and the checks of loadGasFeeConfig.
MaxFactor == 5 * DecimalBase

ASSUME FeesAssumption ==
    /\ None \notin Nat
    /\ DecimalBase \in Nat \ {0}
    /\ PriorityFactor \in DecimalBase..MaxFactor
    /\ {GasPriceFactor, PriorityFeeFactor} \subseteq (0..MaxFactor) \cup {None}
    /\ {MaxGasPrice, MaxFee, MaxPriorityFee} \subseteq Amount

FeeFields == {"gasPrice", "maxFeePerGas", "maxPriorityFeePerGas"}

\* FeeData of ethers: what the node recommends, or what a transaction carries.
FeeData == [FeeFields -> Amount]
NoFeeData == [f \in FeeFields |-> None]

Times(fee, factor) ==
    IF None \in {fee, factor} THEN fee ELSE (fee * factor) \div DecimalBase

Capped(fee, cap) == IF None \notin {fee, cap} /\ cap < fee THEN cap ELSE fee

\* getAdjustedFeeData.  A maxFeePerGas of 0 counts as not configured.
AdjustedFeeData(feeData, priority) ==
    LET adjusted == [gasPrice |-> Capped(Times(feeData.gasPrice, GasPriceFactor), MaxGasPrice),
                     maxFeePerGas |-> IF MaxFee \in {None, 0} THEN feeData.maxFeePerGas ELSE MaxFee,
                     maxPriorityFeePerGas |->
                         Capped(Times(feeData.maxPriorityFeePerGas, PriorityFeeFactor),
                                MaxPriorityFee)]
    IN  [f \in FeeFields |-> IF priority THEN Times(adjusted[f], PriorityFactor) ELSE adjusted[f]]

\* getFeeDataForTransaction: EIP-1559 fees if the node knows a priority fee, a gas price
\* otherwise.
FeeDataForTransaction(feeData, priority) ==
    LET adjusted == AdjustedFeeData(feeData, priority)
    IN  IF adjusted.maxPriorityFeePerGas # None THEN [adjusted EXCEPT !.gasPrice = None]
        ELSE [NoFeeData EXCEPT !.gasPrice = adjusted.gasPrice]

\* Mutant: the fees of the moment, though they may be lower than before.
MomentaryFee(previous, priorityFee) ==
    IF None \in {previous, priorityFee} THEN Times(previous, PriorityFactor) ELSE priorityFee

\* getLargestFee.
LargestFee(previous, priorityFee) ==
    LET increased == Times(previous, PriorityFactor)
    IN  IF previous = None THEN None
        ELSE IF priorityFee = None \/ increased > priorityFee THEN increased ELSE priorityFee

\* getIncreasedFeeDataForTransaction.
IncreasedFeeData(feeData, originalTx) ==
    [f \in FeeFields |->
        LargestFee(originalTx[f], FeeDataForTransaction(feeData, TRUE)[f])]
===============================================================================
