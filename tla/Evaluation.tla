------------------------------- MODULE Evaluation -------------------------------
(***************************************************************************)
(* What an underwrite may cost: the evaluation of an order                 *)
(* (src/underwriter/queues/eval-queue.ts), the estimate it is checked      *)
(* against (underwrite-queue.ts), and between them the wallet, whose fee   *)
(* data the evaluation asks for and which gets the transaction.            *)
(* Values are integers in the pricing denomination, in which a unit of     *)
(* the chain's currency is worth one unit; ratios are fractions.  Floating *)
(* point rounding is left out.  The queues, with their tries and the token *)
(* balance, are Underwriter's.                                             *)
(***************************************************************************)
EXTENDS TransactionHelper

CONSTANTS Offers,       \* what an order may turn out to be when it is evaluated
          NodeAnswers,  \* what a node may answer to an estimate of the gas
          RatioBase,    \* the denominator of the ratios in Offers
          Unlimited,    \* MaxUint256 as a gas limit
          Exorbitant    \* MaxUint256 as a gas price

\* An offer: the value underwritten (0 if the relayer does not know the token's price), the
\* incentive as a share of it, the relayer's estimate of the relay's profit, or None; and the
\* token's configuration.  The default of maxUnderwriteAllowed is None, as is 0.
Offer == [value : Nat, share : Nat, relayProfit : Int \cup {None},
          profitabilityFactor : Nat, minUnderwriteReward : Nat,
          relativeMinUnderwriteReward : Nat, maxUnderwriteAllowed : Nat \cup {None},
          allowanceBuffer : Nat]

ASSUME EvaluationAssumption ==
    /\ Offers \subseteq Offer
    /\ NodeAnswers \subseteq
          [resolver : {"default", "arbitrum", "op-stack"}, gas : Nat, l1Gas : Nat, l1Fee : Nat]
    /\ RatioBase \in Nat \ {0}
    /\ Unlimited \in Nat /\ Exorbitant \in Nat \ {0}

VARIABLES
    enabled,      \* of the evalQueue
    order         \* per order: where it is and what is known of it

evaluationVars == <<enabled, order>>
vars == <<walletVars, evaluationVars>>

\* gasValue: the value of the gas price, 0 if it is 0 or the relayer does not know it.
Stage(stage) ==
    [stage |-> stage, offer |-> None, gasPrice |-> None, gasValue |-> None,
     maxGasLimit |-> None, answer |-> None]

Init ==
    /\ HelperInit
    /\ enabled = TRUE
    /\ order = [o \in Orders |-> Stage("new")]

-----------------------------------------------------------------------------
(* EvalQueue.handleOrder.                                                  *)

Minimum(j, k) == IF j < k THEN j ELSE k

\* The value of the reward, in 1/RatioBase.
RewardValue(offer) == offer.value * offer.share

\* Only a negative relay profit counts.
RelayLoss(offer) == Minimum(offer.relayProfit, 0)

\* The most a transaction may cost for the reward to stay above the minimum, and above the
\* minimum relative to the value and the cost; in 1/(RatioBase * profitabilityFactor), the
\* latter also times 1 + relativeMinUnderwriteReward.
MaxCost(offer) ==
    RewardValue(offer)
        + RatioBase * offer.profitabilityFactor * (RelayLoss(offer) - offer.minUnderwriteReward)
MaxRelativeCost(offer) ==
    RewardValue(offer)
        + offer.profitabilityFactor
            * (RatioBase * RelayLoss(offer) - offer.relativeMinUnderwriteReward * offer.value)

\* The two limits, at a gas value above 0.
MaxGasLimitMinReward(offer, gasValue) ==
    MaxCost(offer) \div (RatioBase * offer.profitabilityFactor * gasValue)
MaxGasLimitMinRelativeReward(offer, gasValue) ==
    MaxRelativeCost(offer)
        \div ((RatioBase + offer.relativeMinUnderwriteReward) * offer.profitabilityFactor * gasValue)

\* Mutant: the larger of the two.
LargerLimit(offer, gasValue) ==
    LET limit == MaxGasLimitMinReward(offer, gasValue)
        relativeLimit == MaxGasLimitMinRelativeReward(offer, gasValue)
    IN  IF limit < relativeLimit THEN relativeLimit ELSE limit

SmallerLimit(offer, gasValue) ==
    Minimum(MaxGasLimitMinReward(offer, gasValue), MaxGasLimitMinRelativeReward(offer, gasValue))

\* calcMaxGasLimit; None if it throws, because the limit is no number or negative infinity:
\* a gas value of 0 is divided by.
CalcMaxGasLimit(offer, gasValue) ==
    IF RewardValue(offer) = 0 /\ offer.profitabilityFactor # 0 THEN 0
    ELSE IF offer.relayProfit = None THEN None
    ELSE IF offer.profitabilityFactor = 0 THEN Unlimited
    ELSE IF gasValue # 0 THEN SmallerLimit(offer, gasValue)
    ELSE IF MaxCost(offer) >= 0 /\ MaxRelativeCost(offer) > 0 THEN Unlimited
    ELSE None

\* The value is above maxUnderwriteAllowed, the allowance's buffer included.
TooValuable(offer) ==
    /\ offer.maxUnderwriteAllowed \notin {None, 0}
    /\ offer.value * (RatioBase + offer.allowanceBuffer) > offer.maxUnderwriteAllowed * RatioBase

\* getGasPrice, of the fee data the wallet worker answers with.
GasPrice(fees) ==
    IF fees.gasPrice # None THEN fees.gasPrice
    ELSE IF fees.maxFeePerGas # None THEN fees.maxFeePerGas
    ELSE Exorbitant

\* The wallet's answer, or nothing if it has crashed.
FeesAnswered == {AdjustedFeeData(feeData, FALSE), NoFeeData}

\* Too old, its deadline or gas too low, its token unknown or too little of it, underwriting
\* disabled; or errors until the tries are over.  Before the limit is known or after.
Decline(o) ==
    /\ order[o].stage = "new"
    /\ order' = [order EXCEPT ![o] = Stage("skipped")]
    /\ UNCHANGED <<walletVars, enabled>>

\* If the limit cannot be computed the order is tried again.
Evaluate(o) ==
    \E offer \in Offers, fees \in FeesAnswered :
        LET gasPrice == GasPrice(fees)
        IN  \E gasValue \in {gasPrice, 0} :
                LET limit == CalcMaxGasLimit(offer, gasValue)
                IN  /\ enabled /\ order[o].stage = "new"
                    /\ TooValuable(offer) \/ limit # None
                    /\ order' = [order EXCEPT ![o] =
                           IF TooValuable(offer) \/ limit <= 0 THEN Stage("skipped")
                           ELSE [Stage("evaluated") EXCEPT
                                   !.offer = offer, !.gasPrice = gasPrice,
                                   !.gasValue = gasValue, !.maxGasLimit = limit]]
                    /\ UNCHANGED <<walletVars, enabled>>

-----------------------------------------------------------------------------
(* UnderwriteQueue.handleOrder, for an order whose gas is not known yet.   *)

\* The chain's resolver and its estimateGas: on Arbitrum the gas includes what L1 takes, on an
\* OP stack L1 takes a fee beside it.
Estimate(gas, additionalFee) == [gas |-> gas, additionalFee |-> additionalFee]
DefaultEstimate(answer) == Estimate(answer.gas, 0)
OpStackEstimate(answer) == Estimate(answer.gas, answer.l1Fee)

\* The estimate throws if its components contradict each other.
ArbitrumEstimate(answer) ==
    IF answer.l1Gas > answer.gas THEN None ELSE Estimate(answer.gas, 0)

EstimateGas(answer) ==
    CASE answer.resolver = "default"  -> DefaultEstimate(answer)
      [] answer.resolver = "arbitrum" -> ArbitrumEstimate(answer)
      [] answer.resolver = "op-stack" -> OpStackEstimate(answer)

\* Mutant: what the transaction costs beside its gas is left out.
GasLimitAlone(evaluation, estimate) == evaluation.maxGasLimit

EffectiveGasLimit(evaluation, estimate) ==
    evaluation.maxGasLimit - estimate.additionalFee \div evaluation.gasPrice

\* The estimate fails, or its fee is divided by a gas price of 0, until the tries are over.
EstimateFails(o) ==
    /\ order[o].stage = "evaluated"
    /\ order' = [order EXCEPT ![o] = Stage("skipped")]
    /\ UNCHANGED <<walletVars, enabled>>

UnderwriteOrder(o) ==
    \E answer \in {a \in NodeAnswers : EstimateGas(a) # None} :
        LET estimate == EstimateGas(answer)
            affordable == estimate.gas <= EffectiveGasLimit(order[o], estimate)
        IN  /\ order[o].stage = "evaluated"
            /\ order[o].gasPrice # 0
            /\ order' = [order EXCEPT ![o] =
                   IF affordable THEN [@ EXCEPT !.stage = "submitted", !.answer = answer]
                   ELSE Stage("skipped")]
            /\ tx' = [tx EXCEPT ![o] = IF affordable THEN Requested ELSE @]
            /\ UNCHANGED <<feeVars, balanceVars, enabled>>

\* What is known of an order is of no use any more once its transaction is sent, or not.
Submit(t) ==
    /\ Send(t) \/ SendFails(t)
    /\ order' = [o \in Orders |-> IF o = t THEN Stage("over") ELSE order[o]]
    /\ UNCHANGED enabled

\* enableUnderwriting and disableUnderwriting, and the worker's handleWorkerCommand.
SetEnabled ==
    /\ enabled' = ~enabled
    /\ UNCHANGED <<walletVars, order>>

Next ==
    \/ SetEnabled
    \/ WalletStep /\ UNCHANGED evaluationVars
    \/ \E o \in Orders :
          Decline(o) \/ Evaluate(o) \/ EstimateFails(o) \/ UnderwriteOrder(o)
    \/ \E t \in Transactions : Submit(t)

Spec == Init /\ [][Next]_vars

-----------------------------------------------------------------------------
(* Reference definitions: what the configuration asks for, at a cost.      *)

\* The reward, adjusted, less a loss on the relay and the cost, in 1/(RatioBase * factor).
ProfitAt(offer, cost) ==
    RewardValue(offer) + RatioBase * offer.profitabilityFactor * (RelayLoss(offer) - cost)

\* It is minUnderwriteReward at least, and relativeMinUnderwriteReward of the value and the cost.
Profitable(offer, cost) ==
    /\ ProfitAt(offer, cost)
           >= RatioBase * offer.profitabilityFactor * offer.minUnderwriteReward
    /\ ProfitAt(offer, cost)
           >= offer.profitabilityFactor * offer.relativeMinUnderwriteReward * (offer.value + cost)

\* Evaluation is on (a profitability factor of 0 turns it off), and the relayer knew the price
\* of gas.
Priced(evaluation) ==
    evaluation.offer.profitabilityFactor # 0 /\ evaluation.gasValue # 0

\* The limit an order leaves its evaluation with is exact: a transaction that uses less or as
\* much gas earns what the configuration asks for, and one that uses more does not.
LimitIsExact ==
    \A o \in Orders :
        (order[o].stage = "evaluated" /\ Priced(order[o])) =>
            \A gas \in 1..(order[o].maxGasLimit + 1) :
                gas <= order[o].maxGasLimit
                    <=> Profitable(order[o].offer, gas * order[o].gasValue)

\* What the chain charges for a transaction: an OP stack has it pay for L1, too.
ChainCost(answer, gasPrice) ==
    answer.gas * gasPrice + (IF answer.resolver = "op-stack" THEN answer.l1Fee ELSE 0)

\* An underwrite that goes to the wallet earns what the configuration asks for, if the chain
\* charges for what the node has answered at the gas price of the evaluation, to the accuracy
\* of a unit of gas.
ProfitableAtEstimate ==
    \A o \in Orders :
        (order[o].stage = "submitted" /\ Priced(order[o])) =>
            LET gas == ChainCost(order[o].answer, order[o].gasPrice) \div order[o].gasPrice
            IN  Profitable(order[o].offer, gas * order[o].gasValue)
=============================================================================
