----------------------------- MODULE MCEvaluation -----------------------------
(* A small instance of Evaluation for TLC. *)
EXTENDS Evaluation

Legacy(price) == [NoFeeData EXCEPT !.gasPrice = price]
Eip1559(price, fee, tip) ==
    [gasPrice |-> price, maxFeePerGas |-> fee, maxPriorityFeePerGas |-> tip]

MarketsOf == {Legacy(10), Legacy(20), Eip1559(12, 20, 2), Eip1559(18, 24, 10)}

Reasonable == [value |-> 1000, share |-> 2, relayProfit |-> 3, profitabilityFactor |-> 1,
               minUnderwriteReward |-> 20, relativeMinUnderwriteReward |-> 1,
               maxUnderwriteAllowed |-> 1200, allowanceBuffer |-> 1]

OffersOf ==
    {Reasonable,
     [Reasonable EXCEPT !.relayProfit = -50, !.relativeMinUnderwriteReward = 0],
     [Reasonable EXCEPT !.relayProfit = None],
     [Reasonable EXCEPT !.value = 0, !.profitabilityFactor = 0],
     [Reasonable EXCEPT !.value = 0],
     [Reasonable EXCEPT !.profitabilityFactor = 2],
     [Reasonable EXCEPT !.value = 1100]}

Answer(resolver, gas, l1Gas, l1Fee) ==
    [resolver |-> resolver, gas |-> gas, l1Gas |-> l1Gas, l1Fee |-> l1Fee]

NodeAnswersOf == {Answer("default", 4, 0, 0), Answer("arbitrum", 5, 2, 0),
                  Answer("arbitrum", 1, 2, 0), Answer("op-stack", 3, 0, 60)}
===============================================================================
