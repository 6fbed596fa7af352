--------------------------- MODULE TransactionHelper ---------------------------
(***************************************************************************)
(* The transaction helper of a wallet worker                               *)
(* (src/wallet/transaction-helper.ts) and the callers that use its fees    *)
(* and its balance: the submit queue, the confirm queue's repricing, the   *)
(* cancellation, the registration of a confirmed transaction's cost.  Its  *)
(* nonce and the queues are WalletWorker's: here any transaction that is   *)
(* not over may be the next one dealt with.  Beside them the chain: what   *)
(* it recommends, the account's balance, and what it holds per nonce.      *)
(***************************************************************************)
EXTENDS Fees, FiniteSets

CONSTANTS Transactions,          \* the transactions the worker is asked for
          Orders,                \* those of them that are underwrites
          Markets,               \* what the chain recommends, in the course of time
          Bump,                  \* what a node asks of a replacement, in DecimalBase
          LowBalanceWarning,     \* lowBalanceWarning, or None
          BalanceUpdateInterval,
          GasCost,               \* what a transaction costs
          MaxBalance             \* bound on the balance

\* A chain is a legacy or an EIP-1559 one, and a node recommends what can be sent.
ASSUME TransactionHelperAssumption ==
    /\ IsFiniteSet(Transactions) /\ Orders \subseteq Transactions
    /\ Markets \subseteq FeeData
    /\ \A m \in Markets :
          /\ m.gasPrice # None
          /\ (m.maxFeePerGas = None) <=> (m.maxPriorityFeePerGas = None)
    /\ Bump \in Nat /\ Bump >= DecimalBase
    /\ LowBalanceWarning \in Amount
    /\ {BalanceUpdateInterval, GasCost, MaxBalance} \subseteq Nat

VARIABLES
    feeData,                            \* NoFeeData while undefined
    walletBalance,
    transactionsSinceLastBalanceUpdate,
    isBalanceLow,
    refreshing,                         \* whether updateWalletBalance holds the worker
    tx,                                 \* what has become of them
    \* the chain
    market,                             \* what getFeeData of the provider returns
    balance,
    unregistered                        \* history: spent since the last reading, not registered

helperVars == <<feeData, walletBalance, transactionsSinceLastBalanceUpdate, isBalanceLow,
                refreshing>>
balanceVars == <<walletBalance, transactionsSinceLastBalanceUpdate, isBalanceLow, refreshing,
                 balance, unregistered>>
feeVars == <<feeData, market>>
walletVars == <<helperVars, tx, market, balance, unregistered>>

NotNegative(k) == IF k < 0 THEN 0 ELSE k
IsLow(amount) == LowBalanceWarning # None /\ amount < LowBalanceWarning

\* A transaction: the fees it was sent with and those of the one the node holds for its nonce;
\* whether a replacement was accepted (raised), whether one was refused as
\* underpriced (refused), and whether its fees are the helper's and not ethers' (priced).
NoTx == [stage |-> "none", original |-> NoFeeData, bid |-> NoFeeData,
         raised |-> FALSE, refused |-> FALSE, priced |-> FALSE]
Requested == [NoTx EXCEPT !.stage = "requested"]
Mined == [NoTx EXCEPT !.stage = "mined"]
Over == [NoTx EXCEPT !.stage = "over"]

InFlight == {t \in Transactions : tx[t].stage \in {"sent", "cancelling"}}

\* init: the fee data may be missing, the balance is read.
HelperInit ==
    /\ market \in Markets /\ feeData \in {market, NoFeeData}
    /\ balance \in 0..MaxBalance /\ walletBalance = balance
    /\ transactionsSinceLastBalanceUpdate = 0
    /\ isBalanceLow = IsLow(balance)
    /\ refreshing = FALSE /\ unregistered = 0
    /\ tx = [t \in Transactions |-> NoTx]

-----------------------------------------------------------------------------
(* Fees.                                                                   *)

SameKind(m, n) == (m.maxFeePerGas = None) <=> (n.maxFeePerGas = None)

MarketMoves ==
    /\ market' \in {m \in Markets : SameKind(m, market)}
    /\ UNCHANGED <<helperVars, tx, balance, unregistered>>

\* updateFeeData: if the query fails the old data stays.
UpdateFeeData == feeData' \in {market, feeData}

\* ethers fills in the fees a request leaves undefined.
Populate(fees) ==
    IF fees # NoFeeData THEN fees
    ELSE IF market.maxPriorityFeePerGas = None THEN market
    ELSE [market EXCEPT !.gasPrice = None]

\* ethers refuses a transaction whose priority fee is above its fee.
Consistent(fees) ==
    fees.maxPriorityFeePerGas # None => fees.maxPriorityFeePerGas <= fees.maxFeePerGas

\* A node takes a replacement if each fee is higher, by Bump at least.
Outbids(new, old) ==
    \A f \in FeeFields :
        old[f] # None => new[f] > old[f] /\ new[f] >= (old[f] * Bump) \div DecimalBase

\* A transaction that is not evaluated is asked for: an approval, or the expirer's.
Request(t) ==
    /\ t \notin Orders /\ tx[t].stage = "none"
    /\ tx' = [tx EXCEPT ![t] = Requested]
    /\ UNCHANGED <<feeVars, balanceVars>>

\* SubmitQueue.onProcessOrders: the fee data, then runBalanceCheck.
OnProcessOrders ==
    /\ ~refreshing
    /\ UpdateFeeData
    /\ refreshing' = (isBalanceLow \/ transactionsSinceLastBalanceUpdate > BalanceUpdateInterval)
    /\ UNCHANGED <<walletBalance, transactionsSinceLastBalanceUpdate, isBalanceLow, tx, market,
                   balance, unregistered>>

\* SubmitQueue.handleOrder.
Send(t) ==
    LET overrides == FeeDataForTransaction(feeData, FALSE)
        fees == Populate(overrides)
    IN  /\ ~refreshing /\ tx[t].stage = "requested"
        /\ Consistent(fees)
        /\ tx' = [tx EXCEPT ![t] = [NoTx EXCEPT !.stage = "sent", !.original = fees,
                                                !.bid = fees, !.priced = (overrides # NoFeeData)]]
        /\ UNCHANGED <<feeVars, balanceVars>>

\* ethers or the node refuses it, for its fees or otherwise.
SendFails(t) ==
    /\ ~refreshing /\ tx[t].stage = "requested"
    /\ tx' = [tx EXCEPT ![t] = Over]
    /\ UNCHANGED <<feeVars, balanceVars>>

\* A replacement of the transaction the node holds, at increased fees, at the given stage.
Outbid(t, baseTx, stage) ==
    /\ UpdateFeeData
    /\ LET fees == IncreasedFeeData(feeData', baseTx)
           taken == Consistent(fees) /\ Outbids(fees, tx[t].bid)
       IN  tx' = [tx EXCEPT ![t].stage = stage,
                            ![t].bid = IF taken THEN fees ELSE @,
                            ![t].raised = @ \/ taken,
                            ![t].refused = @ \/ (~taken /\ Consistent(fees))]
    /\ UNCHANGED <<market, balanceVars>>

\* ConfirmQueue.handleOrder, on a retry: until a replacement has been taken.
Reprice(t) ==
    /\ ~refreshing /\ tx[t].stage = "sent" /\ ~tx[t].raised
    /\ Outbid(t, tx[t].original, "sent")

\* Mutant: the fees are increased over those of the replacement.
CancelReplacement(t) ==
    /\ ~refreshing /\ tx[t].stage \in {"sent", "cancelling"}
    /\ Outbid(t, tx[t].bid, "cancelling")

\* cancelTransaction, one try.  It is the original transaction's fees that are increased.
Cancel(t) ==
    /\ ~refreshing /\ tx[t].stage \in {"sent", "cancelling"}
    /\ Outbid(t, tx[t].original, "cancelling")

-----------------------------------------------------------------------------
(* The balance.                                                            *)

\* The transaction, a replacement or a cancellation is mined.
Mine(t) ==
    /\ t \in InFlight /\ balance >= GasCost
    /\ tx' = [tx EXCEPT ![t] = Mined]
    /\ balance' = balance - GasCost /\ unregistered' = unregistered + GasCost
    /\ UNCHANGED <<helperVars, market>>

\* Mutant: the balance is looked up when the interval says so, and not before.
RegisterQuietly(t) ==
    /\ ~refreshing /\ tx[t].stage = "mined"
    /\ tx' = [tx EXCEPT ![t] = Over]
    /\ transactionsSinceLastBalanceUpdate' = transactionsSinceLastBalanceUpdate + 1
    /\ walletBalance' = NotNegative(walletBalance - GasCost)
    /\ unregistered' = NotNegative(unregistered - GasCost)
    /\ UNCHANGED <<feeVars, isBalanceLow, balance, refreshing>>

\* registerBalanceUse, for a transaction or a cancellation that is confirmed.  Crossing the
\* warning level has the balance read.
Register(t) ==
    /\ ~refreshing /\ tx[t].stage = "mined"
    /\ tx' = [tx EXCEPT ![t] = Over]
    /\ transactionsSinceLastBalanceUpdate' = transactionsSinceLastBalanceUpdate + 1
    /\ walletBalance' = NotNegative(walletBalance - GasCost)
    /\ unregistered' = NotNegative(unregistered - GasCost)
    /\ refreshing' = (~isBalanceLow /\ IsLow(walletBalance'))
    /\ UNCHANGED <<feeVars, isBalanceLow, balance>>

\* The transaction is mined and its cost is not registered: it reverts, or the worker learns of
\* it by the account's nonce alone.
Overlook(t) ==
    /\ ~refreshing /\ tx[t].stage = "mined"
    /\ tx' = [tx EXCEPT ![t] = Over]
    /\ UNCHANGED <<feeVars, balanceVars>>

\* updateWalletBalance is answered, after any number of failures; `pending` may or may not take
\* into account what is in flight.
UpdateWalletBalance ==
    /\ refreshing /\ refreshing' = FALSE
    /\ walletBalance' \in {balance, NotNegative(balance - GasCost * Cardinality(InFlight))}
    /\ transactionsSinceLastBalanceUpdate' = 0 /\ unregistered' = 0
    /\ isBalanceLow' = IsLow(walletBalance')
    /\ UNCHANGED <<feeVars, tx, balance>>

\* The account is funded, or used by others.
Deposit ==
    /\ balance + unregistered < MaxBalance
    /\ balance' = balance + 1
    /\ UNCHANGED <<helperVars, tx, market, unregistered>>

Spend ==
    /\ balance > 0
    /\ balance' = balance - 1 /\ unregistered' = unregistered + 1
    /\ UNCHANGED <<helperVars, tx, market>>

WalletStep ==
    \/ MarketMoves \/ OnProcessOrders \/ UpdateWalletBalance \/ Deposit \/ Spend
    \/ \E t \in Transactions : Request(t) \/ Reprice(t) \/ Cancel(t) \/ Mine(t) \/ Register(t) \/ Overlook(t)

-----------------------------------------------------------------------------
\* A fee that a replacement can raise by as much as a node asks for: not so small that rounding
\* eats the increase.
Raisable(fee) ==
    LET increased == Times(fee, PriorityFactor)
    IN  fee # None => increased > fee /\ increased >= (fee * Bump) \div DecimalBase

\* No transaction the worker has a node take, replacements and cancellations included, offers
\* more than the configured maximum times the priority factor: fees are raised once, from the
\* original's, and never from one replacement to the next.  (Not so a transaction sent before
\* any fee data was there: ethers prices it.)
CapsHold ==
    \A t \in Transactions :
        LET Within(f, cap) ==
                None \notin {tx[t].bid[f], cap} => tx[t].bid[f] <= Times(cap, PriorityFactor)
        IN  tx[t].priced =>
                /\ Within("gasPrice", MaxGasPrice)
                /\ MaxFee # 0 => Within("maxFeePerGas", MaxFee)
                /\ Within("maxPriorityFeePerGas", MaxPriorityFee)

\* The first replacement of a transaction, be it a speed-up or a cancellation, is never
\* underpriced, however the market has moved since: it is only behind a replacement the node
\* has taken that another is refused.
FirstBidAccepted ==
    \A t \in Transactions :
        (tx[t].refused /\ \A f \in FeeFields : Raisable(tx[t].original[f])) => tx[t].raised

\* A balance below the warning level is known to be low, but for costs the worker was not told
\* of: what it keeps as its balance may be too low, and too high by those costs at most.
LowBalanceNoticed ==
    /\ walletBalance <= balance + unregistered
    /\ (~refreshing /\ IsLow(balance + unregistered)) => isBalanceLow
=============================================================================
