--------------------------- MODULE Evaluation_proofs ---------------------------
(***************************************************************************)
(* What holds of the wallet's balance and fees, and of the limit of gas,   *)
(* for every configuration, every market and every offer.                  *)
(***************************************************************************)
EXTENDS Evaluation, FiniteSetTheorems, TLAPS

-----------------------------------------------------------------------------
(* Division, and the fees of Fees.                                         *)

\* Division rounds down.
LEMMA DivIff ==
    ASSUME NEW a \in Int, NEW d \in Nat \ {0}, NEW n \in Int
    PROVE  a \div d \in Int /\ (n <= a \div d <=> n * d <= a)
<1> DEFINE q == a \div d  r == a % d
<1>1. q \in Int /\ r \in 0..(d - 1) /\ a = d * q + r OBVIOUS
<1> HIDE DEF q, r
<1>2. CASE n <= q
  <2>1. n * d <= q * d BY <1>1, <1>2
  <2> QED BY <2>1, <1>1, <1>2 DEF q
<1>3. CASE ~(n <= q)
  <2>1. n >= q + 1 BY <1>1, <1>3
  <2>2. n * d >= (q + 1) * d BY <2>1, <1>1
  <2>3. (q + 1) * d = d * q + d BY <1>1
  <2> QED BY <2>2, <2>3, <1>1, <1>3 DEF q
<1> QED BY <1>2, <1>3

LEMMA DivMonotone ==
    ASSUME NEW a \in Int, NEW b \in Int, NEW d \in Nat \ {0}, a <= b
    PROVE  a \div d <= b \div d
<1> DEFINE q == a \div d
<1>1. q \in Int BY DivIff
<1>2. q <= a \div d <=> q * d <= a BY <1>1, DivIff
<1>3. q * d <= a BY <1>1, <1>2
<1> HIDE DEF q
<1>4. q * d <= b BY <1>1, <1>3
<1>5. q <= b \div d BY <1>1, <1>4, DivIff
<1> QED BY <1>5 DEF q

-----------------------------------------------------------------------------
LEMMA TimesAmount ==
    ASSUME NEW fee \in Amount, NEW factor \in Amount
    PROVE  /\ Times(fee, factor) \in Amount
           /\ Times(fee, factor) = None <=> fee = None
<1>1. CASE None \in {fee, factor} BY <1>1, FeesAssumption DEF Times, Amount
<1>2. CASE None \notin {fee, factor}
  <2>1. fee * factor \in Nat BY <1>2 DEF Amount
  <2>2. 0 <= (fee * factor) \div DecimalBase /\ (fee * factor) \div DecimalBase \in Int
    BY <2>1, DivIff, FeesAssumption
  <2> QED BY <1>2, <2>2, FeesAssumption DEF Times, Amount
<1> QED BY <1>1, <1>2

LEMMA TimesMonotone ==
    ASSUME NEW low \in Nat, NEW high \in Nat, low <= high, NEW factor \in Nat
    PROVE  Times(low, factor) <= Times(high, factor)
<1>1. low * factor <= high * factor OBVIOUS
<1>2. (low * factor) \div DecimalBase <= (high * factor) \div DecimalBase
  BY <1>1, DivMonotone, FeesAssumption
<1> QED BY <1>2, FeesAssumption DEF Times

\* A priority factor raises.
LEMMA PriorityRaises ==
    ASSUME NEW fee \in Nat
    PROVE  fee <= Times(fee, PriorityFactor)
<1>1. PriorityFactor \in Nat /\ PriorityFactor >= DecimalBase /\ DecimalBase \in Nat \ {0}
  BY FeesAssumption DEF MaxFactor
<1>2. fee * DecimalBase <= fee * PriorityFactor BY <1>1
<1>3. fee <= (fee * PriorityFactor) \div DecimalBase BY <1>1, <1>2, DivIff
<1> QED BY <1>1, <1>3, FeesAssumption DEF Times
-----------------------------------------------------------------------------
\* The configured maximum of a fee; a maxFeePerGas of 0 is none.
Cap(f) ==
    IF f = "gasPrice" THEN MaxGasPrice
    ELSE IF f = "maxFeePerGas" THEN (IF MaxFee = 0 THEN None ELSE MaxFee)
    ELSE MaxPriorityFee

\* Fees within the maxima, and within the maxima raised by the priority factor.
Within(fees) == \A f \in FeeFields : None \notin {fees[f], Cap(f)} => fees[f] <= Cap(f)
WithinRaised(fees) ==
    \A f \in FeeFields :
        None \notin {fees[f], Cap(f)} => fees[f] <= Times(Cap(f), PriorityFactor)

LEMMA CapAmount == ASSUME NEW f PROVE Cap(f) \in Amount
  BY FeesAssumption DEF Cap, Amount

LEMMA PriorityAmount == PriorityFactor \in Nat /\ PriorityFactor \in Amount /\ PriorityFactor # None
  BY FeesAssumption DEF Amount, MaxFactor

LEMMA CappedAmount ==
    ASSUME NEW fee \in Amount, NEW cap \in Amount
    PROVE  /\ Capped(fee, cap) \in Amount
           /\ None \notin {Capped(fee, cap), cap} => Capped(fee, cap) <= cap
  BY FeesAssumption DEF Capped, Amount

LEMMA AdjustedUncapped ==
    ASSUME NEW data \in FeeData
    PROVE  /\ AdjustedFeeData(data, FALSE) \in FeeData
           /\ Within(AdjustedFeeData(data, FALSE))
<1> DEFINE adjusted == AdjustedFeeData(data, FALSE)
<1>1. {"gasPrice", "maxFeePerGas", "maxPriorityFeePerGas"} = FeeFields BY DEF FeeFields
<1>2. \A f \in FeeFields : data[f] \in Amount BY DEF FeeData
<1>3. {MaxGasPrice, MaxFee, MaxPriorityFee, GasPriceFactor, PriorityFeeFactor} \subseteq Amount
  BY FeesAssumption DEF Amount, MaxFactor
<1>4. /\ adjusted["gasPrice"] = Capped(Times(data["gasPrice"], GasPriceFactor), MaxGasPrice)
      /\ adjusted["maxFeePerGas"]
            = IF MaxFee \in {None, 0} THEN data["maxFeePerGas"] ELSE MaxFee
      /\ adjusted["maxPriorityFeePerGas"]
            = Capped(Times(data["maxPriorityFeePerGas"], PriorityFeeFactor), MaxPriorityFee)
  BY DEF AdjustedFeeData, FeeFields
<1>5. adjusted = [f \in FeeFields |-> adjusted[f]] BY DEF AdjustedFeeData
<1> HIDE DEF adjusted
<1>6. /\ adjusted["gasPrice"] \in Amount
      /\ None \notin {adjusted["gasPrice"], MaxGasPrice} => adjusted["gasPrice"] <= MaxGasPrice
  BY <1>1, <1>2, <1>3, <1>4, TimesAmount, CappedAmount
<1>7. /\ adjusted["maxPriorityFeePerGas"] \in Amount
      /\ None \notin {adjusted["maxPriorityFeePerGas"], MaxPriorityFee}
            => adjusted["maxPriorityFeePerGas"] <= MaxPriorityFee
  BY <1>1, <1>2, <1>3, <1>4, TimesAmount, CappedAmount
<1>8. /\ adjusted["maxFeePerGas"] \in Amount
      /\ MaxFee \notin {None, 0} => adjusted["maxFeePerGas"] = MaxFee
  BY <1>1, <1>2, <1>3, <1>4
<1>9. adjusted \in FeeData BY <1>1, <1>5, <1>6, <1>7, <1>8 DEF FeeData
<1>10. Within(adjusted)
  BY <1>1, <1>3, <1>6, <1>7, <1>8 DEF Within, Cap, Amount
<1> QED BY <1>9, <1>10 DEF adjusted

\* The priority factor is applied once, behind the maxima.
LEMMA AdjustedRaised ==
    ASSUME NEW fees \in FeeData, Within(fees)
    PROVE  /\ [f \in FeeFields |-> Times(fees[f], PriorityFactor)] \in FeeData
           /\ WithinRaised([f \in FeeFields |-> Times(fees[f], PriorityFactor)])
<1> DEFINE raised == [f \in FeeFields |-> Times(fees[f], PriorityFactor)]
<1>1. \A f \in FeeFields : fees[f] \in Amount BY DEF FeeData
<1>2. ASSUME NEW f \in FeeFields PROVE raised[f] \in Amount /\ (raised[f] = None <=> fees[f] = None)
  BY <1>1, TimesAmount, PriorityAmount
<1>3. ASSUME NEW f \in FeeFields, None \notin {raised[f], Cap(f)}
      PROVE  raised[f] <= Times(Cap(f), PriorityFactor)
  <2>1. fees[f] \in Nat /\ Cap(f) \in Nat /\ fees[f] <= Cap(f)
    BY <1>1, <1>2, <1>3, CapAmount DEF Amount, Within
  <2> QED BY <2>1, TimesMonotone, PriorityAmount
<1> QED BY <1>2, <1>3 DEF FeeData, WithinRaised

LEMMA AdjustedPriority ==
    ASSUME NEW data \in FeeData
    PROVE  AdjustedFeeData(data, TRUE)
             = [f \in FeeFields |-> Times(AdjustedFeeData(data, FALSE)[f], PriorityFactor)]
  BY DEF AdjustedFeeData

LEMMA FeeDataWithin ==
    ASSUME NEW data \in FeeData
    PROVE  /\ FeeDataForTransaction(data, FALSE) \in FeeData
           /\ Within(FeeDataForTransaction(data, FALSE))
           /\ FeeDataForTransaction(data, TRUE) \in FeeData
           /\ WithinRaised(FeeDataForTransaction(data, TRUE))
<1>1. ASSUME NEW fees \in FeeData
      PROVE  /\ [fees EXCEPT !["gasPrice"] = None] \in FeeData
             /\ [NoFeeData EXCEPT !["gasPrice"] = fees["gasPrice"]] \in FeeData
             /\ Within(fees) => /\ Within([fees EXCEPT !["gasPrice"] = None])
                                /\ Within([NoFeeData EXCEPT !["gasPrice"] = fees["gasPrice"]])
             /\ WithinRaised(fees) =>
                   /\ WithinRaised([fees EXCEPT !["gasPrice"] = None])
                   /\ WithinRaised([NoFeeData EXCEPT !["gasPrice"] = fees["gasPrice"]])
  BY DEF FeeData, NoFeeData, FeeFields, Amount, Within, WithinRaised
<1>2. /\ AdjustedFeeData(data, FALSE) \in FeeData
      /\ Within(AdjustedFeeData(data, FALSE))
  BY AdjustedUncapped
<1>3. /\ AdjustedFeeData(data, TRUE) \in FeeData
      /\ WithinRaised(AdjustedFeeData(data, TRUE))
  BY <1>2, AdjustedRaised, AdjustedPriority
<1> QED BY <1>1, <1>2, <1>3 DEF FeeDataForTransaction

\* A replacement is within the maxima raised once, and above the transaction it replaces.
LEMMA IncreasedWithin ==
    ASSUME NEW data \in FeeData, NEW originalTx \in FeeData
    PROVE  /\ IncreasedFeeData(data, originalTx) \in FeeData
           /\ Within(originalTx) => WithinRaised(IncreasedFeeData(data, originalTx))
           /\ \A f \in FeeFields :
                 originalTx[f] # None =>
                     /\ IncreasedFeeData(data, originalTx)[f] # None
                     /\ IncreasedFeeData(data, originalTx)[f]
                           >= Times(originalTx[f], PriorityFactor)
<1> DEFINE now == FeeDataForTransaction(data, TRUE)
           raised == [f \in FeeFields |-> Times(originalTx[f], PriorityFactor)]
           new == IncreasedFeeData(data, originalTx)
<1>1. now \in FeeData /\ WithinRaised(now) BY FeeDataWithin
<1>2. ASSUME NEW f \in FeeFields
      PROVE  /\ originalTx[f] \in Amount /\ now[f] \in Amount /\ raised[f] \in Amount
             /\ raised[f] = None <=> originalTx[f] = None
             /\ new[f] = LargestFee(originalTx[f], now[f])
             /\ raised[f] = Times(originalTx[f], PriorityFactor)
  BY <1>1, TimesAmount, PriorityAmount DEF FeeData, IncreasedFeeData
<1>3. ASSUME NEW f \in FeeFields
      PROVE  /\ new[f] \in {None, raised[f], now[f]}
             /\ originalTx[f] # None => new[f] \in Nat /\ new[f] >= raised[f]
             /\ originalTx[f] = None => new[f] = None
  <2> HIDE DEF now, raised, new
  <2> QED BY <1>2, FeesAssumption DEF LargestFee, Amount
<1>4. new \in FeeData
  <2>1. ASSUME NEW f \in FeeFields PROVE new[f] \in Amount
    <3>1. new[f] \in {None, raised[f], now[f]} /\ {raised[f], now[f]} \subseteq Amount BY <1>2, <1>3
    <3> HIDE DEF now, raised, new
    <3> QED BY <3>1 DEF Amount
  <2>2. new = [f \in FeeFields |-> new[f]] BY DEF IncreasedFeeData
  <2> HIDE DEF new
  <2> QED BY <2>1, <2>2 DEF FeeData
<1>5. ASSUME Within(originalTx) PROVE WithinRaised(new)
  <2>1. WithinRaised(raised) BY <1>5, AdjustedRaised
  <2> HIDE DEF now, raised, new
  <2> QED BY <1>1, <1>3, <2>1 DEF WithinRaised
<1>6. ASSUME NEW f \in FeeFields, originalTx[f] # None
      PROVE  new[f] # None /\ new[f] >= Times(originalTx[f], PriorityFactor)
  BY <1>2, <1>3, <1>6, FeesAssumption
<1> QED BY <1>4, <1>5, <1>6

-----------------------------------------------------------------------------
(* The balance.                                                            *)

BalanceInv ==
    /\ {walletBalance, balance, unregistered} \subseteq Nat
    /\ {isBalanceLow, refreshing} \subseteq BOOLEAN
    /\ LowBalanceNoticed

\* Only these steps have to do with the balance.
LEMMA BalanceSteps ==
    ASSUME [Next]_vars
    PROVE  \/ OnProcessOrders \/ UpdateWalletBalance \/ Deposit \/ Spend
           \/ \E t \in Transactions : Mine(t) \/ Register(t)
           \/ UNCHANGED balanceVars
<1>1. CASE UNCHANGED vars
  BY <1>1 DEF vars, walletVars, helperVars, balanceVars
<1>2. CASE SetEnabled
  BY <1>2 DEF SetEnabled, walletVars, helperVars, balanceVars
<1>3. CASE WalletStep
  <2>1. CASE MarketMoves BY <2>1 DEF MarketMoves, helperVars, balanceVars
  <2>2. ASSUME NEW t \in Transactions, Request(t) \/ Reprice(t) \/ Cancel(t) \/ Overlook(t)
        PROVE  UNCHANGED balanceVars
    BY <2>2 DEF Request, Reprice, Cancel, Outbid, Overlook, feeVars, balanceVars
  <2> QED BY <1>3, <2>1, <2>2 DEF WalletStep
<1>4. ASSUME NEW o \in Orders, Decline(o) \/ Evaluate(o) \/ EstimateFails(o) \/ UnderwriteOrder(o)
      PROVE  UNCHANGED balanceVars
  BY <1>4 DEF Decline, Evaluate, EstimateFails, UnderwriteOrder, walletVars, helperVars, balanceVars
<1>5. ASSUME NEW t \in Transactions, Submit(t)
      PROVE  UNCHANGED balanceVars
  BY <1>5 DEF Submit, Send, SendFails, balanceVars
<1> QED BY <1>1, <1>2, <1>3, <1>4, <1>5 DEF Next

LEMMA BalanceInit == Init => BalanceInv
<1> SUFFICES ASSUME Init PROVE BalanceInv OBVIOUS
<1>1. balance \in Nat /\ walletBalance = balance /\ unregistered = 0 /\ refreshing = FALSE
  BY TransactionHelperAssumption DEF Init, HelperInit
<1>2. isBalanceLow = IsLow(balance) BY DEF Init, HelperInit
<1>3. IsLow(balance) \in BOOLEAN BY DEF IsLow
<1>4. balance + unregistered = balance /\ walletBalance <= balance BY <1>1
<1>5. {walletBalance, balance, unregistered} \subseteq Nat BY <1>1
<1>6. (~refreshing /\ IsLow(balance + unregistered)) => isBalanceLow BY <1>2, <1>4
<1> QED BY <1>1, <1>2, <1>3, <1>4, <1>5, <1>6 DEF BalanceInv, LowBalanceNoticed

\* What the warning compares with.
LEMMA LowIsMonotone ==
    ASSUME NEW low \in Nat, NEW high \in Nat, low <= high, IsLow(high)
    PROVE  IsLow(low)
  BY TransactionHelperAssumption DEF IsLow, Amount

LEMMA BalanceNext == BalanceInv /\ [Next]_vars => BalanceInv'
<1> SUFFICES ASSUME BalanceInv, [Next]_vars PROVE BalanceInv' OBVIOUS
<1> DEFINE known == balance + unregistered
<1>0. /\ {walletBalance, balance, unregistered, GasCost, known} \subseteq Nat
      /\ {isBalanceLow, refreshing} \subseteq BOOLEAN
      /\ walletBalance <= known
      /\ (~refreshing /\ IsLow(known)) => isBalanceLow
  BY TransactionHelperAssumption DEF BalanceInv, LowBalanceNoticed
<1>1. SUFFICES /\ {walletBalance', balance', unregistered'} \subseteq Nat
               /\ {isBalanceLow', refreshing'} \subseteq BOOLEAN
               /\ walletBalance' <= known'
               /\ (~refreshing' /\ IsLow(known')) => isBalanceLow'
  BY DEF BalanceInv, LowBalanceNoticed, IsLow
<1>2. ASSUME UNCHANGED <<walletBalance, isBalanceLow, refreshing>>,
             {balance', unregistered'} \subseteq Nat, known <= known'
      PROVE  <1>1!1
  <2>1. known' \in Nat BY <1>2
  <2> QED BY <1>0, <1>2, <2>1, LowIsMonotone
<1>3. CASE OnProcessOrders
  <2>1. UNCHANGED <<walletBalance, isBalanceLow, balance, unregistered>> /\ ~refreshing
    BY <1>3 DEF OnProcessOrders
  <2>2. refreshing' \in BOOLEAN BY <1>3, <1>0 DEF OnProcessOrders
  <2>3. known' = known BY <2>1
  <2> HIDE DEF known
  <2> QED BY <1>0, <2>1, <2>2, <2>3
<1>4. CASE UpdateWalletBalance
  <2>1. Cardinality(InFlight) \in Nat
    BY TransactionHelperAssumption, FS_Subset, FS_CardinalityType DEF InFlight
  <2>2. balance - GasCost * Cardinality(InFlight) \in Int
    BY <1>0, <2>1
  <2>3. /\ walletBalance' \in Nat /\ walletBalance' <= balance /\ balance' = balance
        /\ unregistered' = 0 /\ refreshing' = FALSE
    BY <1>0, <1>4, <2>1, <2>2 DEF UpdateWalletBalance, NotNegative
  <2>4. isBalanceLow' = IsLow(walletBalance') BY <1>4 DEF UpdateWalletBalance
  <2>5. IsLow(walletBalance') \in BOOLEAN BY DEF IsLow
  <2>6. known' = balance BY <1>0, <2>3
  <2>7. IsLow(balance) => IsLow(walletBalance') BY <1>0, <2>3, LowIsMonotone
  <2> HIDE DEF known
  <2>8. isBalanceLow' \in BOOLEAN BY <2>4, <2>5
  <2>9. IsLow(known') => isBalanceLow' BY <2>4, <2>6, <2>7
  <2>10. {walletBalance', balance', unregistered'} \subseteq Nat /\ walletBalance' <= known'
    BY <1>0, <2>3, <2>6
  <2> QED BY <2>3, <2>8, <2>9, <2>10
<1>5. CASE Deposit
  <2>1. UNCHANGED <<walletBalance, isBalanceLow, refreshing>> BY <1>5 DEF Deposit, helperVars
  <2>2. {balance', unregistered'} \subseteq Nat /\ known <= known' BY <1>0, <1>5 DEF Deposit
  <2> QED BY <1>2, <2>1, <2>2
<1>6. CASE Spend
  <2>1. UNCHANGED <<walletBalance, isBalanceLow, refreshing>> BY <1>6 DEF Spend, helperVars
  <2>2. {balance', unregistered'} \subseteq Nat /\ known <= known' BY <1>0, <1>6 DEF Spend
  <2> QED BY <1>2, <2>1, <2>2
<1>7. ASSUME NEW t \in Transactions, Mine(t) PROVE <1>1!1
  BY <1>0, <1>2, <1>7 DEF Mine, helperVars
<1>8. ASSUME NEW t \in Transactions, Register(t) PROVE <1>1!1
  <2>1. /\ walletBalance' \in Nat /\ unregistered' \in Nat /\ balance' = balance
        /\ walletBalance' <= balance + unregistered'
    BY <1>0, <1>8 DEF Register, NotNegative
  <2>2. /\ isBalanceLow' = isBalanceLow
        /\ refreshing' = (~isBalanceLow /\ IsLow(walletBalance'))
    BY <1>8 DEF Register
  <2>3. IsLow(known') => IsLow(walletBalance') BY <1>0, <2>1, LowIsMonotone
  <2>4. refreshing' \in BOOLEAN BY <2>2
  <2>5. walletBalance' <= known' BY <2>1
  <2> HIDE DEF known
  <2> QED BY <1>0, <2>1, <2>2, <2>3, <2>4, <2>5
<1>9. CASE UNCHANGED balanceVars BY <1>0, <1>2, <1>9 DEF balanceVars
<1> QED BY <1>3, <1>4, <1>5, <1>6, <1>7, <1>8, <1>9, BalanceSteps

\* A balance below the warning level is known to be low (registerBalanceUse, runBalanceCheck,
\* updateWalletBalance), for any warning level, interval and cost.
THEOREM LowBalanceIsNoticed == Spec => []LowBalanceNoticed
<1>1. BalanceInv => LowBalanceNoticed BY DEF BalanceInv
<1> QED BY <1>1, BalanceInit, BalanceNext, PTL DEF Spec
-----------------------------------------------------------------------------
(* Fees.                                                                   *)

FeeTypes == {market, feeData} \subseteq FeeData

LEMMA FeeInit == Init => FeeTypes
  BY TransactionHelperAssumption
     DEF Init, HelperInit, FeeTypes, NoFeeData, FeeData, Amount

LEMMA FeeSteps ==
    ASSUME [Next]_vars
    PROVE  {market', feeData'} \subseteq {market, feeData} \cup Markets
<1>1. CASE UNCHANGED vars BY <1>1 DEF vars, walletVars, helperVars
<1>2. CASE SetEnabled BY <1>2 DEF SetEnabled, walletVars, helperVars
<1>3. CASE WalletStep
  <2>1. CASE MarketMoves BY <2>1 DEF MarketMoves, helperVars
  <2>2. CASE OnProcessOrders BY <2>2 DEF OnProcessOrders, UpdateFeeData
  <2>3. CASE UpdateWalletBalance BY <2>3 DEF UpdateWalletBalance, feeVars
  <2>4. CASE Deposit \/ Spend BY <2>4 DEF Deposit, Spend, helperVars
  <2>5. ASSUME NEW t \in Transactions, Reprice(t) \/ Cancel(t)
        PROVE  {market', feeData'} \subseteq {market, feeData} \cup Markets
    BY <2>5 DEF Reprice, Cancel, Outbid, UpdateFeeData
  <2>6. ASSUME NEW t \in Transactions, Request(t) \/ Mine(t) \/ Register(t) \/ Overlook(t)
        PROVE  {market', feeData'} \subseteq {market, feeData} \cup Markets
    BY <2>6 DEF Request, Mine, Register, Overlook, helperVars, feeVars
  <2> QED BY <1>3, <2>1, <2>2, <2>3, <2>4, <2>5, <2>6 DEF WalletStep
<1>4. ASSUME NEW o \in Orders, Decline(o) \/ Evaluate(o) \/ EstimateFails(o) \/ UnderwriteOrder(o)
      PROVE  {market', feeData'} \subseteq {market, feeData} \cup Markets
  BY <1>4 DEF Decline, Evaluate, EstimateFails, UnderwriteOrder, walletVars, helperVars, feeVars
<1>5. ASSUME NEW t \in Transactions, Submit(t)
      PROVE  {market', feeData'} \subseteq {market, feeData} \cup Markets
  BY <1>5 DEF Submit, Send, SendFails, feeVars
<1> QED BY <1>1, <1>2, <1>3, <1>4, <1>5 DEF Next

LEMMA FeeNext == FeeTypes /\ [Next]_vars => FeeTypes'
  BY FeeSteps, TransactionHelperAssumption DEF FeeTypes

\* What is true of a transaction r: its fees keep within the maxima, those of the one the node
\* holds within the maxima raised once; without a replacement they are the same.
Kept(r) ==
    /\ r.original \in FeeData /\ r.bid \in FeeData
    /\ r.priced => Within(r.original) /\ WithinRaised(r.bid)
    /\ r.raised \/ r.bid = r.original
    /\ (r.refused /\ \A f \in FeeFields : Raisable(r.original[f])) => r.raised

TxInv == /\ tx = [t \in Transactions |-> tx[t]]
         /\ \A t \in Transactions : Kept(tx[t])

\* Steps that leave every transaction as it is, and those that leave one without fees.
TxUnchanged == UNCHANGED tx
TxReset ==
    \E t \in Transactions : \E r \in {Requested, Mined, Over} : tx' = [tx EXCEPT ![t] = r]

LEMMA TxSteps ==
    ASSUME TxInv, [Next]_vars
    PROVE  \/ TxUnchanged \/ TxReset
           \/ \E t \in Transactions : Send(t) \/ Reprice(t) \/ Cancel(t)
<1>1. CASE UNCHANGED vars BY <1>1 DEF vars, walletVars, TxUnchanged
<1>2. CASE SetEnabled BY <1>2 DEF SetEnabled, walletVars, TxUnchanged
<1>3. CASE WalletStep
  <2>1. CASE MarketMoves BY <2>1 DEF MarketMoves, TxUnchanged
  <2>2. CASE OnProcessOrders BY <2>2 DEF OnProcessOrders, TxUnchanged
  <2>3. CASE UpdateWalletBalance BY <2>3 DEF UpdateWalletBalance, TxUnchanged
  <2>4. CASE Deposit \/ Spend BY <2>4 DEF Deposit, Spend, TxUnchanged
  <2>5. ASSUME NEW t \in Transactions, Request(t) \/ Mine(t) \/ Register(t) \/ Overlook(t)
        PROVE  TxReset
    BY <2>5 DEF Request, Mine, Register, Overlook, TxReset
  <2> QED BY <1>3, <2>1, <2>2, <2>3, <2>4, <2>5 DEF WalletStep
<1>4. ASSUME NEW o \in Orders, Decline(o) \/ Evaluate(o) \/ EstimateFails(o) PROVE TxUnchanged
  <2>1. CASE Decline(o) BY <2>1 DEF Decline, walletVars, TxUnchanged
  <2>2. CASE Evaluate(o) BY <2>2 DEF Evaluate, walletVars, TxUnchanged
  <2>3. CASE EstimateFails(o) BY <2>3 DEF EstimateFails, walletVars, TxUnchanged
  <2> QED BY <1>4, <2>1, <2>2, <2>3
<1>5. ASSUME NEW o \in Orders, UnderwriteOrder(o) PROVE TxUnchanged \/ TxReset
  <2>1. o \in Transactions BY TransactionHelperAssumption
  <2>2. tx' = [tx EXCEPT ![o] = Requested] \/ tx' = [tx EXCEPT ![o] = tx[o]]
    BY <1>5 DEF UnderwriteOrder
  <2>3. [tx EXCEPT ![o] = tx[o]] = tx BY <2>1 DEF TxInv
  <2> QED BY <2>1, <2>2, <2>3 DEF TxUnchanged, TxReset
<1>6. ASSUME NEW t \in Transactions, SendFails(t) PROVE TxReset
  BY <1>6 DEF SendFails, TxReset
<1> QED BY <1>1, <1>2, <1>3, <1>4, <1>5, <1>6 DEF Next, Submit
LEMMA UnpricedKept ==
    /\ Kept(NoTx)
    /\ \A r \in {Requested, Mined, Over} : Kept(r)
<1>1. NoFeeData \in FeeData BY DEF NoFeeData, FeeData, Amount
<1>2. /\ NoTx.original = NoFeeData /\ NoTx.bid = NoFeeData
      /\ ~NoTx.priced /\ ~NoTx.refused
  BY DEF NoTx
<1>3. \A r \in {Requested, Mined, Over} :
         /\ r.original = NoFeeData /\ r.bid = NoFeeData
         /\ ~r.priced /\ ~r.refused
  BY DEF Requested, Mined, Over, NoTx
<1> QED BY <1>1, <1>2, <1>3 DEF Kept

LEMMA WithinIsRaised ==
    ASSUME NEW fees \in FeeData, Within(fees) PROVE WithinRaised(fees)
<1> SUFFICES ASSUME NEW f \in FeeFields, None \notin {fees[f], Cap(f)}
             PROVE  fees[f] <= Times(Cap(f), PriorityFactor)
  BY DEF WithinRaised
<1>1. fees[f] \in Nat /\ Cap(f) \in Nat /\ fees[f] <= Cap(f)
  BY CapAmount DEF FeeData, Amount, Within
<1>2. Cap(f) <= Times(Cap(f), PriorityFactor) BY <1>1, PriorityRaises
<1>3. Times(Cap(f), PriorityFactor) \in Nat
  BY <1>1, TimesAmount, PriorityAmount, CapAmount DEF Amount
<1> QED BY <1>1, <1>2, <1>3

LEMMA OneKept ==
    ASSUME TxInv, NEW t \in Transactions, NEW r, Kept(r), tx' = [tx EXCEPT ![t] = r]
    PROVE  TxInv'
<1>1. tx' = [u \in Transactions |-> IF u = t THEN r ELSE tx[u]] BY DEF TxInv
<1>2. \A u \in Transactions : tx'[u] = IF u = t THEN r ELSE tx[u] BY <1>1
<1>3. tx' = [u \in Transactions |-> tx'[u]] BY <1>1
<1>4. ASSUME NEW u \in Transactions PROVE Kept(tx'[u])
  <2>1. CASE u = t BY <1>2, <2>1
  <2>2. CASE u # t
    <3>1. tx'[u] = tx[u] BY <1>2, <2>2
    <3>2. Kept(tx[u]) BY DEF TxInv
    <3> QED BY <3>1, <3>2
  <2> QED BY <2>1, <2>2
<1>5. \A u \in Transactions : (Kept(tx[u]))' BY <1>4 DEF Kept, Raisable
<1> QED BY <1>3, <1>5 DEF TxInv

LEMMA SendKept ==
    ASSUME TxInv, FeeTypes, NEW t \in Transactions, Send(t) PROVE TxInv'
<1> DEFINE overrides == FeeDataForTransaction(feeData, FALSE)
           fees == Populate(overrides)
           sent == [NoTx EXCEPT !.stage = "sent", !.original = fees, !.bid = fees,
                                !.priced = (overrides # NoFeeData)]
<1>1. overrides \in FeeData /\ Within(overrides) BY FeeDataWithin DEF FeeTypes
<1>2. fees \in FeeData
  <2>1. market \in FeeData BY DEF FeeTypes
  <2>2. [market EXCEPT !["gasPrice"] = None] \in FeeData
    BY <2>1 DEF FeeData, FeeFields, Amount
  <2> QED BY <1>1, <2>1, <2>2 DEF Populate
<1>3. overrides # NoFeeData => fees = overrides BY DEF Populate
<1>4. tx' = [tx EXCEPT ![t] = sent] BY DEF Send
<1> HIDE DEF overrides, fees
<1>5. /\ sent.original = fees /\ sent.bid = fees
      /\ ~sent.refused /\ sent.priced = (overrides # NoFeeData)
  BY DEF NoTx
<1> HIDE DEF sent
<1>6. Kept(sent) BY <1>1, <1>2, <1>3, <1>5, WithinIsRaised DEF Kept
<1> QED BY <1>4, <1>6, OneKept

\* A replacement of what was sent outbids it.
LEMMA OriginalOutbid ==
    ASSUME NEW fees \in FeeData, NEW original \in FeeData,
           \A f \in FeeFields : Raisable(original[f]),
           \A f \in FeeFields : original[f] # None =>
               fees[f] # None /\ fees[f] >= Times(original[f], PriorityFactor)
    PROVE  Outbids(fees, original)
<1> SUFFICES ASSUME NEW f \in FeeFields, original[f] # None
             PROVE  /\ fees[f] > original[f]
                    /\ fees[f] >= (original[f] * Bump) \div DecimalBase
  BY DEF Outbids
<1>1. original[f] \in Nat /\ fees[f] \in Nat BY DEF FeeData, Amount
<1>2. Times(original[f], PriorityFactor) \in Nat
  BY <1>1, TimesAmount, PriorityAmount, FeesAssumption DEF Amount
<1>3. (original[f] * Bump) \div DecimalBase \in Int
  <2>1. original[f] * Bump \in Int BY <1>1, TransactionHelperAssumption
  <2> QED BY <2>1, DivIff, FeesAssumption
<1>4. /\ Times(original[f], PriorityFactor) > original[f]
      /\ Times(original[f], PriorityFactor) >= (original[f] * Bump) \div DecimalBase
  BY DEF Raisable
<1>5. fees[f] >= Times(original[f], PriorityFactor) OBVIOUS
<1> QED BY <1>1, <1>2, <1>3, <1>4, <1>5
LEMMA OutbidKept ==
    ASSUME TxInv, FeeTypes', NEW t \in Transactions, NEW s, Outbid(t, tx[t].original, s)
    PROVE  TxInv'
<1> DEFINE original == tx[t].original
           fees == IncreasedFeeData(feeData', original)
           taken == Consistent(fees) /\ Outbids(fees, tx[t].bid)
           r == [tx[t] EXCEPT !.stage = s, !.bid = IF taken THEN fees ELSE @,
                              !.raised = @ \/ taken,
                              !.refused = @ \/ (~taken /\ Consistent(fees))]
<1>1. tx' = [tx EXCEPT ![t] = r] BY DEF Outbid, TxInv
<1>2. /\ r.original = original /\ r.bid = IF taken THEN fees ELSE tx[t].bid
      /\ r.raised = (tx[t].raised \/ taken)
      /\ r.refused = (tx[t].refused \/ (~taken /\ Consistent(fees)))
      /\ r.priced = tx[t].priced
  OBVIOUS
<1>3. Kept(tx[t]) BY DEF TxInv
<1>4. /\ fees \in FeeData
      /\ Within(original) => WithinRaised(fees)
      /\ \A f \in FeeFields :
            original[f] # None => fees[f] # None /\ fees[f] >= Times(original[f], PriorityFactor)
  <2>1. feeData' \in FeeData /\ original \in FeeData BY <1>3 DEF FeeTypes, Kept
  <2> QED BY <2>1, IncreasedWithin
<1>5. (\A f \in FeeFields : Raisable(original[f])) => Outbids(fees, original)
  <2>1. original \in FeeData BY <1>3 DEF Kept
  <2> HIDE DEF fees, original
  <2> QED BY <1>4, <2>1, OriginalOutbid
<1>6. Kept(r)
  <2> USE <1>3 DEF Kept
  <2> HIDE DEF fees, r, original
  <2>1. r.original \in FeeData /\ r.bid \in FeeData BY <1>2, <1>4 DEF original
  <2>2. ASSUME r.priced PROVE Within(r.original) /\ WithinRaised(r.bid)
    BY <1>2, <1>4, <2>2 DEF original
  <2>3. r.raised \/ r.bid = r.original BY <1>2 DEF original
  <2>4. ASSUME r.refused, \A f \in FeeFields : Raisable(r.original[f]) PROVE r.raised
    BY <1>2, <1>5, <2>4 DEF original
  <2> QED BY <2>1, <2>2, <2>3, <2>4
<1> HIDE DEF r
<1> QED BY <1>1, <1>6, OneKept

LEMMA TxInit == Init => TxInv
<1> SUFFICES ASSUME Init PROVE TxInv OBVIOUS
<1>1. tx = [t \in Transactions |-> NoTx] BY DEF Init, HelperInit
<1> QED BY <1>1, UnpricedKept DEF TxInv

LEMMA TxNext == TxInv /\ FeeTypes /\ FeeTypes' /\ [Next]_vars => TxInv'
<1> SUFFICES ASSUME TxInv, FeeTypes, FeeTypes', [Next]_vars PROVE TxInv' OBVIOUS
<1>1. CASE TxUnchanged BY <1>1 DEF TxUnchanged, TxInv, Kept, Raisable
<1>2. CASE TxReset
  <2> PICK t \in Transactions, r \in {Requested, Mined, Over} : tx' = [tx EXCEPT ![t] = r]
    BY <1>2 DEF TxReset
  <2>1. Kept(r) BY UnpricedKept
  <2> QED BY <2>1, OneKept
<1>3. ASSUME NEW t \in Transactions, Send(t) PROVE TxInv' BY <1>3, SendKept
<1>4. ASSUME NEW t \in Transactions, Reprice(t) PROVE TxInv' BY <1>4, OutbidKept DEF Reprice
<1>5. ASSUME NEW t \in Transactions, Cancel(t) PROVE TxInv' BY <1>5, OutbidKept DEF Cancel
<1> QED BY <1>1, <1>2, <1>3, <1>4, <1>5, TxSteps

\* Whatever the market does, no replacement or cancellation raises fees beyond the maxima times
\* the priority factor (getIncreasedFeeDataForTransaction), for any maxima and factors.
THEOREM CapsAreKept == Spec => []CapsHold
<1>1. TxInv => CapsHold
  <2> SUFFICES ASSUME TxInv, NEW t \in Transactions, tx[t].priced
               PROVE  /\ None \notin {tx[t].bid["gasPrice"], MaxGasPrice}
                           => tx[t].bid["gasPrice"] <= Times(MaxGasPrice, PriorityFactor)
                      /\ MaxFee # 0 => (None \notin {tx[t].bid["maxFeePerGas"], MaxFee}
                           => tx[t].bid["maxFeePerGas"] <= Times(MaxFee, PriorityFactor))
                      /\ None \notin {tx[t].bid["maxPriorityFeePerGas"], MaxPriorityFee}
                           => tx[t].bid["maxPriorityFeePerGas"]
                                <= Times(MaxPriorityFee, PriorityFactor)
    BY DEF CapsHold
  <2>1. WithinRaised(tx[t].bid) BY DEF TxInv, Kept
  <2> QED BY <2>1 DEF WithinRaised, Cap, FeeFields
<1> QED BY <1>1, FeeInit, FeeNext, TxInit, TxNext, PTL DEF Spec

\* The first replacement of a transaction is never underpriced (getLargestFee), for any markets
\* and any increase that nodes ask for.
THEOREM FirstBidIsAccepted == Spec => []FirstBidAccepted
<1>1. TxInv => FirstBidAccepted BY DEF TxInv, Kept, FirstBidAccepted
<1> QED BY <1>1, FeeInit, FeeNext, TxInit, TxNext, PTL DEF Spec
-----------------------------------------------------------------------------
(* The limit of gas.                                                       *)

LEMMA MinimumBounds ==
    ASSUME NEW j \in Int, NEW k \in Int, NEW n \in Int
    PROVE  Minimum(j, k) \in Int /\ (n <= Minimum(j, k) <=> n <= j /\ n <= k)
  BY DEF Minimum

LEMMA OfferTypes ==
    ASSUME NEW offer \in Offers
    PROVE  /\ offer.value \in Nat /\ offer.share \in Nat /\ offer.profitabilityFactor \in Nat
           /\ offer.minUnderwriteReward \in Nat /\ offer.relativeMinUnderwriteReward \in Nat
           /\ offer.relayProfit # None => offer.relayProfit \in Int
           /\ RatioBase \in Nat \ {0}
  BY EvaluationAssumption DEF Offer

\* The algebra of the two limits, for a value v, a reward w, a profitability factor f, the loss l
\* on the relay, the minimum m, the relative minimum k, the ratios' base r and a gas value g.
LEMMA RewardAlgebra ==
    ASSUME NEW w \in Int, NEW f \in Nat \ {0}, NEW l \in Int, NEW m \in Nat,
           NEW r \in Nat \ {0}, NEW g \in Nat \ {0}, NEW n \in Int
    PROVE  n <= (w + r * f * (l - m)) \div (r * f * g)
               <=> w + r * f * (l - n * g) >= r * f * m
<1> DEFINE p == r * f  a == w + p * (l - m)  d == p * g
<1>1. p \in Nat \ {0} OBVIOUS
<1> HIDE DEF p
<1>2. a \in Int /\ d \in Nat \ {0} BY <1>1
<1>3. n <= a \div d <=> n * d <= a BY <1>2, DivIff
<1>4. n * d <= a <=> w + p * (l - n * g) >= p * m BY <1>1
<1> QED BY <1>3, <1>4 DEF p

LEMMA RelativeRewardAlgebra ==
    ASSUME NEW w \in Int, NEW v \in Nat, NEW f \in Nat \ {0}, NEW l \in Int, NEW k \in Nat,
           NEW r \in Nat \ {0}, NEW g \in Nat \ {0}, NEW n \in Int
    PROVE  n <= (w + f * (r * l - k * v)) \div ((r + k) * f * g)
               <=> w + r * f * (l - n * g) >= f * k * (v + n * g)
<1> DEFINE a == w + f * (r * l - k * v)  d == (r + k) * f * g
<1>1. (r + k) \in Nat \ {0} OBVIOUS
<1>2. (r + k) * f \in Nat \ {0} BY <1>1
<1>3. a \in Int /\ d \in Nat \ {0} BY <1>2
<1>4. n <= a \div d <=> n * d <= a BY <1>3, DivIff
<1>5. n * d <= a <=> w + r * f * (l - n * g) >= f * k * (v + n * g) OBVIOUS
<1> QED BY <1>4, <1>5

LEMMA LimitExact ==
    ASSUME NEW offer \in Offers, offer.relayProfit # None, offer.profitabilityFactor # 0,
           NEW gasValue \in Nat \ {0}, NEW gas \in Int
    PROVE  /\ SmallerLimit(offer, gasValue) \in Int
           /\ gas <= SmallerLimit(offer, gasValue) <=> Profitable(offer, gas * gasValue)
<1> DEFINE w == RewardValue(offer)
           f == offer.profitabilityFactor
           l == RelayLoss(offer)
           m == offer.minUnderwriteReward
           k == offer.relativeMinUnderwriteReward
           v == offer.value
           first == MaxGasLimitMinReward(offer, gasValue)
           second == MaxGasLimitMinRelativeReward(offer, gasValue)
<1>1. /\ w \in Int /\ f \in Nat \ {0} /\ l \in Int /\ m \in Nat /\ k \in Nat /\ v \in Nat
      /\ RatioBase \in Nat \ {0}
  BY OfferTypes DEF RewardValue, RelayLoss, Minimum
<1>2. /\ first = (w + RatioBase * f * (l - m)) \div (RatioBase * f * gasValue)
      /\ second = (w + f * (RatioBase * l - k * v)) \div ((RatioBase + k) * f * gasValue)
  BY DEF MaxGasLimitMinReward, MaxCost, MaxGasLimitMinRelativeReward, MaxRelativeCost
<1>3. Profitable(offer, gas * gasValue)
          <=> /\ w + RatioBase * f * (l - gas * gasValue) >= RatioBase * f * m
              /\ w + RatioBase * f * (l - gas * gasValue) >= f * k * (v + gas * gasValue)
  BY DEF Profitable, ProfitAt
<1>4. SmallerLimit(offer, gasValue) = Minimum(first, second) BY DEF SmallerLimit
<1> HIDE DEF w, f, l, m, k, v, first, second
<1>5. gas <= first <=> w + RatioBase * f * (l - gas * gasValue) >= RatioBase * f * m
  BY <1>1, <1>2, RewardAlgebra
<1>6. gas <= second
          <=> w + RatioBase * f * (l - gas * gasValue) >= f * k * (v + gas * gasValue)
  BY <1>1, <1>2, RelativeRewardAlgebra
<1>7. first \in Int /\ second \in Int
  <2>1. w + RatioBase * f * (l - m) \in Int /\ RatioBase * f * gasValue \in Nat \ {0} BY <1>1
  <2>2. /\ w + f * (RatioBase * l - k * v) \in Int
        /\ (RatioBase + k) * f * gasValue \in Nat \ {0}
    <3>1. RatioBase + k \in Nat \ {0} BY <1>1
    <3>2. (RatioBase + k) * f \in Nat \ {0} BY <1>1, <3>1
    <3> QED BY <1>1, <3>2
  <2> QED BY <1>2, <2>1, <2>2, DivIff
<1> QED BY <1>3, <1>4, <1>5, <1>6, <1>7, MinimumBounds
\* What an evaluation e has found out, and what an order was submitted with.
Evaluated(e) ==
    /\ e.offer \in Offers /\ e.gasPrice \in Nat /\ e.gasValue \in {e.gasPrice, 0}
    /\ Priced(e) => /\ e.offer.relayProfit # None
                    /\ e.maxGasLimit = SmallerLimit(e.offer, e.gasValue)

Estimated(e) ==
    /\ e.gasPrice # 0
    /\ e.answer \in NodeAnswers /\ EstimateGas(e.answer) # None
    /\ EstimateGas(e.answer).gas <= EffectiveGasLimit(e, EstimateGas(e.answer))

Sound(e) ==
    /\ e.stage = "evaluated" => Evaluated(e)
    /\ e.stage = "submitted" => Evaluated(e) /\ Estimated(e)

OrderInv == /\ order = [o \in Orders |-> order[o]]
            /\ \A o \in Orders : Sound(order[o])

LEMMA OneSound ==
    ASSUME OrderInv, NEW o \in Orders, NEW e, Sound(e), order' = [order EXCEPT ![o] = e]
    PROVE  OrderInv'
<1>1. order' = [u \in Orders |-> IF u = o THEN e ELSE order[u]] BY DEF OrderInv
<1>2. \A u \in Orders : order'[u] = IF u = o THEN e ELSE order[u] BY <1>1
<1>3. order' = [u \in Orders |-> order'[u]] BY <1>1
<1>4. ASSUME NEW u \in Orders PROVE Sound(order'[u])
  <2>1. CASE u = o BY <1>2, <2>1
  <2>2. CASE u # o
    <3>1. order'[u] = order[u] BY <1>2, <2>2
    <3>2. Sound(order[u]) BY DEF OrderInv
    <3> QED BY <3>1, <3>2
  <2> QED BY <2>1, <2>2
<1>5. \A u \in Orders : (Sound(order[u]))'
  BY <1>4 DEF Sound, Evaluated, Estimated, Priced, EffectiveGasLimit
<1> QED BY <1>3, <1>5 DEF OrderInv

LEMMA StageSound ==
    ASSUME NEW s \in {"new", "skipped", "over"} PROVE Sound(Stage(s))
  BY DEF Sound, Stage

LEMMA GasPriceType ==
    ASSUME FeeTypes, NEW fees \in FeesAnswered PROVE GasPrice(fees) \in Nat
<1>1. fees \in FeeData
  BY AdjustedUncapped DEF FeeTypes, FeesAnswered, NoFeeData, FeeData, Amount
<1>2. fees["gasPrice"] \in Amount /\ fees["maxFeePerGas"] \in Amount
  BY <1>1 DEF FeeData, FeeFields
<1> QED BY <1>2, EvaluationAssumption DEF GasPrice, Amount

LEMMA EvaluateSound ==
    ASSUME OrderInv, FeeTypes, NEW o \in Orders, Evaluate(o) PROVE OrderInv'
<1> PICK offer \in Offers, fees \in FeesAnswered : \E gasValue \in {GasPrice(fees), 0} :
        LET limit == CalcMaxGasLimit(offer, gasValue)
        IN  /\ TooValuable(offer) \/ limit # None
            /\ order' = [order EXCEPT ![o] =
                   IF TooValuable(offer) \/ limit <= 0 THEN Stage("skipped")
                   ELSE [Stage("evaluated") EXCEPT
                           !.offer = offer, !.gasPrice = GasPrice(fees),
                           !.gasValue = gasValue, !.maxGasLimit = limit]]
  BY DEF Evaluate
<1> PICK gasValue \in {GasPrice(fees), 0} :
        LET limit == CalcMaxGasLimit(offer, gasValue)
        IN  /\ TooValuable(offer) \/ limit # None
            /\ order' = [order EXCEPT ![o] =
                   IF TooValuable(offer) \/ limit <= 0 THEN Stage("skipped")
                   ELSE [Stage("evaluated") EXCEPT
                           !.offer = offer, !.gasPrice = GasPrice(fees),
                           !.gasValue = gasValue, !.maxGasLimit = limit]]
  OBVIOUS
<1> DEFINE limit == CalcMaxGasLimit(offer, gasValue)
           e == [Stage("evaluated") EXCEPT !.offer = offer, !.gasPrice = GasPrice(fees),
                                           !.gasValue = gasValue, !.maxGasLimit = limit]
<1>1. CASE order' = [order EXCEPT ![o] = Stage("skipped")]
  BY <1>1, StageSound, OneSound
<1>2. CASE ~(limit <= 0) /\ limit # None /\ order' = [order EXCEPT ![o] = e]
  <2>1. /\ e.offer = offer /\ e.gasPrice = GasPrice(fees) /\ e.gasValue = gasValue
        /\ e.maxGasLimit = limit /\ e.stage = "evaluated"
    BY DEF Stage
  <2>2. GasPrice(fees) \in Nat BY GasPriceType
  <2>3. ASSUME offer.profitabilityFactor # 0, gasValue # 0
        PROVE  offer.relayProfit # None /\ limit = SmallerLimit(offer, gasValue)
    <3>1. limit # 0 BY <1>2
    <3> QED BY <1>2, <2>3, <3>1 DEF CalcMaxGasLimit
  <2> HIDE DEF e, limit
  <2>4. Evaluated(e) BY <2>1, <2>2, <2>3 DEF Evaluated, Priced
  <2>5. Sound(e) BY <2>1, <2>4 DEF Sound
  <2> QED BY <1>2, <2>5, OneSound
<1> QED BY <1>1, <1>2

LEMMA UnderwriteSound ==
    ASSUME OrderInv, NEW o \in Orders, UnderwriteOrder(o) PROVE OrderInv'
<1> PICK answer \in {a \in NodeAnswers : EstimateGas(a) # None} :
        LET estimate == EstimateGas(answer)
            affordable == estimate.gas <= EffectiveGasLimit(order[o], estimate)
        IN  /\ order[o].stage = "evaluated"
            /\ order[o].gasPrice # 0
            /\ order' = [order EXCEPT ![o] =
                   IF affordable THEN [@ EXCEPT !.stage = "submitted", !.answer = answer]
                   ELSE Stage("skipped")]
  BY DEF UnderwriteOrder
<1> DEFINE estimate == EstimateGas(answer)
           affordable == estimate.gas <= EffectiveGasLimit(order[o], estimate)
           e == [order[o] EXCEPT !.stage = "submitted", !.answer = answer]
<1>1. CASE ~affordable
  <2>1. order' = [order EXCEPT ![o] = Stage("skipped")] BY <1>1
  <2> QED BY <2>1, StageSound, OneSound
<1>2. CASE affordable
  <2>1. order' = [order EXCEPT ![o] = e] BY <1>2 DEF OrderInv
  <2>2. /\ e.offer = order[o].offer /\ e.gasPrice = order[o].gasPrice
        /\ e.gasValue = order[o].gasValue /\ e.maxGasLimit = order[o].maxGasLimit
        /\ e.stage = "submitted" /\ e.answer = answer
    OBVIOUS
  <2>3. Evaluated(order[o]) /\ order[o].gasPrice # 0 BY DEF OrderInv, Sound
  <2> HIDE DEF e
  <2>4. Evaluated(e) BY <2>2, <2>3 DEF Evaluated, Priced
  <2>5. Estimated(e)
    <3>1. EffectiveGasLimit(e, estimate) = EffectiveGasLimit(order[o], estimate)
      BY <2>2 DEF EffectiveGasLimit
    <3>2. EstimateGas(e.answer) = estimate BY <2>2
    <3> HIDE DEF estimate
    <3>3. estimate # None BY DEF estimate
    <3> QED BY <1>2, <2>2, <2>3, <3>1, <3>2, <3>3 DEF Estimated
  <2>6. Sound(e) BY <2>2, <2>4, <2>5 DEF Sound
  <2> QED BY <2>1, <2>6, OneSound
<1> QED BY <1>1, <1>2
LEMMA OrderInit == Init => OrderInv
<1> SUFFICES ASSUME Init PROVE OrderInv OBVIOUS
<1>1. order = [o \in Orders |-> Stage("new")] BY DEF Init
<1> QED BY <1>1, StageSound DEF OrderInv

LEMMA OrderNext == OrderInv /\ FeeTypes /\ [Next]_vars => OrderInv'
<1> SUFFICES ASSUME OrderInv, FeeTypes, [Next]_vars PROVE OrderInv' OBVIOUS
<1>1. ASSUME order' = order PROVE OrderInv'
  BY <1>1 DEF OrderInv, Sound, Evaluated, Estimated, Priced, EffectiveGasLimit
<1>2. CASE UNCHANGED vars BY <1>1, <1>2 DEF vars, evaluationVars
<1>3. CASE SetEnabled BY <1>1, <1>3 DEF SetEnabled
<1>4. CASE WalletStep /\ UNCHANGED evaluationVars BY <1>1, <1>4 DEF evaluationVars
<1>5. ASSUME NEW o \in Orders, Decline(o) \/ EstimateFails(o) PROVE OrderInv'
  <2>1. order' = [order EXCEPT ![o] = Stage("skipped")] BY <1>5 DEF Decline, EstimateFails
  <2> QED BY <2>1, StageSound, OneSound
<1>6. ASSUME NEW o \in Orders, Evaluate(o) PROVE OrderInv' BY <1>6, EvaluateSound
<1>7. ASSUME NEW o \in Orders, UnderwriteOrder(o) PROVE OrderInv' BY <1>7, UnderwriteSound
<1>8. ASSUME NEW t \in Transactions, Submit(t) PROVE OrderInv'
  <2>1. order' = [o \in Orders |-> IF o = t THEN Stage("over") ELSE order[o]]
    BY <1>8 DEF Submit
  <2>2. CASE t \in Orders
    <3>1. order' = [order EXCEPT ![t] = Stage("over")] BY <2>1, <2>2 DEF OrderInv
    <3> QED BY <2>2, <3>1, StageSound, OneSound
  <2>3. CASE t \notin Orders
    <3>1. order' = order BY <2>1, <2>3 DEF OrderInv
    <3> QED BY <1>1, <3>1
  <2> QED BY <2>2, <2>3
<1> QED BY <1>2, <1>3, <1>4, <1>5, <1>6, <1>7, <1>8 DEF Next

\* The gas limit of an evaluation (calcMaxGasLimit) is the largest with which the underwrite
\* earns what the configuration asks for, for any offers, prices and fees.
THEOREM LimitIsAlwaysExact == Spec => []LimitIsExact
<1>1. OrderInv => LimitIsExact
  <2> SUFFICES ASSUME OrderInv, NEW o \in Orders, order[o].stage = "evaluated", Priced(order[o]),
                      NEW gas \in 1..(order[o].maxGasLimit + 1)
               PROVE  gas <= order[o].maxGasLimit
                          <=> Profitable(order[o].offer, gas * order[o].gasValue)
    BY DEF LimitIsExact
  <2>1. Evaluated(order[o]) BY DEF OrderInv, Sound
  <2>2. /\ order[o].offer \in Offers /\ order[o].gasValue \in Nat \ {0}
        /\ order[o].offer.relayProfit # None /\ order[o].offer.profitabilityFactor # 0
        /\ order[o].maxGasLimit = SmallerLimit(order[o].offer, order[o].gasValue)
    BY <2>1 DEF Evaluated, Priced
  <2>3. gas \in Int OBVIOUS
  <2> QED BY <2>2, <2>3, LimitExact
<1> QED BY <1>1, FeeInit, FeeNext, OrderInit, OrderNext, PTL DEF Spec

\* What the chain charges is the gas of the estimate and its fee, in units of gas.
LEMMA ChargedGas ==
    ASSUME NEW answer \in NodeAnswers, EstimateGas(answer) # None, NEW gasPrice \in Nat \ {0}
    PROVE  /\ ChainCost(answer, gasPrice) \div gasPrice \in Int
           /\ EstimateGas(answer).gas \in Int
           /\ EstimateGas(answer).additionalFee \div gasPrice \in Int
           /\ ChainCost(answer, gasPrice) \div gasPrice
                 <= EstimateGas(answer).gas + EstimateGas(answer).additionalFee \div gasPrice
<1> DEFINE gas == EstimateGas(answer).gas
           fee == EstimateGas(answer).additionalFee
           cost == ChainCost(answer, gasPrice)
           n == cost \div gasPrice
<1>1. /\ answer.gas \in Nat /\ answer.l1Fee \in Nat
      /\ answer.resolver \in {"default", "arbitrum", "op-stack"}
  BY EvaluationAssumption
<1>2. gas \in Nat /\ fee \in Nat /\ cost = gas * gasPrice + fee
  <2>1. CASE answer.resolver = "default"
    <3>1. EstimateGas(answer) = Estimate(answer.gas, 0) BY <2>1 DEF EstimateGas, DefaultEstimate
    <3>2. cost = answer.gas * gasPrice + 0 BY <2>1 DEF ChainCost
    <3> QED BY <1>1, <3>1, <3>2 DEF Estimate
  <2>2. CASE answer.resolver = "arbitrum"
    <3>1. EstimateGas(answer) = Estimate(answer.gas, 0) BY <2>2 DEF EstimateGas, ArbitrumEstimate
    <3>2. cost = answer.gas * gasPrice + 0 BY <2>2 DEF ChainCost
    <3> QED BY <1>1, <3>1, <3>2 DEF Estimate
  <2>3. CASE answer.resolver = "op-stack"
    <3>1. EstimateGas(answer) = Estimate(answer.gas, answer.l1Fee)
      BY <2>3 DEF EstimateGas, OpStackEstimate
    <3>2. cost = answer.gas * gasPrice + answer.l1Fee BY <2>3 DEF ChainCost
    <3> QED BY <1>1, <3>1, <3>2 DEF Estimate
  <2> QED BY <1>1, <2>1, <2>2, <2>3
<1> HIDE DEF gas, fee, cost
<1>3. gas * gasPrice \in Nat /\ cost \in Int BY <1>2
<1>4. n \in Int /\ fee \div gasPrice \in Int BY <1>2, <1>3, DivIff
<1>5. n <= cost \div gasPrice <=> n * gasPrice <= cost BY <1>3, <1>4, DivIff
<1> HIDE DEF n
<1>6. n * gasPrice <= gas * gasPrice + fee BY <1>2, <1>4, <1>5 DEF n
<1>7. (n - gas) * gasPrice <= fee
  <2>1. (n - gas) * gasPrice = n * gasPrice - gas * gasPrice BY <1>2, <1>4
  <2>2. n * gasPrice \in Int BY <1>4
  <2> QED BY <1>2, <1>3, <1>6, <2>1, <2>2
<1>8. n - gas \in Int BY <1>2, <1>4
<1>9. n - gas <= fee \div gasPrice BY <1>2, <1>7, <1>8, DivIff
<1> QED BY <1>2, <1>4, <1>9 DEF n, gas, fee, cost

\* What the underwrite queue sends is profitable at its estimate, for any offers, prices, fees and
\* answers of a node of any kind of chain.
THEOREM SubmittedIsProfitable == Spec => []ProfitableAtEstimate
<1>1. OrderInv => ProfitableAtEstimate
  <2> SUFFICES ASSUME OrderInv, NEW o \in Orders, order[o].stage = "submitted", Priced(order[o])
               PROVE  Profitable(order[o].offer,
                                 (ChainCost(order[o].answer, order[o].gasPrice)
                                     \div order[o].gasPrice) * order[o].gasValue)
    BY DEF ProfitableAtEstimate
  <2> DEFINE e == order[o]
             gas == ChainCost(e.answer, e.gasPrice) \div e.gasPrice
             estimate == EstimateGas(e.answer)
  <2>1. Evaluated(e) /\ Estimated(e) BY DEF OrderInv, Sound
  <2>2. /\ e.offer \in Offers /\ e.gasValue \in Nat \ {0} /\ e.gasPrice \in Nat \ {0}
        /\ e.offer.relayProfit # None /\ e.offer.profitabilityFactor # 0
        /\ e.maxGasLimit = SmallerLimit(e.offer, e.gasValue)
    BY <2>1 DEF Evaluated, Estimated, Priced
  <2>3. /\ e.answer \in NodeAnswers /\ estimate # None
        /\ estimate.gas <= e.maxGasLimit - estimate.additionalFee \div e.gasPrice
    BY <2>1 DEF Estimated, EffectiveGasLimit
  <2> HIDE DEF e
  <2>4. /\ gas \in Int /\ estimate.gas \in Int
        /\ estimate.additionalFee \div e.gasPrice \in Int
        /\ gas <= estimate.gas + estimate.additionalFee \div e.gasPrice
    BY <2>2, <2>3, ChargedGas
  <2> HIDE DEF gas, estimate
  <2>5. e.maxGasLimit \in Int BY <2>2, <2>4, LimitExact
  <2>6. gas <= e.maxGasLimit BY <2>3, <2>4, <2>5
  <2>7. Profitable(e.offer, gas * e.gasValue) BY <2>2, <2>4, <2>6, LimitExact
  <2> QED BY <2>7 DEF e, gas
<1> QED BY <1>1, FeeInit, FeeNext, OrderInit, OrderNext, PTL DEF Spec
=============================================================================
