----------------------------- MODULE Underwriter -----------------------------
(***************************************************************************)
(* The underwriter worker of one chain (src/underwriter) with one vault,   *)
(* token and interface: the swaps the listener saves, the three queues an  *)
(* order goes through, the token's balance and allowance as the worker     *)
(* keeps them, and the wallet and the chain they are about.  An order is   *)
(* known by the number of the announcement that made it.  The queues are   *)
(* those of ProcessingQueue: here an attempt is one or two steps.          *)
(* The chain is that of the `pending` block tag: a transaction takes       *)
(* effect when the node has it.                                            *)
(***************************************************************************)
EXTENDS Integers, Sequences, FiniteSets, Functions

CONSTANTS Swaps,
          Saves,            \* the swaps the listener saves, one after the other
          Cost,             \* tokens the underwrite of a swap takes
          Amount,           \* its toAssetAllowance: with collateral and buffer
          Funds,            \* the balance at the start
          InitialAllowance, \* the allowance an earlier run has left
          AllowanceBuffers, \* what allowanceBuffer may be, None for an unlimited approval
          MaxUint,          \* MaxUint256
          LowBalance,       \* lowTokenBalanceWarning, 0 for none
          UpdateInterval,   \* tokenBalanceUpdateInterval
          MaxPending,       \* maxPendingTransactions
          MaxTries,         \* maxTries
          MayEnd,           \* swaps whose underwrites may be over before the model ends
          MaxFaults,        \* times the wallet, or the query of the allowance, may fail
          None

\* An approve transaction that is awaited.
Approvals == [old : Nat, new : Nat, executed : BOOLEAN]

ASSUME UnderwriterAssumption ==
    /\ Saves \in Seq(Swaps)
    /\ Cost \in [Swaps -> Nat] /\ Amount \in [Swaps -> Nat]
    /\ \A s \in Swaps : Cost[s] <= Amount[s]
    /\ MayEnd \subseteq Swaps
    /\ AllowanceBuffers \subseteq Nat \cup {None} /\ None \notin Nat \cup Approvals
    /\ {Funds, InitialAllowance, MaxUint, LowBalance, UpdateInterval, MaxFaults} \subseteq Nat
    /\ MaxPending \in Nat \ {0} /\ MaxTries \in Nat \ {0}

VARIABLES
    \* the listener, in saveSwapState
    saves,        \* calls it has finished
    saving,       \* whether it is between the `get` and the `set`
    saw,          \* whether the entry it has read holds the additional data
    \* the store
    additional,   \* swaps whose entry holds additionalSendAssetDetails
    registering,  \* orders whose registerSwapDataForTheExpirer is under way
    channel,      \* announcements on onSendAsset
    \* the worker
    newOrders,    \* newOrdersQueue
    heard,        \* history: orders made
    validated,    \* validatedVaults: of the vault the swaps go to
    assetKnown,   \* whether vaultAssets has its token
    discovered,   \* history: orders that passed the discover queue
    batch,        \* orders processOrders has to handle, with their tries
    passed,       \* the completedOrders of the discover or of the eval queue
    retryQueue,   \* of each queue
    pc,
    \* the token handlers
    allowanceBuffer,
    required, setAllowance,   \* None before the token's entry is made
    approval,     \* the approve transaction awaited, or None
    approved,     \* history: nothing failed in the last processNewAllowances
    walletBalance, usesSinceUpdate, isBalanceLow,
    \* the wallet, and the results of underwriteQueue
    pending, completed, skipped, rejected,
    submissions,  \* how often an order went to the wallet: its gasLimit is set then
    \* the chain
    allowance, balance, underwritten, refunded,
    misreported,  \* history: a transaction that went through was reported as failed
    faults

storeVars == <<saves, saving, saw, additional, registering, channel, newOrders, heard>>
discoverVars == <<validated, assetKnown, discovered>>
stageVars == <<batch, passed, retryQueue>>
queueVars == <<stageVars, pc>>
allowanceVars == <<allowanceBuffer, required, setAllowance, approval, approved>>
balanceVars == <<walletBalance, usesSinceUpdate, isBalanceLow>>
resultVars == <<completed, skipped, rejected>>
walletVars == <<pending, resultVars, submissions>>
chainVars == <<allowance, balance, underwritten, refunded>>
faultVars == <<misreported, faults>>
vars == <<storeVars, discoverVars, queueVars, allowanceVars, balanceVars, walletVars, chainVars,
          faultVars>>

\* What the parts of the worker leave alone.
arrivalFrame == <<discoverVars, queueVars, allowanceVars, balanceVars, walletVars, chainVars,
                  faultVars>>
discoverFrame == <<allowanceVars, balanceVars, walletVars, chainVars, faultVars>>
evalFrame == <<storeVars, discoverVars, allowanceVars, walletVars, chainVars, faultVars>>
allowanceFrame == <<storeVars, discoverVars, allowanceBuffer, balanceVars, walletVars, balance,
                    underwritten, refunded>>
underwriteFrame == <<storeVars, discoverVars, balanceVars, allowanceBuffer, approval, approved>>

Orders == DOMAIN Saves
SwapOf(n) == Saves[n]
AmountOf(n) == Amount[SwapOf(n)]
Total(orders) ==
    LET sum[n \in 0..Len(Saves)] ==
            IF n = 0 THEN 0 ELSE sum[n - 1] + (IF n \in orders THEN AmountOf(n) ELSE 0)
    IN  sum[Len(Saves)]

\* An allowance of half of MaxUint256 counts as unlimited: all orders together take no more.
ASSUME UnlimitedAssumption == None \in AllowanceBuffers => Total(Orders) <= MaxUint \div 2

NotNegative(k) == IF k < 0 THEN 0 ELSE k

Queues == {"discover", "eval", "underwrite"}

Init ==
    /\ saves = 0 /\ saving = FALSE /\ saw = FALSE
    /\ additional = {} /\ registering = {} /\ channel = <<>>
    /\ newOrders = <<>> /\ heard = {}
    /\ validated = "unknown" /\ assetKnown = FALSE /\ discovered = {}
    /\ batch = <<>> /\ passed = <<>> /\ retryQueue = [q \in Queues |-> <<>>]
    /\ pc = "start"
    /\ allowanceBuffer \in AllowanceBuffers
    /\ required = None /\ setAllowance = None /\ approval = None /\ approved = TRUE
    /\ walletBalance = 0 /\ usesSinceUpdate = 0 /\ isBalanceLow = FALSE
    /\ pending = {} /\ completed = {} /\ skipped = {} /\ rejected = {}
    /\ submissions = [n \in Orders |-> 0]
    /\ allowance = InitialAllowance /\ balance = Funds
    /\ underwritten = {} /\ refunded = {}
    /\ misreported = FALSE /\ faults = 0

Fault == faults < MaxFaults /\ faults' = faults + 1

-----------------------------------------------------------------------------
(* The listener saves swaps (one again when its message is stored again),  *)
(* and what the discover queue adds to an entry may come in between.       *)

GetSwapState ==
    /\ ~saving /\ saves < Len(Saves)
    /\ saving' = TRUE
    /\ saw' = (SwapOf(saves + 1) \in additional)
    /\ UNCHANGED <<saves, additional, registering, channel, newOrders, heard, arrivalFrame>>

\* The entry is written over with what was read, and announced to whoever has subscribed.
WriteSwap(announce) ==
    LET s == SwapOf(saves + 1)
    IN  /\ saving /\ saving' = FALSE /\ saw' = FALSE
        /\ saves' = saves + 1
        /\ additional' = IF saw THEN additional \cup {s} ELSE additional \ {s}
        /\ channel' = IF announce /\ pc # "start" THEN Append(channel, saves + 1) ELSE channel
        /\ UNCHANGED <<registering, newOrders, heard, arrivalFrame>>

\* Mutant: a swap that was saved before is not announced again.
AnnounceNewSwap == WriteSwap(\A n \in 1..saves : SwapOf(n) # SwapOf(saves + 1))

SetSwapState == WriteSwap(TRUE)

\* registerSwapDataForTheExpirer, which nobody waits for.  It may fail, and never happen.
SaveAdditionalSwapData(n) ==
    /\ n \in registering /\ registering' = registering \ {n}
    /\ additional' = additional \cup {SwapOf(n)}
    /\ UNCHANGED <<saves, saving, saw, channel, newOrders, heard, arrivalFrame>>

\* An announcement is heard, and the swap read (it is there, and reads answer in order).
AddUnderwriteOrder ==
    /\ channel # <<>> /\ channel' = Tail(channel)
    /\ newOrders' = Append(newOrders, Head(channel))
    /\ heard' = heard \cup {Head(channel)}
    /\ UNCHANGED <<saves, saving, saw, additional, registering, arrivalFrame>>

-----------------------------------------------------------------------------
(* processOrders of one queue after the other.                             *)

Order == Head(batch)

Attempt(n) == [of |-> n, tries |-> 1]
Again(r) == [r EXCEPT !.tries = @ + 1]

\* The retries that are due (which is left open), and the new orders behind them.
Begin(queue, orders) ==
    \E j \in 0..Len(retryQueue[queue]) :
        /\ batch' = [i \in 1..j |-> Again(retryQueue[queue][i])]
                        \o [i \in DOMAIN orders |-> Attempt(orders[i])]
        /\ retryQueue' = [retryQueue EXCEPT ![queue] = SubSeq(@, j + 1, Len(@))]
        /\ pc' = queue

Drop == batch' = Tail(batch) /\ UNCHANGED <<passed, retryQueue, pc>>
Accept == batch' = Tail(batch) /\ passed' = Append(passed, Order.of) /\ UNCHANGED retryQueue

RetryIn(queue) ==
    /\ Order.tries < MaxTries
    /\ retryQueue' = [retryQueue EXCEPT ![queue] = Append(@, Order)]
    /\ batch' = Tail(batch) /\ UNCHANGED <<passed, pc>>

\* An error: another try, or the order is rejected.  What the discover and the eval queue skip
\* or reject is dropped.
Fail(queue) == RetryIn(queue) \/ (Order.tries >= MaxTries /\ Drop)

\* The balance is read, and the worker subscribes.
Start ==
    /\ pc = "start" /\ pc' = "loop"
    /\ walletBalance' = balance /\ isBalanceLow' = (balance < LowBalance)
    /\ UNCHANGED <<stageVars, usesSinceUpdate, evalFrame>>

underwriteSize == Len(retryQueue["underwrite"])
                    + Cardinality(pending) + Cardinality(completed \cup skipped \cup rejected)

\* Mutant: transactions that are awaited do not count.
CapacityBesidePending ==
    NotNegative(MaxPending - Len(retryQueue["discover"]) - Len(retryQueue["eval"])
                    - (underwriteSize - Cardinality(pending)))

getUnderwriterCapacity ==
    NotNegative(MaxPending - Len(retryQueue["discover"]) - Len(retryQueue["eval"])
                    - underwriteSize)

\* As many as there is room for.  underwriteDelay, the same for every order, is taken for a part
\* of the time the announcement is on its way.
ProcessNewOrdersQueue ==
    LET room == getUnderwriterCapacity
        k == IF Len(newOrders) < room THEN Len(newOrders) ELSE room
    IN  /\ pc = "loop"
        /\ Begin("discover", SubSeq(newOrders, 1, k))
        /\ newOrders' = SubSeq(newOrders, k + 1, Len(newOrders))
        /\ UNCHANGED <<saves, saving, saw, additional, registering, channel, heard,
                       discoverVars, passed, discoverFrame>>

-----------------------------------------------------------------------------
(* handleOrder of the discover queue.  Whether the vault is valid, and what *)
(* token it holds, is found out once.                                      *)

\* No endpoint matches the interface, or the vault is not one that is supported.
VaultInvalid ==
    /\ validated # "valid" /\ validated' = "invalid"
    /\ Drop /\ UNCHANGED <<assetKnown, discovered, registering>>

\* The query of the vault fails: it counts as invalid this time.
VaultQueryFails ==
    validated = "unknown" /\ Drop /\ UNCHANGED <<discoverVars, registering>>

AssetQueryFails ==
    /\ validated # "invalid" /\ ~assetKnown
    /\ validated' = "valid"
    /\ Fail("discover")
    /\ UNCHANGED <<assetKnown, discovered, registering>>

\* onOrderCompletion starts to register the data for the expirer.
Discovered ==
    /\ validated # "invalid" /\ validated' = "valid"
    /\ assetKnown' = TRUE
    /\ discovered' = discovered \cup {Order.of}
    /\ registering' = registering \cup {Order.of}
    /\ Accept /\ UNCHANGED pc

DiscoverOrder ==
    /\ pc = "discover" /\ batch # <<>>
    /\ VaultInvalid \/ VaultQueryFails \/ AssetQueryFails \/ Discovered
    /\ UNCHANGED <<saves, saving, saw, additional, channel, newOrders, heard, discoverFrame>>

DiscoverDone ==
    /\ pc = "discover" /\ batch = <<>>
    /\ Begin("eval", passed) /\ passed' = <<>>
    /\ UNCHANGED <<storeVars, discoverVars, discoverFrame>>

-----------------------------------------------------------------------------
(* handleOrder of the eval queue.                                          *)

\* Underwriting is disabled, the swap is too old, its deadline or gas too low, its token not
\* supported, its value too high or its reward too low; or an error that is a CALL_EXCEPTION.
EvaluateAndSkip ==
    /\ pc = "eval" /\ batch # <<>> /\ Drop
    /\ UNCHANGED <<balanceVars, evalFrame>>

EvaluationFails ==
    /\ pc = "eval" /\ batch # <<>> /\ Fail("eval")
    /\ UNCHANGED <<balanceVars, evalFrame>>

Evaluate ==
    /\ pc = "eval" /\ batch # <<>> /\ pc' = "balance"
    /\ UNCHANGED <<stageVars, balanceVars, evalFrame>>

\* The query is repeated until it is answered.
UpdateWalletBalance ==
    walletBalance' = balance /\ usesSinceUpdate' = 0 /\ isBalanceLow' = (balance < LowBalance)

\* Mutant: the balance that is known is good enough.
NeverUpdate(amount) == FALSE

\* runBalanceCheck, or not enough as far as is known.
MustUpdate(amount) ==
    isBalanceLow \/ usesSinceUpdate > UpdateInterval \/ walletBalance < amount

\* The answer to the query of the balance and the decision are one step.
HasEnoughBalance ==
    LET amount == AmountOf(Order.of)
    IN  /\ pc = "balance"
        /\ \/ MustUpdate(amount) /\ UpdateWalletBalance
           \/ ~MustUpdate(amount) /\ UNCHANGED balanceVars
        /\ \/ walletBalance' >= amount /\ pc' = "use" /\ UNCHANGED stageVars
           \/ /\ walletBalance' < amount /\ pc' = "eval"
              /\ batch' = Tail(batch) /\ UNCHANGED <<passed, retryQueue>>
        /\ UNCHANGED evalFrame

\* When the balance gets low it is read again, without this order or others that are not sent.
RegisterBalanceUse ==
    LET left == NotNegative(walletBalance - AmountOf(Order.of))
        crossing == ~isBalanceLow /\ left < LowBalance
    IN  /\ pc = "use" /\ pc' = "eval" /\ Accept
        /\ \/ crossing /\ UpdateWalletBalance
           \/ /\ ~crossing
              /\ walletBalance' = left /\ usesSinceUpdate' = usesSinceUpdate + 1
              /\ UNCHANGED isBalanceLow
        /\ UNCHANGED evalFrame

EvalStep == EvaluateAndSkip \/ EvaluationFails \/ Evaluate \/ HasEnoughBalance \/ RegisterBalanceUse

-----------------------------------------------------------------------------
(* processNewAllowances: the loop goes on when the approval is through.    *)

RequiredAllowance == IF required = None THEN 0 ELSE required

\* registerRequiredAllowanceIncrease of each order.  Nothing is required before the first.
ProcessNewAllowances ==
    /\ pc = "eval" /\ batch = <<>>
    /\ required' = IF required = None /\ passed = <<>> THEN None
                   ELSE RequiredAllowance + Total(Range(passed))
    /\ approved' = TRUE
    /\ pc' = "allowance"
    /\ UNCHANGED <<stageVars, setAllowance, approval, allowance, faultVars, allowanceFrame>>

BeginUnderwrites == Begin("underwrite", passed) /\ passed' = <<>>

\* initializeSetAllowance.  Its error ends setRequiredAllowances, which nobody notices.
QueryAllowance ==
    /\ pc = "allowance" /\ required # None /\ setAllowance = None
    /\ \/ setAllowance' = allowance /\ UNCHANGED <<queueVars, approved, faults>>
       \/ Fault /\ approved' = FALSE /\ BeginUnderwrites /\ UNCHANGED setAllowance
    /\ UNCHANGED <<required, approval, allowance, misreported, allowanceFrame>>

\* Half of MaxUint256 is unlimited, too.  Between what is required and twice the buffer more
\* the allowance is left alone.
AllowanceFits ==
    \/ allowanceBuffer = None /\ setAllowance >= MaxUint \div 2
    \/ allowanceBuffer # None /\ setAllowance \in required..(required + 2 * allowanceBuffer)

NewAllowance == IF allowanceBuffer = None THEN MaxUint ELSE required + allowanceBuffer

NothingToApprove ==
    /\ pc = "allowance"
    /\ required = None \/ (setAllowance # None /\ AllowanceFits)
    /\ BeginUnderwrites
    /\ UNCHANGED <<required, setAllowance, approval, approved, allowance, faultVars,
                   allowanceFrame>>

\* The allowance counts as set before its transaction is sent.
SetAllowance ==
    /\ pc = "allowance" /\ required # None /\ setAllowance # None /\ ~AllowanceFits
    /\ setAllowance' = NewAllowance
    /\ approval' = [old |-> setAllowance, new |-> NewAllowance, executed |-> FALSE]
    /\ pc' = "approving"
    /\ UNCHANGED <<stageVars, required, approved, allowance, faultVars, allowanceFrame>>

ExecuteApproval ==
    /\ pc = "approving" /\ ~approval.executed
    /\ allowance' = approval.new
    /\ approval' = [approval EXCEPT !.executed = TRUE]
    /\ UNCHANGED <<queueVars, required, setAllowance, approved, faultVars, allowanceFrame>>

\* Mutant: the allowance stays as if it had been set.
KeepSetAllowance == UNCHANGED setAllowance

RollBack == setAllowance' = NotNegative(setAllowance - (approval.new - approval.old))

\* The wallet answers, that the transaction failed perhaps, and perhaps wrongly so.
ApprovalSettled ==
    /\ pc = "approving"
    /\ \/ approval.executed /\ UNCHANGED <<setAllowance, approved, faultVars>>
       \/ /\ Fault /\ RollBack /\ approved' = FALSE
          /\ misreported' = (misreported \/ approval.executed)
    /\ approval' = None
    /\ BeginUnderwrites
    /\ UNCHANGED <<required, allowance, allowanceFrame>>

AllowanceStep == ProcessNewAllowances \/ QueryAllowance \/ NothingToApprove
                    \/ SetAllowance \/ ExecuteApproval \/ ApprovalSettled

-----------------------------------------------------------------------------
(* handleOrder of the underwrite queue, and its transactions.              *)

GasLimitSet(n) == submissions[n] > 0

\* What the contract and the token ask for.
Executable(s) == s \notin underwritten /\ allowance >= Cost[s] /\ balance >= Cost[s]

\* estimateGas fails: handleFailedOrder retries.
EstimateFails ==
    /\ ~GasLimitSet(Order.of)
    /\ \/ RetryIn("underwrite") /\ UNCHANGED rejected
       \/ Order.tries >= MaxTries /\ Drop /\ rejected' = rejected \cup {Order.of}
    /\ UNCHANGED <<pending, completed, skipped, submissions>>

\* The estimate is larger than maxGasLimit allows.
TooMuchGas ==
    /\ ~GasLimitSet(Order.of) /\ Executable(SwapOf(Order.of))
    /\ Drop /\ skipped' = skipped \cup {Order.of}
    /\ UNCHANGED <<pending, completed, rejected, submissions>>

SubmitUnderwrite ==
    /\ GasLimitSet(Order.of) \/ Executable(SwapOf(Order.of))
    /\ submissions' = [submissions EXCEPT ![Order.of] = @ + 1]
    /\ pending' = pending \cup {[of |-> Order.of, tries |-> Order.tries, executed |-> FALSE]}
    /\ Drop /\ UNCHANGED resultVars

UnderwriteOrder ==
    /\ pc = "underwrite" /\ batch # <<>>
    /\ EstimateFails \/ TooMuchGas \/ SubmitUnderwrite
    /\ UNCHANGED <<required, setAllowance, chainVars, faultVars, underwriteFrame>>

ExecuteUnderwrite(p) ==
    LET s == SwapOf(p.of)
    IN  /\ p \in pending /\ ~p.executed /\ Executable(s)
        /\ allowance' = allowance - Cost[s] /\ balance' = balance - Cost[s]
        /\ underwritten' = underwritten \cup {s}
        /\ pending' = (pending \ {p}) \cup {[p EXCEPT !.executed = TRUE]}
        /\ UNCHANGED <<queueVars, required, setAllowance, resultVars, submissions, refunded,
                       faultVars, underwriteFrame>>

UnderwriteConfirmed(p) ==
    /\ p \in pending /\ p.executed
    /\ pending' = pending \ {p} /\ completed' = completed \cup {p.of}
    /\ UNCHANGED <<queueVars, required, setAllowance, skipped, rejected, submissions, chainVars,
                   faultVars, underwriteFrame>>

\* The transaction would revert, or fails for another reason, or did not and is reported so.
ReportedFailed(p) ==
    /\ p \in pending /\ pending' = pending \ {p}
    /\ \/ ~p.executed /\ ~Executable(SwapOf(p.of)) /\ UNCHANGED faultVars
       \/ Fault /\ misreported' = (misreported \/ p.executed)
    /\ UNCHANGED <<required, setAllowance, completed, submissions, chainVars, underwriteFrame>>

\* Mutant: a failed transaction is tried again.
RetryUnderwrite(p) ==
    /\ ReportedFailed(p)
    /\ retryQueue' = [retryQueue EXCEPT !["underwrite"] =
                          Append(@, [of |-> p.of, tries |-> p.tries])]
    /\ UNCHANGED <<batch, passed, pc, skipped, rejected>>

\* handleFailedOrder does not retry once the gas limit is set.
UnderwriteFails(p) ==
    /\ ReportedFailed(p)
    /\ \/ p.tries < MaxTries /\ skipped' = skipped \cup {p.of} /\ UNCHANGED rejected
       \/ p.tries >= MaxTries /\ rejected' = rejected \cup {p.of} /\ UNCHANGED skipped
    /\ UNCHANGED queueVars

\* A fulfilled or expired underwrite gives the tokens back.
Refund(s) ==
    /\ s \in (underwritten \cap MayEnd) \ refunded
    /\ refunded' = refunded \cup {s} /\ balance' = balance + Cost[s]
    /\ UNCHANGED <<queueVars, required, setAllowance, walletVars, allowance, underwritten,
                   faultVars, underwriteFrame>>

\* getFinishedOrders, and what the three kinds of results do to the allowances.
Finish(released) ==
    /\ pc = "underwrite" /\ batch = <<>>
    /\ completed' = {} /\ skipped' = {} /\ rejected' = {}
    /\ required' = IF required = None THEN None
                   ELSE NotNegative(required - Total(completed \cup released))
    /\ setAllowance' = IF completed = {} THEN setAllowance
                       ELSE IF setAllowance = None THEN 0
                       ELSE NotNegative(setAllowance - Total(completed))
    /\ pc' = "loop"
    /\ UNCHANGED <<stageVars, pending, submissions, chainVars, faultVars, underwriteFrame>>

\* Mutant: orders that are given up after maxTries are forgotten.
FinishWithoutRejected == Finish(skipped)

HandleFinished == Finish(skipped \cup rejected)

-----------------------------------------------------------------------------
StoreStep ==
    \/ GetSwapState \/ SetSwapState \/ AddUnderwriteOrder
    \/ \E n \in Orders : SaveAdditionalSwapData(n)

Transactions ==
    \/ \E p \in pending : ExecuteUnderwrite(p) \/ UnderwriteConfirmed(p) \/ UnderwriteFails(p)
    \/ \E s \in Swaps : Refund(s)

Next ==
    \/ StoreStep \/ Start \/ ProcessNewOrdersQueue \/ DiscoverOrder \/ DiscoverDone
    \/ EvalStep \/ AllowanceStep \/ UnderwriteOrder \/ HandleFinished \/ Transactions

Spec == Init /\ [][Next]_vars

-----------------------------------------------------------------------------
(* Properties.                                                             *)

Results == completed \cup skipped \cup rejected
OrdersOf(records) == {r.of : r \in records}
BatchOf(stages) == IF pc \in stages THEN OrdersOf(Range(batch)) ELSE {}
PassedAt(stages) == IF pc \in stages THEN Range(passed) ELSE {}
Waiting(queue) == OrdersOf(Range(retryQueue[queue]))

InDiscover == Waiting("discover") \cup BatchOf({"discover"})
InEval == Waiting("eval") \cup BatchOf({"eval", "balance", "use"})
            \cup PassedAt({"discover", "eval", "balance", "use"})
\* Evaluated, and no result handed back.
InUnderwrite == Waiting("underwrite") \cup BatchOf({"underwrite"})
                    \cup PassedAt({"allowance", "approving"}) \cup OrdersOf(pending) \cup Results

Attempted == [of : heard, tries : 1..MaxTries]

\* The orders in the queues were heard of, tries are counted, and amounts are not negative.
TypeOK ==
    /\ saves \in 0..Len(Saves) /\ Range(channel) \subseteq 1..saves
    /\ additional \subseteq Range(Saves) /\ registering \subseteq discovered
    /\ Range(newOrders) \cup Range(passed) \subseteq heard
    /\ validated \in {"unknown", "valid", "invalid"} /\ assetKnown \in BOOLEAN
    /\ Range(batch) \subseteq Attempted
    /\ \A q \in Queues : Range(retryQueue[q]) \subseteq Attempted
    /\ required \in Nat \cup {None} /\ setAllowance \in Nat \cup {None}
    /\ pending \subseteq [of : discovered, tries : 1..MaxTries, executed : BOOLEAN]
    /\ Results \subseteq discovered /\ discovered \subseteq heard
    /\ {walletBalance, allowance, balance} \subseteq Nat
    /\ (approval # None) = (pc = "approving")

\* README.md: "will not accept any further underwrite orders once reached": no more orders are
\* in the three queues than maxPendingTransactions.
CapacityRespected == Cardinality(InDiscover \cup InEval \cup InUnderwrite) <= MaxPending

\* What is required is what the orders in the underwrite queue need, through retries, failures
\* and results that come in while an approval is awaited: nothing stays behind, and the decrease
\* below zero that 'should never happen' (approval-handler.ts) does not.
RequiredMatchesOrders == RequiredAllowance = Total(InUnderwrite)

Executed == completed \cup OrdersOf({p \in pending : p.executed})

\* When orders are underwritten after approvals that did not fail, the allowance on the chain
\* is enough for all that are still to be executed, though the handler does not look at it: it
\* counts uses when results come in, approvals before they are sent, and failures back.
AllowanceSuffices ==
    pc = "underwrite" /\ approved /\ ~misreported
        => allowance >= Total(InUnderwrite \ (Executed \cup skipped \cup rejected))

\* An order goes to the wallet once: an underwrite that failed there is not sent again.
SubmittedOnce == \A n \in Orders : submissions[n] <= 1

\* An order is refused for want of tokens only when they are wanting, though the balance is
\* kept by subtraction and what comes back is never added.
RefusedOnlyIfPoor ==
    [][pc = "balance" /\ pc' = "eval" => balance < AmountOf(Order.of)]_vars

\* No order of the swap, nor an announcement, nor a write of its entry, is under way.
AtRest(s) ==
    /\ ~(saving /\ SwapOf(saves + 1) = s)
    /\ \A n \in Range(channel) \cup Range(newOrders) \cup InDiscover \cup registering :
          SwapOf(n) # s

\* What the expirer needs of a swap is in its entry once nothing is under way, though the
\* listener may write the entry over with what it read before: the announcement that follows
\* registers the data again.  If the last order of the swap was discovered, that is.
RegisteredAtRest ==
    \A n \in discovered :
        /\ AtRest(SwapOf(n))
        /\ \A k \in heard : SwapOf(k) = SwapOf(n) => k <= n
        => SwapOf(n) \in additional
=============================================================================
