------------------------------- MODULE Expirer -------------------------------
(***************************************************************************)
(* The expirer worker of one chain (src/expirer/expirer.worker.ts and its  *)
(* two queues) with the store it reads, the messages that reach it, the    *)
(* monitor, the wallet that sends its transactions and the chain on which  *)
(* underwrites are made, fulfilled and expired.  Orders go by the index of *)
(* their SwapUnderwritten event in log, which the code does not know: it   *)
(* knows the id, which a later underwrite may have again.  The queues are  *)
(* those of ProcessingQueue: here each order's attempt is one or two steps.*)
(***************************************************************************)
EXTENDS Store

CONSTANTS Duration,            \* blocks from an underwrite to its expiry, set by the contract
          ExpireBlocksMargin,  \* expireBlocksMargin
          MinAge,              \* minUnderwriteDuration, in blocks
          MaxPending,          \* maxPendingTransactions
          MaxTries,            \* maxTries of evalQueue
          MaxBlock,            \* blocks of the chain
          MaxUnderwrites,      \* underwrites made on it
          MaxRestarts,         \* restarts of the process
          Observed(_)          \* the block number the contracts observe in a block: that of L1
                               \* where the chain is an L2 (getTransactionBlockNumber)

\* An own underwrite is older than minUnderwriteDuration when it comes up for expiry: where it
\* is not, the code warns of a misconfiguration.
ASSUME ExpirerAssumption ==
    /\ Duration \in Nat /\ ExpireBlocksMargin \in Nat /\ MinAge \in Nat
    /\ MinAge + ExpireBlocksMargin <= Duration
    /\ MaxPending \in Nat \ {0} /\ MaxTries \in Nat \ {0}
    /\ MaxBlock \in Nat /\ MaxUnderwrites \in Nat /\ MaxRestarts \in Nat
    /\ \A b \in 0..MaxBlock : /\ Observed(b) \in Nat
                              /\ b > 0 => Observed(b) - Observed(b - 1) \in {0, 1}

VARIABLES
    block,        \* the block of the chain
    onChain,      \* the contract: an id to its SwapUnderwritten event, 0 for none
    \* the worker
    currentStatus,          \* the block of the last monitor event, NoBlock before
    transactionBlockNumber, \* NoBlock when there is none
    asked,                  \* the block a query of getTransactionBlockNumber is about
    newOrders,              \* newOrdersQueue
    evalOrders,             \* orders evalQueue is processing in this round, with their tries
    retryQueue,             \* the retryQueue of evalQueue
    evaluated,              \* its completedOrders
    activeState,            \* the active entry read for the order being evaluated
    pc,
    \* the wallet
    pending,      \* expire transactions not settled
    settled,      \* results expirerQueue has not handed back
    orphans,      \* expire transactions from before a restart, which nobody waits for
    \* history since the process was started
    heard,        \* underwrites whose message the worker received
    ended,        \* underwrites it received the completion of
    submitted,    \* underwrites it sent an expire transaction for
    rejected,     \* orders given up because swap data was missing on each try
    \* history
    restarts,     \* how often the process was started again
    skipped       \* whether the listener ever left out events by starting behind them

chainVars == <<block, onChain>>
statusVars == <<currentStatus, transactionBlockNumber>>
queueVars == <<evalOrders, retryQueue, evaluated, activeState>>
walletVars == <<pending, settled>>
restartVars == <<orphans, restarts, skipped>>
historyVars == <<heard, ended, submitted, rejected, restartVars>>
vars == <<storeVars, chainVars, statusVars, asked, newOrders, queueVars, pc, walletVars,
          historyVars>>

NoBlock == -1

IdOf(i) == log[i].id

\* The block at which an order is due; own underwrites are expired ahead of time.
ExpireAt(i) == IF log[i].own THEN log[i].expiry - ExpireBlocksMargin ELSE log[i].expiry

Init ==
    /\ InitStore
    /\ block = 0 /\ onChain = [u \in UnderwriteIds |-> 0]
    /\ currentStatus = NoBlock /\ transactionBlockNumber = NoBlock /\ asked = NoBlock
    /\ newOrders = <<>> /\ evalOrders = <<>> /\ retryQueue = <<>> /\ evaluated = <<>>
    /\ activeState = 0 /\ pc = "start"
    /\ pending = {} /\ settled = {}
    /\ heard = {} /\ ended = {} /\ submitted = {} /\ rejected = {}
    /\ orphans = {} /\ restarts = 0 /\ skipped = FALSE

-----------------------------------------------------------------------------
(* The chain.                                                              *)

NewBlock ==
    /\ block < MaxBlock /\ block' = block + 1
    /\ UNCHANGED <<storeVars, onChain, statusVars, asked, newOrders, queueVars, pc, walletVars,
                   historyVars>>

\* A FulfillUnderwrite or an ExpireUnderwrite event: nobody here tells them apart.
Completed(u) == [kind |-> "Completed", id |-> u, own |-> FALSE, expiry |-> 0, at |-> 0]

Underwrites == {i \in DOMAIN log : log[i].kind = "SwapUnderwritten"}

UnderwriteSwap(u, own) ==
    /\ Cardinality(Underwrites) < MaxUnderwrites
    /\ onChain[u] = 0
    /\ log' = Append(log, [kind |-> "SwapUnderwritten", id |-> u, own |-> own,
                            expiry |-> Observed(block) + Duration, at |-> block])
    /\ onChain' = [onChain EXCEPT ![u] = Len(log) + 1]
    /\ UNCHANGED <<entryVars, subscriptions, channel, block, statusVars, asked, newOrders,
                   queueVars, pc, walletVars, historyVars>>

\* Fulfilled by the relayed packet at any time (or expired by somebody else).
EndUnderwrite(u) ==
    /\ onChain[u] # 0
    /\ log' = Append(log, Completed(u))
    /\ onChain' = [onChain EXCEPT ![u] = 0]
    /\ UNCHANGED <<entryVars, subscriptions, channel, block, statusVars, asked, newOrders,
                   queueVars, pc, walletVars, historyVars>>

\* The contract lets the underwriter expire its own underwrites before their time.
MayExpire(u) ==
    onChain[u] # 0 /\ (log[onChain[u]].own \/ Observed(block) >= log[onChain[u]].expiry)

\* An expire transaction is mined.  It names the id: whatever underwrite has it now is expired,
\* or the transaction reverts.
ExecuteExpire(u) ==
    \/ /\ MayExpire(u)
       /\ log' = Append(log, Completed(u))
       /\ onChain' = [onChain EXCEPT ![u] = 0]
    \/ ~MayExpire(u) /\ UNCHANGED <<log, onChain>>

MineExpire(i) ==
    /\ i \in pending
    /\ ExecuteExpire(IdOf(i))
    /\ pending' = pending \ {i} /\ settled' = settled \cup {i}
    /\ UNCHANGED <<entryVars, subscriptions, channel, block, statusVars, asked, newOrders,
                   queueVars, pc, historyVars>>

MineOrphan(i) ==
    /\ i \in orphans
    /\ ExecuteExpire(IdOf(i))
    /\ orphans' = orphans \ {i}
    /\ UNCHANGED <<entryVars, subscriptions, channel, block, statusVars, asked, newOrders,
                   queueVars, pc, walletVars, heard, ended, submitted, rejected, restarts,
                   skipped>>

\* The wallet gives up.  handleFailedOrder does not retry: the order is skipped.
FailExpire(i) ==
    /\ i \in pending
    /\ pending' = pending \ {i} /\ settled' = settled \cup {i}
    /\ UNCHANGED <<storeVars, chainVars, statusVars, asked, newOrders, queueVars, pc,
                   historyVars>>

-----------------------------------------------------------------------------
(* What reaches the worker between its awaits.                             *)

\* Mutant: the block number is kept until the next query.
KeepBlockNumber ==
    /\ currentStatus < block \/ block = MaxBlock
    /\ currentStatus' = block
    /\ transactionBlockNumber' = IF transactionBlockNumber = NoBlock THEN currentStatus'
                                 ELSE transactionBlockNumber
    /\ UNCHANGED <<storeVars, chainVars, asked, newOrders, queueVars, pc, walletVars,
                   historyVars>>

\* The monitor may leave out blocks.  That of MaxBlock stands for all that come after it.
UpdateStatus ==
    /\ currentStatus < block \/ block = MaxBlock
    /\ currentStatus' = block
    /\ transactionBlockNumber' = NoBlock
    /\ UNCHANGED <<storeVars, chainVars, asked, newOrders, queueVars, pc, walletVars,
                   historyVars>>

\* Where an order goes: in front of the first one that is due after it.
InsertAt(i, orders) ==
    LET later == {k \in DOMAIN orders : ExpireAt(orders[k]) > ExpireAt(i)}
    IN  IF later = {} THEN Len(orders) + 1
        ELSE CHOOSE k \in later : \A l \in later : k <= l

Inserted(i, k, orders) == SubSeq(orders, 1, k - 1) \o <<i>> \o SubSeq(orders, k, Len(orders))

\* The first order with the id, whichever underwrite it is for.
RemoveId(u, orders) ==
    LET same == {k \in DOMAIN orders : IdOf(orders[k]) = u}
        first == CHOOSE k \in same : \A l \in same : k <= l
    IN  IF same = {} THEN orders
        ELSE SubSeq(orders, 1, first - 1) \o SubSeq(orders, first + 1, Len(orders))

\* The underwrites that are over with event c.
EndedBy(c) == {i \in Underwrites : i < c /\ IdOf(i) = IdOf(c)}

Receive(name) == channel # <<>> /\ Head(channel).name = name /\ channel' = Tail(channel)

AddExpireOrder(i) ==
    /\ Receive("onSwapUnderwritten") /\ Head(channel).of = i
    /\ newOrders' = Inserted(i, InsertAt(i, newOrders), newOrders)
    /\ heard' = heard \cup {i}
    /\ UNCHANGED <<log, entryVars, subscriptions, chainVars, statusVars, asked, queueVars, pc,
                   walletVars, ended, submitted, rejected, restartVars>>

RemoveExpireOrder ==
    /\ Receive("onSwapUnderwriteComplete")
    /\ newOrders' = RemoveId(IdOf(Head(channel).of), newOrders)
    /\ ended' = ended \cup EndedBy(Head(channel).of)
    /\ UNCHANGED <<log, entryVars, subscriptions, chainVars, statusVars, asked, queueVars, pc,
                   walletVars, heard, submitted, rejected, restartVars>>

HandleMessage == RemoveExpireOrder \/ \E i \in DOMAIN log : AddExpireOrder(i)

-----------------------------------------------------------------------------
(* The worker loop.                                                        *)

\* run waits for the monitor, then subscribes to one channel after the other.
Subscribe ==
    /\ pc = "start" /\ currentStatus # NoBlock
    /\ subscriptions' = subscriptions + 1
    /\ pc' = IF subscriptions = 1 THEN "loop" ELSE "start"
    /\ UNCHANGED <<log, entryVars, channel, chainVars, statusVars, asked, newOrders, queueVars,
                   walletVars, historyVars>>

\* Mutant: results that are not handed back do not count.
CapacityBesidePending == MaxPending - Len(retryQueue) - Cardinality(pending)

\* What is completed or rejected is handed back before the capacity is read again.
Capacity == MaxPending - Len(retryQueue) - Cardinality(pending) - Cardinality(settled)

Attempt(i) == [of |-> i, tries |-> 1]
Again(r) == [r EXCEPT !.tries = @ + 1]

\* k due orders leave newOrdersQueue for evalQueue, which takes up j retries in front of them.
\* When a retry is due is left open.
Evaluate(k) ==
    \E j \in 0..Len(retryQueue) :
        /\ evalOrders' = [n \in 1..j |-> Again(retryQueue[n])]
                           \o [n \in 1..k |-> Attempt(newOrders[n])]
        /\ retryQueue' = SubSeq(retryQueue, j + 1, Len(retryQueue))
        /\ newOrders' = SubSeq(newOrders, k + 1, Len(newOrders))
        /\ pc' = "eval"

\* The orders up to the first that is not due, or that there is no room for.
DuePrefix(n) ==
    CHOOSE k \in 0..Len(newOrders) :
        /\ \A l \in 1..k : ExpireAt(newOrders[l]) <= n /\ l <= Capacity
        /\ k < Len(newOrders) => ExpireAt(newOrders[k + 1]) > n \/ k + 1 > Capacity

ProcessNewOrders(n) == Evaluate(DuePrefix(n))

\* A block number that is known, and no orders at all, need no query.
BeginRound ==
    /\ pc = "loop"
    /\ \/ newOrders = <<>> /\ Evaluate(0)
       \/ newOrders # <<>> /\ transactionBlockNumber # NoBlock
                          /\ ProcessNewOrders(transactionBlockNumber)
    /\ UNCHANGED <<storeVars, chainVars, statusVars, asked, evaluated, activeState, walletVars,
                   historyVars>>

AskBlockNumber ==
    /\ pc = "loop" /\ newOrders # <<>> /\ transactionBlockNumber = NoBlock
    /\ asked' = currentStatus
    /\ pc' = "asking"
    /\ UNCHANGED <<storeVars, chainVars, statusVars, newOrders, queueVars, walletVars,
                   historyVars>>

\* Mutant: the block number of the monitor is used as it is.
UseMonitorBlock ==
    /\ pc = "asking"
    /\ transactionBlockNumber' = asked /\ asked' = NoBlock
    /\ ProcessNewOrders(asked)
    /\ UNCHANGED <<storeVars, chainVars, currentStatus, evaluated, activeState, walletVars,
                   historyVars>>

\* The answer (queries that fail are repeated) is about the block that was asked for, and is
\* kept, though monitor events may have come in since.
GetBlockNumber ==
    /\ pc = "asking"
    /\ transactionBlockNumber' = Observed(asked) /\ asked' = NoBlock
    /\ ProcessNewOrders(Observed(asked))
    /\ UNCHANGED <<storeVars, chainVars, currentStatus, evaluated, activeState, walletVars,
                   historyVars>>

Order == Head(evalOrders)

\* handleOrder of evalQueue: the active entry is read ...
ReadActive ==
    /\ pc = "eval" /\ evalOrders # <<>>
    /\ activeState' = active[IdOf(Order.of)]
    /\ pc' = "evalSwap"
    /\ UNCHANGED <<storeVars, chainVars, statusVars, asked, newOrders, evalOrders, retryQueue,
                   evaluated, walletVars, historyVars>>

Drop == UNCHANGED <<retryQueue, evaluated, rejected>>

Fail ==
    \/ /\ Order.tries < MaxTries
       /\ retryQueue' = Append(retryQueue, Order)
       /\ UNCHANGED <<evaluated, rejected>>
    \/ /\ Order.tries >= MaxTries
       /\ rejected' = rejected \cup {Order.of}
       /\ UNCHANGED <<retryQueue, evaluated>>

Accept == evaluated' = Append(evaluated, Order.of) /\ UNCHANGED <<retryQueue, rejected>>

SwapKnown(u) == expected[u] # None

OldEnough == block - log[activeState].at >= MinAge

\* Mutant: an order without swap data is dropped like one that is not pending.
EvaluateUnlessUnknown ==
    LET known == SwapKnown(IdOf(Order.of))
    IN  \/ (activeState = 0 \/ ~known \/ ~OldEnough) /\ Drop
        \/ activeState # 0 /\ known /\ OldEnough /\ Accept

EvaluateOrder ==
    LET known == SwapKnown(IdOf(Order.of))
    IN  \/ activeState = 0 /\ Drop
        \/ activeState # 0 /\ ~known /\ Fail
        \/ activeState # 0 /\ known /\ ~OldEnough /\ Drop
        \/ activeState # 0 /\ known /\ OldEnough /\ Accept

\* ... and what is known of the swap, which is only asked of an underwrite that is pending.
ReadSwap ==
    /\ pc = "evalSwap"
    /\ EvaluateOrder
    /\ evalOrders' = Tail(evalOrders)
    /\ activeState' = 0
    /\ pc' = "eval"
    /\ UNCHANGED <<storeVars, chainVars, statusVars, asked, newOrders, walletVars, heard, ended,
                   submitted, restartVars>>

\* The evaluated orders go through expirerQueue to the wallet without an await that lets
\* anything else in, and the results there are by then are handed back.
SubmitExpires ==
    /\ pc = "eval" /\ evalOrders = <<>>
    /\ pending' = pending \cup Range(evaluated)
    /\ submitted' = submitted \cup Range(evaluated)
    /\ evaluated' = <<>>
    /\ settled' = {}
    /\ pc' = "loop"
    /\ UNCHANGED <<storeVars, chainVars, statusVars, asked, newOrders, evalOrders, retryQueue,
                   activeState, heard, ended, rejected, restartVars>>

-----------------------------------------------------------------------------
Loop ==
    \/ Subscribe \/ BeginRound \/ AskBlockNumber \/ GetBlockNumber
    \/ ReadActive \/ ReadSwap \/ SubmitExpires

StoreStep ==
    /\ \/ SaveActiveUnderwriteState
       \/ \E s \in Swaps : RegisterSwap(s)
    /\ UNCHANGED <<chainVars, statusVars, asked, newOrders, queueVars, pc, walletVars,
                   historyVars>>

\* The process stops at any point and is started again ('restart: unless-stopped').  The queues
\* and the wallet's requests are gone: what was sent of those may still be mined.  Nothing is
\* read back from the store.
Restart ==
    /\ restarts < MaxRestarts /\ restarts' = restarts + 1
    /\ RestartStore
    /\ skipped' = (skipped \/ event' > event)
    /\ currentStatus' = NoBlock /\ transactionBlockNumber' = NoBlock /\ asked' = NoBlock
    /\ newOrders' = <<>> /\ evalOrders' = <<>> /\ retryQueue' = <<>> /\ evaluated' = <<>>
    /\ activeState' = 0 /\ pc' = "start"
    /\ pending' = {} /\ settled' = {}
    /\ orphans' = orphans \cup pending
    /\ heard' = {} /\ ended' = {} /\ submitted' = {} /\ rejected' = {}
    /\ UNCHANGED chainVars

SettleExpire == \E i \in pending : MineExpire(i) \/ FailExpire(i)

Next ==
    \/ NewBlock
    \/ \E u \in UnderwriteIds : EndUnderwrite(u) \/ \E own \in BOOLEAN : UnderwriteSwap(u, own)
    \/ SettleExpire \/ UpdateStatus \/ HandleMessage
    \/ StoreStep \/ Loop
    \/ Restart \/ \E i \in orphans : MineOrphan(i)

Spec == Init /\ [][Next]_vars

TakeRetries == (BeginRound \/ GetBlockNumber) /\ retryQueue # <<>> /\ retryQueue' = <<>>

\* Every wait of the loop ends, a retry becomes due, messages arrive, the wallet answers
\* (EveryPromiseResolves of WalletService), blocks are produced and the monitor hears of them.
Fairness ==
    /\ WF_vars(Loop) /\ SF_vars(TakeRetries) /\ WF_vars(HandleMessage) /\ WF_vars(SettleExpire)
    /\ WF_vars(NewBlock) /\ WF_vars(UpdateStatus)

FairSpec == Spec /\ Fairness

-----------------------------------------------------------------------------
(* Properties.                                                             *)

Events == 1..2 * MaxUnderwrites - 1

\* No more orders are between newOrdersQueue and their results than maxPendingTransactions:
\* retries, transactions and results that are not handed back all count.
CapacityRespected ==
    Len(evalOrders) + Len(retryQueue) + Len(evaluated) + Cardinality(pending \cup settled)
        <= MaxPending

\* README.md: an expire order is executed "at the effective expiry time": no transaction is
\* sent before, however old the block number is that the loop works with.  The time is that of
\* the order: whether the underwrite it names was made again since is another question.
NotBeforeDue ==
    [][\A i \in submitted' \ submitted : Observed(block) >= ExpireAt(i)]_vars

Held ==
    Range(newOrders) \cup Range(evaluated) \cup rejected \cup submitted
        \cup {r.of : r \in Range(evalOrders) \cup Range(retryQueue)}

\* An underwrite the worker was told of, and that is not over, has its order in a queue until
\* the transaction is sent, or given up after maxTries: no completion, evaluation or retry of
\* another underwrite with the same id takes it away.
ActiveStaysScheduled ==
    \A u \in UnderwriteIds : onChain[u] \in heard => onChain[u] \in Held

\* When the listener has dealt with every event, the store has the underwrites the contract
\* has, though a completion takes several commands and an id is used again.
StoreFollowsChain ==
    event = Len(log) /\ saveStep = "idle" /\ ~skipped => active = onChain

\* An underwrite the worker was told of gets its expire transaction, or is over, or is given
\* up for want of swap data, once the chain has reached its block.
EveryUnderwriteExpired ==
    \A i \in Events :
        i \in heard /\ ExpireAt(i) <= Observed(MaxBlock)
            ~> i \in submitted \cup rejected \/ i \notin Range(onChain) \/ i \notin heard

\* README.md: "If the underwrite is fulfilled, the `expire` order is discarded".
FulfilledDiscarded ==
    [][\A i \in submitted' \ submitted : i \notin ended]_vars
=============================================================================
