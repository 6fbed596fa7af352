# A TLA+ model of the Catalyst underwriter

The underwriter (`src/src/**`) watches Catalyst swaps that travel between chains, decides
whether underwriting one on its destination chain pays, sends the transaction, and later
expires underwrites that were not fulfilled.  It is one Node.js process of worker threads:
one *listener*, *underwriter*, *expirer* and *wallet* worker per chain, the services that
spawn them, and a Redis store through which they tell each other about swaps.

This directory models its control: queues, retries, nonces, channels, crashes and restarts, and
the arithmetic that decides what is sent and at which price: fees, gas limits, balances.
Payload bytes, addresses and log lines are left out.

## 1. Inventory

| Part | State it keeps | Operations | Talks to | What is hard | Correct means |
|---|---|---|---|---|---|
| `ProcessingQueue` (`processing-queue/`) | `newQueue`, `retryQueue`, three lists of finished orders, `_size`, `_pendingCount` | `addOrders`, `processOrders`, `getFinishedOrders`; `handleOrder` and `handleFailedOrder` of the subclass | the loop of each worker; promises returned by `handleOrder` | promises settle between any two steps of the loop; counters lag behind; retries are timed | no order lost, doubled or miscounted; bounded tries and concurrency; first tries in order; every order is handed back |
| Wallet worker (`wallet/wallet.worker.ts`, `wallet/queues/`) | request queue, submit queue, confirm queue, `transactionNonce`, transactions in the node's pool | submit, resynchronise the nonce, reprice, cancel, stall, requeue, answer | JSON-RPC node, wallet service | lost responses, timeouts, nonce conflicts, reverts, dropped transactions, late mining, crashes | a request goes through at most once and is answered exactly once, truthfully; no nonce gap; order kept; nothing waits for ever |
| Transaction helper (`wallet/transaction-helper.ts`) | `feeData`, `walletBalance`, uses since the last reading, `isBalanceLow` | update and adjust fees, increase those of a replacement, register costs, read the balance again | node; submit and confirm queue | the market moves between a transaction and its replacement; the estimate of the balance drifts | configured maxima hold; a replacement outbids what it replaces; a low balance is noticed |
| Wallet service and interface (`wallet/wallet.service.ts`, `wallet.interface.ts`) | ports, worker per chain, listeners per request | route requests and results, broadcast a crash, respawn | every worker thread | a worker exits with requests in three places; late results | every promise resolves, once, with the answer to its own request |
| Listener (`listener/`) | `fromBlock`, queue of swap messages, block cache, monitor status | scan blocks, decode events, store, publish | node, relayer's monitor, store | reorgs, failures half way, messages for blocks not yet final | every block scanned once, every swap announced once and only if its block stayed |
| Store (`store/`) | swap states, swaps by id, active and completed underwrites (Redis) | `saveSwapState`, `saveAdditionalSwapData`, `saveActiveUnderwriteState`, ... | all workers | read-modify-write from several threads; several commands without a transaction; it survives a restart that the workers' memory does not | no field of an entry is lost; an underwrite is active or completed |
| Expirer (`expirer/`) | schedule of expire orders, evaluation and expire queue | add, remove, evaluate, expire | store, monitor, wallet | fulfilment racing the expiry; restart loses the schedule | nothing fulfilled is expired; everything else is |
| Underwriter (`underwriter/`) | discover, evaluation and underwrite queue; token balances and allowances; `enabled` | add a swap, evaluate, reserve, approve, submit | store, wallet, node, relayer's prices | three pipelined queues; allowances and balances reserved ahead of the chain; prices and fees that are missing, zero or older than the estimate | capacity kept; allowances cover what is in flight; what is underwritten earns what the configuration asks for |
| Underwriter service and controller | worker per chain, endpoints | spawn, enable, disable | underwriter workers | a command against orders already evaluated | - |
| Resolvers (`resolvers/`) | cached L1 block numbers | gas estimate and observed block number of each kind of chain | node, evaluation, expirer | L2s charge for L1, and report its block number | estimates include what the chain charges |
| Monitor (`monitor/`) | last status per chain, ports | forward the relayer's block numbers | relayer, workers | events lost while the socket is down | status only moves forward |
| Configuration, decoding, logging, start-up | none or constant | pure functions and RPC queries | - | - | - |

The hazards of each part, with the lines where they bite, are in `PROJECT.json`; those no
property covers yet say so.

## 2. What is modelled now

```
OrderLedger   <= ProcessingQueue  --  ProcessingQueue_proofs  --  OrderLedger_proofs
                      | (both queues of the wallet are instances)
WalletPromise <= WalletWorker     --  WalletWorker_proofs
                      | (answers what WalletService delivers)
                 WalletService    --  WalletService_proofs

                 Fees  --  TransactionHelper (EXTENDS Fees)
                             --  Evaluation (EXTENDS TransactionHelper)  --  MCEvaluation, Evaluation_proofs

                 Listener                            --  Listener_proofs

                 Store  --  Expirer (EXTENDS Store)  --  MCExpirer, Expirer_proofs
                 Underwriter                         --  MCUnderwriter, Underwriter_proofs
```

`A <= B` reads: B is shown to implement A (`PROPERTY` of a run, by `INSTANCE ... WITH`).

### ProcessingQueue

One action is one stretch of `processing-queue.ts` between two awaits, driven by the loop that
every worker has (`addOrders`, `processOrders`, `getFinishedOrders`, `wait`).

| Code | Model |
|---|---|
| `addOrders` | `AddOrder` |
| `processOrders` up to its early return | `ProcessOrders`, `NothingToProcess` |
| loop over `retryOrders` / over `newQueue` | `ProcessRetry`, `RetriesProcessed` / `BeginNew`, `ProcessNew`, `NewProcessed` |
| `processOrder`, `handleOrderSuccess`, `handleOrderError` | `Attempt`, `HandleOrderSuccess`, `HandleOrderError` |
| the promise's `then`, and the `_pendingCount--` behind it | `Settle`, `ReleasePending` (a microtask later) |
| `getFinishedOrders` | `GetFinishedOrders` |
| `Date.now()` against `retryAtTimestamp` | `CountDown` of the ticks that are left |

The capacity test and the call of `handleOrder` are two actions, because the code awaits
between reading `concurrentOrders` and raising `_pendingCount`: any number of promises settle
in between.  `_size++` and the push of `addOrders` are one: `onOrderInit` is awaited between them, but
the loop waits for `addOrders`, and only the status log reads `_size` or `newQueue` meanwhile.  `handleOrder`
and `handleFailedOrder` are abstract methods, so the model lets them end in every way their types
allow.  An order identity that was handed back may be added again.

`OrderLedger` is the promise: a FIFO of waiting orders, a number of attempts for each order
under way, an outcome for each finished one.  The refinement mapping reads `attempts` off the
`retryCount` of the record that an order is in.

### WalletWorker

The loop of one wallet worker: `ProcessNewRequestsQueue`, the submit queue (`SubmitRetry`,
`SubmitNext`, `SubmitDone` with `handleInvalidTransactions`), the confirm queue (`ConfirmRetry`
with the replacement, `ConfirmNext`, `ConfirmDone` with `handleConfirmedTransactions`,
`handleRejectedTransactions` and the requeueing), and `handleUnconfirmedTransactions`, which
blocks the loop (`CancelCheck`, `CancelSend`, `CancelWait`, `StallResolved`).  Both queues
run with `maxConcurrentOrders = 1`; what `ProcessingQueue` shows about its counters is used
here by leaving them out.

What a replacement costs is `TransactionHelper`'s; here it is taken or refused.

*Assumption.*  An error about the nonce at confirmation means that a transaction of another request, or
of somebody else, took the nonce (`Settle`).  The code assumes the same: it requeues the request on
such an error, and says of the case that the request's own transaction was the one accepted
that it "should never happen" (`wallet.worker.ts:378`).  If a node reported it in that case, the
request would be executed twice: `PromiseSpec` rests on this assumption.

The surroundings are part of the model, because all that is difficult comes from them: the
node keeps a pool of transactions, and accepts several with one nonce (an
original, a replacement, a cancellation); `Mine` takes any of those with the next nonce; a wait
may end because the transaction is mined, reverted or replaced, or for no better reason than
its timeout.  Faults are counted, and a run says which kinds may happen: the node fails to
answer (`rpc`), a transaction is accepted and the response lost (`lost`), a transaction reverts
(`revert`), the network forgets one (`drop`), somebody else uses the key (`foreign`), and the
worker thread dies (`crash`).

Once the network has forgotten a transaction (`forgotten`), a gap and another order are possible and
not the worker's doing; `NoNonceGap` and `OrderMaintained` speak of the time before, with all
other faults.

`WalletPromise` is what the services rely on: executed at most once, answered at most once,
confirmed only if executed.  An execution after an answer that reports a failure is allowed:
the code has no means to exclude it, as a transaction that was given up may still be in the
pool.

### WalletService

The interface in each client thread, the ports, the service, and a channel each way to each
worker.  `Request`, `RouteRequest`, `ProcessRequest`, `SendResult`, `RouteResponse`, `Receive`
are one message handler each; `Exit` loses what the worker holds and has not read, messages
posted until `HandleExit` runs are lost, and `HandleExit` broadcasts the crash to every port
and starts a new worker.  `queuedMessages` has no variable: messages are queued only while
the entry of a chain in `workers` is `null`, and `spawnWorker` fills it again before any other
message is handled.

### Fees and TransactionHelper

`Fees` holds the pure functions, `TransactionHelper` the state they work on, and the callers that
use it, one action each.

| Code (`wallet/`) | Model |
|---|---|
| `getAdjustedFeeData`, `getFeeDataForTransaction`, `getIncreasedFeeDataForTransaction`, `getLargestFee` | `AdjustedFeeData`, `FeeDataForTransaction`, `IncreasedFeeData`, `LargestFee` |
| `updateFeeData` | `UpdateFeeData`: the market's, or what was there |
| `SubmitQueue.onProcessOrders` with `runBalanceCheck`, `updateWalletBalance` | `OnProcessOrders`, `UpdateWalletBalance` |
| `SubmitQueue.handleOrder` | `Send`, `SendFails` |
| repricing in `ConfirmQueue.handleOrder`, `cancelTransaction` | `Reprice`, `Cancel` |
| `registerBalanceUse` of a confirmed transaction | `Register`; `Overlook` where the worker does not hear of the cost |

Factors are in units of `DECIMAL_BASE`, a division truncates as `BigInt`'s does, `undefined` is
`None`.  External are the market, a node that takes a replacement when each of its fees is higher
by `Bump` at least, and ethers, which fills in fees that are left undefined and refuses a tip
above its fee.  Nonces, queues and tries are `WalletWorker`'s: here a transaction that is
not over may be dealt with at any time, in any order, which includes what the queues do.

### Evaluation

What an underwrite may cost, with the wallet's fees in its hands: the evaluation asks the wallet for
fee data, bounds the gas, the estimate is compared with that bound later, and the transaction goes to
the wallet at the fees of yet another moment.

| Code | Model |
|---|---|
| `eval-queue.ts`: `calcMaxGasLimit`, `getGasPrice`, the test of `maxUnderwriteAllowed` | `CalcMaxGasLimit`, `GasPrice`, `TooValuable` |
| `eval-queue.ts`: `handleOrder` | `Evaluate`; `Decline` for every reason that is not about cost |
| `underwrite-queue.ts`: `handleOrder`, its estimate | `UnderwriteOrder`, `EstimateFails` |
| `resolvers/`: `estimateGas` | `DefaultEstimate`, `ArbitrumEstimate`, `OpStackEstimate` |
| `enableUnderwriting`, `disableUnderwriting`, `handleWorkerCommand` | `SetEnabled` |

Values are integers in the pricing denomination and ratios are fractions, so that both limits are
exact; what is not a number in the code (a division by a gas value of 0, a relay profit that is missing)
is `None`, and the order is tried again.  One order and one other transaction are enough: nothing
here relates two orders, but another transaction moves the balance and is priced beside it.

### Listener

The listener worker of one chain, with all that it depends on: the chain, which grows and
whose last blocks are replaced by others (`NewBlock`, `Reorg`); the monitor, which passes on
the relayer's block number less `blockDelay` (`UpdateStatus`); the relayer's swap messages,
which are lost when the socket closes (`RelayMessage`, `Disconnect`); and a node that may be
some blocks behind (`MaxLag`).  A block is its *fork*, the number of reorganisations before
it, which stands for its hash, and the event it holds, if any.

| Code (`listener/listener.worker.ts`) | Model |
|---|---|
| `getStartingBlock` | `GetStartingBlock`: a block, or an offset, which exits when it lies before block 0 |
| `run` up to `queryAndProcessEvents` | `BeginScan` (`toBlock` is at most `fromBlock + maxBlocks`) |
| `queryLogs` | `QueryLogs`, one answer of the node for the whole range |
| `handleInterfaceEvent`, and the `catch` around it | `HandleInterfaceEvent` for one block, `SaveEvent` |
| `run` behind `queryAndProcessEvents` | `EventsProcessed` (also enters the loop below, as no await comes between) |
| `startListeningToRelayer`, `processAMBMessage` | `ProcessAMBMessage`, `RejectAMBMessage` |
| `processCatalystSwapMessagesQueue`: the next message / its `return` / its `splice` | `VerifySwap` / `LeaveEarlySwap` / `SwapsProcessed` |
| `processCatalystSwap` up to, and from, `saveSwapState` | `CheckSwap`, `SaveSwap` |
| `BlockQuerier`: `getBlock`, `cacheBlock` | `GetBlock`, `CacheBlock` |
| `handleMonitorEvent` (`monitor/monitor.service.ts`) | `UpdateStatus` |

A step reaches to the next await.  Messages may come at each of them, so `swapQueue` grows
while the loop over it runs; `i` and `currentBlock` are the loop's locals.  A malformed payload
ends the worker: `processAMBMessage` is called without `await`, the `catch` around it never
sees its error (lines 229-233), and `listener.service.ts:82` only logs that a worker exited.  What is stored is
not followed further; `stored` counts up to two, which is all `SwapAnnouncedOnce` can tell apart.

The monitor is assumed to report ever higher block numbers, as it does while the relayer's
own are.

### Store and Expirer

`Store` is the life of an underwrite in `store.lib.ts`: one action per redis command that somebody
else can observe, called by the listener for one event of the chain after the other
(`SetUnderwrite`, `GetUnderwrite`, `MoveDescription`, `CompleteUnderwrite` of
`saveActiveUnderwriteState`), and `RegisterSwap`, by which the underwriter says which swap an
underwrite is for.  Redis delivers a message to whoever has subscribed when it is published, and
in order.

The process may stop between any two redis commands (`StopBetweenCommands`) and is started again
(`docker-compose.yaml:16`).  What is in redis stays; queues, subscriptions and messages
are gone, and the listener starts at the block its configuration names: any event of the chain may be
the first it sees (`RestartStore`), so that events are seen twice or not at all.

`Expirer` extends it with the worker, its wallet, the monitor and the contract.

| Code (`expirer/`) | Model |
|---|---|
| `startListeningToMonitor` | `UpdateStatus` |
| `run` up to the loop, `listenForOrders` | `Subscribe`, once for each channel |
| `addExpireOrder`, `removeExpireOrder` | `AddExpireOrder`, `RemoveExpireOrder` |
| `processNewOrdersQueue`, `getCurrentTransactionBlockNumber` | `BeginRound`, `AskBlockNumber`, `GetBlockNumber` |
| `EvalQueue.handleOrder`: the first read, and the rest | `ReadActive`, `ReadSwap` |
| `ExpireQueue.handleOrder`, its results | `SubmitExpires`, `MineExpire`, `FailExpire` |
| stop and start of the process | `Restart`; what was sent may still be mined: `MineOrphan` |
| `getTransactionBlockNumber` of the resolvers | `Observed`, a constant: `SameBlock`, or `BlockOfL1` where the chain is an L2 |

The code knows an underwrite by its interface and id, which a later underwrite of an equal swap
has again; the model numbers underwrites by their events, so that a property can tell them
apart where the code cannot.  A completed underwrite is not said to be fulfilled or expired, as
both paths of `saveActiveUnderwriteState` do the same.

The model assumes `MinAge + ExpireBlocksMargin <= Duration`: own underwrites are older than
`minUnderwriteDuration` when they are due.  Where they are not, the code warns of a possible
misconfiguration and drops the order.

### Underwriter

The underwriter of one chain with one vault, token and interface: the listener's
`saveSwapState` in its two commands, the loop with its three queues, `BalanceHandler` and
`ApprovalHandler`, and the wallet and the contract as far as balances and allowances go.

| Code (`underwriter/`) | Model |
|---|---|
| `saveSwapState`: `get`, then `set` and message | `GetSwapState`, `SetSwapState` |
| `saveAdditionalSwapData` | `SaveAdditionalSwapData` (read and write back to back, see below) |
| `listenForOrders`, `addUnderwriteOrder` | `AddUnderwriteOrder` |
| `processNewOrdersQueue` | `ProcessNewOrdersQueue` |
| `DiscoverQueue` | `VaultInvalid`, `VaultQueryFails`, `AssetQueryFails`, `Discovered`, `DiscoverDone` |
| `EvalQueue` | `EvaluateAndSkip`, `EvaluationFails`, `Evaluate`, `HasEnoughBalance`, `RegisterBalanceUse` |
| `processNewAllowances`, `setRequiredAllowances`, `setAllowance` | `ProcessNewAllowances`, `QueryAllowance`, `NothingToApprove`, `SetAllowance`, `ApprovalSettled` |
| `UnderwriteQueue` and its transactions | `EstimateFails`, `TooMuchGas`, `SubmitUnderwrite`, `UnderwriteConfirmed`, `UnderwriteFails` |
| `handleConfirmedOrders`, `handleRejectedOrders`, `handleFailedOrders` | `HandleFinished` |

Whether an evaluation goes on, skips or fails is left open here: it depends on prices and gas,
which `Evaluation` is about, and on clocks and balances of others, none of which the accounting looks at.  Transactions take effect
when the node has them, since balances and gas are asked for with the `pending` tag.  The listener
writes an entry with what it read before; of the two writers that is the one whose interval can
matter here, because the other's read and write are back to back, and a write of the listener
that fell between them would have its fields restored by the same message that is stored
again.  The answer to the query of the balance and the decision of `hasEnoughBalance` are one step
as well.  `underwriteDelay` is a part of the time an announcement takes.

## 3. Runs

| Run | Bounds | Shows |
|---|---|---|
| `queue` | 3 orders, 3 tries, 2 concurrent, retry after 2 ticks | size, concurrency, chronology of retries, `OrderLedger`, and that every order added is handed back |
| `wallet` | 3 requests, capacity 2, 2 tries, any 2 faults of all six kinds; one request with a deadline, one that is never requeued | capacity, every request held in one place until answered, no gap below the next nonce, nonces in the order of requests, and `WalletPromise` |
| `wallet_liveness` | 2 requests, capacity 2, 2 faults of all kinds but `revert` | every request is answered, or the worker is stuck for the reason named below |
| `wallet_cancelled` | 1 request, 3 tries, no fault | a finding, section 6 |
| `service` | 2 clients, 2 chains, 2 requests, 2 exits | no promise forgotten, answers reach their request, order kept, results final; every promise resolves |
| `listener` | 4 blocks, 2 messages, 1 reorganisation of 1 block, a node up to 1 block behind, `blockDelay` 1, a cache of 1 block, 1 fault | events saved once, in order and none missed; nothing stored that is later replaced; messages neither lost nor dropped without reason; scan and queue get to their end |
| `listener_announced` | 5 blocks, 2 messages, no fault and no reorganisation | a finding, section 6 |
| `expirer` | 2 underwrites with one id, of any owner, 2 blocks, expiry after 2, margin 1, room for 1 order, 2 tries | capacity; everything is expired in the end |
| `expirer_restart` | the same on an L2 of 3 blocks whose contracts observe L1, and 2 restarts | nothing expired before its time; no live underwrite without its order; the store agrees with the contract, though the process stops between two commands |
| `expirer_discarded` | `expirer` with one underwrite | a finding, section 6 |
| `underwriter` | 3 orders of 2 swaps, the first announced again; tokens for one or two of them; an allowance left over; a buffer of 1, or unlimited approvals; room for 2, 2 tries, 1 fault | capacity; what is required and what is allowed agree with the orders; nothing sent twice; no order refused while there are tokens; the expirer's data survive |
| `evaluation` | 1 underwrite and 1 other transaction; 4 markets (2 of each kind of chain), 7 offers, 4 answers to an estimate; a gas price, a fee and a tip that the caps cut and some that they do not; a balance up to 2 | caps hold for every replacement; the first replacement is never underpriced; a low balance is noticed; the gas limit is exact; what is sent is profitable at its estimate |

Why these bounds.  The queue needs three orders for one to wait, one to be retried and one to
be pending; two concurrent orders to have a retry and a promise compete; three tries to tell
"first", "some" and "last" apart.  The wallet has room for two orders, so that one can wait
behind another, and a third request waits for room.  Two faults are what it takes for a
fault while another is being repaired (a lost response and then a foreign transaction, a
failure and then a crash).  The listener needs three blocks beyond the first, so that with a
delay of one there is a status before a message's block is reached, one that reaches it, and a
block that can still be replaced; `MaxBlocks = 0` (one block for each call of `getLogs`) makes
several scans of one status; a cache of one block makes the scan and the messages evict each
other's entries; the second of the two messages is for a chain without a channel.  Two exits let a new worker exit too.  No run
uses symmetry reduction: several check liveness, and the others number what they count.

The expirer needs two underwrites of one id for an order to meet the state of another; with a
margin of one an own underwrite is due before a foreign one of the same age; one place makes a
retry, a transaction and a due order compete for it; two tries tell a retry from the last.  In
`expirer_restart` the third block gives an observed block number that lags behind the chain's, and the
second restart one after orders of the first have come back.  Liveness is checked without restarts,
because an underwrite made before one may never be heard of again (section 6).  The
underwriter needs two orders at a time for one to be awaited while the next is approved, and a
third, of the swap of the first, for an underwrite that the contract refuses and an entry that is
written over; the tokens are too few for all, so that balances are refused, reserved and come
back.  Only the underwrite of the first swap comes back (`MayEnd`), which bounds the run and lets
the balance grow behind the worker's back, the case `RefusedOnlyIfPoor` is about.  In `underwriter` a fault is a wallet that reports a failure (of an approval or of an
underwrite that would go through, truly or not) or an allowance that cannot be queried; other
queries may always fail.

In `evaluation` the caps lie between what the markets recommend, so that each is met by one market
and cuts another; the priority factor (1.2) is above what nodes ask for (1.1), as the code's default
is not below it.  The offers are one that is reasonable and six that differ from it in what
decides a branch: a loss on the relay, no estimate of it, no price with and without a profitability
factor, a factor of two, a value above the maximum.  The answers are one for each resolver, and one whose parts contradict
each other.  A balance of two, with a cost of one, crosses the warning level both ways, and
two transactions let one be in flight while the other is registered.

`MaxBlock`, `MaxUnderwrites`, `MaxRestarts`, `MaxBalance`, `MayEnd`, `MaxFaults`, `MaxRequests`, `MaxExits`, `NumRequests`, `MaxHead`, `MaxReorgs` and `MaxMessages`
bound the models and are no part of
the code.

Deadlock is checked in `queue`, `wallet_cancelled`, `evaluation` and the runs of `Expirer` and
`Underwriter`: something can always go on.  It is switched off where a model really stops: the
wallet when it is stalled on a nonce whose transactions the network forgot and no request is left
to be made (`wallet`, `wallet_liveness`), the service when every request is resolved, and the
listener when the worker has exited or the chain of the model has ended.

Each property has a mutant (an operator above the one it replaces, marked `Mutant:`) that
makes a plausible mistake in the code and violates the property under the run's own
configuration.

### Fairness

* *ProcessingQueue*: the `while (true)` loop goes on; handlers wait with timeouts, so each
  promise settles; microtasks run; time passes.  Nobody has to add an order.
* *WalletWorker*: the loop goes on, waits end, and the chain mines the next nonce when it has a
  transaction for it.  Strong fairness of `SubmitRetry` and `ConfirmRetry` says that a retry
  falls due although the loop comes round to it again and again before: the retry interval is
  finite.  Faults and requests are not fair.
* *WalletService*: each event loop delivers its messages, and a worker answers what it
  accepted.  Exits and requests are not fair.
* *Listener*: the loop goes on, as `getLogs` and `getBlock` are retried until they answer; the
  chain grows up to `MaxHead`; the monitor hears of its last block in the end.  Reorganisations,
  messages and faults are not fair.
* *Expirer*: the loop goes on; a retry becomes due however often the loop comes round before
  (`SF` of `TakeRetries`); messages arrive; the wallet answers, which `EveryPromiseResolves` says;
  blocks are made, and the monitor hears of them.  At `MaxBlock` the monitor goes on to report:
  its events there stand for those of all later blocks.  That is needed, and true of a
  chain: an event that comes during the query of the transaction block number is overwritten
  by the older answer (`expirer.worker.ts:310`), and only the next event makes up for it.
  Underwrites, fulfilments and what the underwriter registers are not fair.

`wallet`, `underwriter`, `expirer_restart` and `evaluation` check safety only.

The properties of the listener make these exceptions, each named in its definition.  Both
liveness properties except a worker that has exited: no other is started.  `EveryMessageHandled`
asks for blocks that are still to be scanned, because the queue is only looked at after a
scan, and excepts messages behind one whose block the chain of the model never reaches.

`NoEventMissed`, `SavedEventsStay`, `StoredSwapsStay` and `DroppedOnlyIfReorged` are checked with
`DelaySuffices`: `blockDelay` covers the depth of reorganisations and the lag of the node.  That is
what the option is for (`config.example.yaml`).  A deeper reorganisation breaks all four; a node
further behind breaks `NoEventMissed` and `DroppedOnlyIfReorged`.

`EveryRequestAnswered` allows one exception, `StuckForever`: the worker is stalled on a nonce, and the
network holds no transaction for the nonce the chain needs next.  The stall loop
only looks at the transaction count (`wallet.worker.ts:475-500`) and never sends again, so this
lasts until somebody acts by hand.  The property is checked with exactly this exception and
no wider one.

## 4. Proofs

Every invariant and every action property that a passing run checks is proved for all values of the
constants, and so are both refinements.  What stays with TLC is named at the end of this section.

### ProcessingQueue and OrderLedger

`ProcessingQueue_proofs` proves, for every set of orders and every value of `MaxTries`,
`MaxConcurrent` (positive) and `RetryInterval`, every invariant that `queue` checks, and three that
need no run any more because they are proved:

| Theorem | Property |
|---|---|
| `TypeCorrect` | `TypeOK`, and with it that no counter goes below zero |
| `ConcurrencyIsBounded` | `ConcurrencyRespected` |
| `TriesAreBounded` | `TriesRespected` |
| `RetriesInOrder` | `RetriesChronological` |
| `OrdersInOnePlace` | `EachOrderInOnePlace` |
| `SizeIsExact` | `SizeAccountsForOrders` |

The only assumption is `QueueAssumption`.  The argument goes in four layers, each inductive
given those before it:

1. `Shape`: types, with the counters as any integers, and what each `pc` says about the locals
   (`retryOrders` is empty unless retries are being processed, `cursor` stays within
   `newQueue` and is zero outside the loop over it, there is an order to handle when one is
   handled).
2. `Counters`: each counter is *at least* what it counts.  An attempt raises what is counted
   by at most one (`AttemptCounts`), a settled promise moves one order, and `_pendingCount--`
   only follows.  This gives the concurrency bound, since the loop begins an order only when
   `pendingCount + Len(retryQueue)` is below the limit and that sum is never too small, and it
   gives `TypeOK`.  It does not need to know that orders are distinct.
3. `SinkInOrder /\ OthersInOrder`, equivalent to `EachOrderInOnePlace`: the collections an
   attempt can move an order into (`retryQueue` and the finished ones) hold it once and are
   disjoint from each other, and the places it comes from (`newQueue` behind the cursor,
   `retryOrders`, `pending`) are disjoint from each other and from those.
   `AttemptInOnePlace` is the step all three ways of attempting share.
4. `SizeAtMost`: `size` is also *at most* what it counts, because an order that is awaited was
   not awaited before (3).  With 2 this is equality.

`TriesRespected` and `RetriesChronological` are inductive given `Shape` alone.

`OrderLedger_proofs` proves `QueueImplementsLedger`: `Spec => LedgerSpec`, the refinement `queue`
checks.  Each action is shown to be a step of the ledger or to leave `waiting`, `attempts` and
`outcome` as they are.  `attempts` is read off the record an order is in, wherever that is; the
mapping is a function because there is one record for each order (`OneRecord`, which follows from
`OrdersInOnePlace`), so that a record which changes its place keeps its count (`AttemptsAgree`) and
one that is replaced changes that of its own order only (`AttemptStep`, `FinishStep`).  That an order is
rejected with its last try, and not before, is `TriesRespected`.

### WalletWorker and WalletPromise

`WalletWorker_proofs` proves all that `wallet` checks, for any number of requests, tries and
faults of any kind, from `WalletAssumption` alone:

| Theorem | Property |
|---|---|
| `CapacityIsRespected` | `CapacityRespected` |
| `NothingIsLostBetweenQueues` | `HeldUntilAnswered` |
| `NoncesHaveNoGap` | `NoNonceGap` |
| `OrderIsMaintained` | `OrderMaintained` |
| `WorkerKeepsThePromise` | `PromiseSpec` |

1. `Shape`: types; at most one order is retried or awaited in each queue (`maxConcurrentOrders = 1`);
   `cancelling` is empty unless the loop is blocked on it; what is in the pool has a nonce that can still be
   mined, and the i-th mined transaction has nonce i - 1.  `CapacityRespected` and `NoNonceGap` are
   inductive given `Shape`.
2. `HeldOnce`: the unanswered requests are divided among the twelve collections of the worker
   (`Apart`), and none is in one of them twice.  A step moves a set of requests from one collection
   to another (`Moved`), lets them arrive, or answers them (`Gone`).
3. `ConfirmedExecuted` and `NonceTaken` say what the chain knows of an order in `confirmed` or
   `rejected`: its transaction went through, or its nonce was used by somebody else.
4. `OneNonce`: all transactions that would execute a request have one nonce, and a request that waits to
   be sent has none.  A request is put back only if its nonce was taken (`NonceTaken`), so that the
   transactions it had can be mined no more (`PutBackFacts`).  Since a nonce is mined once, a request
   is executed once, which the promise needs.
5. `WaitInOrder` and `FirstInOrder`: requests wait in their order, and those not put back have
   nonces in their order.  The latter needs `NoNonceGap`: when the worker asks the node for its nonce
   again, the answer is not below one that was given out.

The sequence of requeued orders is a recursive function (`Turn`, `IsLoop`), whose values the
proof reaches through a least index at which a claim about it fails.

### WalletService

`WalletService_proofs` proves all that `service` checks but liveness, for any sets of clients and chains, from
`ServiceAssumption`:

| Theorem | Property |
|---|---|
| `NoPromiseIsForgotten` | `NoPromiseForgotten` |
| `ResultsStay` | `ResultsAreFinal` |
| `AnswersAreOfTheChain` | `AnswersComeFromTheChain` |
| `RequestsAreReceivedInOrder` | `ReceivedInOrder` |

1. `Shape`: types that tie each message to the request that was made under its id, in particular that a response
   is of the chain the request named.  `NoPromiseForgotten` is inductive with it: each handler hands a request on
   to the next place of its `Path`, and an exit, which empties three of them, is itself one.
2. `PendingUnresolved`: a promise is not resolved while its listener is on the port, so that a result is never written
   over.
3. `ReturnsWereReceived`: what is on its way back was received by a worker of its chain.
4. `PipelineInOrder`: message ids ascend in every channel on the way, and those received lie below
   those on the way to the worker, and these below those on the way to the service.

### Listener

`Listener_proofs` proves, for every chain, every reorganisation and every value of the constants,
from `ListenerAssumption` alone (no `DelaySuffices`):

| Theorem | Property |
|---|---|
| `ListenerTypes` | `TypeOK` |
| `EventsInOrder` | `EventsSavedInOrder` |
| `MessagesKept` | `NoMessageLost` |

1. `Shape`: types, in five groups of variables so that a step only proves the groups it
   touches, and what each `pc` says of the locals: `fromBlock <= toBlock` from the query on,
   `logs` covers `fromBlock..toBlock`, `at` lies in it or just behind, and a block with an event
   was really seen; `i` is an index of the queue while its message is saved.
2. `SavedBehindScan`: what was saved lies behind `at` during a scan and behind `fromBlock`
   otherwise.  `EventsSavedInOrder` is not inductive without it, since a step appends the block
   `at`.  It survives `EventsProcessed` because `at = toBlock + 1` there, which `Shape` says.
3. `Queued`: in a round of the loop over the queue, all before `i` is dealt with, and `i` is at
   most one beyond the queue.  That is why `splice(0, i)` removes nothing else, and why a
   message appended during a round is not counted as seen.

The second part of the module is about what `blockDelay` is for.  Its four theorems assume
`DelaySuffices`, and nothing else about the chain and the nodes:

| Theorem | Property |
|---|---|
| `NoEventIsMissed` | `NoEventMissed` |
| `SavedEventsAreFinal` | `SavedEventsStay` |
| `StoredSwapsAreFinal` | `StoredSwapsStay` |
| `DroppedSwapsAreGone` | `DroppedOnlyIfReorged` |

A block is *final* when it is `blockDelay` below the last one: no step replaces it or makes it
less deep (`FinalStays`, which is where `ReorgDepth <= BlockDelay` is needed).  `Heights` says that
the worker only goes as far as that: the status, the block its round of the queue compares with,
`toBlock` of a scan, and all that was scanned.  So each block that is looked up is final
(`LookedUpIsFinal`), the node has it (`MaxLag <= BlockDelay`), and a cached answer is as good as
a new one (`GetFinalBlock`).  What the worker knows of final blocks, in the cache, in `logs`, in
`saved` and about swaps, then stays true (`Agrees`).  `AllSaved` counts the events up to `at` during a
scan, as `SavedBehindScan` does.

### Evaluation and TransactionHelper

`Evaluation_proofs` proves every property of the run `evaluation`, for all markets, offers, answers of nodes and
configurations.  It rests on the assumptions of `Fees`, `TransactionHelper` and `Evaluation`
(`FeesAssumption` has the checks of `loadGasFeeConfig`; transactions are finite in number), and on
lemmas about division and the fee functions, which come first in the module.

| Theorem | Property |
|---|---|
| `LowBalanceIsNoticed` | `LowBalanceNoticed` |
| `CapsAreKept` | `CapsHold` |
| `FirstBidIsAccepted` | `FirstBidAccepted` |
| `LimitIsAlwaysExact` | `LimitIsExact` |
| `SubmittedIsProfitable` | `ProfitableAtEstimate` |

1. `BalanceInv` is `LowBalanceNoticed` with types.  It is inductive because a step that spends moves the
   amount from `balance` to `unregistered`, and registering takes it from there and from
   `walletBalance` alike.
2. `TxInv` says of each transaction what neither property says: its *original* fees are within the
   maxima, those of the one the node holds within the maxima raised once, and as long as no replacement
   was taken the two are the same.  Since it is always the original that is raised (`OutbidKept`), the factor is
   applied once at most; and as the first replacement competes with the original itself,
   it wins (`OriginalOutbid`).  `IncreasedWithin` is what `getIncreasedFeeDataForTransaction` guarantees.
3. `OrderInv` keeps what an evaluation has found out up to the estimate.  `LimitExact` is the arithmetic: `n <= a \div d`
   is `n * d <= a` (`DivIff`), and the two bounds are the two conditions on the profit, multiplied out.
   `ChargedGas` turns a fee that is charged beside the gas into gas.

### Store and Expirer

`Expirer_proofs` proves what `expirer` and `expirer_restart` check but liveness, for every number of blocks, underwrites and
restarts, from `StoreAssumption` and `ExpirerAssumption` (`Observed` begins in `Nat` and grows by at most
one with each block):

| Theorem | Property |
|---|---|
| `NoExpireBeforeDue` | `NotBeforeDue` |
| `StoreIsOfTheChain` | `StoreFollowsChain` |
| `ExpiresRespectCapacity` | `CapacityRespected` |
| `NoActiveOrderIsLost` | `ActiveStaysScheduled` |

1. `Shape` has six parts: the contract's entry for an id is its last event, if that is an underwrite
   (`ChainShape`); an underwrite's expiry follows from the block it was made in, and by the
   observed number it is no older than by the chain's (`Ages`); types of store and worker; every block number the
   worker has is one the chain has reached (`TimeShape`); and every order behind the schedule is due
   (`AllDue`), which is `NotBeforeDue` before the transaction is sent.
2. `StoreAgrees`: an id of whose events none is left for the listener has the entry the contract
   has.  It holds between the two commands of a completion too, because the description is moved
   before the entry goes, and both are done again after a stop.
3. `CapacityRespected` is inductive given `Shape`: what a round takes up is bounded by the room
   that is left.
4. `Arrivals`: the worker is told of underwrites in the order of their events, and, of one the
   contract still holds, only when the entry of the store is its own.  So an order is never dropped
   for the state of an earlier underwrite with its id, which is what
   `ActiveStaysScheduled` rests on.

### Underwriter

`Underwriter_proofs` proves all that `underwriter` checks, and its type invariant, for every
sequence of swaps and announcements, all costs and rewards, balances, buffers, capacities and numbers of tries:

| Theorem | Property |
|---|---|
| `TypeCorrect` | `TypeOK` |
| `RefusalsAreFounded` | `RefusedOnlyIfPoor` |
| `NoOrderIsSubmittedTwice` | `SubmittedOnce` |
| `CapacityIsRespected` | `CapacityRespected` |
| `DataIsRegistered` | `RegisteredAtRest` |
| `RequiredIsExact` | `RequiredMatchesOrders` |
| `AllowanceIsEnough` | `AllowanceSuffices` |

It rests on two assumptions.  `UnderwriterAssumption` has the types of the constants, and that an order is
accounted for with no less than it costs (`toAssetAllowance` is the expected return with the collateral and
a buffer on top, `eval-queue.ts:41-47,136`).  `UnlimitedAssumption` says that where approvals are unlimited,
all orders together need no more than half of `MaxUint256`: the code takes an allowance of that much for unlimited
and does not look further (`approval-handler.ts`).  `AllowanceSuffices` is the only property that
needs it; no token has a supply for which it fails.

1. `Shape` (`ShapeInvariant`): types, and what each stage says of the batch, of what is passed on and of the approval.
   `RefusedOnlyIfPoor` is inductive with it.
2. `HeldOnce` (`HeldInvariant`): the eleven places an order can be in, from the channel to the
   results (`Where`), are disjoint, hold an order once each, and only orders announced so far.  Each step is shown
   to move some orders from some places to one other (`Moved`), along the pipeline only (`Lawful`);
   the invariants that follow mostly use this description of a step and not the action itself.
3. `Once`: an order that went to the wallet is in none of the places before it.
4. `CapacityKept` is stronger than `CapacityRespected`: it counts every order from the retries of
   the discover queue to the results.  The capacity counts the same, in lengths of sequences; `HeldOnce`
   makes the two equal.
5. `Registered`: once the last announcement of a swap is discovered, its data are in the entry or being
   written.  A later write of the listener that drops them comes with an announcement, which is
   then the last.
6. `Behind`: what is behind the discover queue was discovered.  With 2 and 5 this gives `TypeOK`.
7. `RequiredMatchesOrders` is inductive given `HeldOnce`: a sum over disjoint sets is the sum of the sums
   (`TotalOfUnion`), so that an order which moves within the underwrite queue changes nothing, and one
   that enters or leaves it changes both sides by its amount.  The `NotNegative` of a decrease is
   therefore never needed.
8. `ApprovedFits` and `AllowanceKnown`: what the handler takes the allowance to be covers what is required when orders are
   underwritten, and the chain's allowance is at least that, less what was executed and not yet
   reported; while an approval is sent and not executed, the same holds of the allowance before it.

### What is only model-checked

All liveness properties (`EveryOrderHandedBack`, `EveryRequestAnswered`, `EveryPromiseResolves`,
`EveryBlockScanned`, `EveryMessageHandled`, `EveryUnderwriteExpired`): fairness and `ENABLED` are out
of the prover's reach.  So are the three violations of section 6, which are counterexamples.  The proofs use
no induction over data: where one is needed (sums, requeueing, blocks and their observed numbers),
they take the least number for which the claim fails (`LeastNatural`).

## 5. Not modelled

* `initialize...` methods and start-up, where nothing else runs yet; spawning of workers but for the
  wallet's; the REST endpoint of the controller.
* Decoding, configuration, logging: stateless.
* `registerBalanceRefund` of the transaction helper, which nobody calls.  Costs are a constant
  (`GasCost`); the rounding of the floating-point numbers in which the evaluation computes.
* The listener's payload decoding and filters (a message for another chain, or that is no swap,
  has no effect), and the connections of the monitor and of the listener, whose only effect is
  that block numbers and messages are missed.
* In the store, key formats, the scans by pattern and the maps nobody reads.  A failing redis command
  is modelled in `Listener` only, and a stop between commands in `Store` only.
* In the expirer, more than one interface.  Orders of several ids are independent but for the
  capacity and the order of the queue.
* In the underwriter, several vaults, tokens and interfaces (each has its own handlers, caches and counters), relay
  prioritisation (a request nobody waits for), a restart, and deadlines of submissions, which
  are among the reasons for which the wallet reports a failure.

Limits of what the properties of `Evaluation` and `TransactionHelper` say:

* `CapsHold` allows the priority factor on top of a cap, since the code applies it last, and
  excepts transactions that were sent before any fee data was there.
* `FirstBidAccepted` speaks of fees that can be raised by `Bump`: rounding eats the increase of a very small tip.
* `LimitIsExact` and `ProfitableAtEstimate` speak of a gas price above 0 that the relayer has a price for,
  and of a profitability factor above 0, which is how profit evaluation is switched on.  They are about the gas price
  of the evaluation; the transaction is sent at that of its own moment.
* `LowBalanceNoticed` allows for costs the worker was never told of since it last read the balance.

Limits of what the properties of `Underwriter`, `Store` and `Expirer` say:

* `StoreFollowsChain` excepts a listener that was ever started behind events it had not dealt with
  (`skipped`): nothing makes up for those.
* `ActiveStaysScheduled` and `EveryUnderwriteExpired` speak of underwrites the worker was told of since
  the process started.
* `NotBeforeDue` compares an order with its own expiry.  The order of an earlier underwrite may be sent
  when its id is in use again, and expire the later one early (section 6).
* `AllowanceSuffices` holds after approvals that did not fail, and as long as the wallet has not reported a
  transaction as failed that went through (`misreported`).  The run `wallet_cancelled` shows that it
  may; the counters are then off for good, and the underwrites that follow fail at their estimate
  until another approval is due.
* `SubmittedOnce` speaks of an order.  A swap that is announced twice is two orders, and both may be
  sent; the contract takes one.
* `RegisteredAtRest` speaks of a swap whose last order was discovered.  A query of the vault that
  fails drops the order for good (`discover-queue.ts:165-171`), and if its announcement wrote over
  the entry, the expirer's data are gone.

## 6. Findings

* `wallet_cancelled`: without any fault, a transaction that is mined after its confirmation
  timed out is answered with `Transaction cancelled.`  From the second try on, the confirm
  queue sends the replacement before it waits; once the nonce is used, every try fails at
  sending, so that the original, which succeeded, is never looked at, and cancellation
  takes the used nonce for a successful cancellation.
* `listener_announced`: `processCatalystSwapMessagesQueue` returns when it meets a message of a block
  that is not reached yet (`listener.worker.ts:594-598`), and then skips the `splice(0, i)` of line
  608.  The messages before it, which were just stored and published, stay in the queue, and are
  stored and published again on each round until that block is reached.
* `expirer_discarded`: `README.md:101` of the repository says that the order of a fulfilled underwrite is
  discarded.  `removeExpireOrder` only looks into `newOrdersQueue`; when the completion arrives
  between the evaluation's reads and the end of the round, the transaction is sent all the same,
  and reverts, or expires a later underwrite with the same id if that is the underwriter's own.

Observations from the modelling that have no run:

* The balance handler forgets reservations when it reads the balance again
  (`balance-handler.ts:74`): orders that are evaluated and not sent have their tokens promised again.
  The estimate of gas then refuses the second order.
* `queryCurrentAllowance` returns the promise without `await` inside its `try`
  (`approval-handler.ts:45-49`): its `catch` never runs, and a failed query rejects
  `setRequiredAllowances`, which `Promise.allSettled` swallows.  The allowances of that
  round are not set.

* `toBlock = fromBlock + maxBlocks` (line 267) asks for `maxBlocks + 1` blocks, where
  `config.example.yaml:22` gives `maxBlocks` as the number of blocks of one query.
* The check that a block "did not reorg" (lines 617 and 741) compares with a cached block.  It is sound
  as long as `blockDelay` covers reorganisations, as the run `listener` shows; it cannot notice one
  that goes deeper.
* A rejected `processAMBMessage` (lines 229-233) and a failure of the store while a swap is saved
  end the listener of a chain for good (`listener.service.ts:82`).

Of fees and balance (`transaction-helper.ts`, `config.example.yaml`):

* A cancellation raises the fees of the *original*.  If a replacement was accepted before, and the market
  has not risen since, the cancellation carries the same fees as the replacement, and nodes refuse it
  as underpriced on each try; the wallet then stalls until the replacement is mined.
* `maxAllowedGasPrice` and `maxAllowedPriorityFeePerGas` are given as upper bounds
  (`config.example.yaml:92,99`, `README.md:110,114`).  The priority factor is applied behind them, and a
  transaction sent before any fee data was read is priced by ethers without them.
* `README.md:109,113`: without an adjustment factor "no `maxPriorityFee`" or "no `gasPrice`" "is set".
  The code then sets what the node recommends.
* `config.example.yaml:107` raises fees by 5%.  Nodes commonly ask for 10%, and refuse such a replacement.
  A tip of a few wei cannot be raised at all, as the division truncates.
* `maxFeePerGas` is configured, the tip comes from the node: if it is higher, ethers refuses the
  transaction on each try.
* `BigInt(factor * DECIMAL_BASE)` throws a `RangeError` for factors whose product is not a whole number
  in floating point: 1.11, 1.13 and 1.14 are such factors.
* The balance is read again when *more* than `gasBalanceUpdateInterval` transactions were confirmed.
  Transactions that revert are not counted and their cost is not registered; a balance read as `pending` may
  contain the cost of transactions that is registered once more when they are confirmed.

Of the evaluation (`eval-queue.ts`, `underwrite-queue.ts`):

* If the relayer does not know the price of gas, its value is 0 and the limit unlimited, the
  opposite of what missing fee data lead to (the comment at `eval-queue.ts:445`).  Where the reward is too
  low for any cost the limit is then `-Infinity` or no number, whose conversion to `BigInt` throws, and
  the order is tried again until it is dropped.
* A token whose price is not known has the value 0, so that `maxUnderwriteAllowed` does not hold it
  back when the profitability factor is 0.
* A gas price of 0 is divided by in the underwrite queue.
* `underwrite-queue.ts:51-56` builds the request before the gas limit is known: the first
  submission carries none, though `resolver.ts:66` says the estimate is used to set it.
* Disabling underwriting does not stop orders that are already evaluated (`TODO` at `eval-queue.ts:50`).

Of a restart:

* Expire orders live in memory.  The expirer subscribes only when it has the monitor's first block number,
  while the listener publishes what it scans at once: underwrites made before the restart, and
  those it scans again first, get no expire order, where `README.md:101` has one scheduled for every underwrite.
* Events that are seen again act on entries of later underwrites with the same id: a completion deletes
  their description, a `SwapUnderwritten` gives them an order with the earlier expiry, and the
  underwriter's own is then expired early.
* A completion the listener starts behind leaves an active entry for ever.

## 7. Plan

| Order | Module | Content | Abstract specification | Runs and theorems |
|---|---|---|---|---|
| done | `ProcessingQueue`, `WalletWorker`, `WalletService`, `Listener` | above | `OrderLedger`, `WalletPromise` | above |
| done | `Store`, `Expirer`, `Underwriter` | above, with restarts | - | above |
| done | `Fees`, `TransactionHelper`, `Evaluation` | above | - | `evaluation`, and a theorem for each of its properties |
| done | proofs | every invariant, action property and refinement of the passing runs | | a theorem for each, section 4 |
| 1 | proofs | relations between modules: the queues of `WalletWorker` and `Underwriter` as instances of `ProcessingQueue`, and what `WalletService` delivers as an instance of `WalletPromise`, are argued in section 2 and not proved | | theorems |
