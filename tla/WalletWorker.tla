---------------------------- MODULE WalletWorker -----------------------------
(***************************************************************************)
(* The wallet worker of one chain (src/wallet/wallet.worker.ts) with its   *)
(* submit and confirm queues, the nonce it keeps, and the node and chain   *)
(* it talks to.  Both queues are ProcessingQueues with room for one order  *)
(* under way (maxConcurrentOrders = 1); their counters are left out, since *)
(* ProcessingQueue shows them equal to the orders held.  A step is a       *)
(* stretch of the worker's loop up to the next call to the node, whose     *)
(* answer is chosen with the chain as it is then.                          *)
(***************************************************************************)
EXTENDS Integers, Sequences, FiniteSets

CONSTANTS
    NumRequests,     \* how many requests the services make, numbered in order of arrival
    MaxPending,      \* maxPendingTransactions
    MaxTries,        \* maxTries
    WithDeadline,    \* the requests whose options carry a deadline
    NeverRequeued,   \* those with retryOnNonceConfirmationError = false
    FaultKinds,      \* which faults of the surroundings may happen ...
    MaxFaults        \* ... and how many in all (a bound of the model)

Requests == 1..NumRequests

ASSUME WalletAssumption ==
    /\ NumRequests \in Nat /\ MaxFaults \in Nat
    /\ MaxPending \in Nat \ {0} /\ MaxTries \in Nat \ {0}
    /\ WithDeadline \subseteq Requests /\ NeverRequeued \subseteq Requests
    /\ FaultKinds \subseteq {"rpc", "lost", "revert", "drop", "foreign", "crash"}

VARIABLES
    \* the services
    requested,      \* how many requests have been made
    replies,        \* [Requests -> Seq of the results sent for it]
    \* the worker
    pc,
    newRequests,    \* newRequestsQueue
    submitNew, submitRetry, submitted, invalid,      \* submitQueue
    confirmNew, confirmRetry, awaited,               \* confirmQueue
    confirmed, rejected, unconfirmed,
    nonce,          \* transactionNonce
    cancelling,     \* what handleUnconfirmedTransactions has left to cancel
    cancelTries,    \* i in cancelTransaction
    \* the node and the chain
    pool,           \* the wallet's transactions the network holds
    mined,          \* mined[n + 1] is the transaction with nonce n
    faults,         \* faults so far
    forgotten       \* history: whether the network has ever forgotten a transaction

serviceVars == <<requested, replies>>
submitVars  == <<submitNew, submitRetry, submitted, invalid>>
confirmVars == <<confirmNew, confirmRetry, awaited, confirmed, rejected, unconfirmed>>
cancelVars  == <<cancelling, cancelTries>>
chainVars   == <<pool, mined, forgotten>>
vars == <<serviceVars, pc, newRequests, submitVars, confirmVars, nonce, cancelVars,
          chainVars, faults>>

\* A transaction of an order, and one of somebody else who uses the wallet's key.
Tx(o, kind) == [nonce |-> o.nonce, req |-> o.req, requeue |-> o.requeue, kind |-> kind]
ForeignTx(n) == [nonce |-> n, req |-> 0, requeue |-> 0, kind |-> "foreign"]

\* An order carries the nonce of `tx`, whether it has a `txReplacement`, and the error
\* it was rejected for.
NewOrder(r, c) == [req |-> r, requeue |-> c, tries |-> 0, nonce |-> 0,
                   replaced |-> FALSE, error |-> "none"]

Fault(kind) == kind \in FaultKinds /\ faults < MaxFaults /\ faults' = faults + 1

ReqsOf(s) == {s[i].req : i \in DOMAIN s}

Init ==
    /\ requested = 0 /\ replies = [r \in Requests |-> <<>>]
    /\ pc = "requests" /\ newRequests = <<>>
    /\ submitNew = <<>> /\ submitRetry = <<>> /\ submitted = <<>> /\ invalid = <<>>
    /\ confirmNew = <<>> /\ confirmRetry = <<>> /\ awaited = <<>>
    /\ confirmed = <<>> /\ rejected = <<>> /\ unconfirmed = <<>>
    /\ nonce = 0 /\ cancelling = <<>> /\ cancelTries = 0
    /\ pool = {} /\ mined = <<>> /\ faults = 0 /\ forgotten = FALSE

-----------------------------------------------------------------------------
(* The node.                                                               *)

latestNonce == Len(mined)                      \* getNonce('latest')

\* getNonce('pending'): the first nonce no transaction is known for.
Pooled(n) == {tx \in pool : tx.nonce = n}
pendingNonce == CHOOSE n \in latestNonce..(latestNonce + Cardinality(pool)) :
                    Pooled(n) = {} /\ \A m \in latestNonce..(n - 1) : Pooled(m) # {}

\* The network may hold several transactions with one nonce: the first mined uses it.
Accepts(tx) ==
    /\ tx.nonce >= latestNonce
    /\ pool' = pool \cup {tx}

\* NONCE_EXPIRED, or REPLACEMENT_UNDERPRICED when the fee bump is not enough.
NonceError(n) == n < latestNonce \/ Pooled(n) # {}

\* The node fails to answer; a lost answer leaves the transaction in its pool.
SendFails(tx) ==
    \/ Fault("rpc") /\ UNCHANGED pool
    \/ Fault("lost") /\ Accepts(tx)

Mine ==
    /\ \E tx \in Pooled(latestNonce), ok \in BOOLEAN :
          /\ \/ ok /\ UNCHANGED faults
             \/ ~ok /\ tx.kind \in {"original", "replacement"} /\ Fault("revert")
          /\ mined' = Append(mined, [tx |-> tx, ok |-> ok])
    /\ pool' = pool \ Pooled(latestNonce)
    /\ UNCHANGED <<serviceVars, pc, newRequests, submitVars, confirmVars, nonce, cancelVars,
                   forgotten>>

\* The network forgets a transaction.
Drop ==
    /\ Fault("drop")
    /\ \E tx \in pool : pool' = pool \ {tx}
    /\ forgotten' = TRUE
    /\ UNCHANGED <<serviceVars, pc, newRequests, submitVars, confirmVars, nonce, cancelVars, mined>>

\* Somebody else uses the wallet's key.
ForeignTransaction ==
    /\ Fault("foreign")
    /\ \E n \in latestNonce..pendingNonce : pool' = pool \cup {ForeignTx(n)}
    /\ UNCHANGED <<serviceVars, pc, newRequests, submitVars, confirmVars, nonce, cancelVars, mined,
                   forgotten>>

-----------------------------------------------------------------------------
(* Requests in, results out.                                               *)

AddTransaction ==
    /\ requested < NumRequests
    /\ requested' = requested + 1
    /\ newRequests' = Append(newRequests, NewOrder(requested + 1, 0))
    /\ UNCHANGED <<replies, pc, submitVars, confirmVars, nonce, cancelVars, chainVars, faults>>

SendResults(orders, how) ==
    replies' = [r \in Requests |-> IF r \in ReqsOf(orders) THEN Append(replies[r], how)
                                   ELSE replies[r]]

submitSize == Len(submitNew) + Len(submitRetry) + Len(submitted) + Len(invalid)
confirmSize == Len(confirmNew) + Len(confirmRetry) + Len(awaited)
                 + Len(confirmed) + Len(rejected) + Len(unconfirmed)

\* Mutant: the orders in the confirm queue do not count.
CapacityOfSubmitQueue ==
    LET room == MaxPending - submitSize IN IF room > 0 THEN room ELSE 0

getWalletCapacity ==
    LET room == MaxPending - submitSize - confirmSize IN IF room > 0 THEN room ELSE 0

ProcessNewRequestsQueue ==
    /\ pc = "requests"
    /\ LET len == Len(newRequests)
           i == IF len < getWalletCapacity THEN len ELSE getWalletCapacity
       IN  /\ submitNew' = submitNew \o SubSeq(newRequests, 1, i)
           /\ newRequests' = SubSeq(newRequests, i + 1, len)
    /\ pc' = "submitRetry"
    /\ UNCHANGED <<serviceVars, submitRetry, submitted, invalid, confirmVars, nonce,
                   cancelVars, chainVars, faults>>

-----------------------------------------------------------------------------
(* The submit queue.                                                       *)

\* Mutant: the nonce is increased before the transaction is sent, whether or not it is.
IncreaseNonceFirst(o) ==
    \/ /\ Accepts(Tx([o EXCEPT !.nonce = nonce], "original"))
       /\ nonce' = nonce + 1
       /\ submitted' = Append(submitted, [o EXCEPT !.nonce = nonce, !.tries = 0])
       /\ submitRetry' = <<>>
       /\ UNCHANGED <<invalid, faults>>
    \/ /\ SendFails(Tx([o EXCEPT !.nonce = nonce], "original"))
       /\ nonce' = nonce + 1
       /\ invalid' = Append(invalid, o)
       /\ submitRetry' = <<>>
       /\ UNCHANGED submitted

\* handleOrder and, when it throws, handleFailedOrder.  At most one order is under way,
\* so that submitRetry is empty once this one has left it.
Submit(o) ==
    LET sent == [o EXCEPT !.nonce = nonce, !.tries = 0] IN
    \/ \* 'Transaction submission deadline exceeded.'
       /\ o.req \in WithDeadline
       /\ invalid' = Append(invalid, o)
       /\ submitRetry' = <<>>
       /\ UNCHANGED <<submitted, nonce, pool, faults>>
    \/ /\ Accepts(Tx(sent, "original"))
       /\ nonce' = nonce + 1
       /\ submitted' = Append(submitted, sent)
       /\ submitRetry' = <<>>
       /\ UNCHANGED <<invalid, faults>>
    \/ \* Resynchronise the nonce and retry.
       /\ NonceError(nonce)
       /\ nonce' = pendingNonce
       /\ IF o.tries >= MaxTries - 1
          THEN invalid' = Append(invalid, o) /\ submitRetry' = <<>>
          ELSE submitRetry' = <<o>> /\ UNCHANGED invalid
       /\ UNCHANGED <<submitted, pool, faults>>
    \/ /\ SendFails(Tx(sent, "original"))
       /\ invalid' = Append(invalid, o)
       /\ submitRetry' = <<>>
       /\ UNCHANGED <<submitted, nonce>>

\* The order in retryQueue is due ...
SubmitRetry ==
    /\ pc = "submitRetry"
    /\ submitRetry # <<>>
    /\ Submit([submitRetry[1] EXCEPT !.tries = @ + 1])
    /\ pc' = "submitNew"
    /\ UNCHANGED <<serviceVars, newRequests, submitNew, confirmVars, cancelVars, mined, forgotten>>

\* ... or it is not, or there is none.
SkipSubmitRetry ==
    /\ pc = "submitRetry"
    /\ pc' = "submitNew"
    /\ UNCHANGED <<serviceVars, newRequests, submitVars, confirmVars, nonce, cancelVars,
                   chainVars, faults>>

\* Mutant: the next order is submitted while another waits for its retry.
SubmitPastRetry ==
    /\ pc = "submitNew"
    /\ submitNew # <<>> /\ submitted = <<>>
    /\ \/ submitRetry = <<>> /\ Submit(Head(submitNew))
       \/ /\ submitRetry # <<>>
          /\ Accepts(Tx([Head(submitNew) EXCEPT !.nonce = nonce], "original"))
          /\ nonce' = nonce + 1
          /\ submitted' = <<[Head(submitNew) EXCEPT !.nonce = nonce]>>
          /\ UNCHANGED <<submitRetry, invalid, faults>>
    /\ submitNew' = Tail(submitNew)
    /\ UNCHANGED <<serviceVars, pc, newRequests, confirmVars, cancelVars, mined, forgotten>>

SubmitNext ==
    /\ pc = "submitNew"
    /\ submitNew # <<>> /\ submitRetry = <<>>
    /\ Submit(Head(submitNew))
    /\ submitNew' = Tail(submitNew)
    /\ UNCHANGED <<serviceVars, pc, newRequests, confirmVars, cancelVars, mined, forgotten>>

\* An order just submitted may still be counted as pending and end the loop, hence the
\* last alternative.  handleInvalidTransactions answers; the others are to be confirmed.
SubmitDone ==
    /\ pc = "submitNew"
    /\ submitNew = <<>> \/ submitRetry # <<>> \/ submitted # <<>>
    /\ SendResults(invalid, "submissionFailed")
    /\ confirmNew' = confirmNew \o submitted
    /\ submitted' = <<>> /\ invalid' = <<>>
    /\ pc' = "confirmRetry"
    /\ UNCHANGED <<requested, newRequests, submitNew, submitRetry, confirmRetry, awaited,
                   confirmed, rejected, unconfirmed, nonce, cancelVars, chainVars, faults>>

-----------------------------------------------------------------------------
(* The confirm queue.                                                      *)

\* Mutant: an order that has used up its tries is not pushed to unconfirmed.
LoseUnconfirmed(o, error) ==
    /\ UNCHANGED <<confirmed, unconfirmed>>
    /\ IF o.tries >= MaxTries - 1 THEN confirmRetry' = <<>> /\ UNCHANGED rejected
       ELSE IF o.tries = 0 /\ error # "timeout"
       THEN /\ rejected' = Append(rejected, [o EXCEPT !.error = error])
            /\ confirmRetry' = <<>>
       ELSE confirmRetry' = <<o>> /\ UNCHANGED rejected

\* handleFailedOrder: before the transaction is repriced only a TIMEOUT is retried,
\* afterwards everything is, until the tries are used up.
ConfirmFails(o, error) ==
    /\ UNCHANGED confirmed
    /\ IF o.tries >= MaxTries - 1
       THEN unconfirmed' = Append(unconfirmed, o) /\ confirmRetry' = <<>> /\ UNCHANGED rejected
       ELSE IF o.tries = 0 /\ error # "timeout"
       THEN /\ rejected' = Append(rejected, [o EXCEPT !.error = error])
            /\ confirmRetry' = <<>>
            /\ UNCHANGED unconfirmed
       ELSE confirmRetry' = <<o>> /\ UNCHANGED <<rejected, unconfirmed>>

\* Mutant: the replacement is sent with the next nonce and not the transaction's own.
RepriceWithNextNonce(o) ==
    /\ o.replaced \/ Accepts(Tx([o EXCEPT !.nonce = nonce], "replacement"))
    /\ o.replaced => UNCHANGED pool
    /\ awaited' = <<[o EXCEPT !.replaced = TRUE]>>
    /\ confirmRetry' = <<>>
    /\ UNCHANGED <<confirmed, rejected, unconfirmed, faults>>

\* handleOrder from the second try on: send the replacement unless it has been sent,
\* then wait for either transaction.
Reprice(o) ==
    LET tx == Tx(o, "replacement") IN
    \/ /\ o.replaced \/ Accepts(tx)
       /\ o.replaced => UNCHANGED pool
       /\ awaited' = <<[o EXCEPT !.replaced = TRUE]>>
       /\ confirmRetry' = <<>>
       /\ UNCHANGED <<confirmed, rejected, unconfirmed, faults>>
    \/ /\ ~o.replaced
       /\ \/ NonceError(o.nonce) /\ UNCHANGED <<pool, faults>>
          \/ SendFails(tx)
       /\ ConfirmFails(o, "other")
       /\ UNCHANGED awaited

ConfirmRetry ==
    /\ pc = "confirmRetry"
    /\ confirmRetry # <<>>
    /\ Reprice([confirmRetry[1] EXCEPT !.tries = @ + 1])
    /\ pc' = "confirmNew"
    /\ UNCHANGED <<serviceVars, newRequests, submitVars, confirmNew, nonce, cancelVars, mined, forgotten>>

SkipConfirmRetry ==
    /\ pc = "confirmRetry"
    /\ pc' = "confirmNew"
    /\ UNCHANGED <<serviceVars, newRequests, submitVars, confirmVars, nonce, cancelVars,
                   chainVars, faults>>

ConfirmRoom == awaited = <<>> /\ confirmRetry = <<>>

\* The first try only waits for the transaction.
ConfirmNext ==
    /\ pc = "confirmNew"
    /\ confirmNew # <<>> /\ ConfirmRoom
    /\ awaited' = <<Head(confirmNew)>>
    /\ confirmNew' = Tail(confirmNew)
    /\ UNCHANGED <<serviceVars, pc, newRequests, submitVars, confirmRetry, confirmed,
                   rejected, unconfirmed, nonce, cancelVars, chainVars, faults>>

\* tx.wait, at any time: the transaction with this nonce is the order's own and went
\* through, or reverted; or it is another's; or it is not there (with its confirmations)
\* within confirmationTimeout; or the node fails.  Assumed, as handleRejectedTransactions
\* does ("this should never happen"): the error is about the nonce only if a transaction of
\* another request, or of somebody else, took it, and not the order's own.
OwnTx(o) == {Tx(o, "original")} \cup (IF o.replaced THEN {Tx(o, "replacement")} ELSE {})

Settle ==
    /\ awaited # <<>>
    /\ awaited' = <<>>
    /\ LET o == awaited[1]
           isMined == o.nonce < latestNonce
           there == mined[o.nonce + 1]
       IN  \/ /\ isMined /\ there.tx \in OwnTx(o) /\ there.ok
              /\ confirmed' = Append(confirmed, o)
              /\ UNCHANGED <<confirmRetry, rejected, unconfirmed, faults>>
           \/ /\ isMined /\ (there.tx \notin OwnTx(o) \/ ~there.ok)
              /\ ConfirmFails(o, "other")
              /\ UNCHANGED faults
           \/ /\ isMined /\ there.tx.req # o.req
              /\ ConfirmFails(o, "nonce")
              /\ UNCHANGED faults
           \/ ConfirmFails(o, "timeout") /\ UNCHANGED faults
           \/ Fault("rpc") /\ ConfirmFails(o, "other")
    /\ UNCHANGED <<serviceVars, pc, newRequests, submitVars, confirmNew, nonce, cancelVars,
                   chainVars>>

ShouldRequeue(o) ==
    /\ o.error = "nonce"
    /\ o.requeue < MaxTries
    /\ o.req \notin NeverRequeued

\* The loop over the rejected orders: those it puts back into the submit queue, as new ones.
Requeued(orders) ==
    LET f[i \in 0..Len(orders)] ==
            IF i = 0 THEN <<>>
            ELSE IF ShouldRequeue(orders[i])
            THEN Append(f[i - 1], NewOrder(orders[i].req, orders[i].requeue + 1))
            ELSE f[i - 1]
    IN  f[Len(orders)]
Refused(orders) == {orders[i].req : i \in {j \in DOMAIN orders : ~ShouldRequeue(orders[j])}}

\* handleConfirmedTransactions and handleRejectedTransactions; those unconfirmed are left
\* to handleUnconfirmedTransactions.
ConfirmDone ==
    /\ pc = "confirmNew"
    /\ confirmNew = <<>> \/ ~ConfirmRoom
    /\ replies' = [r \in Requests |->
                      IF r \in ReqsOf(confirmed) THEN Append(replies[r], "confirmed")
                      ELSE IF r \in Refused(rejected) THEN Append(replies[r], "rejected")
                      ELSE replies[r]]
    /\ submitNew' = submitNew \o Requeued(rejected)
    /\ confirmed' = <<>> /\ rejected' = <<>> /\ unconfirmed' = <<>>
    /\ cancelling' = unconfirmed
    /\ pc' = "cancel"
    /\ UNCHANGED <<requested, newRequests, submitRetry, submitted, invalid, confirmNew,
                   confirmRetry, awaited, nonce, cancelTries, chainVars, faults>>

-----------------------------------------------------------------------------
(* Cancellation: blocks the loop until the nonce is used.                  *)

Cancelled ==
    /\ SendResults(<<cancelling[1]>>, "cancelled")
    /\ cancelling' = Tail(cancelling)
    /\ cancelTries' = 0
    /\ pc' = "cancel"

\* An error during a try: try again, and stall after the last one.
CancelFails ==
    /\ cancelTries' = cancelTries + 1
    /\ pc' = IF cancelTries + 1 = MaxTries THEN "stalled" ELSE "cancel"
    /\ UNCHANGED <<replies, cancelling>>

CancelCheck ==
    /\ pc = "cancel"
    /\ cancelling # <<>>
    /\ \/ /\ latestNonce > cancelling[1].nonce
          /\ Cancelled
          /\ UNCHANGED faults
       \/ /\ latestNonce <= cancelling[1].nonce
          /\ pc' = "cancelSend"
          /\ UNCHANGED <<replies, cancelVars, faults>>
       \/ Fault("rpc") /\ CancelFails
    /\ UNCHANGED <<requested, newRequests, submitVars, confirmVars, nonce, chainVars>>

CancelSend ==
    /\ pc = "cancelSend"
    /\ LET o == cancelling[1] IN
       \/ /\ Accepts(Tx(o, "cancel"))
          /\ pc' = "cancelWait"
          /\ UNCHANGED <<replies, cancelVars, faults>>
       \/ NonceError(o.nonce) /\ CancelFails /\ UNCHANGED <<pool, faults>>
       \/ SendFails(Tx(o, "cancel")) /\ CancelFails
    /\ UNCHANGED <<requested, newRequests, submitVars, confirmVars, nonce, mined, forgotten>>

CancelWait ==
    /\ pc = "cancelWait"
    /\ LET o == cancelling[1] IN
       \/ /\ latestNonce > o.nonce /\ mined[o.nonce + 1].tx = Tx(o, "cancel")
          /\ mined[o.nonce + 1].ok
          /\ Cancelled
       \/ CancelFails      \* timed out, or another transaction has the nonce
    /\ UNCHANGED <<requested, newRequests, submitVars, confirmVars, nonce, chainVars, faults>>

\* Mutant: the stall waits for the nonce after the cancelled one.
StallUntilNextNonce ==
    /\ pc = "stalled"
    /\ latestNonce > cancelling[1].nonce + 1
    /\ Cancelled
    /\ UNCHANGED <<requested, newRequests, submitVars, confirmVars, nonce, chainVars, faults>>

StallResolved ==
    /\ pc = "stalled"
    /\ latestNonce > cancelling[1].nonce
    /\ Cancelled
    /\ UNCHANGED <<requested, newRequests, submitVars, confirmVars, nonce, chainVars, faults>>

\* wait(processingInterval), and the loop starts again.
LoopAgain ==
    /\ pc = "cancel"
    /\ cancelling = <<>>
    /\ pc' = "requests"
    /\ UNCHANGED <<serviceVars, newRequests, submitVars, confirmVars, nonce, cancelVars,
                   chainVars, faults>>

-----------------------------------------------------------------------------
\* The worker thread dies (an error nobody catches, as of getNonce while stalled).  Its
\* requests are told so by the wallet service, and a new worker starts from the node's
\* pending nonce.
Crash ==
    /\ Fault("crash")
    /\ replies' = [r \in Requests |-> IF r <= requested /\ replies[r] = <<>>
                                      THEN <<"crashed">> ELSE replies[r]]
    /\ pc' = "requests" /\ newRequests' = <<>>
    /\ submitNew' = <<>> /\ submitRetry' = <<>> /\ submitted' = <<>> /\ invalid' = <<>>
    /\ confirmNew' = <<>> /\ confirmRetry' = <<>> /\ awaited' = <<>>
    /\ confirmed' = <<>> /\ rejected' = <<>> /\ unconfirmed' = <<>>
    /\ cancelling' = <<>> /\ cancelTries' = 0
    /\ nonce' = pendingNonce
    /\ UNCHANGED <<requested, chainVars>>

Loop ==
    \/ ProcessNewRequestsQueue
    \/ SubmitRetry \/ SkipSubmitRetry \/ SubmitNext \/ SubmitDone
    \/ ConfirmRetry \/ SkipConfirmRetry \/ ConfirmNext \/ ConfirmDone
    \/ CancelCheck \/ CancelSend \/ CancelWait \/ StallResolved \/ LoopAgain

Next ==
    \/ AddTransaction
    \/ Loop
    \/ Settle
    \/ Mine \/ Drop \/ ForeignTransaction
    \/ Crash

Spec == Init /\ [][Next]_vars

\* The loop goes on, waits end (they have a timeout), retries fall due, and the chain
\* mines the transaction it can mine next.
Fairness ==
    /\ WF_vars(Loop)
    /\ SF_vars(SubmitRetry) /\ SF_vars(ConfirmRetry)
    /\ WF_vars(Settle)
    /\ WF_vars(Mine)

FairSpec == Spec /\ Fairness

-----------------------------------------------------------------------------
(* Properties.                                                             *)

\* A request goes through at most once, is answered at most once, and is confirmed only
\* if it went through, whatever is repriced, cancelled, requeued or resynchronised.
Executions(r) == {i \in DOMAIN mined : /\ mined[i].ok /\ mined[i].tx.req = r
                                       /\ mined[i].tx.kind \in {"original", "replacement"}}
Promise == INSTANCE WalletPromise WITH
    requested  <- 1..requested,
    executions <- [r \in Requests |-> Cardinality(Executions(r))],
    answers    <- replies
PromiseSpec == Promise!Spec

Held == <<newRequests, submitNew, submitRetry, submitted, invalid, confirmNew,
          confirmRetry, awaited, confirmed, rejected, unconfirmed, cancelling>>

\* The pipeline never holds more than maxPendingTransactions, although requeued orders
\* enter the submit queue without a look at the capacity.
CapacityRespected == submitSize + confirmSize + Len(cancelling) <= MaxPending

\* The worker holds a request in exactly one place until it is answered, and in none
\* afterwards: nothing is lost between the queues and nothing stays behind.
HeldUntilAnswered ==
    \A r \in Requests :
        Cardinality({p \in UNION {{i} \X DOMAIN Held[i] : i \in DOMAIN Held} :
                        Held[p[1]][p[2]].req = r})
            = IF r <= requested /\ replies[r] = <<>> THEN 1 ELSE 0

\* As long as the network forgets nothing, every nonce below the one to be used next is
\* taken by a transaction the network knows: a failed submission leaves no gap, which
\* would hold up everything after it.
NoNonceGap == forgotten \/ \A n \in latestNonce..(nonce - 1) : Pooled(n) # {}

\* 'Send transactions one at a time to ensure the order is maintained' (submit-queue.ts):
\* as long as the network forgets nothing, requests that are not requeued get nonces in
\* the order in which they were made.
KnownTxs == pool \cup {mined[i].tx : i \in DOMAIN mined}
IsFirst(tx) == tx.req \in Requests /\ tx.requeue = 0 /\ tx.kind # "cancel"
OrderMaintained ==
    forgotten \/ \A t, u \in KnownTxs :
        IsFirst(t) /\ IsFirst(u) /\ t.req < u.req => t.nonce <= u.nonce

\* The comment 'Keep waiting until original tx is rejected' of handleFailedRepricedOrder,
\* and the result 'Transaction cancelled.': a request is reported as cancelled only if
\* it did not go through.
CancelledNotExecuted ==
    \A r \in Requests : replies[r] = <<"cancelled">> => Executions(r) = {}

\* Every request is answered, unless the worker is stalled on or behind a nonce for which
\* the network has forgotten every transaction: nothing sends it again.
StuckForever == /\ pc = "stalled"
                /\ latestNonce <= cancelling[1].nonce
                /\ Pooled(latestNonce) = {}
EveryRequestAnswered ==
    \A r \in Requests : requested >= r ~> (replies[r] # <<>> \/ StuckForever)
=============================================================================
