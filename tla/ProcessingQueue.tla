--------------------------- MODULE ProcessingQueue ---------------------------
(***************************************************************************)
(* The generic order queue of src/processing-queue/processing-queue.ts     *)
(* with the worker loop that drives it (addOrders, processOrders,          *)
(* getFinishedOrders, wait, and again).  handleOrder and handleFailedOrder *)
(* are abstract in the code: here they may do whatever their types allow.  *)
(* One action is one stretch of code between two awaits; the promises that *)
(* handleOrder returns settle at any point in between.                     *)
(***************************************************************************)
EXTENDS Integers, Sequences, FiniteSets, Functions

CONSTANTS Orders,         \* identities of order objects; one is reused once handed back
          MaxTries,       \* maxTries
          MaxConcurrent,  \* maxConcurrentOrders
          RetryInterval   \* retryInterval, in ticks of CountDown

ASSUME QueueAssumption ==
    /\ MaxTries \in Nat \ {0}
    /\ MaxConcurrent \in Nat \ {0}
    /\ RetryInterval \in Nat

VARIABLES
    \* the fields of the queue
    size,          \* _size
    newQueue,      \* orders added and not yet spliced away
    retryQueue,    \* ProcessOrders waiting for their retry time
    pendingCount,  \* _pendingCount
    completed, skipped, rejected,
    \* the locals of processOrders
    retryOrders,   \* the due retries still to be processed by this call
    cursor,        \* i: how many orders of newQueue this call has processed
    pc,            \* where the worker loop is
    \* the promises under way
    pending,       \* ProcessOrders whose result is awaited
    settling       \* promises settled whose `_pendingCount--` has not run

callVars == <<retryOrders, cursor, pc>>
promiseVars == <<pending, settling>>
finishedVars == <<completed, skipped, rejected>>
vars == <<size, newQueue, retryQueue, pendingCount, finishedVars, callVars, promiseVars>>

\* retryIn is what is left of retryAtTimestamp - Date.now(), and 0 once it is past.
ProcessOrder == [order : Orders, retryCount : Nat, retryIn : 0..RetryInterval]

Retried(r) == [r EXCEPT !.retryCount = @ + 1]
Postponed(r) == [r EXCEPT !.retryIn = RetryInterval]
Aged(r) == [r EXCEPT !.retryIn = IF @ > 0 THEN @ - 1 ELSE 0]

NewOrder(o) == [order |-> o, retryCount |-> 0, retryIn |-> 0]

concurrentOrders == pendingCount + Len(retryQueue)

\* newQueue without what the running call of processOrders has dealt with.
Unprocessed == SubSeq(newQueue, cursor + 1, Len(newQueue))

OrdersIn(records) == {r.order : r \in records}

Finished == Range(completed) \cup Range(skipped) \cup Range(rejected)

InQueue == Range(newQueue) \cup Finished
             \cup OrdersIn(Range(retryQueue) \cup Range(retryOrders) \cup pending)

Init ==
    /\ size = 0 /\ newQueue = <<>> /\ retryQueue = <<>> /\ pendingCount = 0
    /\ completed = <<>> /\ skipped = <<>> /\ rejected = <<>>
    /\ retryOrders = <<>> /\ cursor = 0 /\ pc = "add"
    /\ pending = {} /\ settling = 0

-----------------------------------------------------------------------------
(* Outcomes of one attempt.                                                *)

PushCompleted(r) ==
    completed' = Append(completed, r.order) /\ UNCHANGED <<retryQueue, skipped, rejected>>
PushSkipped(r) ==
    skipped' = Append(skipped, r.order) /\ UNCHANGED <<retryQueue, completed, rejected>>
PushRejected(r) ==
    rejected' = Append(rejected, r.order) /\ UNCHANGED <<retryQueue, completed, skipped>>

\* Mutant: the order goes to the front of the queue.
RetryFirst(r) ==
    /\ retryQueue' = <<Postponed(r)>> \o retryQueue
    /\ UNCHANGED finishedVars

AddOrderToRetryQueue(r) ==
    /\ retryQueue' = Append(retryQueue, Postponed(r))
    /\ UNCHANGED finishedVars

\* Mutant: a failed order is rejected, and not skipped, when it is not to be retried.
RejectUnlessRetried(r) ==
    \/ PushRejected(r)
    \/ r.retryCount < MaxTries - 1 /\ AddOrderToRetryQueue(r)

\* handleFailedOrder decides whether to retry, but not after the last try.
HandleOrderError(r) ==
    \/ r.retryCount >= MaxTries - 1 /\ PushRejected(r)
    \/ r.retryCount < MaxTries - 1 /\ (AddOrderToRetryQueue(r) \/ PushSkipped(r))

HandleOrderSuccess(r) == PushCompleted(r) \/ PushSkipped(r)

AwaitResult(r) ==
    /\ pending' = pending \cup {r}
    /\ pendingCount' = pendingCount + 1
    /\ UNCHANGED <<retryQueue, finishedVars>>

\* handleOrder resolves to null, throws, or resolves to a result (a promise or not).
Attempt(r) ==
    \/ PushSkipped(r) /\ UNCHANGED <<pending, pendingCount>>
    \/ HandleOrderError(r) /\ UNCHANGED <<pending, pendingCount>>
    \/ AwaitResult(r)

-----------------------------------------------------------------------------
(* The worker loop.                                                        *)

\* _size and newQueue change in one step: the loop waits for addOrders before it goes on, and
\* only the status log reads either of them while onOrderInit is awaited.
AddOrder(o) ==
    /\ pc = "add"
    /\ o \notin InQueue
    /\ size' = size + 1
    /\ newQueue' = Append(newQueue, o)
    /\ UNCHANGED <<retryQueue, pendingCount, finishedVars, callVars, promiseVars>>

\* The first k entries of retryQueue are due and the next one is not.
IsDuePrefix(k) ==
    /\ \A j \in 1..k : retryQueue[j].retryIn = 0
    /\ k < Len(retryQueue) => retryQueue[k + 1].retryIn > 0

\* Mutant: only new orders make a call of processOrders do anything.
OnlyNewOrders(k) == newQueue # <<>> /\ pendingCount + (Len(retryQueue) - k) < MaxConcurrent

\* What is left of retryQueue once its k due entries are taken still counts.
ProcessingRequired(k) ==
    k > 0 \/ (newQueue # <<>> /\ pendingCount + (Len(retryQueue) - k) < MaxConcurrent)

ProcessOrders ==
    /\ pc = "add"
    /\ \E k \in 0..Len(retryQueue) :
          /\ IsDuePrefix(k)
          /\ ProcessingRequired(k)
          /\ retryOrders' = [j \in 1..k |-> Retried(retryQueue[j])]
          /\ retryQueue' = SubSeq(retryQueue, k + 1, Len(retryQueue))
    /\ pc' = "retries"
    /\ UNCHANGED <<size, newQueue, pendingCount, finishedVars, cursor, promiseVars>>

NothingToProcess ==
    /\ pc = "add"
    /\ \E k \in 0..Len(retryQueue) : IsDuePrefix(k) /\ ~ProcessingRequired(k)
    /\ pc' = "drain"
    /\ UNCHANGED <<size, newQueue, retryQueue, pendingCount, finishedVars,
                   retryOrders, cursor, promiseVars>>

ProcessRetry ==
    /\ pc = "retries"
    /\ retryOrders # <<>>
    /\ Attempt(Head(retryOrders))
    /\ retryOrders' = Tail(retryOrders)
    /\ UNCHANGED <<size, newQueue, cursor, pc, settling>>

RetriesProcessed ==
    /\ pc = "retries"
    /\ retryOrders = <<>>
    /\ pc' = "new"
    /\ UNCHANGED <<size, newQueue, retryQueue, pendingCount, finishedVars,
                   retryOrders, cursor, promiseVars>>

\* Mutant: `<=` for `<` in the capacity check.
BeginOneTooMany ==
    /\ pc = "new"
    /\ cursor < Len(newQueue)
    /\ concurrentOrders <= MaxConcurrent
    /\ pc' = "handle"
    /\ UNCHANGED <<size, newQueue, retryQueue, pendingCount, finishedVars,
                   retryOrders, cursor, promiseVars>>

\* The capacity is read here, before the await of handleOrder ...
BeginNew ==
    /\ pc = "new"
    /\ cursor < Len(newQueue)
    /\ concurrentOrders < MaxConcurrent
    /\ pc' = "handle"
    /\ UNCHANGED <<size, newQueue, retryQueue, pendingCount, finishedVars,
                   retryOrders, cursor, promiseVars>>

\* ... and the order is counted here, after it.
ProcessNew ==
    /\ pc = "handle"
    /\ Attempt(NewOrder(newQueue[cursor + 1]))
    /\ cursor' = cursor + 1
    /\ pc' = "new"
    /\ UNCHANGED <<size, newQueue, retryOrders, settling>>

NewProcessed ==
    /\ pc = "new"
    /\ cursor >= Len(newQueue) \/ concurrentOrders >= MaxConcurrent
    /\ newQueue' = Unprocessed
    /\ cursor' = 0
    /\ pc' = "drain"
    /\ UNCHANGED <<size, retryQueue, pendingCount, finishedVars, retryOrders, promiseVars>>

\* Mutant: rejected orders are handed back without being subtracted.
ForgetRejected ==
    /\ pc = "drain"
    /\ size' = size - (Len(completed) + Len(skipped))
    /\ completed' = <<>> /\ skipped' = <<>> /\ rejected' = <<>>
    /\ pc' = "add"
    /\ UNCHANGED <<newQueue, retryQueue, pendingCount, retryOrders, cursor, promiseVars>>

GetFinishedOrders ==
    /\ pc = "drain"
    /\ size' = size - (Len(completed) + Len(skipped) + Len(rejected))
    /\ completed' = <<>> /\ skipped' = <<>> /\ rejected' = <<>>
    /\ pc' = "add"
    /\ UNCHANGED <<newQueue, retryQueue, pendingCount, retryOrders, cursor, promiseVars>>

-----------------------------------------------------------------------------
(* What happens while the loop awaits.                                     *)

\* The promise of an order settles, and its completion (or failure) is handled.
Settle(o) ==
    /\ \E r \in pending :
          /\ r.order = o
          /\ pending' = pending \ {r}
          /\ HandleOrderSuccess(r) \/ HandleOrderError(r)
    /\ settling' = settling + 1
    /\ UNCHANGED <<size, newQueue, pendingCount, callVars>>

\* The `_pendingCount--` chained to that completion runs in a later microtask.
ReleasePending ==
    /\ settling > 0
    /\ settling' = settling - 1
    /\ pendingCount' = pendingCount - 1
    /\ UNCHANGED <<size, newQueue, retryQueue, finishedVars, callVars, pending>>

\* Date.now() advances.
CountDown ==
    /\ \E r \in Range(retryQueue) : r.retryIn > 0
    /\ retryQueue' = [j \in DOMAIN retryQueue |-> Aged(retryQueue[j])]
    /\ UNCHANGED <<size, newQueue, pendingCount, finishedVars, callVars, promiseVars>>

Loop ==
    \/ ProcessOrders \/ NothingToProcess \/ ProcessRetry \/ RetriesProcessed
    \/ BeginNew \/ ProcessNew \/ NewProcessed \/ GetFinishedOrders

Next ==
    \/ \E o \in Orders : AddOrder(o) \/ Settle(o)
    \/ Loop
    \/ ReleasePending
    \/ CountDown

Spec == Init /\ [][Next]_vars

\* The worker's while(true) goes on, every promise settles (handlers await with
\* timeouts), microtasks run and time passes.  Nobody has to add an order.
Fairness ==
    /\ WF_vars(Loop)
    /\ \A o \in Orders : WF_vars(Settle(o))
    /\ WF_vars(ReleasePending)
    /\ WF_vars(CountDown)

FairSpec == Spec /\ Fairness

-----------------------------------------------------------------------------
(* Properties.                                                             *)

TypeOK ==
    /\ size \in Nat
    /\ newQueue \in Seq(Orders)
    /\ retryQueue \in Seq(ProcessOrder)
    /\ pendingCount \in Nat
    /\ completed \in Seq(Orders) /\ skipped \in Seq(Orders) /\ rejected \in Seq(Orders)
    /\ retryOrders \in Seq(ProcessOrder)
    /\ cursor \in Nat
    /\ pc \in {"add", "retries", "new", "handle", "drain"}
    /\ pending \in SUBSET ProcessOrder /\ IsFiniteSet(pending)
    /\ settling \in Nat

\* Orders past their first capacity check and not finished.
UnderWay == Len(retryQueue) + Len(retryOrders) + Cardinality(pending)
              + (IF pc = "handle" THEN 1 ELSE 0)

\* `size`, from which the workers compute how many orders they may still take, counts
\* every order from addOrders until getFinishedOrders hands it back, whatever mixture
\* of retries, pending promises and finished orders they are in.
SizeAccountsForOrders ==
    size = (Len(newQueue) - cursor) + Len(retryQueue) + Len(retryOrders)
             + Cardinality(pending) + Len(completed) + Len(skipped) + Len(rejected)

\* No more than maxConcurrentOrders orders are under way, although the capacity is read
\* before an await and a retry leaves retryQueue before it is attempted.
ConcurrencyRespected == UnderWay <= MaxConcurrent

\* An order is handed to handleOrder at most maxTries times.
TriesRespected ==
    /\ \A r \in Range(retryOrders) \cup pending : r.retryCount < MaxTries
    /\ \A r \in Range(retryQueue) : r.retryCount < MaxTries - 1

\* The comment of getOrdersToRetry: retryQueue is in chronological order, so that taking
\* the due prefix leaves no due order behind one that is not.
RetriesChronological ==
    \A j, k \in DOMAIN retryQueue : j < k => retryQueue[j].retryIn <= retryQueue[k].retryIn

DistinctOrders(s) == \A j, k \in DOMAIN s : s[j].order = s[k].order => j = k

\* An order is in one place of the queue at a time, and there once.
EachOrderInOnePlace ==
    LET W == Range(Unprocessed)
        R == OrdersIn(Range(retryQueue))
        B == OrdersIn(Range(retryOrders))
        P == OrdersIn(pending)
    IN  /\ IsInjective(Unprocessed)
        /\ DistinctOrders(retryQueue) /\ DistinctOrders(retryOrders)
        /\ \A r, q \in pending : r.order = q.order => r = q
        /\ IsInjective(completed) /\ IsInjective(skipped) /\ IsInjective(rejected)
        /\ W \cap (R \cup B \cup P \cup Finished) = {}
        /\ R \cap (B \cup P \cup Finished) = {}
        /\ B \cap (P \cup Finished) = {}
        /\ P \cap Finished = {}
        /\ Range(completed) \cap Range(skipped) = {}
        /\ (Range(completed) \cup Range(skipped)) \cap Range(rejected) = {}

\* An order under way as the ledger sees it: the record that carries its retryCount.
UnderWayRecords ==
    Range(retryQueue) \cup Range(retryOrders) \cup pending
      \cup (IF pc = "handle" THEN {NewOrder(newQueue[cursor + 1])} ELSE {})

\* What the queue promises: first attempts in the order of arrival, bounded attempts and
\* concurrency, one outcome per order, rejection only after the last try, and no order
\* lost or handed back twice.
Ledger == INSTANCE OrderLedger WITH
    waiting  <- IF pc = "handle" THEN Tail(Unprocessed) ELSE Unprocessed,
    attempts <- [o \in OrdersIn(UnderWayRecords) |->
                    (CHOOSE r \in UnderWayRecords : r.order = o).retryCount + 1],
    outcome  <- [o \in Finished |->
                    IF o \in Range(completed) THEN "completed"
                    ELSE IF o \in Range(skipped) THEN "skipped" ELSE "rejected"]
LedgerSpec == Ledger!Spec

\* Every order that is added is handed back, however its attempts fail.
EveryOrderHandedBack == \A o \in Orders : o \in InQueue ~> o \notin InQueue
=============================================================================
