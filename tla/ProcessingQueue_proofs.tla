------------------------ MODULE ProcessingQueue_proofs ------------------------
(***************************************************************************)
(* Proofs about ProcessingQueue, for every set of orders and every value   *)
(* of its constants.                                                       *)
(***************************************************************************)
EXTENDS ProcessingQueue, SequenceTheorems, FiniteSetTheorems, TLAPS

-----------------------------------------------------------------------------
(* Sequences.                                                              *)

LEMMA AppendRange ==
    ASSUME NEW S, NEW s \in Seq(S), NEW e \in S
    PROVE  /\ Append(s, e) \in Seq(S)
           /\ Len(Append(s, e)) = Len(s) + 1
           /\ Range(Append(s, e)) = Range(s) \cup {e}
           /\ e \notin Range(s) /\ IsInjective(s) => IsInjective(Append(s, e))
<1>1. /\ Append(s, e) \in Seq(S)
      /\ Len(Append(s, e)) = Len(s) + 1
      /\ DOMAIN s = 1..Len(s) /\ Len(s) \in Nat
      /\ DOMAIN Append(s, e) = 1..(Len(s) + 1)
      /\ \A i \in 1..Len(s) : Append(s, e)[i] = s[i]
      /\ Append(s, e)[Len(s) + 1] = e
    BY AppendProperties, LenProperties
<1>2. Range(Append(s, e)) = Range(s) \cup {e}
    BY <1>1 DEF Range
<1>3. ASSUME e \notin Range(s), IsInjective(s)
      PROVE  IsInjective(Append(s, e))
    BY <1>1, <1>3 DEF Range, IsInjective
<1> QED BY <1>1, <1>2, <1>3

LEMMA TailRange ==
    ASSUME NEW S, NEW s \in Seq(S), s # <<>>
    PROVE  /\ Head(s) \in S /\ Head(s) = s[1] /\ Head(s) \in Range(s)
           /\ Tail(s) \in Seq(S) /\ Len(s) > 0 /\ Len(Tail(s)) = Len(s) - 1
           /\ \A i \in DOMAIN Tail(s) : i + 1 \in DOMAIN s /\ Tail(s)[i] = s[i + 1]
           /\ Range(s) = Range(Tail(s)) \cup {Head(s)}
           /\ IsInjective(s) => IsInjective(Tail(s)) /\ Head(s) \notin Range(Tail(s))
<1>1. /\ Head(s) \in S /\ Head(s) = s[1]
      /\ Tail(s) \in Seq(S) /\ Len(s) > 0 /\ Len(s) \in Nat /\ Len(Tail(s)) = Len(s) - 1
      /\ DOMAIN s = 1..Len(s) /\ DOMAIN Tail(s) = 1..(Len(s) - 1)
      /\ \A i \in 1..(Len(s) - 1) : Tail(s)[i] = s[i + 1]
    BY HeadTailProperties, LenProperties, EmptySeq
<1>2. Range(s) = Range(Tail(s)) \cup {Head(s)}
  <2>1. ASSUME NEW i \in 1..Len(s) PROVE s[i] \in Range(Tail(s)) \cup {Head(s)}
    <3>1. CASE i = 1 BY <3>1, <1>1
    <3>2. CASE i # 1
      <4>1. i - 1 \in 1..(Len(s) - 1) /\ (i - 1) + 1 = i BY <3>2, <1>1
      <4> QED BY <4>1, <1>1 DEF Range
    <3> QED BY <3>1, <3>2
  <2>2. Range(Tail(s)) \subseteq Range(s) BY <1>1 DEF Range
  <2> QED BY <2>1, <2>2, <1>1 DEF Range
<1>3. ASSUME IsInjective(s)
      PROVE  IsInjective(Tail(s)) /\ Head(s) \notin Range(Tail(s))
    BY <1>1, <1>3 DEF Range, IsInjective
<1> QED BY <1>1, <1>2, <1>3

-----------------------------------------------------------------------------
(* Types and the shape of the loop.                                        *)

\* Counters may be any integers here: that they are natural numbers follows from what
\* they count, in Counters below.
Shape ==
    /\ size \in Int /\ pendingCount \in Int /\ settling \in Nat
    /\ newQueue \in Seq(Orders)
    /\ retryQueue \in Seq(ProcessOrder) /\ retryOrders \in Seq(ProcessOrder)
    /\ completed \in Seq(Orders) /\ skipped \in Seq(Orders) /\ rejected \in Seq(Orders)
    /\ pending \in SUBSET ProcessOrder /\ IsFiniteSet(pending)
    /\ pc \in {"add", "retries", "new", "handle", "drain"}
    /\ cursor \in 0..Len(newQueue)
    /\ pc = "handle" => cursor < Len(newQueue)
    /\ pc \notin {"new", "handle"} => cursor = 0
    /\ pc # "retries" => retryOrders = <<>>

LEMMA RecordFacts ==
    ASSUME QueueAssumption, NEW r \in ProcessOrder
    PROVE  /\ r.order \in Orders /\ r.retryCount \in Nat /\ r.retryIn \in 0..RetryInterval
           /\ Retried(r) \in ProcessOrder /\ Retried(r).order = r.order
           /\ Retried(r).retryCount = r.retryCount + 1
           /\ Postponed(r) \in ProcessOrder /\ Postponed(r).order = r.order
           /\ Postponed(r).retryCount = r.retryCount
           /\ Postponed(r).retryIn = RetryInterval
           /\ Aged(r) \in ProcessOrder /\ Aged(r).order = r.order
           /\ Aged(r).retryCount = r.retryCount
           /\ Aged(r).retryIn = IF r.retryIn > 0 THEN r.retryIn - 1 ELSE 0
BY DEF QueueAssumption, ProcessOrder, Retried, Postponed, Aged

\* A settled order, or one whose attempt threw, goes into one of four sequences.
Moved(r) ==
    PushCompleted(r) \/ PushSkipped(r) \/ PushRejected(r) \/ AddOrderToRetryQueue(r)

LEMMA OutcomesMove ==
    ASSUME NEW r
    PROVE  HandleOrderError(r) \/ HandleOrderSuccess(r) => Moved(r)
BY DEF HandleOrderError, HandleOrderSuccess, Moved

LEMMA AttemptMovesOrAwaits ==
    ASSUME NEW r, Attempt(r)
    PROVE  \/ Moved(r) /\ UNCHANGED <<pending, pendingCount>>
           \/ AwaitResult(r)
BY OutcomesMove DEF Attempt, Moved

LEMMA MovedShape ==
    ASSUME Shape, QueueAssumption, NEW r \in ProcessOrder, Moved(r)
    PROVE  /\ retryQueue' \in Seq(ProcessOrder)
           /\ completed' \in Seq(Orders) /\ skipped' \in Seq(Orders)
           /\ rejected' \in Seq(Orders)
<1>1. r.order \in Orders /\ Postponed(r) \in ProcessOrder
    BY RecordFacts
<1>2. CASE PushCompleted(r)
    BY <1>1, <1>2, AppendProperties DEF Shape, PushCompleted
<1>3. CASE PushSkipped(r)
    BY <1>1, <1>3, AppendProperties DEF Shape, PushSkipped
<1>4. CASE PushRejected(r)
    BY <1>1, <1>4, AppendProperties DEF Shape, PushRejected
<1>5. CASE AddOrderToRetryQueue(r)
    BY <1>1, <1>5, AppendProperties DEF Shape, AddOrderToRetryQueue, finishedVars
<1> QED BY <1>2, <1>3, <1>4, <1>5 DEF Moved

LEMMA AttemptShape ==
    ASSUME Shape, QueueAssumption, NEW r \in ProcessOrder, Attempt(r)
    PROVE  /\ pendingCount' \in Int /\ retryQueue' \in Seq(ProcessOrder)
           /\ completed' \in Seq(Orders) /\ skipped' \in Seq(Orders)
           /\ rejected' \in Seq(Orders)
           /\ pending' \in SUBSET ProcessOrder /\ IsFiniteSet(pending')
<1>1. IsFiniteSet(pending \cup {r}) BY FS_AddElement DEF Shape
<1>2. CASE Moved(r) /\ UNCHANGED <<pending, pendingCount>>
    BY <1>2, MovedShape DEF Shape
<1>3. CASE AwaitResult(r)
    BY <1>1, <1>3 DEF Shape, AwaitResult, finishedVars
<1> QED BY <1>2, <1>3, AttemptMovesOrAwaits

LEMMA UnprocessedFacts ==
    ASSUME Shape
    PROVE  /\ Unprocessed \in Seq(Orders)
           /\ Len(Unprocessed) = Len(newQueue) - cursor /\ Len(Unprocessed) \in Nat
           /\ \A j \in 1..Len(Unprocessed) : Unprocessed[j] = newQueue[cursor + j]
<1>1. Len(newQueue) \in Nat /\ cursor \in Nat /\ cursor <= Len(newQueue)
      /\ \A j \in 1..Len(newQueue) : newQueue[j] \in Orders
    BY LenProperties, ElementOfSeq DEF Shape
<1> QED BY <1>1, SubSeqProperties DEF Unprocessed

LEMMA ShapeInvariant == Spec => []Shape
<1>1. Init => Shape
    BY FS_EmptySet DEF Init, Shape
<1>2. Shape /\ [Next]_vars => Shape'
  <2> SUFFICES ASSUME Shape, [Next]_vars PROVE Shape'
      OBVIOUS
  <2> USE QueueAssumption
  <2>1. ASSUME NEW o \in Orders, AddOrder(o) PROVE Shape'
    BY <2>1 DEF Shape, AddOrder, finishedVars, callVars, promiseVars
  <2>2. ASSUME NEW o \in Orders, Settle(o) PROVE Shape'
    <3> PICK r \in pending : /\ r.order = o
                             /\ pending' = pending \ {r}
                             /\ HandleOrderSuccess(r) \/ HandleOrderError(r)
        BY <2>2 DEF Settle
    <3>1. r \in ProcessOrder BY DEF Shape
    <3>2. IsFiniteSet(pending') BY FS_RemoveElement DEF Shape
    <3>3. Moved(r) BY OutcomesMove
    <3> QED BY <2>2, <3>1, <3>2, <3>3, MovedShape DEF Shape, Settle, callVars
  <2>3. CASE ProcessOrders
    <3> PICK k \in 0..Len(retryQueue) :
               /\ retryOrders' = [j \in 1..k |-> Retried(retryQueue[j])]
               /\ retryQueue' = SubSeq(retryQueue, k + 1, Len(retryQueue))
        BY <2>3 DEF ProcessOrders
    <3>1. /\ k \in Nat /\ k <= Len(retryQueue) /\ Len(retryQueue) \in Nat
          /\ \A j \in 1..Len(retryQueue) : retryQueue[j] \in ProcessOrder
        BY LenProperties, ElementOfSeq DEF Shape
    <3>2. \A j \in 1..k : Retried(retryQueue[j]) \in ProcessOrder
        BY <3>1, RecordFacts
    <3>3. retryOrders' \in [1..k -> ProcessOrder]
        BY <3>2
    <3>4. retryOrders' \in Seq(ProcessOrder)
        BY <3>1, <3>3, SeqDef
    <3>5. retryQueue' \in Seq(ProcessOrder)
        BY <3>1, SubSeqProperties
    <3> QED BY <2>3, <3>4, <3>5 DEF Shape, ProcessOrders, finishedVars, promiseVars
  <2>4. CASE NothingToProcess
    BY <2>4 DEF Shape, NothingToProcess, finishedVars, promiseVars
  <2>5. CASE ProcessRetry
    <3>1. Head(retryOrders) \in ProcessOrder /\ Tail(retryOrders) \in Seq(ProcessOrder)
        BY <2>5, TailRange DEF ProcessRetry, Shape
    <3> QED BY <2>5, <3>1, AttemptShape DEF Shape, ProcessRetry
  <2>6. CASE RetriesProcessed
    BY <2>6 DEF Shape, RetriesProcessed, finishedVars, promiseVars
  <2>7. CASE BeginNew
    BY <2>7 DEF Shape, BeginNew, finishedVars, promiseVars
  <2>8. CASE ProcessNew
    <3>1. NewOrder(newQueue[cursor + 1]) \in ProcessOrder
        BY <2>8 DEF ProcessNew, Shape, NewOrder, ProcessOrder, QueueAssumption
    <3> QED BY <2>8, <3>1, AttemptShape DEF Shape, ProcessNew
  <2>9. CASE NewProcessed
    <3>1. Unprocessed \in Seq(Orders) /\ Len(Unprocessed) \in Nat
        BY UnprocessedFacts
    <3> QED BY <2>9, <3>1 DEF Shape, NewProcessed, finishedVars, promiseVars
  <2>10. CASE GetFinishedOrders
    BY <2>10 DEF Shape, GetFinishedOrders, promiseVars
  <2>11. CASE ReleasePending
    BY <2>11 DEF Shape, ReleasePending, finishedVars, callVars
  <2>12. CASE CountDown
    <3>1. /\ DOMAIN retryQueue = 1..Len(retryQueue) /\ Len(retryQueue) \in Nat
          /\ \A j \in 1..Len(retryQueue) : retryQueue[j] \in ProcessOrder
        BY LenProperties, ElementOfSeq DEF Shape
    <3>2. \A j \in 1..Len(retryQueue) : Aged(retryQueue[j]) \in ProcessOrder
        BY <3>1, RecordFacts
    <3>3. retryQueue' \in [1..Len(retryQueue) -> ProcessOrder]
        BY <2>12, <3>1, <3>2 DEF CountDown
    <3>4. retryQueue' \in Seq(ProcessOrder)
        BY <3>1, <3>3, SeqDef
    <3> QED BY <2>12, <3>4 DEF Shape, CountDown, finishedVars, callVars, promiseVars
  <2>13. CASE UNCHANGED vars
    BY <2>13 DEF Shape, vars, finishedVars, callVars, promiseVars
  <2> QED BY <2>1, <2>2, <2>3, <2>4, <2>5, <2>6, <2>7, <2>8, <2>9, <2>10, <2>11, <2>12, <2>13
          DEF Next, Loop
<1> QED BY <1>1, <1>2, PTL DEF Spec

-----------------------------------------------------------------------------
(* Tries.                                                                  *)

LEMMA OutcomeRetries ==
    ASSUME NEW r, HandleOrderError(r) \/ HandleOrderSuccess(r)
    PROVE  \/ retryQueue' = retryQueue
           \/ r.retryCount < MaxTries - 1 /\ retryQueue' = Append(retryQueue, Postponed(r))
BY DEF HandleOrderError, HandleOrderSuccess, PushCompleted, PushSkipped, PushRejected,
       AddOrderToRetryQueue

LEMMA AttemptRetries ==
    ASSUME NEW r, Attempt(r)
    PROVE  /\ \/ retryQueue' = retryQueue
              \/ r.retryCount < MaxTries - 1 /\ retryQueue' = Append(retryQueue, Postponed(r))
           /\ pending' \subseteq pending \cup {r}
<1>1. CASE PushSkipped(r) /\ UNCHANGED <<pending, pendingCount>>
    BY <1>1 DEF PushSkipped
<1>2. CASE HandleOrderError(r) /\ UNCHANGED <<pending, pendingCount>>
    BY <1>2, OutcomeRetries
<1>3. CASE AwaitResult(r)
    BY <1>3 DEF AwaitResult
<1> QED BY <1>1, <1>2, <1>3 DEF Attempt

LEMMA PostponedTries ==
    ASSUME QueueAssumption, NEW r \in ProcessOrder,
           retryQueue \in Seq(ProcessOrder),
           \A q \in Range(retryQueue) : q.retryCount < MaxTries - 1,
           \/ retryQueue' = retryQueue
           \/ r.retryCount < MaxTries - 1 /\ retryQueue' = Append(retryQueue, Postponed(r))
    PROVE  \A q \in Range(retryQueue') : q.retryCount < MaxTries - 1
<1>1. Postponed(r) \in ProcessOrder /\ Postponed(r).retryCount = r.retryCount
    BY RecordFacts
<1>2. Range(Append(retryQueue, Postponed(r))) = Range(retryQueue) \cup {Postponed(r)}
    BY <1>1, AppendRange
<1> QED BY <1>1, <1>2

\* An order is handed to handleOrder at most maxTries times: the test of handleOrderError
\* comes before addOrderToRetryQueue and the count is raised when the order is due.
THEOREM TriesAreBounded == Spec => []TriesRespected
<1>1. Init => TriesRespected
    BY DEF Init, TriesRespected, Range
<1>2. Shape /\ TriesRespected /\ [Next]_vars => TriesRespected'
  <2> SUFFICES ASSUME Shape, TriesRespected, [Next]_vars PROVE TriesRespected'
      OBVIOUS
  <2> USE QueueAssumption
  <2>1. ASSUME NEW o \in Orders, AddOrder(o) PROVE TriesRespected'
    BY <2>1 DEF TriesRespected, AddOrder, callVars, promiseVars
  <2>2. ASSUME NEW o \in Orders, Settle(o) PROVE TriesRespected'
    <3> PICK r \in pending : /\ pending' = pending \ {r}
                             /\ HandleOrderSuccess(r) \/ HandleOrderError(r)
        BY <2>2 DEF Settle
    <3>1. r \in ProcessOrder /\ retryQueue \in Seq(ProcessOrder) BY DEF Shape
    <3>2. \A q \in Range(retryQueue') : q.retryCount < MaxTries - 1
        BY <3>1, OutcomeRetries, PostponedTries DEF TriesRespected
    <3>3. retryOrders' = retryOrders BY <2>2 DEF Settle, callVars
    <3> QED BY <3>2, <3>3 DEF TriesRespected
  <2>3. CASE ProcessOrders
    <3> PICK k \in 0..Len(retryQueue) :
               /\ retryOrders' = [j \in 1..k |-> Retried(retryQueue[j])]
               /\ retryQueue' = SubSeq(retryQueue, k + 1, Len(retryQueue))
        BY <2>3 DEF ProcessOrders
    <3>1. /\ k \in Nat /\ k <= Len(retryQueue) /\ Len(retryQueue) \in Nat
          /\ DOMAIN retryQueue = 1..Len(retryQueue)
          /\ \A j \in 1..Len(retryQueue) : retryQueue[j] \in ProcessOrder
        BY LenProperties, ElementOfSeq DEF Shape
    <3>2. \A j \in 1..Len(retryQueue) : retryQueue[j].retryCount < MaxTries - 1
        BY <3>1 DEF TriesRespected, Range
    <3>3. ASSUME NEW j \in 1..k PROVE Retried(retryQueue[j]).retryCount < MaxTries
      <4>1. /\ retryQueue[j] \in ProcessOrder
            /\ retryQueue[j].retryCount < MaxTries - 1
          BY <3>1, <3>2
      <4>2. /\ Retried(retryQueue[j]).retryCount = retryQueue[j].retryCount + 1
            /\ retryQueue[j].retryCount \in Nat
          BY <4>1, RecordFacts
      <4> QED BY <4>1, <4>2 DEF QueueAssumption
    <3>4. \A r \in Range(retryOrders') : r.retryCount < MaxTries
        BY <3>3 DEF Range
    <3>5. /\ DOMAIN retryQueue' = 1..(Len(retryQueue) - k)
          /\ \A i \in 1..(Len(retryQueue) - k) : retryQueue'[i] = retryQueue[k + i]
        BY <3>1, SubSeqProperties
    <3>6. \A r \in Range(retryQueue') : r.retryCount < MaxTries - 1
        BY <3>1, <3>2, <3>5 DEF Range
    <3> QED BY <2>3, <3>4, <3>6 DEF ProcessOrders, TriesRespected, promiseVars
  <2>4. CASE NothingToProcess
    BY <2>4 DEF TriesRespected, NothingToProcess, promiseVars
  <2>5. CASE ProcessRetry
    <3> DEFINE r == Head(retryOrders)
    <3>1. /\ r \in ProcessOrder /\ r \in Range(retryOrders)
          /\ Range(Tail(retryOrders)) \subseteq Range(retryOrders)
          /\ retryQueue \in Seq(ProcessOrder)
        BY <2>5, TailRange DEF ProcessRetry, Shape
    <3>2. /\ \/ retryQueue' = retryQueue
             \/ r.retryCount < MaxTries - 1 /\ retryQueue' = Append(retryQueue, Postponed(r))
          /\ pending' \subseteq pending \cup {r}
        BY <2>5, AttemptRetries DEF ProcessRetry
    <3>3. \A q \in Range(retryQueue') : q.retryCount < MaxTries - 1
        BY <3>1, <3>2, PostponedTries DEF TriesRespected
    <3>4. retryOrders' = Tail(retryOrders) BY <2>5 DEF ProcessRetry
    <3> QED BY <3>1, <3>2, <3>3, <3>4 DEF TriesRespected
  <2>6. CASE RetriesProcessed
    BY <2>6 DEF TriesRespected, RetriesProcessed, promiseVars
  <2>7. CASE BeginNew
    BY <2>7 DEF TriesRespected, BeginNew, promiseVars
  <2>8. CASE ProcessNew
    <3> DEFINE r == NewOrder(newQueue[cursor + 1])
    <3>1. r \in ProcessOrder /\ r.retryCount = 0
        BY <2>8 DEF ProcessNew, Shape, NewOrder, ProcessOrder, QueueAssumption
    <3> HIDE DEF r
    <3>2. /\ \/ retryQueue' = retryQueue
             \/ r.retryCount < MaxTries - 1 /\ retryQueue' = Append(retryQueue, Postponed(r))
          /\ pending' \subseteq pending \cup {r}
        BY <2>8, AttemptRetries DEF ProcessNew, r
    <3>3. \A q \in Range(retryQueue') : q.retryCount < MaxTries - 1
        BY <3>1, <3>2, PostponedTries DEF TriesRespected, Shape
    <3>4. retryOrders' = retryOrders BY <2>8 DEF ProcessNew
    <3> QED BY <3>1, <3>2, <3>3, <3>4 DEF TriesRespected, QueueAssumption
  <2>9. CASE NewProcessed
    BY <2>9 DEF TriesRespected, NewProcessed, promiseVars
  <2>10. CASE GetFinishedOrders
    BY <2>10 DEF TriesRespected, GetFinishedOrders, promiseVars
  <2>11. CASE ReleasePending
    BY <2>11 DEF TriesRespected, ReleasePending, callVars
  <2>12. CASE CountDown
    <3>1. /\ DOMAIN retryQueue = 1..Len(retryQueue)
          /\ \A j \in 1..Len(retryQueue) : retryQueue[j] \in ProcessOrder
        BY LenProperties, ElementOfSeq DEF Shape
    <3>2. \A j \in 1..Len(retryQueue) : Aged(retryQueue[j]).retryCount < MaxTries - 1
        BY <3>1, RecordFacts DEF TriesRespected, Range
    <3>3. \A r \in Range(retryQueue') : r.retryCount < MaxTries - 1
        BY <2>12, <3>1, <3>2 DEF CountDown, Range
    <3> QED BY <2>12, <3>3 DEF CountDown, TriesRespected, callVars, promiseVars
  <2>13. CASE UNCHANGED vars
    BY <2>13 DEF TriesRespected, vars, callVars, promiseVars
  <2> QED BY <2>1, <2>2, <2>3, <2>4, <2>5, <2>6, <2>7, <2>8, <2>9, <2>10, <2>11, <2>12, <2>13
          DEF Next, Loop
<1> QED BY <1>1, <1>2, ShapeInvariant, PTL DEF Spec

-----------------------------------------------------------------------------
(* Counters.                                                               *)

FinishedCount == Len(completed) + Len(skipped) + Len(rejected)

\* Each counter is at least what it counts.  A promise awaited twice for one order would
\* be counted twice: that it is not is EachOrderInOnePlace, which these bounds do without.
Counters ==
    /\ pendingCount >= Cardinality(pending) + settling
    /\ size >= (Len(newQueue) - cursor) + Len(retryQueue) + Len(retryOrders)
                 + Cardinality(pending) + FinishedCount
    /\ ConcurrencyRespected

LEMMA Lengths ==
    ASSUME Shape
    PROVE  /\ Len(newQueue) \in Nat /\ Len(retryQueue) \in Nat /\ Len(retryOrders) \in Nat
           /\ Len(completed) \in Nat /\ Len(skipped) \in Nat /\ Len(rejected) \in Nat
           /\ FinishedCount \in Nat
           /\ Cardinality(pending) \in Nat
           /\ pendingCount \in Int /\ size \in Int /\ settling \in Nat
           /\ cursor \in Nat /\ cursor <= Len(newQueue)
<1>1. /\ Len(newQueue) \in Nat /\ Len(retryQueue) \in Nat /\ Len(retryOrders) \in Nat
      /\ Len(completed) \in Nat /\ Len(skipped) \in Nat /\ Len(rejected) \in Nat
    BY LenProperties DEF Shape
<1>2. Cardinality(pending) \in Nat
    BY FS_CardinalityType DEF Shape
<1> QED BY <1>1, <1>2 DEF Shape, FinishedCount

LEMMA MovedCounts ==
    ASSUME Shape, QueueAssumption, NEW r \in ProcessOrder, Moved(r)
    PROVE  \/ Len(retryQueue') = Len(retryQueue) + 1 /\ FinishedCount' = FinishedCount
           \/ Len(retryQueue') = Len(retryQueue) /\ FinishedCount' = FinishedCount + 1
<1>1. r.order \in Orders /\ Postponed(r) \in ProcessOrder
    BY RecordFacts
<1> USE Lengths, <1>1 DEF FinishedCount
<1>2. CASE PushCompleted(r)
    BY <1>2, AppendProperties DEF Shape, PushCompleted
<1>3. CASE PushSkipped(r)
    BY <1>3, AppendProperties DEF Shape, PushSkipped
<1>4. CASE PushRejected(r)
    BY <1>4, AppendProperties DEF Shape, PushRejected
<1>5. CASE AddOrderToRetryQueue(r)
    BY <1>5, AppendProperties DEF Shape, AddOrderToRetryQueue, finishedVars
<1> QED BY <1>2, <1>3, <1>4, <1>5 DEF Moved

LEMMA AttemptCounts ==
    ASSUME Shape, QueueAssumption, NEW r \in ProcessOrder, Attempt(r)
    PROVE  /\ Len(retryQueue') + Cardinality(pending')
                <= Len(retryQueue) + Cardinality(pending) + 1
           /\ Len(retryQueue') + Cardinality(pending') + FinishedCount'
                <= Len(retryQueue) + Cardinality(pending) + FinishedCount + 1
           /\ pendingCount' - Cardinality(pending') >= pendingCount - Cardinality(pending)
           /\ Len(retryQueue') \in Nat /\ FinishedCount' \in Nat
           /\ Cardinality(pending') \in Nat /\ pendingCount' \in Int
<1>0. /\ Len(retryQueue) \in Nat /\ FinishedCount \in Nat
      /\ Cardinality(pending) \in Nat /\ pendingCount \in Int
    BY Lengths
<1>1. CASE Moved(r) /\ UNCHANGED <<pending, pendingCount>>
  <2>1. \/ Len(retryQueue') = Len(retryQueue) + 1 /\ FinishedCount' = FinishedCount
        \/ Len(retryQueue') = Len(retryQueue) /\ FinishedCount' = FinishedCount + 1
      BY <1>1, MovedCounts
  <2>2. Cardinality(pending') = Cardinality(pending) /\ pendingCount' = pendingCount
      BY <1>1
  <2> QED BY <1>0, <2>1, <2>2
<1>2. CASE AwaitResult(r)
  <2>1. Cardinality(pending \cup {r}) \in Nat
        /\ Cardinality(pending \cup {r}) <= Cardinality(pending) + 1
    <3>1. IsFiniteSet(pending) BY DEF Shape
    <3>2. IsFiniteSet(pending \cup {r})
          /\ Cardinality(pending \cup {r})
               = IF r \in pending THEN Cardinality(pending) ELSE Cardinality(pending) + 1
        BY <3>1, FS_AddElement
    <3> QED BY <1>0, <3>2
  <2>2. /\ pending' = pending \cup {r} /\ pendingCount' = pendingCount + 1
        /\ retryQueue' = retryQueue /\ FinishedCount' = FinishedCount
      BY <1>2 DEF AwaitResult, finishedVars, FinishedCount
  <2> QED BY <1>0, <2>1, <2>2
<1> QED BY <1>1, <1>2, AttemptMovesOrAwaits

LEMMA NewOrderType ==
    ASSUME Shape, QueueAssumption, pc = "handle"
    PROVE  NewOrder(newQueue[cursor + 1]) \in ProcessOrder
BY DEF Shape, NewOrder, ProcessOrder, QueueAssumption

LEMMA DifferenceBound ==
    ASSUME NEW n \in Int, NEW p \in Int, NEW n1 \in Int, NEW p1 \in Int, n1 - p1 >= n - p
    PROVE  \A s \in Int : n >= p + s => n1 >= p1 + s
OBVIOUS

LEMMA SizeBound ==
    ASSUME NEW q \in Int, NEW p \in Int, NEW f \in Int,
           NEW q1 \in Int, NEW p1 \in Int, NEW f1 \in Int, q1 + p1 + f1 <= q + p + f + 1
    PROVE  \A z, w, b, w1, b1 \in Int :
               z >= w + q + b + p + f /\ w1 + b1 = w + b - 1 => z >= w1 + q1 + b1 + p1 + f1
OBVIOUS

LEMMA UnderWayBound ==
    ASSUME NEW q \in Int, NEW p \in Int, NEW q1 \in Int, NEW p1 \in Int, q1 + p1 <= q + p + 1
    PROVE  \A m, x \in Int : q + p + x <= m => q1 + p1 + (x - 1) <= m
OBVIOUS

LEMMA AttemptKeepsBounds ==
    ASSUME Shape, QueueAssumption, NEW r \in ProcessOrder, Attempt(r)
    PROVE  /\ \A s \in Int :
                pendingCount >= Cardinality(pending) + s
                  => pendingCount' >= Cardinality(pending') + s
           /\ \A z, w, b, w1, b1 \in Int :
                z >= w + Len(retryQueue) + b + Cardinality(pending) + FinishedCount
                  /\ w1 + b1 = w + b - 1
                  => z >= w1 + Len(retryQueue') + b1 + Cardinality(pending') + FinishedCount'
           /\ \A m, x \in Int :
                Len(retryQueue) + Cardinality(pending) + x <= m
                  => Len(retryQueue') + Cardinality(pending') + (x - 1) <= m
<1>1. /\ Len(retryQueue) \in Int /\ Cardinality(pending) \in Int
      /\ FinishedCount \in Int /\ pendingCount \in Int
    BY Lengths
<1>2. /\ Len(retryQueue') \in Int /\ FinishedCount' \in Int
      /\ Cardinality(pending') \in Int /\ pendingCount' \in Int
    BY AttemptCounts
<1>3. \A s \in Int :
        pendingCount >= Cardinality(pending) + s => pendingCount' >= Cardinality(pending') + s
  <2>1. pendingCount' - Cardinality(pending') >= pendingCount - Cardinality(pending)
      BY AttemptCounts
  <2> QED BY <1>1, <1>2, <2>1, DifferenceBound
<1>4. \A z, w, b, w1, b1 \in Int :
        z >= w + Len(retryQueue) + b + Cardinality(pending) + FinishedCount
          /\ w1 + b1 = w + b - 1
          => z >= w1 + Len(retryQueue') + b1 + Cardinality(pending') + FinishedCount'
  <2>1. Len(retryQueue') + Cardinality(pending') + FinishedCount'
          <= Len(retryQueue) + Cardinality(pending) + FinishedCount + 1
      BY AttemptCounts
  <2> QED BY SMTT(40), <1>1, <1>2, <2>1, SizeBound
<1>5. \A m, x \in Int : Len(retryQueue) + Cardinality(pending) + x <= m
        => Len(retryQueue') + Cardinality(pending') + (x - 1) <= m
  <2>1. Len(retryQueue') + Cardinality(pending') <= Len(retryQueue) + Cardinality(pending) + 1
      BY AttemptCounts
  <2> QED BY <1>1, <1>2, <2>1, UnderWayBound
<1> QED BY <1>3, <1>4, <1>5

LEMMA CountersInvariant == Spec => []Counters
<1>1. Init => Counters
  <2>1. Cardinality({}) = 0 /\ Len(<<>>) = 0 /\ MaxConcurrent \in Nat
      BY FS_EmptySet, EmptySeq, QueueAssumption DEF QueueAssumption
  <2> SUFFICES ASSUME Init PROVE Counters
      OBVIOUS
  <2>2. FinishedCount = 0
      BY <2>1 DEF Init, FinishedCount
  <2> QED BY <2>1, <2>2 DEF Init, Counters, ConcurrencyRespected, UnderWay
<1>2. Shape /\ Shape' /\ Counters /\ [Next]_vars => Counters'
  <2> SUFFICES ASSUME Shape, Shape', Counters, [Next]_vars PROVE Counters'
      OBVIOUS
  <2>0. /\ Len(newQueue) \in Nat /\ Len(retryQueue) \in Nat /\ Len(retryOrders) \in Nat
        /\ FinishedCount \in Nat /\ Cardinality(pending) \in Nat
        /\ pendingCount \in Int /\ size \in Int /\ settling \in Nat
        /\ cursor \in Nat /\ cursor <= Len(newQueue)
        /\ MaxConcurrent \in Nat
      BY Lengths, QueueAssumption DEF QueueAssumption
  <2> USE <2>0, QueueAssumption DEF Counters, ConcurrencyRespected, UnderWay
  <2>1. ASSUME NEW o \in Orders, AddOrder(o) PROVE Counters'
    <3>1. Len(newQueue') = Len(newQueue) + 1
        BY <2>1, AppendProperties DEF AddOrder, Shape
    <3>2. FinishedCount' = FinishedCount
        BY <2>1 DEF AddOrder, finishedVars, FinishedCount
    <3> QED BY SMTT(40), <2>1, <3>1, <3>2 DEF AddOrder, callVars, promiseVars
  <2>2. ASSUME NEW o \in Orders, Settle(o) PROVE Counters'
    <3> PICK r \in pending : /\ pending' = pending \ {r}
                             /\ HandleOrderSuccess(r) \/ HandleOrderError(r)
        BY <2>2 DEF Settle
    <3>1. r \in ProcessOrder BY DEF Shape
    <3>2. Cardinality(pending') = Cardinality(pending) - 1
        BY FS_RemoveElement DEF Shape
    <3>3. \/ Len(retryQueue') = Len(retryQueue) + 1 /\ FinishedCount' = FinishedCount
          \/ Len(retryQueue') = Len(retryQueue) /\ FinishedCount' = FinishedCount + 1
        BY <3>1, OutcomesMove, MovedCounts
    <3>4. /\ size' = size /\ newQueue' = newQueue /\ pendingCount' = pendingCount
          /\ retryOrders' = retryOrders /\ cursor' = cursor /\ pc' = pc
          /\ settling' = settling + 1
        BY <2>2 DEF Settle, callVars
    <3>5. CASE Len(retryQueue') = Len(retryQueue) + 1 /\ FinishedCount' = FinishedCount
      <4>1. pendingCount' >= Cardinality(pending') + settling'
          BY <3>2, <3>4, <3>5
      <4>2. size' >= (Len(newQueue') - cursor') + Len(retryQueue') + Len(retryOrders')
                        + Cardinality(pending') + FinishedCount'
          BY <3>2, <3>4, <3>5
      <4>3. UnderWay' <= MaxConcurrent
          BY <3>2, <3>4, <3>5
      <4> QED BY <4>1, <4>2, <4>3
    <3>6. CASE Len(retryQueue') = Len(retryQueue) /\ FinishedCount' = FinishedCount + 1
      <4>1. pendingCount' >= Cardinality(pending') + settling'
          BY <3>2, <3>4, <3>6
      <4>2. size' >= (Len(newQueue') - cursor') + Len(retryQueue') + Len(retryOrders')
                        + Cardinality(pending') + FinishedCount'
          BY SMTT(40), <3>2, <3>4, <3>6
      <4>3. UnderWay' <= MaxConcurrent
          BY SMTT(40), <3>2, <3>4, <3>6
      <4> QED BY <4>1, <4>2, <4>3
    <3> QED BY <3>3, <3>5, <3>6
  <2>3. CASE ProcessOrders
    <3> PICK k \in 0..Len(retryQueue) :
               /\ retryOrders' = [j \in 1..k |-> Retried(retryQueue[j])]
               /\ retryQueue' = SubSeq(retryQueue, k + 1, Len(retryQueue))
        BY <2>3 DEF ProcessOrders
    <3>1. Len(retryQueue') = Len(retryQueue) - k
        BY SubSeqProperties, ElementOfSeq, LenProperties DEF Shape
    <3>2. Len(retryOrders') = k
        BY LenProperties DEF Shape
    <3>3. Len(retryOrders) = 0
        BY <2>3, EmptySeq DEF ProcessOrders, Shape
    <3> QED BY SMTT(40), <2>3, <3>1, <3>2, <3>3
            DEF ProcessOrders, finishedVars, promiseVars, FinishedCount
  <2>4. CASE NothingToProcess
    BY <2>4 DEF NothingToProcess, finishedVars, promiseVars, FinishedCount
  <2>5. CASE ProcessRetry
    <3> DEFINE w == Len(newQueue) - cursor
               b == Len(retryOrders)
    <3>1. /\ Head(retryOrders) \in ProcessOrder
          /\ Len(Tail(retryOrders)) = Len(retryOrders) - 1
        BY <2>5, TailRange DEF ProcessRetry, Shape
    <3>2. /\ w \in Int /\ b \in Int /\ w' \in Int /\ b' \in Int
          /\ w' + b' = w + b - 1 /\ b' = b - 1
          /\ size' = size /\ settling' = settling /\ pc = "retries" /\ pc' = pc
        BY <2>5, <3>1 DEF ProcessRetry
    <3>3. Attempt(Head(retryOrders)) BY <2>5 DEF ProcessRetry
    <3> HIDE DEF w, b
    <3>4. pendingCount' >= Cardinality(pending') + settling
        BY SMTT(40), <3>1, <3>3, AttemptKeepsBounds
    <3>5. size >= w' + Len(retryQueue') + b' + Cardinality(pending') + FinishedCount'
        BY <3>1, <3>2, <3>3, AttemptKeepsBounds DEF w, b
    <3>6. Len(retryQueue') + b' + Cardinality(pending') <= MaxConcurrent
      <4>1. Len(retryQueue) + Cardinality(pending) + b <= MaxConcurrent
          BY SMTT(40), <3>2 DEF b
      <4>2. \A m, x \in Int : Len(retryQueue) + Cardinality(pending) + x <= m
              => Len(retryQueue') + Cardinality(pending') + (x - 1) <= m
          BY <3>1, <3>3, AttemptKeepsBounds
      <4>3. b \in Int /\ MaxConcurrent \in Int
          BY <3>2
      <4>5. Len(retryQueue') + Cardinality(pending') + (b - 1) <= MaxConcurrent
          BY <4>1, <4>2, <4>3
      <4>4. Len(retryQueue') \in Int /\ Cardinality(pending') \in Int
          BY <3>1, <3>3, AttemptCounts
      <4>6. b' = b - 1
          BY <3>2
      <4>7. Len(retryQueue') + Cardinality(pending') + b' <= MaxConcurrent
          BY <4>3, <4>4, <4>5, <4>6
      <4> QED BY <4>3, <4>4, <4>6, <4>7
    <3>7. b' \in Int /\ Len(retryQueue') \in Int /\ Cardinality(pending') \in Int
        BY SMTT(40), <3>1, <3>2, <3>3, AttemptCounts
    <3>8. UnderWay' <= MaxConcurrent
        BY SMTT(40), <3>2, <3>6, <3>7 DEF b
    <3> QED BY <3>2, <3>4, <3>5, <3>8 DEF w, b
  <2>6. CASE RetriesProcessed
    BY <2>6 DEF RetriesProcessed, finishedVars, promiseVars, FinishedCount
  <2>7. CASE BeginNew
    <3>1. Len(retryOrders) = 0
        BY <2>7, EmptySeq DEF BeginNew, Shape
    <3> QED BY <2>7, <3>1
        DEF BeginNew, concurrentOrders, finishedVars, promiseVars, FinishedCount
  <2>8. CASE ProcessNew
    <3> DEFINE w == Len(newQueue) - cursor
               b == Len(retryOrders)
    <3>1. /\ NewOrder(newQueue[cursor + 1]) \in ProcessOrder
          /\ Attempt(NewOrder(newQueue[cursor + 1]))
        BY <2>8, NewOrderType DEF ProcessNew
    <3>2. /\ w \in Int /\ b \in Int /\ w' \in Int /\ b' \in Int
          /\ w' + b' = w + b - 1 /\ b' = b /\ (b + 1) - 1 = b
          /\ size' = size /\ settling' = settling /\ pc = "handle" /\ pc' = "new"
        BY <2>8 DEF ProcessNew
    <3> HIDE DEF w, b
    <3>4. pendingCount' >= Cardinality(pending') + settling
        BY <3>1, AttemptKeepsBounds
    <3>5. size >= w' + Len(retryQueue') + b' + Cardinality(pending') + FinishedCount'
        BY <3>1, <3>2, AttemptKeepsBounds DEF w, b
    <3>6. Len(retryQueue') + b' + Cardinality(pending') <= MaxConcurrent
      <4>1. Len(retryQueue) + Cardinality(pending) + (b + 1) <= MaxConcurrent
          BY SMTT(40), <3>2 DEF b
      <4>2. \A m, x \in Int : Len(retryQueue) + Cardinality(pending) + x <= m
              => Len(retryQueue') + Cardinality(pending') + (x - 1) <= m
          BY <3>1, AttemptKeepsBounds
      <4>3. b \in Int /\ b + 1 \in Int /\ MaxConcurrent \in Int
          BY <3>2
      <4>5. Len(retryQueue') + Cardinality(pending') + ((b + 1) - 1) <= MaxConcurrent
          BY <4>1, <4>2, <4>3
      <4>4. Len(retryQueue') \in Int /\ Cardinality(pending') \in Int
          BY <3>1, AttemptCounts
      <4>6. b' = b
          BY <3>2
      <4>7. Len(retryQueue') + Cardinality(pending') + b' <= MaxConcurrent
          BY <4>3, <4>4, <4>5, <4>6
      <4> QED BY <4>3, <4>4, <4>6, <4>7
    <3>7. b' \in Int /\ Len(retryQueue') \in Int /\ Cardinality(pending') \in Int
        BY <3>1, <3>2, AttemptCounts
    <3>8. UnderWay' <= MaxConcurrent
        BY SMTT(40), <3>2, <3>6, <3>7 DEF b
    <3> QED BY <3>2, <3>4, <3>5, <3>8 DEF w, b
  <2>9. CASE NewProcessed
    <3>1. Len(Unprocessed) = Len(newQueue) - cursor
        BY UnprocessedFacts
    <3> QED BY <2>9, <3>1 DEF NewProcessed, finishedVars, promiseVars, FinishedCount
  <2>10. CASE GetFinishedOrders
    <3>1. /\ size' = size - FinishedCount
          /\ FinishedCount' = 0
        BY <2>10 DEF GetFinishedOrders, FinishedCount
    <3> QED BY SMTT(40), <2>10, <3>1 DEF GetFinishedOrders, promiseVars
  <2>11. CASE ReleasePending
    BY SMTT(40), <2>11 DEF ReleasePending, finishedVars, callVars, FinishedCount
  <2>12. CASE CountDown
    <3>1. Len(retryQueue') = Len(retryQueue)
        BY <2>12, LenProperties DEF CountDown, Shape
    <3> QED BY <2>12, <3>1 DEF CountDown, finishedVars, callVars, promiseVars, FinishedCount
  <2>13. CASE UNCHANGED vars
    BY <2>13 DEF vars, finishedVars, callVars, promiseVars, FinishedCount
  <2> QED BY <2>1, <2>2, <2>3, <2>4, <2>5, <2>6, <2>7, <2>8, <2>9, <2>10, <2>11, <2>12, <2>13
          DEF Next, Loop
<1> QED BY <1>1, <1>2, ShapeInvariant, PTL DEF Spec

\* Every variable keeps its type; in particular no counter of the queue goes below zero,
\* whatever mixture of retries, promises and finished orders is subtracted from it.
THEOREM TypeCorrect == Spec => []TypeOK
<1>1. Shape /\ Counters => TypeOK
    BY SMTT(40), Lengths DEF Shape, Counters, TypeOK
<1> QED BY <1>1, ShapeInvariant, CountersInvariant, PTL

\* No more than maxConcurrentOrders orders are under way: the retries of a call were
\* already counted, and the orders that settle while handleOrder is awaited leave
\* pendingCount too high and never too low.
THEOREM ConcurrencyIsBounded == Spec => []ConcurrencyRespected
<1>1. Counters => ConcurrencyRespected
    BY DEF Counters
<1> QED BY <1>1, CountersInvariant, PTL

-----------------------------------------------------------------------------
(* The order of the retries.                                               *)

LEMMA RetryEntries ==
    ASSUME Shape
    PROVE  /\ Len(retryQueue) \in Nat
           /\ DOMAIN retryQueue = 1..Len(retryQueue)
           /\ \A j \in 1..Len(retryQueue) : retryQueue[j] \in ProcessOrder
BY LenProperties, ElementOfSeq DEF Shape

LEMMA PostponedChronological ==
    ASSUME Shape, QueueAssumption, RetriesChronological, NEW r \in ProcessOrder,
           retryQueue' = retryQueue \/ retryQueue' = Append(retryQueue, Postponed(r))
    PROVE  RetriesChronological'
<1>1. CASE retryQueue' = retryQueue
    BY <1>1 DEF RetriesChronological
<1>2. CASE retryQueue' = Append(retryQueue, Postponed(r))
  <2>1. Postponed(r) \in ProcessOrder /\ Postponed(r).retryIn = RetryInterval
      BY RecordFacts
  <2>2. /\ DOMAIN retryQueue' = 1..(Len(retryQueue) + 1)
        /\ \A i \in 1..Len(retryQueue) : retryQueue'[i] = retryQueue[i]
        /\ retryQueue'[Len(retryQueue) + 1] = Postponed(r)
      BY <1>2, <2>1, AppendProperties, LenProperties DEF Shape
  <2>3. \A i \in 1..Len(retryQueue) : retryQueue[i].retryIn <= RetryInterval
      BY RetryEntries, RecordFacts
  <2> SUFFICES ASSUME NEW j \in DOMAIN retryQueue', NEW k \in DOMAIN retryQueue', j < k
               PROVE  retryQueue'[j].retryIn <= retryQueue'[k].retryIn
      BY DEF RetriesChronological
  <2>4. j \in 1..Len(retryQueue)
      BY <2>2, RetryEntries
  <2>5. CASE k \in 1..Len(retryQueue)
      BY <2>2, <2>4, <2>5, RetryEntries DEF RetriesChronological
  <2>6. CASE k = Len(retryQueue) + 1
      BY <2>1, <2>2, <2>3, <2>4, <2>6
  <2> QED BY <2>2, <2>5, <2>6, RetryEntries
<1> QED BY <1>1, <1>2

\* The comment of getOrdersToRetry: retryQueue is in chronological order.  Every retry is
\* put off by the same interval, so that appending one keeps the order, and ageing and
\* taking a prefix keep it too.
THEOREM RetriesInOrder == Spec => []RetriesChronological
<1>1. Init => RetriesChronological
    BY DEF Init, RetriesChronological
<1>2. Shape /\ RetriesChronological /\ [Next]_vars => RetriesChronological'
  <2> SUFFICES ASSUME Shape, RetriesChronological, [Next]_vars PROVE RetriesChronological'
      OBVIOUS
  <2> USE QueueAssumption
  <2>1. CASE retryQueue' = retryQueue
    BY <2>1 DEF RetriesChronological
  <2>2. ASSUME NEW o \in Orders, Settle(o) PROVE RetriesChronological'
    <3> PICK r \in pending : HandleOrderSuccess(r) \/ HandleOrderError(r)
        BY <2>2 DEF Settle
    <3>1. r \in ProcessOrder BY DEF Shape
    <3> QED BY <3>1, OutcomeRetries, PostponedChronological
  <2>3. CASE ProcessOrders
    <3> PICK k \in 0..Len(retryQueue) :
               retryQueue' = SubSeq(retryQueue, k + 1, Len(retryQueue))
        BY <2>3 DEF ProcessOrders
    <3>1. k \in Nat /\ k <= Len(retryQueue) BY RetryEntries
    <3>2. /\ DOMAIN retryQueue' = 1..(Len(retryQueue) - k)
          /\ \A i \in 1..(Len(retryQueue) - k) : retryQueue'[i] = retryQueue[k + i]
        BY <3>1, RetryEntries, SubSeqProperties
    <3> SUFFICES ASSUME NEW i \in DOMAIN retryQueue', NEW j \in DOMAIN retryQueue', i < j
                 PROVE  retryQueue'[i].retryIn <= retryQueue'[j].retryIn
        BY DEF RetriesChronological
    <3>3. k + i \in DOMAIN retryQueue /\ k + j \in DOMAIN retryQueue /\ k + i < k + j
        BY <3>1, <3>2, RetryEntries
    <3> QED BY <3>2, <3>3 DEF RetriesChronological
  <2>4. CASE ProcessRetry
    <3>1. Head(retryOrders) \in ProcessOrder
        BY <2>4, TailRange DEF ProcessRetry, Shape
    <3> QED BY <2>4, <3>1, AttemptRetries, PostponedChronological DEF ProcessRetry
  <2>5. CASE ProcessNew
    <3>1. NewOrder(newQueue[cursor + 1]) \in ProcessOrder
        BY <2>5, NewOrderType DEF ProcessNew
    <3> QED BY <2>5, <3>1, AttemptRetries, PostponedChronological DEF ProcessNew
  <2>6. CASE CountDown
    <3>1. /\ DOMAIN retryQueue' = DOMAIN retryQueue
          /\ \A j \in DOMAIN retryQueue : retryQueue'[j] = Aged(retryQueue[j])
        BY <2>6 DEF CountDown
    <3>2. \A j \in DOMAIN retryQueue :
              /\ retryQueue[j].retryIn \in Nat
              /\ Aged(retryQueue[j]).retryIn
                   = IF retryQueue[j].retryIn > 0 THEN retryQueue[j].retryIn - 1 ELSE 0
        BY RetryEntries, RecordFacts DEF QueueAssumption
    <3> SUFFICES ASSUME NEW j \in DOMAIN retryQueue, NEW k \in DOMAIN retryQueue, j < k
                 PROVE  Aged(retryQueue[j]).retryIn <= Aged(retryQueue[k]).retryIn
        BY <3>1 DEF RetriesChronological
    <3>3. retryQueue[j].retryIn <= retryQueue[k].retryIn
        BY DEF RetriesChronological
    <3> QED BY <3>2, <3>3
  <2> QED BY <2>1, <2>2, <2>3, <2>4, <2>5, <2>6
          DEF Next, Loop, AddOrder, NothingToProcess, RetriesProcessed, BeginNew,
              NewProcessed, GetFinishedOrders, ReleasePending, vars
<1> QED BY <1>1, <1>2, ShapeInvariant, PTL DEF Spec

-----------------------------------------------------------------------------
(* Places.                                                                 *)

LEMMA AtMostOrNext ==
    ASSUME NEW m \in Int, NEW n \in Int, m <= n
    PROVE  m = n \/ m + 1 <= n
OBVIOUS

LEMMA SuffixFacts ==
    ASSUME NEW S, NEW s \in Seq(S), NEW c \in Nat, c <= Len(s)
    PROVE  LET x == SubSeq(s, c + 1, Len(s))
           IN  /\ x \in Seq(S) /\ Len(x) = Len(s) - c /\ DOMAIN x = 1..(Len(s) - c)
               /\ \A j \in 1..(Len(s) - c) : c + j \in DOMAIN s /\ x[j] = s[c + j]
<1>1. /\ Len(s) \in Nat /\ DOMAIN s = 1..Len(s)
      /\ \A j \in 1..Len(s) : s[j] \in S
    BY LenProperties, ElementOfSeq
<1>2. \A j \in 1..(Len(s) - c) : c + j \in 1..Len(s)
    BY <1>1
<1>3. \A j \in (c + 1)..Len(s) : s[j] \in S
    BY <1>1
<1>4. /\ SubSeq(s, c + 1, Len(s)) \in Seq(S)
      /\ Len(SubSeq(s, c + 1, Len(s))) = Len(s) - c
      /\ \A j \in 1..(Len(s) - c) : SubSeq(s, c + 1, Len(s))[j] = s[c + j]
  <2>1. c + 1 \in Int /\ Len(s) \in Int /\ Len(s) - (c + 1) + 1 = Len(s) - c
      BY <1>1
  <2>2. /\ SubSeq(s, c + 1, Len(s)) \in Seq(S)
        /\ Len(SubSeq(s, c + 1, Len(s)))
             = IF c + 1 <= Len(s) THEN Len(s) - (c + 1) + 1 ELSE 0
        /\ \A i \in 1..(Len(s) - (c + 1) + 1) :
               SubSeq(s, c + 1, Len(s))[i] = s[(c + 1) + i - 1]
      BY <1>3, <2>1, SubSeqProperties
  <2>3. \A i \in 1..(Len(s) - c) : (c + 1) + i - 1 = c + i
    <3>1. ASSUME NEW i \in Int PROVE (c + 1) + i - 1 = c + i
        OBVIOUS
    <3> QED BY <3>1, <1>1
  <2>4. c = Len(s) \/ c + 1 <= Len(s)
    <3>1. c \in Int /\ Len(s) \in Int /\ c <= Len(s)
        BY <1>1
    <3> QED BY <3>1, AtMostOrNext
  <2>5. SubSeq(s, c + 1, Len(s)) \in Seq(S) /\ Len(SubSeq(s, c + 1, Len(s))) = Len(s) - c
    <3>1. CASE c = Len(s)
        BY <1>1, <2>2, <3>1
    <3>2. CASE c + 1 <= Len(s)
        BY <2>1, <2>2, <3>2
    <3> QED BY <2>4, <3>1, <3>2
  <2>6. \A j \in 1..(Len(s) - c) : SubSeq(s, c + 1, Len(s))[j] = s[c + j]
      BY <2>1, <2>2, <2>3
  <2> QED BY <2>5, <2>6
<1>5. DOMAIN SubSeq(s, c + 1, Len(s)) = 1..(Len(s) - c)
    BY <1>4, LenProperties
<1> QED BY <1>1, <1>2, <1>4, <1>5

\* Adding an order to newQueue adds it to what is unprocessed.
LEMMA SuffixAppend ==
    ASSUME NEW S, NEW s \in Seq(S), NEW c \in Nat, c <= Len(s), NEW e \in S
    PROVE  LET x == SubSeq(s, c + 1, Len(s))
               t == Append(s, e)
               y == SubSeq(t, c + 1, Len(t))
           IN  /\ Range(y) = Range(x) \cup {e}
               /\ IsInjective(x) /\ e \notin Range(x) => IsInjective(y)
<1> DEFINE x == SubSeq(s, c + 1, Len(s))
           t == Append(s, e)
           y == SubSeq(t, c + 1, Len(t))
           n == Len(s) - c
<1>1. /\ t \in Seq(S) /\ Len(t) = Len(s) + 1 /\ Len(s) \in Nat
      /\ \A i \in 1..Len(s) : t[i] = s[i]
      /\ t[Len(s) + 1] = e
    BY AppendProperties, LenProperties
<1>2. DOMAIN x = 1..n /\ \A j \in 1..n : c + j \in 1..Len(s) /\ x[j] = s[c + j]
    BY SuffixFacts, LenProperties
<1>3. c <= Len(t)
    BY <1>1
<1>4. DOMAIN y = 1..(Len(t) - c) /\ \A j \in 1..(Len(t) - c) : y[j] = t[c + j]
    BY <1>1, <1>3, SuffixFacts
<1>5. n \in Nat /\ Len(t) - c = n + 1 /\ c + (n + 1) = Len(s) + 1
    BY <1>1
<1>6. /\ DOMAIN y = 1..(n + 1) /\ y[n + 1] = e
      /\ \A j \in 1..n : y[j] = x[j]
    BY <1>1, <1>2, <1>4, <1>5
<1> HIDE DEF x, y, t, n
<1>7. Range(y) = Range(x) \cup {e}
    BY SMTT(40), <1>2, <1>5, <1>6 DEF Range
<1>8. IsInjective(x) /\ e \notin Range(x) => IsInjective(y)
    BY <1>2, <1>5, <1>6 DEF Range, IsInjective
<1> QED BY <1>7, <1>8 DEF x, y, t, n

\* Advancing the cursor takes the first of the unprocessed orders away.
LEMMA SuffixNext ==
    ASSUME NEW S, NEW s \in Seq(S), NEW c \in Nat, c < Len(s)
    PROVE  LET x == SubSeq(s, c + 1, Len(s))
               y == SubSeq(s, (c + 1) + 1, Len(s))
           IN  /\ Range(x) = Range(y) \cup {s[c + 1]}
               /\ IsInjective(x) => IsInjective(y) /\ s[c + 1] \notin Range(y)
<1> DEFINE x == SubSeq(s, c + 1, Len(s))
           y == SubSeq(s, (c + 1) + 1, Len(s))
           n == Len(s) - (c + 1)
<1>1. Len(s) \in Nat /\ n \in Nat /\ Len(s) - c = n + 1
    BY LenProperties
<1>2. DOMAIN x = 1..(n + 1) /\ \A j \in 1..(n + 1) : x[j] = s[c + j]
    BY <1>1, SuffixFacts
<1>3. DOMAIN y = 1..n /\ \A j \in 1..n : y[j] = s[(c + 1) + j]
  <2>1. c + 1 \in Nat /\ c + 1 <= Len(s)
      BY <1>1
  <2> QED BY <2>1, SuffixFacts
<1>4. \A j \in 1..n : j + 1 \in 1..(n + 1) /\ y[j] = x[j + 1]
  <2>1. \A j \in 1..n : (c + 1) + j = c + (j + 1)
      BY <1>1
  <2> QED BY <1>1, <1>2, <1>3, <2>1
<1>5. x[1] = s[c + 1]
    BY <1>1, <1>2
<1>6. \A j \in 1..(n + 1) : j = 1 \/ (j - 1 \in 1..n /\ x[j] = y[j - 1])
  <2> SUFFICES ASSUME NEW j \in 1..(n + 1), j # 1
               PROVE  j - 1 \in 1..n /\ x[j] = y[j - 1]
      OBVIOUS
  <2>1. j - 1 \in 1..n /\ (j - 1) + 1 = j
      BY <1>1
  <2> QED BY <2>1, <1>4
<1> HIDE DEF x, y, n
<1>7. Range(x) = Range(y) \cup {s[c + 1]}
  <2>1. 1 \in 1..(n + 1) BY <1>1
  <2> QED BY <2>1, <1>2, <1>3, <1>4, <1>5, <1>6 DEF Range
<1>8. ASSUME IsInjective(x) PROVE IsInjective(y) /\ s[c + 1] \notin Range(y)
  <2>1. 1 \in 1..(n + 1) /\ \A j \in 1..n : j + 1 # 1
      BY <1>1
  <2>2. ASSUME NEW j \in 1..n PROVE y[j] # s[c + 1]
    <3>1. j + 1 \in DOMAIN x /\ 1 \in DOMAIN x /\ j + 1 # 1
        BY <1>2, <1>4, <2>1
    <3>2. x[j + 1] # x[1]
        BY <1>8, <3>1 DEF IsInjective
    <3> QED BY <1>4, <1>5, <3>2
  <2>3. ASSUME NEW i \in 1..n, NEW j \in 1..n, y[i] = y[j] PROVE i = j
    <3>1. i + 1 = j + 1
        BY <1>2, <1>4, <1>8, <2>3 DEF IsInjective
    <3> QED BY <3>1, <1>1
  <2> QED BY <1>3, <2>2, <2>3 DEF Range, IsInjective
<1> QED BY <1>7, <1>8 DEF x, y

LEMMA AppendDistinct ==
    ASSUME NEW s \in Seq(ProcessOrder), NEW r \in ProcessOrder, DistinctOrders(s),
           r.order \notin OrdersIn(Range(s))
    PROVE  /\ DistinctOrders(Append(s, r))
           /\ OrdersIn(Range(Append(s, r))) = OrdersIn(Range(s)) \cup {r.order}
<1>1. /\ Len(s) \in Nat /\ DOMAIN s = 1..Len(s)
      /\ DOMAIN Append(s, r) = 1..(Len(s) + 1)
      /\ \A i \in 1..Len(s) : Append(s, r)[i] = s[i]
      /\ Append(s, r)[Len(s) + 1] = r
    BY AppendProperties, LenProperties
<1>2. Range(Append(s, r)) = Range(s) \cup {r}
    BY AppendRange
<1>3. \A i \in DOMAIN s : s[i].order # r.order
    BY DEF OrdersIn, Range
<1>4. DistinctOrders(Append(s, r))
    BY <1>1, <1>3 DEF DistinctOrders
<1> QED BY <1>2, <1>4 DEF OrdersIn

LEMMA TailDistinct ==
    ASSUME NEW s \in Seq(ProcessOrder), s # <<>>, DistinctOrders(s)
    PROVE  /\ DistinctOrders(Tail(s))
           /\ Head(s).order \notin OrdersIn(Range(Tail(s)))
           /\ OrdersIn(Range(s)) = OrdersIn(Range(Tail(s))) \cup {Head(s).order}
<1>1. /\ Head(s) = s[1] /\ Len(s) > 0 /\ Len(s) \in Nat /\ DOMAIN s = 1..Len(s)
      /\ DOMAIN Tail(s) = 1..(Len(s) - 1)
      /\ \A i \in DOMAIN Tail(s) : i + 1 \in DOMAIN s /\ Tail(s)[i] = s[i + 1]
      /\ Range(s) = Range(Tail(s)) \cup {Head(s)}
    BY TailRange, LenProperties, HeadTailProperties
<1>2. DistinctOrders(Tail(s))
    BY <1>1 DEF DistinctOrders
<1>3. \A i \in DOMAIN Tail(s) : Tail(s)[i].order # Head(s).order
    BY <1>1 DEF DistinctOrders
<1>4. Head(s).order \notin OrdersIn(Range(Tail(s)))
    BY <1>3 DEF OrdersIn, Range
<1> QED BY <1>1, <1>2, <1>4 DEF OrdersIn

\* Where an attempt leaves an order that it does not await: the retries and the
\* finished orders.
Retrying == OrdersIn(Range(retryQueue))
Sink == Retrying \cup Finished
SinkInOrder ==
    /\ DistinctOrders(retryQueue)
    /\ IsInjective(completed) /\ IsInjective(skipped) /\ IsInjective(rejected)
    /\ Retrying \cap Finished = {}
    /\ Range(completed) \cap Range(skipped) = {}
    /\ (Range(completed) \cup Range(skipped)) \cap Range(rejected) = {}

\* The other places of an order.
Waiting == Range(Unprocessed)
Due == OrdersIn(Range(retryOrders))
Awaited == OrdersIn(pending)
DistinctPending == \A r, q \in pending : r.order = q.order => r = q
OthersInOrder ==
    /\ IsInjective(Unprocessed) /\ DistinctOrders(retryOrders) /\ DistinctPending
    /\ Waiting \cap (Due \cup Awaited \cup Sink) = {}
    /\ Due \cap (Awaited \cup Sink) = {}
    /\ Awaited \cap Sink = {}

LEMMA OnePlaceParts == EachOrderInOnePlace <=> SinkInOrder /\ OthersInOrder
BY DEF EachOrderInOnePlace, SinkInOrder, OthersInOrder, Retrying, Sink, Waiting, Due,
       Awaited, DistinctPending

LEMMA MovedInOnePlace ==
    ASSUME Shape, QueueAssumption, SinkInOrder,
           NEW r \in ProcessOrder, Moved(r), r.order \notin Sink
    PROVE  SinkInOrder' /\ Sink' = Sink \cup {r.order}
<1>1. /\ r.order \in Orders /\ Postponed(r) \in ProcessOrder /\ Postponed(r).order = r.order
    BY RecordFacts
<1>2. /\ completed \in Seq(Orders) /\ skipped \in Seq(Orders) /\ rejected \in Seq(Orders)
      /\ retryQueue \in Seq(ProcessOrder)
    BY DEF Shape
<1>3. r.order \notin Range(completed) \cup Range(skipped) \cup Range(rejected) \cup Retrying
    BY DEF Sink, Finished
<1>4. CASE PushCompleted(r)
  <2>1. /\ completed' = Append(completed, r.order)
        /\ retryQueue' = retryQueue /\ skipped' = skipped /\ rejected' = rejected
      BY <1>4 DEF PushCompleted
  <2>2. Range(completed') = Range(completed) \cup {r.order} /\ IsInjective(completed')
      BY <1>1, <1>2, <1>3, <2>1, AppendRange DEF SinkInOrder
  <2> QED BY <1>3, <2>1, <2>2 DEF SinkInOrder, Sink, Finished, Retrying
<1>5. CASE PushSkipped(r)
  <2>1. /\ skipped' = Append(skipped, r.order)
        /\ retryQueue' = retryQueue /\ completed' = completed /\ rejected' = rejected
      BY <1>5 DEF PushSkipped
  <2>2. Range(skipped') = Range(skipped) \cup {r.order} /\ IsInjective(skipped')
      BY <1>1, <1>2, <1>3, <2>1, AppendRange DEF SinkInOrder
  <2> QED BY <1>3, <2>1, <2>2 DEF SinkInOrder, Sink, Finished, Retrying
<1>6. CASE PushRejected(r)
  <2>1. /\ rejected' = Append(rejected, r.order)
        /\ retryQueue' = retryQueue /\ completed' = completed /\ skipped' = skipped
      BY <1>6 DEF PushRejected
  <2>2. Range(rejected') = Range(rejected) \cup {r.order} /\ IsInjective(rejected')
      BY <1>1, <1>2, <1>3, <2>1, AppendRange DEF SinkInOrder
  <2> QED BY <1>3, <2>1, <2>2 DEF SinkInOrder, Sink, Finished, Retrying
<1>7. CASE AddOrderToRetryQueue(r)
  <2>1. /\ retryQueue' = Append(retryQueue, Postponed(r))
        /\ completed' = completed /\ skipped' = skipped /\ rejected' = rejected
      BY <1>7 DEF AddOrderToRetryQueue, finishedVars
  <2>2. DistinctOrders(retryQueue') /\ Retrying' = Retrying \cup {r.order}
      BY <1>1, <1>2, <1>3, <2>1, AppendDistinct DEF SinkInOrder, Retrying
  <2> QED BY <1>3, <2>1, <2>2 DEF SinkInOrder, Sink, Finished
<1> QED BY <1>4, <1>5, <1>6, <1>7 DEF Moved

LEMMA AttemptInOnePlace ==
    ASSUME Shape, QueueAssumption, SinkInOrder, DistinctPending, Awaited \cap Sink = {},
           NEW r \in ProcessOrder, Attempt(r), r.order \notin Sink \cup Awaited
    PROVE  /\ SinkInOrder' /\ DistinctPending' /\ Awaited' \cap Sink' = {}
           /\ Awaited' \cup Sink' = (Awaited \cup Sink) \cup {r.order}
<1>1. CASE Moved(r) /\ UNCHANGED <<pending, pendingCount>>
  <2>1. SinkInOrder' /\ Sink' = Sink \cup {r.order}
      BY <1>1, MovedInOnePlace
  <2>2. pending' = pending
      BY <1>1
  <2> QED BY <2>1, <2>2 DEF Awaited, DistinctPending
<1>2. CASE AwaitResult(r)
  <2>1. /\ pending' = pending \cup {r}
        /\ retryQueue' = retryQueue /\ completed' = completed
        /\ skipped' = skipped /\ rejected' = rejected
      BY <1>2 DEF AwaitResult, finishedVars
  <2>2. SinkInOrder' /\ Sink' = Sink
      BY <2>1 DEF SinkInOrder, Sink, Finished, Retrying
  <2>3. Awaited' = Awaited \cup {r.order}
      BY <2>1 DEF Awaited, OrdersIn
  <2>4. \A q \in pending : q.order # r.order
      BY DEF Awaited, OrdersIn
  <2>5. DistinctPending'
      BY <2>1, <2>4 DEF DistinctPending
  <2> QED BY <2>2, <2>3, <2>5
<1> QED BY <1>1, <1>2, AttemptMovesOrAwaits

\* What a step leaves alone stays in order.
LEMMA SinkKept ==
    ASSUME UNCHANGED <<retryQueue, completed, skipped, rejected>>
    PROVE  /\ SinkInOrder => SinkInOrder'
           /\ Sink' = Sink /\ Retrying' = Retrying /\ Finished' = Finished
BY DEF SinkInOrder, Sink, Finished, Retrying

LEMMA OthersKept ==
    ASSUME UNCHANGED <<newQueue, cursor, retryOrders, pending>>
    PROVE  /\ Waiting' = Waiting /\ Due' = Due /\ Awaited' = Awaited
           /\ IsInjective(Unprocessed) => IsInjective(Unprocessed')
           /\ DistinctOrders(retryOrders) => DistinctOrders(retryOrders')
           /\ DistinctPending => DistinctPending'
BY DEF Waiting, Unprocessed, Due, Awaited, DistinctPending

LEMMA EmptyRange ==
    Range(<<>>) = {} /\ IsInjective(<<>>) /\ DOMAIN <<>> = {} /\ Len(<<>>) = 0
<1>1. <<>> \in Seq({}) /\ Len(<<>>) = 0
    BY EmptySeq
<1>2. DOMAIN <<>> = {}
    BY <1>1, LenProperties
<1> QED BY <1>1, <1>2 DEF Range, IsInjective

LEMMA OnePlaceInvariant ==
    ASSUME Shape, QueueAssumption, SinkInOrder, OthersInOrder, [Next]_vars
    PROVE  SinkInOrder' /\ OthersInOrder'
<1>0. /\ newQueue \in Seq(Orders) /\ retryQueue \in Seq(ProcessOrder)
      /\ retryOrders \in Seq(ProcessOrder) /\ cursor \in Nat /\ cursor <= Len(newQueue)
    BY Lengths DEF Shape
<1>1. ASSUME NEW o \in Orders, AddOrder(o) PROVE SinkInOrder' /\ OthersInOrder'
  <2>1. UNCHANGED <<retryQueue, completed, skipped, rejected, retryOrders, cursor, pending>>
      BY <1>1 DEF AddOrder, finishedVars, callVars, promiseVars
  <2>2. newQueue' = Append(newQueue, o) /\ o \notin InQueue
      BY <1>1 DEF AddOrder
  <2>3. \A e \in Range(Unprocessed) : e \in Range(newQueue)
      BY <1>0, SuffixFacts DEF Unprocessed, Range
  <2>4. o \notin Waiting \cup Due \cup Awaited \cup Sink
      BY <2>2, <2>3 DEF InQueue, Waiting, Due, Awaited, Sink, Retrying, OrdersIn
  <2>5. /\ Waiting' = Waiting \cup {o}
        /\ IsInjective(Unprocessed')
      BY <1>0, <2>1, <2>2, <2>4, SuffixAppend DEF Unprocessed, Waiting, OthersInOrder
  <2>6. Due' = Due /\ Awaited' = Awaited /\ DistinctOrders(retryOrders') /\ DistinctPending'
      BY <2>1 DEF Due, Awaited, OthersInOrder, DistinctPending
  <2>7. SinkInOrder' /\ Sink' = Sink
      BY <2>1, SinkKept
  <2> QED BY <2>4, <2>5, <2>6, <2>7 DEF OthersInOrder
<1>2. ASSUME NEW o \in Orders, Settle(o) PROVE SinkInOrder' /\ OthersInOrder'
  <2> PICK r \in pending : /\ pending' = pending \ {r}
                           /\ HandleOrderSuccess(r) \/ HandleOrderError(r)
      BY <1>2 DEF Settle
  <2>1. r \in ProcessOrder /\ r.order \in Awaited
      BY DEF Shape, Awaited, OrdersIn
  <2>2. SinkInOrder' /\ Sink' = Sink \cup {r.order}
      BY <2>1, OutcomesMove, MovedInOnePlace DEF OthersInOrder
  <2>3. Awaited' = Awaited \ {r.order} /\ DistinctPending'
      BY DEF Awaited, OrdersIn, OthersInOrder, DistinctPending
  <2>4. UNCHANGED <<newQueue, cursor, retryOrders>>
      BY <1>2 DEF Settle, callVars
  <2>5. /\ Waiting' = Waiting /\ Due' = Due
        /\ IsInjective(Unprocessed') /\ DistinctOrders(retryOrders')
      BY <2>4 DEF Waiting, Due, Unprocessed, OthersInOrder
  <2> QED BY <2>1, <2>2, <2>3, <2>5 DEF OthersInOrder
<1>3. CASE ProcessOrders
  <2> PICK k \in 0..Len(retryQueue) :
             /\ retryOrders' = [j \in 1..k |-> Retried(retryQueue[j])]
             /\ retryQueue' = SubSeq(retryQueue, k + 1, Len(retryQueue))
      BY <1>3 DEF ProcessOrders
  <2>1. k \in Nat /\ k <= Len(retryQueue)
      BY RetryEntries
  <2>2. /\ DOMAIN retryQueue' = 1..(Len(retryQueue) - k)
        /\ \A j \in 1..(Len(retryQueue) - k) :
               /\ k + j \in DOMAIN retryQueue
               /\ retryQueue'[j] = retryQueue[k + j]
      BY <1>0, <2>1, SuffixFacts
  <2>3. \A j \in 1..k : /\ j \in DOMAIN retryQueue
                        /\ retryOrders'[j].order = retryQueue[j].order
      BY <2>1, RetryEntries, RecordFacts
  <2>4. DOMAIN retryOrders' = 1..k
      OBVIOUS
  <2>5. DistinctOrders(retryQueue) /\ Due = {}
      BY <1>3 DEF SinkInOrder, ProcessOrders, Shape, Due, OrdersIn, Range
  <2>6. DistinctOrders(retryOrders')
      BY <2>3, <2>4, <2>5 DEF DistinctOrders
  <2>7. DistinctOrders(retryQueue')
    <3> SUFFICES ASSUME NEW i \in 1..(Len(retryQueue) - k), NEW j \in 1..(Len(retryQueue) - k),
                        retryQueue'[i].order = retryQueue'[j].order
                 PROVE  i = j
        BY <2>2 DEF DistinctOrders
    <3>1. k + i = k + j
        BY <2>2, <2>5 DEF DistinctOrders
    <3> QED BY <2>1, <3>1, RetryEntries
  <2>8. Retrying' \subseteq Retrying /\ Due' \subseteq Retrying
      BY <2>2, <2>3, <2>4 DEF Retrying, Due, OrdersIn, Range
  <2>9. Retrying' \cap Due' = {}
    <3>1. ASSUME NEW i \in 1..k, NEW j \in 1..(Len(retryQueue) - k),
                 retryOrders'[i].order = retryQueue'[j].order
          PROVE  FALSE
      <4>1. i = k + j
          BY <2>2, <2>3, <2>5, <3>1 DEF DistinctOrders
      <4> QED BY <2>1, <4>1, RetryEntries
    <3>2. ASSUME NEW r \in Range(retryOrders'), NEW q \in Range(retryQueue')
          PROVE  r.order # q.order
      <4>1. PICK i \in 1..k : r = retryOrders'[i]
          BY <2>4 DEF Range
      <4>2. PICK j \in 1..(Len(retryQueue) - k) : q = retryQueue'[j]
          BY <2>2 DEF Range
      <4> QED BY <3>1, <4>1, <4>2
    <3> QED BY <3>2 DEF Retrying, Due, OrdersIn
  <2>10. UNCHANGED <<completed, skipped, rejected, newQueue, cursor, pending>>
      BY <1>3 DEF ProcessOrders, finishedVars, promiseVars
  <2>11. /\ Waiting' = Waiting /\ Awaited' = Awaited /\ Finished' = Finished
         /\ IsInjective(Unprocessed') /\ DistinctPending'
      BY <2>10 DEF Waiting, Awaited, Finished, Unprocessed, DistinctPending, OthersInOrder
  <2>12. SinkInOrder'
      BY <2>7, <2>8, <2>10, <2>11 DEF SinkInOrder
  <2> QED BY <2>5, <2>6, <2>8, <2>9, <2>11, <2>12 DEF OthersInOrder, Sink, SinkInOrder
<1>4. CASE ProcessRetry
  <2> DEFINE r == Head(retryOrders)
  <2>1. r \in ProcessOrder /\ Attempt(r) /\ retryOrders' = Tail(retryOrders)
      BY <1>0, <1>4, TailRange DEF ProcessRetry
  <2>2. /\ DistinctOrders(retryOrders') /\ r.order \notin Due'
        /\ Due = Due' \cup {r.order}
      BY <1>0, <1>4, <2>1, TailDistinct DEF ProcessRetry, Due, OthersInOrder
  <2> HIDE DEF r
  <2>3. /\ SinkInOrder' /\ DistinctPending' /\ Awaited' \cap Sink' = {}
        /\ Awaited' \cup Sink' = (Awaited \cup Sink) \cup {r.order}
      BY <2>1, <2>2, AttemptInOnePlace DEF OthersInOrder
  <2>4. UNCHANGED <<newQueue, cursor>>
      BY <1>4 DEF ProcessRetry
  <2>5. Waiting' = Waiting /\ IsInjective(Unprocessed')
      BY <2>4 DEF Waiting, Unprocessed, OthersInOrder
  <2> QED BY <2>2, <2>3, <2>5 DEF OthersInOrder
<1>5. CASE ProcessNew
  <2> DEFINE o == newQueue[cursor + 1]
             r == NewOrder(o)
  <2>1. r \in ProcessOrder /\ Attempt(r) /\ r.order = o
      BY <1>5, NewOrderType DEF ProcessNew, NewOrder
  <2>2. cursor < Len(newQueue) /\ newQueue' = newQueue /\ cursor' = cursor + 1
      BY <1>5 DEF ProcessNew, Shape
  <2>3. IsInjective(Unprocessed') /\ o \notin Waiting' /\ Waiting = Waiting' \cup {o}
      BY <1>0, <2>2, SuffixNext DEF Unprocessed, Waiting, OthersInOrder
  <2> HIDE DEF r, o
  <2>4. /\ SinkInOrder' /\ DistinctPending' /\ Awaited' \cap Sink' = {}
        /\ Awaited' \cup Sink' = (Awaited \cup Sink) \cup {o}
      BY <2>1, <2>3, AttemptInOnePlace DEF OthersInOrder
  <2>5. Due' = Due /\ DistinctOrders(retryOrders')
      BY <1>5 DEF ProcessNew, Due, OthersInOrder
  <2> QED BY <2>3, <2>4, <2>5 DEF OthersInOrder
<1>6. CASE NewProcessed
  <2>1. newQueue' = Unprocessed /\ cursor' = 0
      BY <1>6 DEF NewProcessed
  <2>2. Unprocessed \in Seq(Orders) /\ Len(Unprocessed) \in Nat /\ 0 <= Len(Unprocessed)
      BY UnprocessedFacts
  <2>3. /\ DOMAIN Unprocessed' = DOMAIN Unprocessed
        /\ \A j \in DOMAIN Unprocessed : Unprocessed'[j] = Unprocessed[j]
    <3> DEFINE u == Unprocessed
    <3>1. Unprocessed' = SubSeq(u, 0 + 1, Len(u))
        BY <2>1 DEF Unprocessed
    <3>2. u \in Seq(Orders) /\ Len(u) \in Nat /\ 0 <= Len(u)
        BY <2>2
    <3> HIDE DEF u
    <3>3. /\ DOMAIN SubSeq(u, 0 + 1, Len(u)) = 1..(Len(u) - 0)
          /\ \A j \in 1..(Len(u) - 0) : SubSeq(u, 0 + 1, Len(u))[j] = u[0 + j]
        BY <3>2, SuffixFacts
    <3>4. DOMAIN u = 1..Len(u) /\ Len(u) - 0 = Len(u) /\ \A j \in 1..Len(u) : 0 + j = j
        BY <3>2, LenProperties
    <3>5. /\ DOMAIN Unprocessed' = DOMAIN u
          /\ \A j \in DOMAIN u : Unprocessed'[j] = u[j]
        BY <3>1, <3>3, <3>4
    <3> QED BY <3>5 DEF u
  <2>4. Waiting' = Waiting /\ IsInjective(Unprocessed')
      BY <2>3 DEF Waiting, Range, IsInjective, OthersInOrder
  <2>5. UNCHANGED <<retryQueue, completed, skipped, rejected, retryOrders, pending>>
      BY <1>6 DEF NewProcessed, finishedVars, promiseVars
  <2>6. Due' = Due /\ Awaited' = Awaited /\ DistinctOrders(retryOrders') /\ DistinctPending'
      BY <2>5 DEF Due, Awaited, OthersInOrder, DistinctPending
  <2> QED BY <2>4, <2>5, <2>6, SinkKept DEF OthersInOrder
<1>7. CASE GetFinishedOrders
  <2>1. /\ completed' = <<>> /\ skipped' = <<>> /\ rejected' = <<>>
        /\ retryQueue' = retryQueue
        /\ UNCHANGED <<newQueue, cursor, retryOrders, pending>>
      BY <1>7 DEF GetFinishedOrders, promiseVars
  <2>2. Range(<<>>) = {} /\ IsInjective(<<>>)
      BY EmptyRange
  <2>3. Finished' = {} /\ Retrying' = Retrying
      BY <2>1, <2>2 DEF Finished, Retrying
  <2>4. SinkInOrder'
      BY <2>1, <2>2, <2>3 DEF SinkInOrder
  <2> QED BY <2>1, <2>3, <2>4, OthersKept DEF OthersInOrder, Sink
<1>8. CASE CountDown
  <2>1. /\ DOMAIN retryQueue' = DOMAIN retryQueue
        /\ \A j \in DOMAIN retryQueue : retryQueue'[j] = Aged(retryQueue[j])
      BY <1>8 DEF CountDown
  <2>2. \A j \in DOMAIN retryQueue : retryQueue'[j].order = retryQueue[j].order
      BY <2>1, RetryEntries, RecordFacts
  <2>3. Retrying' = Retrying
      BY <2>1, <2>2 DEF Retrying, OrdersIn, Range
  <2>4. DistinctOrders(retryQueue')
      BY <2>1, <2>2 DEF DistinctOrders, SinkInOrder
  <2>5. UNCHANGED <<completed, skipped, rejected, newQueue, cursor, retryOrders, pending>>
      BY <1>8 DEF CountDown, finishedVars, callVars, promiseVars
  <2>6. Finished' = Finished
      BY <2>5 DEF Finished
  <2>7. SinkInOrder'
      BY <2>3, <2>4, <2>5, <2>6 DEF SinkInOrder
  <2> QED BY <2>3, <2>5, <2>6, <2>7, OthersKept DEF OthersInOrder, Sink
<1>9. CASE UNCHANGED <<retryQueue, completed, skipped, rejected,
                       newQueue, cursor, retryOrders, pending>>
  BY <1>9, SinkKept, OthersKept DEF OthersInOrder
<1> QED BY <1>1, <1>2, <1>3, <1>4, <1>5, <1>6, <1>7, <1>8, <1>9
        DEF Next, Loop, NothingToProcess, RetriesProcessed, BeginNew, ReleasePending,
            vars, finishedVars, callVars, promiseVars

\* An order is in one place of the queue at a time, and there once: no mixture of due
\* retries, promises that settle meanwhile and spliced new orders puts one order into two
\* collections or hands it back with two outcomes.
THEOREM OrdersInOnePlace == Spec => []EachOrderInOnePlace
<1>1. Init => SinkInOrder /\ OthersInOrder
  <2>1. Range(<<>>) = {} /\ IsInjective(<<>>) /\ DOMAIN <<>> = {} /\ Len(<<>>) = 0
      BY EmptyRange
  <2>2. SubSeq(<<>>, 0 + 1, 0) = <<>>
      BY SubSeqEmpty
  <2> SUFFICES ASSUME Init PROVE SinkInOrder /\ OthersInOrder
      OBVIOUS
  <2>3. Unprocessed = <<>>
      BY <2>1, <2>2 DEF Init, Unprocessed
  <2> QED BY <2>1, <2>3 DEF Init, SinkInOrder, OthersInOrder, Retrying, Finished, Sink,
             Waiting, Due, Awaited, DistinctPending, DistinctOrders, OrdersIn
<1>2. Shape /\ (SinkInOrder /\ OthersInOrder) /\ [Next]_vars => (SinkInOrder /\ OthersInOrder)'
    BY OnePlaceInvariant, QueueAssumption
<1> QED BY <1>1, <1>2, ShapeInvariant, OnePlaceParts, PTL DEF Spec

-----------------------------------------------------------------------------
(* The size.                                                               *)

SizeAtMost ==
    size <= (Len(newQueue) - cursor) + Len(retryQueue) + Len(retryOrders)
             + Cardinality(pending) + FinishedCount

LEMMA SizeShift ==
    ASSUME NEW q \in Int, NEW p \in Int, NEW f \in Int,
           NEW q1 \in Int, NEW p1 \in Int, NEW f1 \in Int, q1 + p1 + f1 >= q + p + f + 1
    PROVE  \A z, w, b, w1, b1 \in Int :
               z <= w + q + b + p + f /\ w1 + b1 = w + b - 1 => z <= w1 + q1 + b1 + p1 + f1
OBVIOUS

LEMMA SizeRegroup ==
    ASSUME NEW z \in Int, NEW a \in Int, NEW c \in Int, NEW d \in Int, NEW e \in Int,
           z >= a + (c + d + e), z <= a + (c + d + e)
    PROVE  z = a + c + d + e
OBVIOUS

LEMMA AttemptAdds ==
    ASSUME Shape, QueueAssumption, NEW r \in ProcessOrder, Attempt(r), r \notin pending
    PROVE  \A z, w, b, w1, b1 \in Int :
             z <= w + Len(retryQueue) + b + Cardinality(pending) + FinishedCount
               /\ w1 + b1 = w + b - 1
               => z <= w1 + Len(retryQueue') + b1 + Cardinality(pending') + FinishedCount'
<1>1. /\ Len(retryQueue) \in Int /\ Cardinality(pending) \in Int /\ FinishedCount \in Int
    BY Lengths
<1>2. /\ Len(retryQueue') \in Int /\ FinishedCount' \in Int /\ Cardinality(pending') \in Int
    BY AttemptCounts
<1>3. Len(retryQueue') + Cardinality(pending') + FinishedCount'
        >= Len(retryQueue) + Cardinality(pending) + FinishedCount + 1
  <2>1. CASE Moved(r) /\ UNCHANGED <<pending, pendingCount>>
    <3>1. \/ Len(retryQueue') = Len(retryQueue) + 1 /\ FinishedCount' = FinishedCount
          \/ Len(retryQueue') = Len(retryQueue) /\ FinishedCount' = FinishedCount + 1
        BY <2>1, MovedCounts
    <3>2. Cardinality(pending') = Cardinality(pending)
        BY <2>1
    <3>3. CASE Len(retryQueue') = Len(retryQueue) + 1 /\ FinishedCount' = FinishedCount
        BY <1>1, <3>2, <3>3
    <3>4. CASE Len(retryQueue') = Len(retryQueue) /\ FinishedCount' = FinishedCount + 1
        BY <1>1, <3>2, <3>4
    <3> QED BY <3>1, <3>3, <3>4
  <2>2. CASE AwaitResult(r)
    <3>1. Cardinality(pending') = Cardinality(pending) + 1
        BY <2>2, FS_AddElement DEF AwaitResult, Shape
    <3>2. Len(retryQueue') = Len(retryQueue) /\ FinishedCount' = FinishedCount
        BY <2>2 DEF AwaitResult, finishedVars, FinishedCount
    <3> QED BY <1>1, <3>1, <3>2
  <2> QED BY <2>1, <2>2, AttemptMovesOrAwaits
<1> QED BY <1>1, <1>2, <1>3, SizeShift

LEMMA SizeStep ==
    ASSUME Shape, QueueAssumption, EachOrderInOnePlace, SizeAtMost, [Next]_vars
    PROVE  SizeAtMost'
<1>0. /\ Len(newQueue) \in Nat /\ Len(retryQueue) \in Nat /\ Len(retryOrders) \in Nat
      /\ FinishedCount \in Nat /\ Cardinality(pending) \in Nat /\ size \in Int
      /\ cursor \in Nat
    BY Lengths
<1>00. OthersInOrder
    BY OnePlaceParts
<1>1. ASSUME NEW o \in Orders, AddOrder(o) PROVE SizeAtMost'
  <2>1. Len(newQueue') = Len(newQueue) + 1
      BY <1>1, AppendProperties DEF AddOrder, Shape
  <2>2. FinishedCount' = FinishedCount
      BY <1>1 DEF AddOrder, finishedVars, FinishedCount
  <2> QED BY <1>0, <1>1, <2>1, <2>2 DEF SizeAtMost, AddOrder, callVars, promiseVars
<1>2. ASSUME NEW o \in Orders, Settle(o) PROVE SizeAtMost'
  <2> PICK r \in pending : /\ pending' = pending \ {r}
                           /\ HandleOrderSuccess(r) \/ HandleOrderError(r)
      BY <1>2 DEF Settle
  <2>1. Cardinality(pending') = Cardinality(pending) - 1
      BY FS_RemoveElement DEF Shape
  <2>2. \/ Len(retryQueue') = Len(retryQueue) + 1 /\ FinishedCount' = FinishedCount
        \/ Len(retryQueue') = Len(retryQueue) /\ FinishedCount' = FinishedCount + 1
      BY OutcomesMove, MovedCounts DEF Shape
  <2>3. UNCHANGED <<size, newQueue, cursor, retryOrders>>
      BY <1>2 DEF Settle, callVars
  <2> QED BY <1>0, <2>1, <2>2, <2>3 DEF SizeAtMost
<1>3. CASE ProcessOrders
  <2> PICK k \in 0..Len(retryQueue) :
             /\ retryOrders' = [j \in 1..k |-> Retried(retryQueue[j])]
             /\ retryQueue' = SubSeq(retryQueue, k + 1, Len(retryQueue))
      BY <1>3 DEF ProcessOrders
  <2>1. k \in Nat /\ k <= Len(retryQueue)
      BY <1>0
  <2>2. Len(retryQueue') = Len(retryQueue) - k
      BY <2>1, SuffixFacts DEF Shape
  <2>3. Len(retryOrders') = k
    <3>1. \A j \in 1..k : Retried(retryQueue[j]) \in ProcessOrder
        BY <2>1, RetryEntries, RecordFacts
    <3>2. retryOrders' \in Seq(ProcessOrder) /\ DOMAIN retryOrders' = 1..k
        BY <2>1, <3>1, SeqDef
    <3> QED BY <2>1, <3>2, LenProperties
  <2>4. Len(retryOrders) = 0
      BY <1>3, EmptySeq DEF ProcessOrders, Shape
  <2>5. UNCHANGED <<size, newQueue, cursor, pending>> /\ FinishedCount' = FinishedCount
      BY <1>3 DEF ProcessOrders, finishedVars, promiseVars, FinishedCount
  <2> QED BY <1>0, <2>1, <2>2, <2>3, <2>4, <2>5 DEF SizeAtMost
<1>4. CASE ProcessRetry
  <2> DEFINE w == Len(newQueue) - cursor
             b == Len(retryOrders)
             r == Head(retryOrders)
  <2>1. /\ r \in ProcessOrder /\ r \in Range(retryOrders) /\ Attempt(r)
        /\ Len(retryOrders') = Len(retryOrders) - 1
      BY <1>4, TailRange DEF ProcessRetry, Shape
  <2>2. /\ w \in Int /\ b \in Int /\ w' \in Int /\ b' \in Int
        /\ w' + b' = w + b - 1 /\ size' = size
      BY <1>0, <1>4, <2>1 DEF ProcessRetry
  <2>3. r \notin pending
      BY <1>00, <2>1 DEF OthersInOrder, Due, Awaited, OrdersIn
  <2> HIDE DEF r, w, b
  <2>4. size <= w + Len(retryQueue) + b + Cardinality(pending) + FinishedCount
      BY DEF SizeAtMost, w, b
  <2>5. size <= w' + Len(retryQueue') + b' + Cardinality(pending') + FinishedCount'
    <3>1. \A z, v, c, v1, c1 \in Int :
             z <= v + Len(retryQueue) + c + Cardinality(pending) + FinishedCount
               /\ v1 + c1 = v + c - 1
               => z <= v1 + Len(retryQueue') + c1 + Cardinality(pending') + FinishedCount'
        BY <2>1, <2>3, AttemptAdds
    <3>2. /\ size \in Int /\ w \in Int /\ b \in Int /\ w' \in Int /\ b' \in Int
          /\ w' + b' = w + b - 1
        BY <1>0, <2>2
    <3> QED BY <2>4, <3>1, <3>2
  <2> QED BY <2>2, <2>5 DEF SizeAtMost, w, b
<1>5. CASE ProcessNew
  <2> DEFINE w == Len(newQueue) - cursor
             b == Len(retryOrders)
             o == newQueue[cursor + 1]
             r == NewOrder(o)
  <2>1. r \in ProcessOrder /\ Attempt(r) /\ r.order = o
      BY <1>5, NewOrderType DEF ProcessNew, NewOrder
  <2>2. /\ w \in Int /\ b \in Int /\ w' \in Int /\ b' \in Int
        /\ w' + b' = w + b - 1 /\ size' = size
      BY <1>0, <1>5 DEF ProcessNew
  <2>3. r \notin pending
    <3>1. newQueue \in Seq(Orders) /\ cursor \in Nat /\ cursor < Len(newQueue)
        BY <1>0, <1>5 DEF ProcessNew, Shape
    <3>2. o \in Waiting
        BY <3>1, SuffixNext DEF Waiting, Unprocessed
    <3> HIDE DEF o, r
    <3> QED BY <1>00, <2>1, <3>2 DEF OthersInOrder, Awaited, OrdersIn
  <2> HIDE DEF r, w, b
  <2>4. size <= w + Len(retryQueue) + b + Cardinality(pending) + FinishedCount
      BY DEF SizeAtMost, w, b
  <2>5. size <= w' + Len(retryQueue') + b' + Cardinality(pending') + FinishedCount'
    <3>1. \A z, v, c, v1, c1 \in Int :
             z <= v + Len(retryQueue) + c + Cardinality(pending) + FinishedCount
               /\ v1 + c1 = v + c - 1
               => z <= v1 + Len(retryQueue') + c1 + Cardinality(pending') + FinishedCount'
        BY <2>1, <2>3, AttemptAdds
    <3>2. /\ size \in Int /\ w \in Int /\ b \in Int /\ w' \in Int /\ b' \in Int
          /\ w' + b' = w + b - 1
        BY <1>0, <2>2
    <3> QED BY <2>4, <3>1, <3>2
  <2> QED BY <2>2, <2>5 DEF SizeAtMost, w, b
<1>6. CASE NewProcessed
  <2>1. Len(newQueue') = Len(newQueue) - cursor /\ cursor' = 0
      BY <1>6, UnprocessedFacts DEF NewProcessed
  <2>2. FinishedCount' = FinishedCount
      BY <1>6 DEF NewProcessed, finishedVars, FinishedCount
  <2> QED BY <1>0, <1>6, <2>1, <2>2 DEF SizeAtMost, NewProcessed, promiseVars
<1>7. CASE GetFinishedOrders
  <2>1. size' = size - FinishedCount /\ FinishedCount' = 0
      BY <1>7, EmptyRange DEF GetFinishedOrders, FinishedCount
  <2> QED BY <1>0, <1>7, <2>1 DEF SizeAtMost, GetFinishedOrders, promiseVars
<1>8. CASE CountDown
  <2>1. Len(retryQueue') = Len(retryQueue)
    <3>1. DOMAIN retryQueue' = 1..Len(retryQueue)
        BY <1>8, RetryEntries DEF CountDown
    <3>2. retryQueue' = [j \in 1..Len(retryQueue) |-> Aged(retryQueue[j])]
        BY <1>8, RetryEntries DEF CountDown
    <3>3. \A j \in 1..Len(retryQueue) : Aged(retryQueue[j]) \in ProcessOrder
        BY RetryEntries, RecordFacts
    <3>4. retryQueue' \in Seq(ProcessOrder)
        BY <1>0, <3>2, <3>3, SeqDef
    <3> QED BY <1>0, <3>1, <3>4, LenProperties
  <2>2. UNCHANGED <<size, newQueue, cursor, retryOrders, pending>>
        /\ FinishedCount' = FinishedCount
      BY <1>8 DEF CountDown, finishedVars, callVars, promiseVars, FinishedCount
  <2> QED BY <2>1, <2>2 DEF SizeAtMost
<1>9. CASE UNCHANGED <<size, retryQueue, completed, skipped, rejected,
                       newQueue, cursor, retryOrders, pending>>
  BY <1>9 DEF SizeAtMost, FinishedCount
<1> QED BY <1>1, <1>2, <1>3, <1>4, <1>5, <1>6, <1>7, <1>8, <1>9
        DEF Next, Loop, NothingToProcess, RetriesProcessed, BeginNew, ReleasePending,
            vars, finishedVars, callVars, promiseVars

\* `size` counts every order from addOrders until getFinishedOrders hands it back: the
\* decrement of getFinishedOrders, which only sees lengths, is the number of orders that
\* leave, because no order is in two places.
THEOREM SizeIsExact == Spec => []SizeAccountsForOrders
<1>1. Init => SizeAtMost
  <2> SUFFICES ASSUME Init PROVE SizeAtMost
      OBVIOUS
  <2>1. Cardinality({}) = 0 /\ Len(<<>>) = 0
      BY FS_EmptySet, EmptyRange
  <2> QED BY <2>1 DEF Init, SizeAtMost, FinishedCount
<1>2. Shape /\ EachOrderInOnePlace /\ SizeAtMost /\ [Next]_vars => SizeAtMost'
    BY SizeStep, QueueAssumption
<1>3. Shape /\ Counters /\ SizeAtMost => SizeAccountsForOrders
  <2> SUFFICES ASSUME Shape, Counters, SizeAtMost PROVE SizeAccountsForOrders
      OBVIOUS
  <2> DEFINE a == (Len(newQueue) - cursor) + Len(retryQueue) + Len(retryOrders)
                    + Cardinality(pending)
  <2>1. /\ a \in Int /\ size \in Int
        /\ Len(completed) \in Int /\ Len(skipped) \in Int /\ Len(rejected) \in Int
      BY Lengths
  <2>2. size >= a + (Len(completed) + Len(skipped) + Len(rejected))
      BY DEF Counters, FinishedCount
  <2>3. size <= a + (Len(completed) + Len(skipped) + Len(rejected))
      BY DEF SizeAtMost, FinishedCount
  <2> HIDE DEF a
  <2>4. size = a + Len(completed) + Len(skipped) + Len(rejected)
      BY <2>1, <2>2, <2>3, SizeRegroup
  <2> QED BY <2>4 DEF SizeAccountsForOrders, a
<1> QED BY <1>1, <1>2, <1>3, ShapeInvariant, CountersInvariant, OrdersInOnePlace, PTL DEF Spec
=============================================================================
