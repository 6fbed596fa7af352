-------------------------- MODULE OrderLedger_proofs --------------------------
(***************************************************************************)
(* ProcessingQueue implements OrderLedger: every step of the queue is a    *)
(* step of the ledger, or leaves the ledger as it is, under the refinement *)
(* mapping that ProcessingQueue states.  The mapping reads its orders from *)
(* four places of the queue, so the proof rests on the invariants that     *)
(* ProcessingQueue_proofs establishes: an order is in one place, its tries *)
(* are bounded, and no counter is below what it counts.                    *)
(***************************************************************************)
EXTENDS ProcessingQueue_proofs

-----------------------------------------------------------------------------
(* The mapped variables.                                                   *)

\* The ledger's attempts, for any set of records, and its outcomes.
AttemptsOf(U) == [o \in OrdersIn(U) |-> (CHOOSE r \in U : r.order = o).retryCount + 1]
OutcomesOf(c, s, f) ==
    [o \in f |-> IF o \in c THEN "completed" ELSE IF o \in s THEN "skipped" ELSE "rejected"]

waitingBar == IF pc = "handle" THEN Tail(Unprocessed) ELSE Unprocessed
attemptsBar == AttemptsOf(UnderWayRecords)
outcomeBar == OutcomesOf(Range(completed), Range(skipped), Finished)
ledgerBar == <<waitingBar, attemptsBar, outcomeBar>>

OneRecord(U) == \A r, q \in U : r.order = q.order => r = q

\* The record of the order whose first attempt is being awaited.
Handled == IF pc = "handle" THEN {NewOrder(newQueue[cursor + 1])} ELSE {}

\* Every record of V stands for one of U with the same order and the same count.
SameCounts(V, U) ==
    \A q \in V : \E r \in U : r.order = q.order /\ r.retryCount = q.retryCount

LEMMA AttemptsFacts ==
    ASSUME NEW U, OneRecord(U)
    PROVE  /\ DOMAIN AttemptsOf(U) = OrdersIn(U)
           /\ \A r \in U : r.order \in OrdersIn(U) /\ AttemptsOf(U)[r.order] = r.retryCount + 1
<1>1. DOMAIN AttemptsOf(U) = OrdersIn(U)
    BY DEF AttemptsOf
<1>2. ASSUME NEW r \in U
      PROVE  r.order \in OrdersIn(U) /\ AttemptsOf(U)[r.order] = r.retryCount + 1
  <2>1. r.order \in OrdersIn(U)
      BY DEF OrdersIn
  <2>2. (CHOOSE q \in U : q.order = r.order) = r
      BY DEF OneRecord
  <2> QED BY <2>1, <2>2 DEF AttemptsOf
<1> QED BY <1>1, <1>2

\* What AttemptsOf says of an order depends on the count of its record alone.
LEMMA AttemptsAgree ==
    ASSUME NEW U, NEW V, OneRecord(U), OneRecord(V), SameCounts(V, U)
    PROVE  /\ OrdersIn(V) \subseteq OrdersIn(U)
           /\ AttemptsOf(V) = [o \in OrdersIn(V) |-> AttemptsOf(U)[o]]
<1>1. ASSUME NEW o \in OrdersIn(V)
      PROVE  o \in OrdersIn(U) /\ AttemptsOf(V)[o] = AttemptsOf(U)[o]
  <2>1. PICK q \in V : o = q.order
      BY DEF OrdersIn
  <2>2. PICK r \in U : r.order = q.order /\ r.retryCount = q.retryCount
      BY DEF SameCounts
  <2>3. AttemptsOf(V)[o] = q.retryCount + 1
      BY <2>1, AttemptsFacts
  <2>4. o \in OrdersIn(U) /\ AttemptsOf(U)[o] = r.retryCount + 1
      BY <2>1, <2>2, AttemptsFacts
  <2> QED BY <2>2, <2>3, <2>4
<1>2. AttemptsOf(V) = [o \in OrdersIn(V) |-> AttemptsOf(V)[o]]
    BY DEF AttemptsOf
<1> QED BY <1>1, <1>2

\* The ledger counts its orders with the Cardinality of its own copy of FiniteSets.
LEMMA SameCardinality ==
    ASSUME NEW S
    PROVE  Ledger!Cardinality(S) = Cardinality(S)
BY DEF Ledger!Cardinality, Cardinality

LEMMA RangeSize ==
    ASSUME NEW S, NEW s \in Seq(S)
    PROVE  IsFiniteSet(Range(s)) /\ Cardinality(Range(s)) <= Len(s)
<1>1. Len(s) \in Nat /\ DOMAIN s = 1..Len(s)
    BY LenProperties
<1>2. IsFiniteSet(1..Len(s)) /\ Cardinality(1..Len(s)) = Len(s)
    BY <1>1, FS_Interval
<1>3. Range(s) = {s[i] : i \in 1..Len(s)}
    BY <1>1 DEF Range
<1>4. [i \in 1..Len(s) |-> s[i]] \in Surjection(1..Len(s), Range(s))
    BY <1>3 DEF Surjection
<1> QED BY <1>2, <1>4, FS_Surjection

LEMMA OrdersSize ==
    ASSUME NEW U, IsFiniteSet(U)
    PROVE  IsFiniteSet(OrdersIn(U)) /\ Cardinality(OrdersIn(U)) <= Cardinality(U)
<1>1. [r \in U |-> r.order] \in Surjection(U, OrdersIn(U))
    BY DEF Surjection, OrdersIn
<1> QED BY <1>1, FS_Surjection

LEMMA DistinctRange ==
    ASSUME NEW s, DistinctOrders(s)
    PROVE  OneRecord(Range(s))
BY DEF DistinctOrders, OneRecord, Range

LEMMA RecordsOf ==
    UnderWayRecords = Range(retryQueue) \cup Range(retryOrders) \cup pending \cup Handled
BY DEF UnderWayRecords, Handled

\* What is left behind the first of the unprocessed orders.
LEMMA SuffixTail ==
    ASSUME NEW S, NEW s \in Seq(S), NEW c \in Nat, c < Len(s)
    PROVE  SubSeq(s, (c + 1) + 1, Len(s)) = Tail(SubSeq(s, c + 1, Len(s)))
<1>1. Len(s) \in Nat
    BY LenProperties
<1>2. c + 1 \in 1..Len(s) /\ Len(s) \in (c + 1)..Len(s)
    BY <1>1
<1> QED BY <1>2, HeadTailOfSubSeq

LEMMA AllUnprocessed ==
    ASSUME Shape, cursor = 0
    PROVE  Unprocessed = newQueue
BY SubSeqFull DEF Shape, Unprocessed

\* The order being handled is the first of the unprocessed ones.
LEMMA HandledFirst ==
    ASSUME Shape, QueueAssumption, cursor < Len(newQueue)
    PROVE  /\ Unprocessed \in Seq(Orders) /\ Unprocessed # <<>>
           /\ Head(Unprocessed) = newQueue[cursor + 1]
           /\ NewOrder(newQueue[cursor + 1]) \in ProcessOrder
           /\ NewOrder(newQueue[cursor + 1]).order = Head(Unprocessed)
           /\ NewOrder(newQueue[cursor + 1]).retryCount = 0
<1>1. /\ Unprocessed \in Seq(Orders) /\ Len(Unprocessed) = Len(newQueue) - cursor
      /\ \A j \in 1..Len(Unprocessed) : Unprocessed[j] = newQueue[cursor + j]
    BY UnprocessedFacts
<1>2. Len(newQueue) \in Nat /\ cursor \in Nat
    BY Lengths
<1>3. 1 \in 1..Len(Unprocessed) /\ Unprocessed # <<>>
    BY <1>1, <1>2, EmptyRange
<1>4. Head(Unprocessed) = Unprocessed[1] /\ Head(Unprocessed) \in Orders
    BY <1>1, <1>3, TailRange
<1>5. Head(Unprocessed) = newQueue[cursor + 1]
    BY <1>1, <1>3, <1>4
<1> QED BY <1>1, <1>3, <1>4, <1>5 DEF NewOrder, ProcessOrder, QueueAssumption

\* Under EachOrderInOnePlace an order under way has one record, and no finished or waiting
\* order has one.
LEMMA RecordPlaces ==
    ASSUME Shape, QueueAssumption, EachOrderInOnePlace
    PROVE  /\ OneRecord(UnderWayRecords)
           /\ UnderWayRecords \subseteq ProcessOrder
           /\ OrdersIn(UnderWayRecords) \cap Finished = {}
           /\ OrdersIn(UnderWayRecords) \cap Range(waitingBar) = {}
<1>1. /\ OneRecord(Range(retryQueue)) /\ OneRecord(Range(retryOrders)) /\ OneRecord(pending)
    BY DistinctRange DEF EachOrderInOnePlace, OneRecord
<1>2. /\ Range(retryQueue) \subseteq ProcessOrder /\ Range(retryOrders) \subseteq ProcessOrder
      /\ pending \subseteq ProcessOrder
    BY RetryEntries, LenProperties, ElementOfSeq DEF Shape, Range
<1>3. CASE pc # "handle"
  <2>1. Handled = {} /\ waitingBar = Unprocessed
      BY <1>3 DEF Handled, waitingBar
  <2> QED BY <1>1, <1>2, <2>1, RecordsOf DEF EachOrderInOnePlace, OneRecord, OrdersIn
<1>4. CASE pc = "handle"
  <2> DEFINE n == NewOrder(newQueue[cursor + 1])
  <2>1. cursor < Len(newQueue)
      BY <1>4 DEF Shape
  <2>2. /\ Handled = {n} /\ n \in ProcessOrder /\ n.order = Head(Unprocessed)
        /\ waitingBar = Tail(Unprocessed)
        /\ Unprocessed \in Seq(Orders) /\ Unprocessed # <<>>
      BY <1>4, <2>1, HandledFirst DEF Handled, waitingBar
  <2> HIDE DEF n
  <2>3. /\ Range(Unprocessed) = Range(waitingBar) \cup {n.order}
        /\ n.order \notin Range(waitingBar)
      BY <2>2, TailRange DEF EachOrderInOnePlace
  <2>4. /\ n.order \in Range(Unprocessed)
        /\ \A r \in Range(retryQueue) \cup Range(retryOrders) \cup pending :
              r.order # n.order /\ r.order \notin Range(waitingBar)
      BY <2>3 DEF EachOrderInOnePlace, OrdersIn
  <2>5. n.order \notin Finished
      BY <2>4 DEF EachOrderInOnePlace
  <2>6. UnderWayRecords = Range(retryQueue) \cup Range(retryOrders) \cup pending \cup {n}
      BY <2>2, RecordsOf
  <2>7. OneRecord(UnderWayRecords)
    <3>1. \A r \in Range(retryQueue), q \in Range(retryOrders) \cup pending :
              r.order # q.order
        BY DEF EachOrderInOnePlace, OrdersIn
    <3>2. \A r \in Range(retryOrders), q \in pending : r.order # q.order
        BY DEF EachOrderInOnePlace, OrdersIn
    <3> QED BY <1>1, <2>4, <2>6, <3>1, <3>2 DEF OneRecord
  <2>8. OrdersIn(UnderWayRecords) \cap Finished = {}
      BY <2>5, <2>6 DEF EachOrderInOnePlace, OrdersIn
  <2>9. OrdersIn(UnderWayRecords) \cap Range(waitingBar) = {}
      BY <2>3, <2>4, <2>6 DEF OrdersIn
  <2> QED BY <1>2, <2>2, <2>6, <2>7, <2>8, <2>9
<1> QED BY <1>3, <1>4

-----------------------------------------------------------------------------
(* An order that is finished.                                              *)

\* The outcome that a push records.
FinishesAs(r, how) ==
    \/ how = "completed" /\ PushCompleted(r)
    \/ how = "skipped" /\ PushSkipped(r)
    \/ how = "rejected" /\ PushRejected(r) /\ r.retryCount >= MaxTries - 1

LEMMA OutcomeRecorded ==
    ASSUME Shape, QueueAssumption, NEW r \in ProcessOrder, NEW how, FinishesAs(r, how),
           r.order \notin Finished
    PROVE  /\ outcomeBar' = [p \in DOMAIN outcomeBar \cup {r.order} |->
                                IF p = r.order THEN how ELSE outcomeBar[p]]
           /\ retryQueue' = retryQueue
<1>0. /\ completed \in Seq(Orders) /\ skipped \in Seq(Orders) /\ rejected \in Seq(Orders)
      /\ r.order \in Orders
    BY RecordFacts DEF Shape
<1>1. DOMAIN outcomeBar = Finished
    BY DEF outcomeBar, OutcomesOf
<1>2. /\ retryQueue' = retryQueue
      /\ Range(completed') = IF how = "completed" THEN Range(completed) \cup {r.order}
                             ELSE Range(completed)
      /\ Range(skipped') = IF how = "skipped" THEN Range(skipped) \cup {r.order}
                           ELSE Range(skipped)
      /\ Range(rejected') = IF how = "rejected" THEN Range(rejected) \cup {r.order}
                            ELSE Range(rejected)
      /\ how \in {"completed", "skipped", "rejected"}
  <2>1. CASE how = "completed" /\ PushCompleted(r)
      BY <1>0, <2>1, AppendRange DEF PushCompleted
  <2>2. CASE how = "skipped" /\ PushSkipped(r)
      BY <1>0, <2>2, AppendRange DEF PushSkipped
  <2>3. CASE how = "rejected" /\ PushRejected(r)
      BY <1>0, <2>3, AppendRange DEF PushRejected
  <2> QED BY <2>1, <2>2, <2>3 DEF FinishesAs
<1>3. Finished' = Finished \cup {r.order}
    BY <1>2 DEF Finished
<1>4. \A p \in Finished' :
         (IF p \in Range(completed') THEN "completed"
          ELSE IF p \in Range(skipped') THEN "skipped" ELSE "rejected")
         = IF p = r.order THEN how ELSE outcomeBar[p]
  <2> SUFFICES ASSUME NEW p \in Finished'
               PROVE  (IF p \in Range(completed') THEN "completed"
                       ELSE IF p \in Range(skipped') THEN "skipped" ELSE "rejected")
                      = IF p = r.order THEN how ELSE outcomeBar[p]
      OBVIOUS
  <2>1. CASE p = r.order
      BY <1>2, <2>1 DEF Finished
  <2>2. CASE p # r.order
    <3>1. p \in Finished
        BY <1>3, <2>2
    <3>2. outcomeBar[p] = IF p \in Range(completed) THEN "completed"
                          ELSE IF p \in Range(skipped) THEN "skipped" ELSE "rejected"
        BY <3>1 DEF outcomeBar, OutcomesOf
    <3> QED BY <1>2, <2>2, <3>2
  <2> QED BY <2>1, <2>2
<1> QED BY <1>1, <1>2, <1>3, <1>4 DEF outcomeBar, OutcomesOf

LEMMA OutcomeKept ==
    ASSUME UNCHANGED <<completed, skipped, rejected>>
    PROVE  outcomeBar' = outcomeBar
BY DEF outcomeBar, OutcomesOf, Finished

LEMMA WaitingKept ==
    ASSUME UNCHANGED <<newQueue, cursor, pc>>
    PROVE  waitingBar' = waitingBar /\ Handled' = Handled
BY DEF waitingBar, Unprocessed, Handled

\* What an attempt, or the completion of one, does to the order of the record r.
LEMMA AttemptEnds ==
    ASSUME NEW r,
           HandleOrderError(r) \/ HandleOrderSuccess(r) \/ PushSkipped(r)
    PROVE  AddOrderToRetryQueue(r) \/ \E how \in Ledger!Outcomes : FinishesAs(r, how)
BY DEF HandleOrderError, HandleOrderSuccess, FinishesAs, Ledger!Outcomes

-----------------------------------------------------------------------------
(* Steps of the ledger.                                                    *)

\* The records before and after an attempt of r, or its completion: r is replaced by X.
Replaced(r, X) ==
    \E rest : /\ UnderWayRecords = rest \cup {r}
              /\ r.order \notin OrdersIn(rest)
              /\ UnderWayRecords' = rest \cup X

\* An order that stays under way with its count leaves the ledger as it is.
LEMMA ReplacedByItself ==
    ASSUME OneRecord(UnderWayRecords), OneRecord(UnderWayRecords'), NEW r, NEW q,
           Replaced(r, {q}), q.order = r.order, q.retryCount = r.retryCount
    PROVE  attemptsBar' = attemptsBar
<1> DEFINE U == UnderWayRecords
           V == UnderWayRecords'
<1> PICK rest : U = rest \cup {r} /\ V = rest \cup {q}
    BY DEF Replaced
<1>1. SameCounts(V, U) /\ OrdersIn(V) = OrdersIn(U)
    BY DEF SameCounts, OrdersIn
<1> HIDE DEF U, V
<1>2. OneRecord(U) /\ OneRecord(V)
    BY DEF U, V
<1>3. AttemptsOf(V) = [o \in OrdersIn(U) |-> AttemptsOf(U)[o]]
    BY <1>1, <1>2, AttemptsAgree
<1>4. AttemptsOf(U) = [o \in OrdersIn(U) |-> AttemptsOf(U)[o]]
    BY DEF AttemptsOf
<1> QED BY <1>3, <1>4 DEF attemptsBar, U, V

\* An order that is finished leaves the attempts.
LEMMA ReplacedByNothing ==
    ASSUME OneRecord(UnderWayRecords), OneRecord(UnderWayRecords'), NEW r, Replaced(r, {})
    PROVE  /\ attemptsBar' = [p \in DOMAIN attemptsBar \ {r.order} |-> attemptsBar[p]]
           /\ r.order \in DOMAIN attemptsBar
           /\ attemptsBar[r.order] = r.retryCount + 1
<1> DEFINE U == UnderWayRecords
           V == UnderWayRecords'
<1> PICK rest : U = rest \cup {r} /\ V = rest /\ r.order \notin OrdersIn(rest)
    BY DEF Replaced
<1>1. OrdersIn(V) = OrdersIn(U) \ {r.order} /\ r \in U
    BY DEF OrdersIn
<1>0. SameCounts(V, U)
    BY DEF SameCounts
<1> HIDE DEF U, V
<1>2. OneRecord(U) /\ OneRecord(V)
    BY DEF U, V
<1>3. AttemptsOf(V) = [o \in OrdersIn(V) |-> AttemptsOf(U)[o]]
    BY <1>0, <1>2, AttemptsAgree
<1>4. DOMAIN AttemptsOf(U) = OrdersIn(U)
    BY <1>2, AttemptsFacts
<1>5. r.order \in OrdersIn(U) /\ AttemptsOf(U)[r.order] = r.retryCount + 1
    BY <1>1, <1>2, AttemptsFacts
<1> QED BY <1>1, <1>3, <1>4, <1>5 DEF attemptsBar, U, V

\* The invariants the refinement rests on.
QueueInv ==
    /\ Shape /\ TriesRespected /\ EachOrderInOnePlace /\ Counters
    /\ OneRecord(UnderWayRecords)

LEMMA QueueInvariant == Spec => []QueueInv
<1>1. Shape /\ TriesRespected /\ EachOrderInOnePlace /\ Counters => QueueInv
    BY RecordPlaces, QueueAssumption DEF QueueInv
<1> QED BY <1>1, ShapeInvariant, TriesAreBounded, OrdersInOnePlace, CountersInvariant, PTL

\* A finished order: only one that has used up its tries is rejected.
LEMMA FinishStep ==
    ASSUME QueueInv, QueueInv', QueueAssumption,
           NEW r \in ProcessOrder, r.retryCount < MaxTries, r.order \notin Finished,
           NEW how \in Ledger!Outcomes, FinishesAs(r, how),
           Replaced(r, {}), waitingBar' = waitingBar
    PROVE  Ledger!Next
<1>1. OneRecord(UnderWayRecords) /\ OneRecord(UnderWayRecords')
    BY DEF QueueInv
<1>2. /\ attemptsBar' = [p \in DOMAIN attemptsBar \ {r.order} |-> attemptsBar[p]]
      /\ r.order \in DOMAIN attemptsBar
      /\ attemptsBar[r.order] = r.retryCount + 1
    BY <1>1, ReplacedByNothing
<1>3. outcomeBar' = [p \in DOMAIN outcomeBar \cup {r.order} |->
                        IF p = r.order THEN how ELSE outcomeBar[p]]
    BY OutcomeRecorded DEF QueueInv
<1>4. how = "rejected" => r.retryCount + 1 = MaxTries
    BY RecordFacts DEF FinishesAs, QueueAssumption
<1>5. Ledger!Finish(r.order, how)
    BY <1>2, <1>3, <1>4
       DEF Ledger!Finish, waitingBar, attemptsBar, AttemptsOf, outcomeBar, OutcomesOf
<1>6. r.order \in DOMAIN attemptsBar
    BY <1>2
<1> QED BY <1>5, <1>6 DEF Ledger!Next, attemptsBar, AttemptsOf

\* The order of r, which is under way, is attempted or its attempt is completed: it is
\* finished, or it stays with its count.
LEMMA AttemptStep ==
    ASSUME QueueInv, QueueInv', QueueAssumption,
           NEW r \in ProcessOrder, r.retryCount < MaxTries, r.order \notin Finished,
           HandleOrderError(r) \/ HandleOrderSuccess(r) \/ PushSkipped(r),
           retryQueue' = retryQueue => Replaced(r, {}),
           AddOrderToRetryQueue(r) => Replaced(r, {Postponed(r)}),
           waitingBar' = waitingBar
    PROVE  Ledger!Next \/ UNCHANGED ledgerBar
<1>1. CASE AddOrderToRetryQueue(r)
  <2>1. Postponed(r).order = r.order /\ Postponed(r).retryCount = r.retryCount
      BY RecordFacts
  <2>2. attemptsBar' = attemptsBar
      BY <1>1, <2>1, ReplacedByItself DEF QueueInv
  <2>3. outcomeBar' = outcomeBar
      BY <1>1, OutcomeKept DEF AddOrderToRetryQueue, finishedVars
  <2> QED BY <2>2, <2>3 DEF ledgerBar
<1>2. ASSUME NEW how \in Ledger!Outcomes, FinishesAs(r, how)
      PROVE  Ledger!Next
  <2>1. retryQueue' = retryQueue
      BY <1>2, OutcomeRecorded DEF QueueInv
  <2> QED BY <1>2, <2>1, FinishStep
<1> QED BY <1>1, <1>2, AttemptEnds

LEMMA QueuedRecords ==
    ASSUME Shape, QueueAssumption, NEW r \in ProcessOrder
    PROVE  AddOrderToRetryQueue(r) => Range(retryQueue') = Range(retryQueue) \cup {Postponed(r)}
<1>1. Postponed(r) \in ProcessOrder
    BY RecordFacts
<1> QED BY <1>1, AppendRange DEF Shape, AddOrderToRetryQueue

\* The three steps that attempt an order take its record from its place and put it where
\* the attempt leaves it.
LEMMA SettleStep ==
    ASSUME QueueInv, QueueInv', QueueAssumption, NEW o \in Orders, Settle(o)
    PROVE  Ledger!Next \/ UNCHANGED ledgerBar
<1> PICK r \in pending : /\ pending' = pending \ {r}
                         /\ HandleOrderSuccess(r) \/ HandleOrderError(r)
    BY DEF Settle
<1> DEFINE rest == Range(retryQueue) \cup Range(retryOrders) \cup (pending \ {r}) \cup Handled
<1>1. r \in ProcessOrder /\ r.retryCount < MaxTries
    BY DEF QueueInv, Shape, TriesRespected
<1>2. UNCHANGED <<newQueue, cursor, pc, retryOrders>>
    BY DEF Settle, callVars
<1>3. waitingBar' = waitingBar /\ Handled' = Handled
    BY <1>2, WaitingKept
<1>4. r.order \notin Finished /\ r \in UnderWayRecords
  <2>1. r \in UnderWayRecords BY RecordsOf
  <2>2. r.order \in OrdersIn(UnderWayRecords) BY <2>1 DEF OrdersIn
  <2> QED BY <2>1, <2>2, RecordPlaces DEF QueueInv
<1>5. UnderWayRecords = rest \cup {r}
    BY RecordsOf
<1>6. r.order \notin OrdersIn(rest)
  <2>1. r \notin Range(retryQueue) \cup Range(retryOrders) \cup (pending \ {r})
      BY DEF QueueInv, EachOrderInOnePlace, OrdersIn
  <2>2. r \notin Handled
    <3>1. CASE pc # "handle" BY <3>1 DEF Handled
    <3>2. CASE pc = "handle"
      <4>1. cursor < Len(newQueue)
          BY <3>2 DEF QueueInv, Shape
      <4>2. NewOrder(newQueue[cursor + 1]).order \in Range(Unprocessed)
          BY <4>1, HandledFirst, TailRange DEF QueueInv
      <4> QED BY <3>2, <4>2 DEF Handled, QueueInv, EachOrderInOnePlace, OrdersIn
    <3> QED BY <3>1, <3>2
  <2> QED BY <1>5, <2>1, <2>2 DEF QueueInv, OneRecord, OrdersIn
<1>7. retryQueue' = retryQueue => Replaced(r, {})
  <2>1. retryQueue' = retryQueue => UnderWayRecords' = rest
      BY <1>2, <1>3 DEF UnderWayRecords, Handled
  <2> QED BY <1>5, <1>6, <2>1 DEF Replaced
<1>8. AddOrderToRetryQueue(r) => Replaced(r, {Postponed(r)})
  <2>1. AddOrderToRetryQueue(r) => UnderWayRecords' = rest \cup {Postponed(r)}
      BY <1>1, <1>2, <1>3, QueuedRecords DEF UnderWayRecords, Handled, QueueInv
  <2> QED BY <1>5, <1>6, <2>1 DEF Replaced
<1> QED BY <1>1, <1>3, <1>4, <1>7, <1>8, AttemptStep

\* An attempt of r by the loop, whose record the step takes away from rest \cup {r}: what
\* AttemptStep and an awaited result need.
LEMMA LoopAttemptStep ==
    ASSUME QueueInv, QueueInv', QueueAssumption,
           NEW r \in ProcessOrder, Attempt(r), r.retryCount < MaxTries,
           NEW rest, UnderWayRecords = rest \cup {r}, r.order \notin OrdersIn(rest),
           Range(retryQueue) \cup pending \subseteq rest,
           UnderWayRecords' = (rest \ (Range(retryQueue) \cup pending))
                                \cup Range(retryQueue') \cup pending',
           waitingBar' = waitingBar
    PROVE  Ledger!Next \/ UNCHANGED ledgerBar
<1>1. r.order \notin Finished
  <2>1. r.order \in OrdersIn(UnderWayRecords) BY DEF OrdersIn
  <2> QED BY <2>1, RecordPlaces DEF QueueInv
<1>2. CASE /\ HandleOrderError(r) \/ PushSkipped(r)
           /\ pending' = pending
  <2>1. retryQueue' = retryQueue => Replaced(r, {})
    <3>1. retryQueue' = retryQueue => UnderWayRecords' = rest
        BY <1>2
    <3> QED BY <3>1 DEF Replaced
  <2>2. AddOrderToRetryQueue(r) => Replaced(r, {Postponed(r)})
    <3>1. AddOrderToRetryQueue(r) => UnderWayRecords' = rest \cup {Postponed(r)}
        BY <1>2, QueuedRecords DEF QueueInv
    <3> QED BY <3>1 DEF Replaced
  <2> QED BY <1>1, <1>2, <2>1, <2>2, AttemptStep
<1>3. CASE AwaitResult(r)
  <2>1. pending' = pending \cup {r} /\ UNCHANGED <<retryQueue, completed, skipped, rejected>>
      BY <1>3 DEF AwaitResult, finishedVars
  <2>2. UnderWayRecords' = rest \cup {r}
      BY <2>1
  <2>3. attemptsBar' = attemptsBar
      BY <2>2 DEF attemptsBar
  <2>4. outcomeBar' = outcomeBar
      BY <2>1, OutcomeKept
  <2> QED BY <2>3, <2>4 DEF ledgerBar
<1> QED BY <1>2, <1>3 DEF Attempt

LEMMA RetryAttemptStep ==
    ASSUME QueueInv, QueueInv', QueueAssumption, ProcessRetry
    PROVE  Ledger!Next \/ UNCHANGED ledgerBar
<1> DEFINE r == Head(retryOrders)
           left == Range(Tail(retryOrders))
           rest == Range(retryQueue) \cup pending \cup left
<1>1. /\ r \in ProcessOrder /\ Range(retryOrders) = left \cup {r}
      /\ r.order \notin OrdersIn(left)
    BY TailRange, TailDistinct DEF ProcessRetry, QueueInv, Shape, EachOrderInOnePlace
<1>2. /\ pc = "retries" /\ Handled = {} /\ Handled' = {} /\ retryOrders' = Tail(retryOrders)
      /\ Attempt(r) /\ UNCHANGED <<newQueue, cursor, pc>>
    BY DEF ProcessRetry, Handled
<1>3. r.retryCount < MaxTries
    BY <1>1 DEF QueueInv, TriesRespected
<1> HIDE DEF r, left
<1>4. UnderWayRecords = rest \cup {r}
    BY <1>1, <1>2, RecordsOf
<1>5. r.order \notin OrdersIn(rest)
  <2>1. r.order \in OrdersIn(Range(retryOrders))
      BY <1>1 DEF OrdersIn
  <2>2. r.order \notin OrdersIn(Range(retryQueue)) \cup OrdersIn(pending)
      BY <2>1 DEF QueueInv, EachOrderInOnePlace
  <2> QED BY <1>1, <2>2 DEF OrdersIn
<1>6. UnderWayRecords' = left \cup Range(retryQueue') \cup pending'
    BY <1>2 DEF UnderWayRecords, Handled, left
<1>7. rest \ (Range(retryQueue) \cup pending) = left
  <2>1. \A q \in left : q \notin Range(retryQueue) \cup pending
    <3>1. \A q \in left : q.order \in OrdersIn(Range(retryOrders))
        BY <1>1 DEF OrdersIn
    <3> QED BY <3>1 DEF QueueInv, EachOrderInOnePlace, OrdersIn
  <2> QED BY <2>1
<1>8. waitingBar' = waitingBar
    BY <1>2, WaitingKept
<1>9. UnderWayRecords' = (rest \ (Range(retryQueue) \cup pending))
                           \cup Range(retryQueue') \cup pending'
    BY <1>6, <1>7
<1>10. Range(retryQueue) \cup pending \subseteq rest
    OBVIOUS
<1> HIDE DEF rest
<1> QED BY <1>1, <1>2, <1>3, <1>4, <1>5, <1>8, <1>9, <1>10, LoopAttemptStep

LEMMA NewAttemptStep ==
    ASSUME QueueInv, QueueInv', QueueAssumption, ProcessNew
    PROVE  Ledger!Next \/ UNCHANGED ledgerBar
<1> DEFINE r == NewOrder(newQueue[cursor + 1])
           rest == Range(retryQueue) \cup pending
<1>1. /\ pc = "handle" /\ pc' = "new" /\ cursor' = cursor + 1 /\ newQueue' = newQueue
      /\ retryOrders' = retryOrders /\ Attempt(r) /\ cursor < Len(newQueue)
      /\ Range(retryOrders) = {} /\ Range(retryOrders') = {}
    BY EmptyRange DEF ProcessNew, QueueInv, Shape
<1>2. /\ Unprocessed \in Seq(Orders) /\ Unprocessed # <<>>
      /\ r \in ProcessOrder /\ r.order = Head(Unprocessed) /\ r.retryCount = 0
    BY <1>1, HandledFirst DEF QueueInv
<1>3. r.retryCount < MaxTries
    BY <1>2 DEF QueueAssumption
<1>4. Handled = {r} /\ Handled' = {}
    BY <1>1 DEF Handled
<1> HIDE DEF r
<1>5. UnderWayRecords = rest \cup {r}
    BY <1>1, <1>4, RecordsOf
<1>6. r.order \notin OrdersIn(rest)
  <2>1. r.order \in Range(Unprocessed)
      BY <1>2, TailRange
  <2> QED BY <2>1 DEF QueueInv, EachOrderInOnePlace, OrdersIn
<1>7. UnderWayRecords' = Range(retryQueue') \cup pending'
    BY <1>1, <1>4 DEF UnderWayRecords, Handled
<1>8. waitingBar' = waitingBar
  <2>1. Unprocessed' = Tail(Unprocessed)
    <3>1. newQueue \in Seq(Orders) /\ cursor \in Nat /\ cursor < Len(newQueue)
        BY <1>1, Lengths DEF QueueInv, Shape
    <3>2. Unprocessed' = SubSeq(newQueue, (cursor + 1) + 1, Len(newQueue))
        BY <1>1 DEF Unprocessed
    <3> QED BY <3>1, <3>2, SuffixTail DEF Unprocessed
  <2> QED BY <1>1, <2>1 DEF waitingBar
<1>9. UnderWayRecords' = (rest \ (Range(retryQueue) \cup pending))
                           \cup Range(retryQueue') \cup pending'
    BY <1>7
<1>10. Range(retryQueue) \cup pending \subseteq rest
    OBVIOUS
<1> HIDE DEF rest
<1> QED BY <1>1, <1>2, <1>3, <1>5, <1>6, <1>8, <1>9, <1>10, LoopAttemptStep

-----------------------------------------------------------------------------
(* The other steps.                                                        *)

LEMMA AddStep ==
    ASSUME QueueInv, QueueInv', QueueAssumption, NEW o \in Orders, AddOrder(o)
    PROVE  Ledger!Next \/ UNCHANGED ledgerBar
<1>1. /\ pc = "add" /\ pc' = "add" /\ cursor = 0 /\ cursor' = 0
      /\ newQueue' = Append(newQueue, o) /\ o \notin InQueue
      /\ UNCHANGED <<retryQueue, retryOrders, pending, completed, skipped, rejected>>
    BY DEF AddOrder, QueueInv, Shape, callVars, promiseVars, finishedVars
<1>2. Unprocessed = newQueue
    BY <1>1, AllUnprocessed DEF QueueInv
<1>3. Unprocessed' = newQueue'
  <2>1. newQueue' \in Seq(Orders)
      BY DEF QueueInv, Shape
  <2> QED BY <1>1, <2>1, SubSeqFull DEF Unprocessed
<1>4. waitingBar = newQueue /\ waitingBar' = Append(waitingBar, o)
    BY <1>1, <1>2, <1>3 DEF waitingBar
<1>5. UnderWayRecords' = UnderWayRecords
    BY <1>1 DEF UnderWayRecords
<1>6. attemptsBar' = attemptsBar
    BY <1>5 DEF attemptsBar
<1>7. outcomeBar' = outcomeBar
    BY <1>1, OutcomeKept
<1>8. o \notin {waitingBar[i] : i \in DOMAIN waitingBar}
    BY <1>1, <1>4 DEF InQueue, Range
<1>9. o \notin DOMAIN attemptsBar /\ o \notin DOMAIN outcomeBar
  <2>1. UnderWayRecords = Range(retryQueue) \cup Range(retryOrders) \cup pending
      BY <1>1 DEF UnderWayRecords
  <2> QED BY <1>1, <2>1 DEF attemptsBar, AttemptsOf, outcomeBar, OutcomesOf, InQueue
<1>10. Ledger!Accept(o)
    BY <1>4, <1>6, <1>7, <1>8, <1>9
       DEF Ledger!Accept, Ledger!Held, waitingBar, attemptsBar, AttemptsOf, outcomeBar,
           OutcomesOf
<1> QED BY <1>10 DEF Ledger!Next

\* The first attempt of the oldest waiting order.  The capacity that processOrders reads
\* bounds the orders of the ledger, since pendingCount is not below what is pending.
LEMMA BeginStep ==
    ASSUME QueueInv, QueueInv', QueueAssumption, BeginNew
    PROVE  Ledger!Next \/ UNCHANGED ledgerBar
<1> DEFINE r == NewOrder(newQueue[cursor + 1])
           U == UnderWayRecords
           V == UnderWayRecords'
<1>1. /\ pc = "new" /\ pc' = "handle" /\ cursor < Len(newQueue)
      /\ UNCHANGED <<newQueue, cursor, retryQueue, retryOrders, pending,
                     completed, skipped, rejected>>
      /\ pendingCount + Len(retryQueue) < MaxConcurrent
    BY DEF BeginNew, concurrentOrders, finishedVars, promiseVars
<1>2. /\ Unprocessed \in Seq(Orders) /\ Unprocessed # <<>>
      /\ r \in ProcessOrder /\ r.order = Head(Unprocessed) /\ r.retryCount = 0
    BY <1>1, HandledFirst DEF QueueInv
<1>3. Range(retryOrders) = {}
    BY <1>1, EmptyRange DEF QueueInv, Shape
<1>4. Unprocessed' = Unprocessed
    BY <1>1 DEF Unprocessed
<1>5. waitingBar = Unprocessed /\ waitingBar' = Tail(waitingBar)
    BY <1>1, <1>4 DEF waitingBar
<1>6. U = Range(retryQueue) \cup pending /\ V = U \cup {r}
    BY <1>1, <1>3 DEF UnderWayRecords
<1>7. r.order \notin OrdersIn(U)
  <2>1. r.order \in Range(waitingBar)
      BY <1>2, <1>5, TailRange
  <2> QED BY <2>1, RecordPlaces DEF QueueInv
<1>8. OneRecord(U) /\ OneRecord(V)
    BY DEF QueueInv
<1>9. outcomeBar' = outcomeBar
    BY <1>1, OutcomeKept
<1> HIDE DEF r, U, V
<1>10. /\ OrdersIn(V) = OrdersIn(U) \cup {r.order}
       /\ AttemptsOf(V)[r.order] = 1
       /\ \A o \in OrdersIn(U) : AttemptsOf(V)[o] = AttemptsOf(U)[o]
  <2>1. OrdersIn(V) = OrdersIn(U) \cup {r.order} /\ r \in V
      BY <1>6 DEF OrdersIn
  <2>2. AttemptsOf(V)[r.order] = r.retryCount + 1
      BY <1>8, <2>1, AttemptsFacts
  <2>3. SameCounts(U, V)
      BY <1>6 DEF SameCounts
  <2>4. AttemptsOf(U) = [o \in OrdersIn(U) |-> AttemptsOf(V)[o]]
      BY <1>8, <2>3, AttemptsAgree
  <2>5. \A o \in OrdersIn(U) : AttemptsOf(U)[o] = AttemptsOf(V)[o]
      BY <2>4
  <2> QED BY <1>2, <2>1, <2>2, <2>5
<1>11. AttemptsOf(V) = [o \in DOMAIN AttemptsOf(U) \cup {r.order} |->
                           IF o = r.order THEN 1 ELSE AttemptsOf(U)[o]]
  <2>1. DOMAIN AttemptsOf(U) = OrdersIn(U)
      BY DEF AttemptsOf
  <2>2. AttemptsOf(V) = [o \in OrdersIn(V) |-> AttemptsOf(V)[o]]
      BY DEF AttemptsOf
  <2>3. \A o \in OrdersIn(V) :
            AttemptsOf(V)[o] = IF o = r.order THEN 1 ELSE AttemptsOf(U)[o]
      BY <1>10
  <2> QED BY <1>10, <2>1, <2>2, <2>3
<1>12. Cardinality(DOMAIN attemptsBar) < MaxConcurrent
  <2>1. /\ IsFiniteSet(Range(retryQueue))
        /\ Cardinality(Range(retryQueue)) <= Len(retryQueue)
      BY RangeSize DEF QueueInv, Shape
  <2>2. IsFiniteSet(pending) /\ Cardinality(pending) <= pendingCount
    <3>1. pendingCount >= Cardinality(pending) + settling /\ IsFiniteSet(pending)
        BY DEF QueueInv, Shape, Counters
    <3>2. pendingCount \in Int /\ Cardinality(pending) \in Nat /\ settling \in Nat
        BY Lengths DEF QueueInv
    <3> QED BY <3>1, <3>2
  <2>3. /\ IsFiniteSet(U)
        /\ Cardinality(U) <= Cardinality(Range(retryQueue)) + Cardinality(pending)
    <3>1. Cardinality(Range(retryQueue) \cap pending) \in Nat
        BY <2>1, FS_Intersection, FS_CardinalityType
    <3>2. /\ IsFiniteSet(U)
          /\ Cardinality(U) = Cardinality(Range(retryQueue)) + Cardinality(pending)
                                - Cardinality(Range(retryQueue) \cap pending)
        BY <1>6, <2>1, <2>2, FS_Union
    <3>3. Cardinality(Range(retryQueue)) \in Nat /\ Cardinality(pending) \in Nat
        BY <2>1, <2>2, FS_CardinalityType
    <3> QED BY <3>1, <3>2, <3>3
  <2>4. IsFiniteSet(OrdersIn(U)) /\ Cardinality(OrdersIn(U)) <= Cardinality(U)
      BY <2>3, OrdersSize
  <2>5. /\ Cardinality(OrdersIn(U)) \in Nat /\ Cardinality(U) \in Nat
        /\ Cardinality(Range(retryQueue)) \in Nat /\ Cardinality(pending) \in Nat
        /\ Len(retryQueue) \in Nat /\ pendingCount \in Int /\ MaxConcurrent \in Nat
      BY <2>1, <2>2, <2>3, <2>4, FS_CardinalityType, Lengths DEF QueueInv, QueueAssumption
  <2>6. Cardinality(OrdersIn(U)) < MaxConcurrent
      BY <1>1, <2>1, <2>2, <2>3, <2>4, <2>5
  <2> QED BY <2>6 DEF attemptsBar, AttemptsOf, U
<1>13. Ledger!Begin
  <2>1. waitingBar # <<>> /\ Head(waitingBar) = r.order
      BY <1>2, <1>5
  <2>2. attemptsBar' = [o \in DOMAIN attemptsBar \cup {Head(waitingBar)} |->
                           IF o = Head(waitingBar) THEN 1 ELSE attemptsBar[o]]
      BY <1>11, <2>1 DEF attemptsBar, U, V
  <2>3. Ledger!Begin <=>
          /\ waitingBar # <<>>
          /\ Cardinality(DOMAIN attemptsBar) < MaxConcurrent
          /\ attemptsBar' = [o \in DOMAIN attemptsBar \cup {Head(waitingBar)} |->
                                IF o = Head(waitingBar) THEN 1 ELSE attemptsBar[o]]
          /\ waitingBar' = Tail(waitingBar)
          /\ UNCHANGED outcomeBar
      BY SameCardinality
         DEF Ledger!Begin, waitingBar, attemptsBar, AttemptsOf, outcomeBar, OutcomesOf
  <2> QED BY <1>5, <1>9, <1>12, <2>1, <2>2, <2>3
<1> QED BY <1>13 DEF Ledger!Next

\* The due retries of a call are attempted again: the loop has only begun to go through
\* them, but their counts are raised when they leave retryQueue.
LEMMA DueStep ==
    ASSUME QueueInv, QueueInv', QueueAssumption, ProcessOrders
    PROVE  Ledger!Next \/ UNCHANGED ledgerBar
<1> PICK k \in 0..Len(retryQueue) :
           /\ retryOrders' = [j \in 1..k |-> Retried(retryQueue[j])]
           /\ retryQueue' = SubSeq(retryQueue, k + 1, Len(retryQueue))
    BY DEF ProcessOrders
<1> DEFINE due == {retryQueue[j] : j \in 1..k}
           U == UnderWayRecords
           V == UnderWayRecords'
           rest == (Range(retryQueue) \ due) \cup pending
<1> PICK S : S = OrdersIn(due)
    OBVIOUS
<1>1. /\ pc = "add" /\ pc' = "retries"
      /\ UNCHANGED <<newQueue, cursor, pending, completed, skipped, rejected>>
    BY DEF ProcessOrders, finishedVars, promiseVars
<1>2. /\ k \in Nat /\ k <= Len(retryQueue) /\ Len(retryQueue) \in Nat
      /\ DOMAIN retryQueue = 1..Len(retryQueue)
      /\ \A j \in 1..Len(retryQueue) : retryQueue[j] \in ProcessOrder
    BY RetryEntries DEF QueueInv
<1>3. /\ due \subseteq Range(retryQueue) /\ due \subseteq ProcessOrder
      /\ Range(retryOrders') = {Retried(r) : r \in due}
  <2>1. due \subseteq Range(retryQueue) /\ due \subseteq ProcessOrder
      BY <1>2 DEF Range
  <2>2. Range(retryOrders') = {Retried(retryQueue[j]) : j \in 1..k}
    <3>1. /\ DOMAIN retryOrders' = 1..k
          /\ \A j \in 1..k : retryOrders'[j] = Retried(retryQueue[j])
        OBVIOUS
    <3> QED BY <3>1 DEF Range
  <2>3. {Retried(retryQueue[j]) : j \in 1..k} = {Retried(r) : r \in due}
      OBVIOUS
  <2> QED BY <2>1, <2>2, <2>3
<1>4. Range(retryQueue') = Range(retryQueue) \ due
  <2>1. /\ DOMAIN retryQueue' = 1..(Len(retryQueue) - k)
        /\ \A i \in 1..(Len(retryQueue) - k) : retryQueue'[i] = retryQueue[k + i]
      BY <1>2, SuffixFacts DEF QueueInv, Shape
  <2>2. ASSUME NEW i \in 1..(Len(retryQueue) - k)
        PROVE  retryQueue'[i] \in Range(retryQueue) \ due
    <3>1. k + i \in DOMAIN retryQueue /\ retryQueue'[i] = retryQueue[k + i]
        BY <1>2, <2>1
    <3>2. ASSUME NEW j \in 1..k PROVE retryQueue[k + i] # retryQueue[j]
      <4>1. j \in DOMAIN retryQueue /\ j # k + i
          BY <1>2
      <4> QED BY <3>1, <4>1 DEF QueueInv, EachOrderInOnePlace, DistinctOrders
    <3> QED BY <3>1, <3>2 DEF Range
  <2>3. ASSUME NEW j \in 1..Len(retryQueue), retryQueue[j] \notin due
        PROVE  retryQueue[j] \in Range(retryQueue')
    <3>1. j \notin 1..k
        BY <2>3 DEF due
    <3>2. j - k \in 1..(Len(retryQueue) - k) /\ k + (j - k) = j
        BY <1>2, <3>1
    <3> QED BY <2>1, <3>2 DEF Range
  <2>4. Range(retryQueue') \subseteq Range(retryQueue) \ due
      BY <2>1, <2>2 DEF Range
  <2>5. Range(retryQueue) \ due \subseteq Range(retryQueue')
    <3>1. \A r \in Range(retryQueue) : \E j \in 1..Len(retryQueue) : r = retryQueue[j]
        BY <1>2 DEF Range
    <3> HIDE DEF due
    <3> QED BY <2>3, <3>1
  <2> QED BY <2>4, <2>5
<1>5. U = rest \cup due /\ V = rest \cup {Retried(r) : r \in due}
  <2>1. Range(retryOrders) = {}
      BY <1>1, EmptyRange DEF QueueInv, Shape
  <2> QED BY <1>1, <1>3, <1>4, <2>1 DEF UnderWayRecords
<1>6. waitingBar' = waitingBar
    BY <1>1 DEF waitingBar, Unprocessed
<1>7. outcomeBar' = outcomeBar
    BY <1>1, OutcomeKept
<1>8. \A r \in due : /\ Retried(r).order = r.order /\ r.retryCount \in Nat
                     /\ Retried(r).retryCount = r.retryCount + 1
                     /\ r.retryCount < MaxTries - 1
  <2>1. \A r \in due : r.retryCount < MaxTries - 1
      BY <1>3 DEF QueueInv, TriesRespected
  <2> QED BY <1>3, <2>1, RecordFacts
<1>9. OneRecord(U) /\ OneRecord(V)
    BY DEF QueueInv
<1> HIDE DEF due, U, V, rest
<1>10. S \subseteq OrdersIn(U) /\ OrdersIn(V) = OrdersIn(U)
    BY <1>5, <1>8 DEF OrdersIn
<1>11. \A o \in OrdersIn(U) :
          AttemptsOf(V)[o] = IF o \in S THEN AttemptsOf(U)[o] + 1 ELSE AttemptsOf(U)[o]
  <2> SUFFICES ASSUME NEW o \in OrdersIn(U)
               PROVE  AttemptsOf(V)[o] = IF o \in S THEN AttemptsOf(U)[o] + 1
                                         ELSE AttemptsOf(U)[o]
      OBVIOUS
  <2>1. PICK r \in U : r.order = o
      BY DEF OrdersIn
  <2>2. AttemptsOf(U)[o] = r.retryCount + 1
      BY <1>9, <2>1, AttemptsFacts
  <2>3. CASE r \in due
    <3>1. Retried(r) \in V /\ o \in S
        BY <1>5, <2>1, <2>3 DEF OrdersIn
    <3>2. AttemptsOf(V)[Retried(r).order] = Retried(r).retryCount + 1
        BY <1>9, <3>1, AttemptsFacts
    <3>3. /\ Retried(r).order = o /\ r.retryCount \in Nat
          /\ Retried(r).retryCount = r.retryCount + 1
        BY <1>8, <2>1, <2>3
    <3>4. AttemptsOf(V)[o] = AttemptsOf(U)[o] + 1
        BY <2>2, <3>2, <3>3
    <3> QED BY <3>1, <3>4
  <2>4. CASE r \notin due
    <3>1. r \in V
        BY <1>5, <2>1, <2>4
    <3>2. o \notin S
      <4>1. \A q \in due : q \in U /\ q # r
          BY <1>5, <2>4
      <4>2. \A q \in due : q.order # o
          BY <1>9, <2>1, <4>1 DEF OneRecord
      <4> QED BY <4>2 DEF OrdersIn
    <3>3. AttemptsOf(V)[o] = r.retryCount + 1
        BY <1>9, <2>1, <3>1, AttemptsFacts
    <3> QED BY <2>2, <3>2, <3>3
  <2> QED BY <2>3, <2>4
<1>12. \A o \in S : AttemptsOf(U)[o] < MaxTries
  <2> SUFFICES ASSUME NEW o \in S PROVE AttemptsOf(U)[o] < MaxTries
      OBVIOUS
  <2>1. PICK r \in due : r.order = o
      BY DEF OrdersIn
  <2>2. r \in U
      BY <1>5
  <2>3. AttemptsOf(U)[o] = r.retryCount + 1
      BY <1>9, <2>1, <2>2, AttemptsFacts
  <2> QED BY <1>8, <2>1, <2>3 DEF QueueAssumption
<1>13. /\ DOMAIN attemptsBar = OrdersIn(U)
       /\ attemptsBar' = [o \in DOMAIN attemptsBar |->
                             IF o \in S THEN attemptsBar[o] + 1 ELSE attemptsBar[o]]
  <2>1. DOMAIN AttemptsOf(U) = OrdersIn(U)
      BY DEF AttemptsOf
  <2>2. AttemptsOf(V) = [o \in OrdersIn(V) |-> AttemptsOf(V)[o]]
      BY DEF AttemptsOf
  <2>3. AttemptsOf(V) = [o \in OrdersIn(U) |->
                            IF o \in S THEN AttemptsOf(U)[o] + 1 ELSE AttemptsOf(U)[o]]
      BY <1>10, <1>11, <2>2
  <2> QED BY <2>1, <2>3 DEF attemptsBar, U, V
<1>14. \A o \in S : attemptsBar[o] < MaxTries
    BY <1>12 DEF attemptsBar, U
<1>15. Ledger!Retry(S)
    BY <1>6, <1>7, <1>13, <1>14
       DEF Ledger!Retry, waitingBar, attemptsBar, AttemptsOf, outcomeBar, OutcomesOf
<1>16. S \in SUBSET DOMAIN attemptsBar
    BY <1>10, <1>13
<1> QED BY <1>15, <1>16 DEF Ledger!Next, attemptsBar, AttemptsOf

LEMMA AgeingStep ==
    ASSUME QueueInv, QueueInv', QueueAssumption, CountDown
    PROVE  UNCHANGED ledgerBar
<1> DEFINE U == UnderWayRecords
           V == UnderWayRecords'
<1>1. /\ retryQueue' = [j \in DOMAIN retryQueue |-> Aged(retryQueue[j])]
      /\ UNCHANGED <<newQueue, cursor, pc, retryOrders, pending, completed, skipped, rejected>>
    BY DEF CountDown, finishedVars, callVars, promiseVars
<1>2. \A r \in Range(retryQueue) :
         Aged(r).order = r.order /\ Aged(r).retryCount = r.retryCount
  <2>1. Range(retryQueue) \subseteq ProcessOrder
      BY RetryEntries DEF QueueInv, Range
  <2> QED BY <2>1, RecordFacts
<1>3. Range(retryQueue') = {Aged(r) : r \in Range(retryQueue)}
    BY <1>1 DEF Range
<1>4. UnderWayRecords' = {Aged(r) : r \in Range(retryQueue)} \cup Range(retryOrders)
                            \cup pending \cup Handled
    BY <1>1, <1>3 DEF UnderWayRecords, Handled
<1>5. SameCounts(V, U) /\ OrdersIn(V) = OrdersIn(U)
  <2>1. SameCounts(V, U)
      BY <1>2, <1>4, RecordsOf DEF SameCounts
  <2>2. OrdersIn(V) = OrdersIn(U)
      BY <1>2, <1>4, RecordsOf DEF OrdersIn
  <2> QED BY <2>1, <2>2
<1>6. OneRecord(U) /\ OneRecord(V)
    BY DEF QueueInv
<1> HIDE DEF U, V
<1>7. AttemptsOf(V) = [o \in OrdersIn(V) |-> AttemptsOf(U)[o]]
    BY <1>5, <1>6, AttemptsAgree
<1>8. AttemptsOf(U) = [o \in OrdersIn(U) |-> AttemptsOf(U)[o]]
    BY DEF AttemptsOf
<1>9. attemptsBar' = attemptsBar
    BY <1>5, <1>7, <1>8 DEF attemptsBar, U, V
<1>10. waitingBar' = waitingBar /\ outcomeBar' = outcomeBar
    BY <1>1, WaitingKept, OutcomeKept
<1> QED BY <1>9, <1>10 DEF ledgerBar

LEMMA SpliceStep ==
    ASSUME QueueInv, QueueInv', QueueAssumption, NewProcessed
    PROVE  UNCHANGED ledgerBar
<1>1. /\ pc = "new" /\ pc' = "drain" /\ newQueue' = Unprocessed /\ cursor' = 0
      /\ UNCHANGED <<retryQueue, retryOrders, pending, completed, skipped, rejected>>
    BY DEF NewProcessed, finishedVars, promiseVars
<1>2. Unprocessed' = Unprocessed
  <2>1. newQueue' \in Seq(Orders)
      BY DEF QueueInv, Shape
  <2>2. SubSeq(newQueue', 1, Len(newQueue')) = newQueue'
      BY <2>1, SubSeqFull
  <2>3. Unprocessed' = SubSeq(newQueue', 0 + 1, Len(newQueue'))
      BY <1>1 DEF Unprocessed
  <2>4. Unprocessed' = newQueue'
      BY <2>2, <2>3
  <2> QED BY <1>1, <2>4
<1>3. waitingBar' = waitingBar
    BY <1>1, <1>2 DEF waitingBar
<1>4. UnderWayRecords' = UnderWayRecords
    BY <1>1 DEF UnderWayRecords
<1> QED BY <1>1, <1>3, <1>4, OutcomeKept DEF ledgerBar, attemptsBar

LEMMA HandBackStep ==
    ASSUME QueueInv, QueueInv', QueueAssumption, GetFinishedOrders
    PROVE  Ledger!Next
<1>1. /\ pc = "drain" /\ pc' = "add" /\ completed' = <<>> /\ skipped' = <<>> /\ rejected' = <<>>
      /\ UNCHANGED <<newQueue, cursor, retryQueue, retryOrders, pending>>
    BY DEF GetFinishedOrders, promiseVars
<1>2. waitingBar' = waitingBar
    BY <1>1 DEF waitingBar, Unprocessed
<1>3. UnderWayRecords' = UnderWayRecords
    BY <1>1 DEF UnderWayRecords
<1>4. attemptsBar' = attemptsBar
    BY <1>3 DEF attemptsBar
<1>5. outcomeBar' = [o \in {} |-> "completed"]
  <2>1. Finished' = {}
      BY <1>1, EmptyRange DEF Finished
  <2> QED BY <2>1 DEF outcomeBar, OutcomesOf
<1>6. Ledger!HandBack
    BY <1>2, <1>4, <1>5
       DEF Ledger!HandBack, waitingBar, attemptsBar, AttemptsOf, outcomeBar, OutcomesOf
<1> QED BY <1>6 DEF Ledger!Next

\* A step that leaves the orders where they are.
LEMMA OtherSteps ==
    ASSUME NothingToProcess \/ RetriesProcessed \/ ReleasePending \/ UNCHANGED vars
    PROVE  UNCHANGED ledgerBar
<1>1. /\ UNCHANGED <<newQueue, cursor, retryQueue, retryOrders, pending,
                     completed, skipped, rejected>>
      /\ pc' = pc \/ (pc # "handle" /\ pc' # "handle")
    BY DEF NothingToProcess, RetriesProcessed, ReleasePending, vars, finishedVars, callVars,
           promiseVars
<1>2. waitingBar' = waitingBar
    BY <1>1 DEF waitingBar, Unprocessed
<1>3. UnderWayRecords' = UnderWayRecords
    BY <1>1 DEF UnderWayRecords
<1> QED BY <1>1, <1>2, <1>3, OutcomeKept DEF ledgerBar, attemptsBar

-----------------------------------------------------------------------------
\* The queue keeps the promise of OrderLedger, whatever its handlers do: first attempts in
\* the order of arrival, at most maxTries attempts and maxConcurrentOrders orders under
\* way, one outcome per order, a rejection only after the last try, and no order lost or
\* handed back twice.
THEOREM QueueImplementsLedger == Spec => LedgerSpec
<1>1. Init => Ledger!Init
  <2> SUFFICES ASSUME Init PROVE Ledger!Init
      OBVIOUS
  <2>1. /\ newQueue = <<>> /\ cursor = 0 /\ pc = "add"
        /\ Range(retryQueue) = {} /\ Range(retryOrders) = {} /\ pending = {}
        /\ Range(completed) = {} /\ Range(skipped) = {} /\ Range(rejected) = {}
      BY EmptyRange DEF Init
  <2>2. waitingBar = <<>>
    <3>1. newQueue \in Seq(Orders)
        BY <2>1, EmptySeq
    <3>2. Unprocessed = newQueue
        BY <2>1, <3>1, SubSeqFull DEF Unprocessed
    <3> QED BY <2>1, <3>2 DEF waitingBar
  <2>3. attemptsBar = [o \in {} |-> 0]
    <3>1. OrdersIn(UnderWayRecords) = {}
        BY <2>1 DEF UnderWayRecords, OrdersIn
    <3> QED BY <3>1 DEF attemptsBar, AttemptsOf
  <2>4. outcomeBar = [o \in {} |-> "completed"]
    <3>1. Finished = {}
        BY <2>1 DEF Finished
    <3> QED BY <3>1 DEF outcomeBar, OutcomesOf
  <2> QED BY <2>2, <2>3, <2>4
          DEF Ledger!Init, waitingBar, attemptsBar, AttemptsOf, outcomeBar, OutcomesOf
<1>2. QueueInv /\ QueueInv' /\ [Next]_vars => [Ledger!Next]_(Ledger!ledgerVars)
  <2> SUFFICES ASSUME QueueInv, QueueInv', [Next]_vars
               PROVE  Ledger!Next \/ UNCHANGED ledgerBar
      BY DEF Ledger!ledgerVars, ledgerBar, waitingBar, attemptsBar, AttemptsOf, outcomeBar,
             OutcomesOf
  <2> USE QueueAssumption
  <2>1. ASSUME NEW o \in Orders, AddOrder(o) PROVE Ledger!Next \/ UNCHANGED ledgerBar
      BY <2>1, AddStep
  <2>2. ASSUME NEW o \in Orders, Settle(o) PROVE Ledger!Next \/ UNCHANGED ledgerBar
      BY <2>2, SettleStep
  <2>3. CASE ProcessOrders BY <2>3, DueStep
  <2>4. CASE ProcessRetry BY <2>4, RetryAttemptStep
  <2>5. CASE BeginNew BY <2>5, BeginStep
  <2>6. CASE ProcessNew BY <2>6, NewAttemptStep
  <2>7. CASE NewProcessed BY <2>7, SpliceStep
  <2>8. CASE GetFinishedOrders BY <2>8, HandBackStep
  <2>9. CASE CountDown BY <2>9, AgeingStep
  <2>10. CASE NothingToProcess \/ RetriesProcessed \/ ReleasePending \/ UNCHANGED vars
      BY <2>10, OtherSteps
  <2> QED BY <2>1, <2>2, <2>3, <2>4, <2>5, <2>6, <2>7, <2>8, <2>9, <2>10 DEF Next, Loop
<1> QED BY <1>1, <1>2, QueueInvariant, PTL DEF Spec, LedgerSpec, Ledger!Spec
=============================================================================
