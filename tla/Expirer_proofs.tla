---------------------------- MODULE Expirer_proofs ----------------------------
(***************************************************************************)
(* Proofs about Expirer and Store, for every set of underwrites, every     *)
(* chain and number of blocks, restarts and orders.                        *)
(***************************************************************************)
EXTENDS Expirer, SequenceTheorems, FiniteSetTheorems, WellFoundedInduction, TLAPS

-----------------------------------------------------------------------------
(* Numbers and sequences.                                                  *)

LEMMA LessIsWellFounded ==
    \E R : IsWellFoundedOn(R, Nat) /\ \A x, y \in Nat : x < y => <<x, y>> \in R
<1>1. \A x, y \in Nat : x < y => <<x, y>> \in OpToRel(<, Nat)
    BY DEF OpToRel
<1> QED BY <1>1, NatLessThanWellFounded

LEMMA LeastNatural ==
    ASSUME NEW T, T \subseteq Nat, T # {}
    PROVE  \E n \in T : \A m \in T : n <= m
<1>1. PICK R : IsWellFoundedOn(R, Nat) /\ \A x, y \in Nat : x < y => <<x, y>> \in R
    BY LessIsWellFounded
<1>2. IsWellFoundedOn(R, Nat)
    BY <1>1
<1>3. \E n \in T : \A m \in T : ~ (<<m, n>> \in R)
    BY ONLY <1>2, WFMin, T \subseteq Nat, T # {}
<1>4. PICK n \in T : \A m \in T : <<m, n>> \notin R
    BY <1>3
<1>5. \A m \in T : ~(m < n)
    BY <1>1, <1>4
<1>6. \A m \in T : n <= m
    BY <1>5
<1> QED BY <1>6

LEMMA SeqFacts ==
    ASSUME NEW S, NEW s \in Seq(S)
    PROVE  /\ Len(s) \in Nat /\ DOMAIN s = 1..Len(s)
           /\ \A i \in 1..Len(s) : s[i] \in S /\ s[i] \in Range(s)
           /\ \A x \in Range(s) : x \in S /\ \E i \in 1..Len(s) : x = s[i]
<1>1. Len(s) \in Nat /\ DOMAIN s = 1..Len(s) /\ \A i \in 1..Len(s) : s[i] \in S
    BY LenProperties, ElementOfSeq
<1> QED BY <1>1 DEF Range

LEMMA EmptyFacts ==
    ASSUME NEW S
    PROVE  /\ <<>> \in Seq(S) /\ Range(<<>>) = {} /\ DOMAIN <<>> = {} /\ Len(<<>>) = 0
<1>1. <<>> \in Seq(S) /\ Len(<<>>) = 0
    BY EmptySeq
<1>2. DOMAIN <<>> = {}
    BY <1>1, LenProperties
<1> QED BY <1>1, <1>2 DEF Range

LEMMA AppendFacts ==
    ASSUME NEW S, NEW s \in Seq(S), NEW e \in S
    PROVE  /\ Append(s, e) \in Seq(S) /\ Len(s) \in Nat
           /\ Len(Append(s, e)) = Len(s) + 1 /\ DOMAIN s = 1..Len(s)
           /\ DOMAIN Append(s, e) = 1..(Len(s) + 1)
           /\ \A i \in 1..Len(s) : Append(s, e)[i] = s[i]
           /\ Append(s, e)[Len(s) + 1] = e
           /\ Range(Append(s, e)) = Range(s) \cup {e}
<1>1. /\ Append(s, e) \in Seq(S) /\ Len(s) \in Nat
      /\ DOMAIN s = 1..Len(s) /\ DOMAIN Append(s, e) = 1..(Len(s) + 1)
      /\ \A i \in 1..Len(s) : Append(s, e)[i] = s[i]
      /\ Append(s, e)[Len(s) + 1] = e /\ Len(Append(s, e)) = Len(s) + 1
    BY AppendProperties, LenProperties
<1>2. Range(Append(s, e)) = Range(s) \cup {e}
    BY <1>1 DEF Range
<1> QED BY <1>1, <1>2

LEMMA TailFacts ==
    ASSUME NEW S, NEW s \in Seq(S), s # <<>>
    PROVE  /\ Head(s) \in S /\ Tail(s) \in Seq(S) /\ Head(s) = s[1]
           /\ Len(s) \in Nat \ {0} /\ Len(Tail(s)) = Len(s) - 1
           /\ \A i \in 1..(Len(s) - 1) : Tail(s)[i] = s[i + 1]
           /\ Range(s) = Range(Tail(s)) \cup {Head(s)}
<1>1. /\ Head(s) \in S /\ Head(s) = s[1] /\ Tail(s) \in Seq(S)
      /\ Len(s) \in Nat \ {0} /\ Len(Tail(s)) = Len(s) - 1
      /\ DOMAIN s = 1..Len(s) /\ DOMAIN Tail(s) = 1..(Len(s) - 1)
      /\ \A i \in 1..(Len(s) - 1) : Tail(s)[i] = s[i + 1]
    BY HeadTailProperties, LenProperties, EmptySeq
<1>2. Range(Tail(s)) \subseteq Range(s) /\ Head(s) \in Range(s)
    BY <1>1 DEF Range
<1>3. ASSUME NEW i \in 1..Len(s) PROVE s[i] \in Range(Tail(s)) \cup {Head(s)}
  <2>1. CASE i = 1 BY <2>1, <1>1
  <2>2. CASE i # 1
    <3>1. i - 1 \in 1..(Len(s) - 1) /\ (i - 1) + 1 = i
        BY <2>2, <1>1
    <3>2. i - 1 \in DOMAIN Tail(s) /\ Tail(s)[i - 1] = s[i]
        BY <3>1, <1>1
    <3>3. Tail(s)[i - 1] \in Range(Tail(s))
        BY <3>2 DEF Range
    <3> QED BY <3>2, <3>3
  <2> QED BY <2>1, <2>2
<1> QED BY <1>1, <1>2, <1>3 DEF Range

\* A part of a sequence.
LEMMA PartFacts ==
    ASSUME NEW S, NEW s \in Seq(S), NEW a \in 1..(Len(s) + 1), NEW b \in (a - 1)..Len(s)
    PROVE  LET p == SubSeq(s, a, b) IN
           /\ p \in Seq(S) /\ Len(p) = b - a + 1
           /\ \A i \in 1..(b - a + 1) : p[i] = s[a + i - 1]
           /\ \A i \in a..b : s[i] \in Range(p)
           /\ \A x \in Range(p) : \E i \in a..b : x = s[i]
<1> DEFINE p == SubSeq(s, a, b)
<1>1. /\ Len(s) \in Nat /\ a \in Int /\ b \in Int /\ a - 1 <= b /\ 1 <= a /\ b <= Len(s)
      /\ \A i \in 1..Len(s) : s[i] \in S
    BY SeqFacts
<1>2. \A i \in a..b : s[i] \in S
    BY <1>1
<1>3. /\ p \in Seq(S) /\ Len(p) = IF a <= b THEN b - a + 1 ELSE 0
      /\ \A i \in 1..(b - a + 1) : p[i] = s[a + i - 1]
    BY <1>1, <1>2, SubSeqProperties
<1>4. Len(p) = b - a + 1
    BY <1>1, <1>3
<1>5. ASSUME NEW i \in a..b PROVE s[i] \in Range(p)
  <2> HIDE DEF p
  <2>1. i - a + 1 \in 1..(b - a + 1) /\ a + (i - a + 1) - 1 = i
      BY <1>1
  <2>2. p[i - a + 1] = s[i]
      BY <1>3, <2>1
  <2> QED BY <1>3, <1>4, <2>1, <2>2, SeqFacts
<1>6. ASSUME NEW x \in Range(p) PROVE \E i \in a..b : x = s[i]
  <2> HIDE DEF p
  <2>1. \A y \in Range(p) : \E n \in 1..Len(p) : y = p[n]
      BY <1>3, SeqFacts
  <2>2. PICK n \in 1..(b - a + 1) : x = p[n]
      BY <1>4, <1>6, <2>1
  <2>3. a + n - 1 \in a..b
      BY <1>1
  <2>4. x = s[a + n - 1]
      BY <1>3, <2>2
  <2> QED BY <2>3, <2>4
<1> QED BY <1>3, <1>4, <1>5, <1>6

LEMMA ConcatFacts ==
    ASSUME NEW S, NEW s \in Seq(S), NEW t \in Seq(S)
    PROVE  /\ s \o t \in Seq(S) /\ Len(s \o t) = Len(s) + Len(t)
           /\ Range(s \o t) = Range(s) \cup Range(t)
BY ConcatProperties, RangeConcatenation

LEMMA RangeSize ==
    ASSUME NEW S, NEW s \in Seq(S)
    PROVE  /\ IsFiniteSet(Range(s)) /\ Cardinality(Range(s)) \in Nat
           /\ Cardinality(Range(s)) <= Len(s)
<1>1. Len(s) \in Nat /\ DOMAIN s = 1..Len(s)
    BY SeqFacts
<1>2. IsFiniteSet(1..Len(s)) /\ Cardinality(1..Len(s)) = Len(s)
    BY <1>1, FS_Interval
<1>3. Range(s) = {s[i] : i \in 1..Len(s)}
    BY <1>1 DEF Range
<1>4. [i \in 1..Len(s) |-> s[i]] \in Surjection(1..Len(s), Range(s))
    BY <1>3 DEF Surjection
<1>5. IsFiniteSet(Range(s)) /\ Cardinality(Range(s)) <= Len(s)
    BY <1>2, <1>4, FS_Surjection
<1> QED BY <1>5, FS_CardinalityType

-----------------------------------------------------------------------------
(* The chain.                                                              *)

\* The events of an id alternate: the contract has the last one, if it is an underwrite.
Event == [kind : {"SwapUnderwritten", "Completed"}, id : UnderwriteIds, own : BOOLEAN,
          expiry : Int, at : Int]
IsLast(i) == \A j \in DOMAIN log : j > i => log[j].id # log[i].id

ChainShape ==
    /\ log \in Seq(Event) /\ block \in 0..MaxBlock
    /\ onChain \in [UnderwriteIds -> Nat]
    /\ \A u \in UnderwriteIds : \A i \in Nat \ {0} : onChain[u] = i =>
          /\ i \in DOMAIN log /\ log[i].id = u /\ log[i].kind = "SwapUnderwritten"
          /\ IsLast(i)
    /\ \A i \in DOMAIN log : IsLast(i) =>
          onChain[log[i].id] = IF log[i].kind = "SwapUnderwritten" THEN i ELSE 0

\* An underwrite is as old as it looks, or older.
Ages ==
    \A i \in DOMAIN log : log[i].kind = "SwapUnderwritten" =>
       /\ log[i].at \in 0..block
       /\ log[i].expiry = Observed(log[i].at) + Duration
       /\ 0 <= Observed(block) - Observed(log[i].at)
       /\ Observed(block) - Observed(log[i].at) <= block - log[i].at

\* What a step can do to the chain.
Begins(u, own) ==
    /\ onChain[u] = 0
    /\ log' = Append(log, [kind |-> "SwapUnderwritten", id |-> u, own |-> own,
                            expiry |-> Observed(block) + Duration, at |-> block])
    /\ onChain' = [onChain EXCEPT ![u] = Len(log) + 1]
Ends(u) ==
    /\ onChain[u] # 0
    /\ log' = Append(log, Completed(u))
    /\ onChain' = [onChain EXCEPT ![u] = 0]
ChainKept == UNCHANGED <<log, onChain>>
ChainStep ==
    \/ ChainKept
    \/ \E u \in UnderwriteIds : Ends(u) \/ \E own \in BOOLEAN : Begins(u, own)
BlockStep == block' = block \/ (block < MaxBlock /\ block' = block + 1)

LEMMA WorkerKeepsChain ==
    ASSUME \/ UpdateStatus \/ HandleMessage \/ Loop \/ \E i \in pending : FailExpire(i)
           \/ Restart \/ StoreStep
    PROVE  ChainKept /\ block' = block
<1>1. CASE UpdateStatus
    BY <1>1 DEF UpdateStatus, storeVars, chainVars, ChainKept
<1>2. CASE HandleMessage
    BY <1>2 DEF HandleMessage, AddExpireOrder, RemoveExpireOrder, chainVars, ChainKept
<1>3. CASE Loop
  <2>1. CASE Subscribe BY <2>1 DEF Subscribe, chainVars, ChainKept
  <2>2. CASE BeginRound BY <2>2 DEF BeginRound, storeVars, chainVars, ChainKept
  <2>3. CASE AskBlockNumber BY <2>3 DEF AskBlockNumber, storeVars, chainVars, ChainKept
  <2>4. CASE GetBlockNumber BY <2>4 DEF GetBlockNumber, storeVars, chainVars, ChainKept
  <2>5. CASE ReadActive BY <2>5 DEF ReadActive, storeVars, chainVars, ChainKept
  <2>6. CASE ReadSwap BY <2>6 DEF ReadSwap, storeVars, chainVars, ChainKept
  <2>7. CASE SubmitExpires BY <2>7 DEF SubmitExpires, storeVars, chainVars, ChainKept
  <2> QED BY <1>3, <2>1, <2>2, <2>3, <2>4, <2>5, <2>6, <2>7 DEF Loop
<1>4. CASE \E i \in pending : FailExpire(i)
    BY <1>4 DEF FailExpire, storeVars, chainVars, ChainKept
<1>5. CASE Restart
    BY <1>5 DEF Restart, RestartStore, chainVars, ChainKept
<1>6. CASE StoreStep
  <2>1. UNCHANGED chainVars /\ log' = log
      BY <1>6 DEF StoreStep, SaveActiveUnderwriteState, SetUnderwrite, GetUnderwrite,
                  MoveDescription, CompleteUnderwrite, RegisterSwap
  <2> QED BY <2>1 DEF chainVars, ChainKept
<1> QED BY <1>1, <1>2, <1>3, <1>4, <1>5, <1>6

LEMMA ExecuteEnds ==
    ASSUME NEW i, ExecuteExpire(IdOf(i)), ~ChainKept
    PROVE  Ends(IdOf(i))
BY DEF ExecuteExpire, MayExpire, Ends, ChainKept

LEMMA ChainSteps ==
    ASSUME [Next]_vars, log \in Seq(Event), pending \cup orphans \subseteq DOMAIN log
    PROVE  ChainStep /\ BlockStep /\ (block' = block \/ ChainKept)
<1>1. CASE NewBlock
    BY <1>1 DEF NewBlock, storeVars, ChainKept, ChainStep, BlockStep
<1>2. ASSUME NEW u \in UnderwriteIds, EndUnderwrite(u)
      PROVE  ChainStep /\ block' = block
    BY <1>2 DEF EndUnderwrite, ChainStep, Ends
<1>3. ASSUME NEW u \in UnderwriteIds, NEW own \in BOOLEAN, UnderwriteSwap(u, own)
      PROVE  ChainStep /\ block' = block
  <2>1. Begins(u, own) /\ block' = block
      BY <1>3 DEF UnderwriteSwap, Begins
  <2> QED BY <2>1 DEF ChainStep
<1>4. ASSUME NEW i \in DOMAIN log, ExecuteExpire(IdOf(i)) PROVE ChainStep
  <2>1. IdOf(i) \in UnderwriteIds
    <3>1. log[i] \in Event
        BY SeqFacts
    <3> QED BY <3>1 DEF IdOf, Event
  <2> QED BY <1>4, <2>1, ExecuteEnds DEF ChainStep
<1>5. ASSUME NEW i \in pending, MineExpire(i) PROVE ChainStep /\ block' = block
  <2>1. i \in DOMAIN log /\ ExecuteExpire(IdOf(i)) /\ block' = block
      BY <1>5 DEF MineExpire
  <2> QED BY <1>4, <2>1
<1>6. ASSUME NEW i \in orphans, MineOrphan(i) PROVE ChainStep /\ block' = block
  <2>1. i \in DOMAIN log /\ ExecuteExpire(IdOf(i)) /\ block' = block
      BY <1>6 DEF MineOrphan
  <2> QED BY <1>4, <2>1
<1>7. CASE \/ UpdateStatus \/ HandleMessage \/ Loop \/ \E i \in pending : FailExpire(i)
           \/ Restart \/ StoreStep
    BY <1>7, WorkerKeepsChain DEF ChainStep, BlockStep
<1>8. CASE UNCHANGED vars
    BY <1>8 DEF vars, storeVars, chainVars, ChainKept, ChainStep, BlockStep
<1>9. \/ NewBlock
      \/ \E u \in UnderwriteIds : EndUnderwrite(u) \/ \E own \in BOOLEAN : UnderwriteSwap(u, own)
      \/ \E i \in pending : MineExpire(i)
      \/ \E i \in orphans : MineOrphan(i)
      \/ UpdateStatus \/ HandleMessage \/ Loop \/ \E i \in pending : FailExpire(i)
      \/ Restart \/ StoreStep
      \/ UNCHANGED vars
    BY DEF Next, SettleExpire
<1> QED BY <1>1, <1>2, <1>3, <1>5, <1>6, <1>7, <1>8, <1>9 DEF BlockStep

LEMMA ConstantFacts ==
    /\ Duration \in Nat /\ ExpireBlocksMargin \in Nat /\ MinAge \in Nat
    /\ MinAge + ExpireBlocksMargin <= Duration
    /\ MaxPending \in Nat \ {0} /\ MaxTries \in Nat \ {0} /\ MaxBlock \in Nat
    /\ \A b \in 0..MaxBlock : Observed(b) \in Nat
    /\ \A b \in 0..(MaxBlock - 1) :
          Observed(b) <= Observed(b + 1) /\ Observed(b + 1) <= Observed(b) + 1
<1>1. \A b \in 0..MaxBlock : /\ Observed(b) \in Nat
                             /\ b > 0 => Observed(b) - Observed(b - 1) \in {0, 1}
    BY ExpirerAssumption
<1>2. MaxBlock \in Nat
    BY ExpirerAssumption
<1>3. ASSUME NEW b \in 0..(MaxBlock - 1)
      PROVE  Observed(b) <= Observed(b + 1) /\ Observed(b + 1) <= Observed(b) + 1
  <2>1. b \in 0..MaxBlock /\ b + 1 \in 0..MaxBlock /\ b + 1 > 0 /\ (b + 1) - 1 = b
      BY <1>2
  <2>2. Observed(b + 1) - Observed(b) \in {0, 1}
      BY <1>1, <2>1
  <2> QED BY <1>1, <2>1, <2>2
<1> QED BY <1>1, <1>3, ExpirerAssumption

LEMMA LogGrows ==
    ASSUME ChainStep, log \in Seq(Event), block \in 0..MaxBlock
    PROVE  /\ log' \in Seq(Event) /\ DOMAIN log \subseteq DOMAIN log'
           /\ Len(log) \in Nat /\ DOMAIN log = 1..Len(log) /\ DOMAIN log' = 1..Len(log')
           /\ Len(log') \in Nat /\ Len(log) <= Len(log')
           /\ \A i \in DOMAIN log : log'[i] = log[i] /\ (IdOf(i))' = IdOf(i)
                                    /\ (ExpireAt(i))' = ExpireAt(i)
<1> DEFINE Kept == /\ log' \in Seq(Event) /\ Len(log) <= Len(log')
                   /\ \A i \in 1..Len(log) : log'[i] = log[i]
<1>1. ASSUME NEW e \in Event, log' = Append(log, e) PROVE Kept
  <2>1. /\ Append(log, e) \in Seq(Event) /\ Len(Append(log, e)) = Len(log) + 1
        /\ \A i \in 1..Len(log) : Append(log, e)[i] = log[i] /\ Len(log) \in Nat
      BY AppendFacts
  <2> QED BY <1>1, <2>1, SeqFacts
<1>2. ASSUME ChainKept PROVE Kept
    BY <1>2, SeqFacts DEF ChainKept
<1>3. ASSUME NEW u \in UnderwriteIds, Ends(u) PROVE Kept
  <2>1. Completed(u) \in Event
      BY DEF Completed, Event
  <2> QED BY <1>1, <1>3, <2>1 DEF Ends
<1>4. ASSUME NEW u \in UnderwriteIds, NEW own \in BOOLEAN, Begins(u, own) PROVE Kept
  <2> DEFINE e == [kind |-> "SwapUnderwritten", id |-> u, own |-> own,
                   expiry |-> Observed(block) + Duration, at |-> block]
  <2>1. Observed(block) + Duration \in Int /\ block \in Int
      BY ConstantFacts
  <2>2. e \in Event
      BY <2>1 DEF Event
  <2>3. log' = Append(log, e)
      BY <1>4 DEF Begins
  <2> QED BY <1>1, <2>2, <2>3
<1>5. Kept
    BY <1>2, <1>3, <1>4 DEF ChainStep
<1>6. /\ Len(log) \in Nat /\ DOMAIN log = 1..Len(log)
      /\ Len(log') \in Nat /\ DOMAIN log' = 1..Len(log')
    BY <1>5, SeqFacts
<1>7. \A i \in DOMAIN log : log'[i] = log[i]
    BY <1>5, <1>6
<1> HIDE DEF Kept
<1>8. \A i \in DOMAIN log : (IdOf(i))' = IdOf(i) /\ (ExpireAt(i))' = ExpireAt(i)
    BY <1>7 DEF IdOf, ExpireAt
<1>9. DOMAIN log \subseteq DOMAIN log' /\ log' \in Seq(Event) /\ Len(log) <= Len(log')
    BY <1>5, <1>6 DEF Kept
<1> QED BY <1>6, <1>7, <1>8, <1>9

LEMMA ObservedGrows ==
    ASSUME BlockStep, block \in 0..MaxBlock
    PROVE  /\ block' \in 0..MaxBlock /\ block <= block'
           /\ Observed(block) \in Nat /\ Observed(block') \in Nat
           /\ Observed(block) <= Observed(block')
           /\ Observed(block') - Observed(block) <= block' - block
<1>1. CASE block' = block
    BY <1>1, ConstantFacts
<1>2. CASE block < MaxBlock /\ block' = block + 1
  <2>1. block \in 0..(MaxBlock - 1) /\ block + 1 \in 0..MaxBlock
      BY <1>2, ConstantFacts
  <2> QED BY <1>2, <2>1, ConstantFacts
<1> QED BY <1>1, <1>2 DEF BlockStep

LEMMA ChainShapeStep ==
    ASSUME ChainShape, Ages, ChainStep, BlockStep, block' = block \/ ChainKept
    PROVE  ChainShape' /\ Ages'
<1>1. /\ log' \in Seq(Event) /\ DOMAIN log \subseteq DOMAIN log'
      /\ Len(log) \in Nat /\ DOMAIN log = 1..Len(log) /\ DOMAIN log' = 1..Len(log')
      /\ \A i \in DOMAIN log : log'[i] = log[i]
    BY LogGrows DEF ChainShape
<1>2. block' \in 0..MaxBlock
    BY ObservedGrows DEF ChainShape
<1>3. CASE ChainKept
  <2>1. ChainShape'
      BY <1>2, <1>3 DEF ChainShape, ChainKept, IsLast
  <2>2. Ages'
    <3>1. ASSUME NEW i \in DOMAIN log, log[i].kind = "SwapUnderwritten"
          PROVE  /\ log[i].at \in 0..block'
                 /\ log[i].expiry = Observed(log[i].at) + Duration
                 /\ 0 <= Observed(block') - Observed(log[i].at)
                 /\ Observed(block') - Observed(log[i].at) <= block' - log[i].at
      <4>1. /\ log[i].at \in 0..block /\ block \in 0..MaxBlock
            /\ log[i].expiry = Observed(log[i].at) + Duration
            /\ 0 <= Observed(block) - Observed(log[i].at)
            /\ Observed(block) - Observed(log[i].at) <= block - log[i].at
          BY <3>1 DEF Ages, ChainShape
      <4>2. Observed(log[i].at) \in Nat
          BY <4>1, ConstantFacts
      <4> QED BY <4>1, <4>2, ObservedGrows, ConstantFacts
    <3> QED BY <1>3, <3>1 DEF Ages, ChainKept
  <2> QED BY <2>1, <2>2
<1>4. ASSUME NEW u \in UnderwriteIds, NEW e \in Event, NEW n \in {0, Len(log) + 1}, e.id = u,
             log' = Append(log, e), onChain' = [onChain EXCEPT ![u] = n],
             n = IF e.kind = "SwapUnderwritten" THEN Len(log) + 1 ELSE 0
      PROVE  ChainShape'
  <2> PICK m : m = Len(log) + 1
      OBVIOUS
  <2>1. /\ DOMAIN log' = 1..m /\ log'[m] = e /\ m # 0
        /\ onChain' \in [UnderwriteIds -> Nat] /\ onChain'[u] = n
        /\ \A v \in UnderwriteIds \ {u} : onChain'[v] = onChain[v]
      BY <1>1, <1>4, AppendFacts DEF ChainShape
  <2>2. \A i \in DOMAIN log' : IsLast(i)' =>
           i = m \/ (i \in DOMAIN log /\ log[i].id # u /\ IsLast(i))
      BY <1>1, <1>4, <2>1 DEF IsLast
  <2>3. IsLast(m)'
      BY <1>1, <2>1 DEF IsLast
  <2>4. \A i \in DOMAIN log : log[i].id # u /\ IsLast(i) => IsLast(i)'
      BY <1>1, <1>4, <2>1 DEF IsLast
  <2>5. ASSUME NEW v \in UnderwriteIds, NEW i \in Nat \ {0}, onChain'[v] = i
        PROVE  /\ i \in DOMAIN log' /\ log'[i].id = v
               /\ log'[i].kind = "SwapUnderwritten" /\ IsLast(i)'
    <3>1. CASE v = u
      <4>1. i = m /\ e.kind = "SwapUnderwritten"
          BY <1>4, <2>1, <2>5, <3>1
      <4> QED BY <1>1, <1>4, <2>1, <2>3, <3>1, <4>1
    <3>2. CASE v # u
      <4>1. /\ i \in DOMAIN log /\ log[i].id = v /\ log[i].kind = "SwapUnderwritten"
            /\ IsLast(i)
          BY <2>1, <2>5, <3>2 DEF ChainShape
      <4> QED BY <1>1, <2>4, <3>2, <4>1
    <3> QED BY <3>1, <3>2
  <2>6. ASSUME NEW i \in DOMAIN log', IsLast(i)'
        PROVE  onChain'[log'[i].id] = IF log'[i].kind = "SwapUnderwritten" THEN i ELSE 0
    <3>1. CASE i = m
        BY <1>4, <2>1, <3>1
    <3>2. CASE i # m
      <4>1. i \in DOMAIN log /\ log[i].id # u /\ IsLast(i) /\ log'[i] = log[i]
          BY <1>1, <2>2, <2>6, <3>2
      <4>2. log[i].id \in UnderwriteIds
        <5>1. log[i] \in Event
            BY <4>1, SeqFacts DEF ChainShape
        <5> QED BY <5>1 DEF Event
      <4> QED BY <2>1, <4>1, <4>2 DEF ChainShape
    <3> QED BY <3>1, <3>2
  <2> QED BY <1>1, <1>2, <2>1, <2>5, <2>6 DEF ChainShape
<1>5. ASSUME NEW e \in Event, log' = Append(log, e), block' = block,
             e.kind = "SwapUnderwritten" => e.at = block /\ e.expiry = Observed(block) + Duration
      PROVE  Ages'
  <2>1. DOMAIN log' = 1..(Len(log) + 1) /\ log'[Len(log) + 1] = e
      BY <1>1, <1>5, AppendFacts DEF ChainShape
  <2>2. Observed(block) \in Nat /\ block \in Nat
      BY ConstantFacts DEF ChainShape
  <2>3. ASSUME NEW i \in DOMAIN log', log'[i].kind = "SwapUnderwritten"
        PROVE  /\ log'[i].at \in 0..block
               /\ log'[i].expiry = Observed(log'[i].at) + Duration
               /\ 0 <= Observed(block) - Observed(log'[i].at)
               /\ Observed(block) - Observed(log'[i].at) <= block - log'[i].at
    <3>1. CASE i = Len(log) + 1
        BY <1>5, <2>1, <2>2, <2>3, <3>1
    <3>2. CASE i # Len(log) + 1
      <4>1. i \in DOMAIN log /\ log'[i] = log[i]
          BY <1>1, <2>1, <3>2
      <4> QED BY <2>3, <4>1 DEF Ages
    <3> QED BY <3>1, <3>2
  <2> QED BY <1>5, <2>3 DEF Ages
<1>6. ASSUME NEW u \in UnderwriteIds, Ends(u), ~ChainKept PROVE ChainShape' /\ Ages'
  <2>1. /\ Completed(u) \in Event /\ Completed(u).id = u /\ Completed(u).kind = "Completed"
        /\ log' = Append(log, Completed(u)) /\ onChain' = [onChain EXCEPT ![u] = 0]
        /\ block' = block
      BY <1>6 DEF Completed, Event, Ends
  <2> QED BY <1>4, <1>5, <2>1
<1>7. ASSUME NEW u \in UnderwriteIds, NEW own \in BOOLEAN, Begins(u, own), ~ChainKept
      PROVE  ChainShape' /\ Ages'
  <2> DEFINE e == [kind |-> "SwapUnderwritten", id |-> u, own |-> own,
                   expiry |-> Observed(block) + Duration, at |-> block]
  <2>1. Observed(block) + Duration \in Int /\ block \in Int
      BY ConstantFacts DEF ChainShape
  <2>2. /\ e \in Event /\ e.id = u /\ e.kind = "SwapUnderwritten"
        /\ e.at = block /\ e.expiry = Observed(block) + Duration
      BY <2>1 DEF Event
  <2>3. log' = Append(log, e) /\ onChain' = [onChain EXCEPT ![u] = Len(log) + 1]
        /\ block' = block
      BY <1>7 DEF Begins
  <2> HIDE DEF e
  <2> QED BY <1>4, <1>5, <2>2, <2>3
<1> QED BY <1>3, <1>6, <1>7 DEF ChainStep

-----------------------------------------------------------------------------
(* Steps.                                                                  *)

\* The variables that matter from here on, and the steps by what they change of them.
storeVs == <<active, event, saveStep, channel, skipped>>
timeVs == <<currentStatus, transactionBlockNumber, asked>>
queueVs == <<newOrders, evalOrders, retryQueue, evaluated, activeState, pc>>
walletVs == <<pending, settled>>
doneVs == <<submitted, rejected>>

\* Only the chain goes on, or what the underwriter registers.
Quiet ==
    /\ UNCHANGED <<storeVs, timeVs, queueVs, walletVs, heard, doneVs>>
    /\ orphans' \subseteq orphans

Settles(i) ==
    /\ i \in pending /\ pending' = pending \ {i} /\ settled' = settled \cup {i}
    /\ UNCHANGED <<storeVs, timeVs, queueVs, heard, doneVs, orphans>>

Saves ==
    /\ SetUnderwrite \/ GetUnderwrite \/ MoveDescription \/ CompleteUnderwrite
    /\ UNCHANGED <<skipped, timeVs, queueVs, walletVs, heard, doneVs, orphans>> /\ ChainKept

LEMMA StepKinds ==
    ASSUME [Next]_vars
    PROVE  \/ Quiet \/ Saves \/ UpdateStatus \/ RemoveExpireOrder \/ Restart
           \/ \E i \in pending : Settles(i)
           \/ \E i \in DOMAIN log : AddExpireOrder(i)
           \/ Subscribe \/ BeginRound \/ AskBlockNumber \/ GetBlockNumber
           \/ ReadActive \/ ReadSwap \/ SubmitExpires
<1> USE DEF storeVs, timeVs, queueVs, walletVs, doneVs
<1>1. CASE NewBlock
    BY <1>1 DEF NewBlock, Quiet, storeVars, entryVars, saveVars, statusVars, queueVars,
                walletVars, historyVars, restartVars
<1>2. CASE \E u \in UnderwriteIds : EndUnderwrite(u) \/ \E own \in BOOLEAN : UnderwriteSwap(u, own)
    BY <1>2 DEF EndUnderwrite, UnderwriteSwap, Quiet, entryVars, saveVars, statusVars,
                queueVars, walletVars, historyVars, restartVars
<1>3. CASE SettleExpire
    BY <1>3 DEF SettleExpire, MineExpire, FailExpire, Settles, storeVars, entryVars, saveVars,
                statusVars, queueVars, historyVars, restartVars
<1>4. CASE \E i \in orphans : MineOrphan(i)
    BY <1>4 DEF MineOrphan, Quiet, entryVars, saveVars, statusVars, queueVars, walletVars
<1>5. CASE StoreStep
  <2>1. UNCHANGED <<skipped, timeVs, queueVs, walletVs, heard, doneVs, orphans>>
      BY <1>5 DEF StoreStep, statusVars, queueVars, walletVars, historyVars, restartVars
  <2>2. CASE SaveActiveUnderwriteState
      BY <1>5, <2>1, <2>2, WorkerKeepsChain DEF SaveActiveUnderwriteState, Saves
  <2>3. CASE \E s \in Swaps : RegisterSwap(s)
      BY <2>1, <2>3 DEF RegisterSwap, Quiet, saveVars
  <2> QED BY <1>5, <2>2, <2>3 DEF StoreStep
<1>6. CASE UNCHANGED vars
    BY <1>6 DEF vars, Quiet, storeVars, entryVars, saveVars, statusVars, queueVars,
                walletVars, historyVars, restartVars
<1> QED BY <1>1, <1>2, <1>3, <1>4, <1>5, <1>6 DEF Next, HandleMessage, Loop

-----------------------------------------------------------------------------
(* Where the listener is in the log, and what it has on the way.           *)

Message == [name : {"onSwapUnderwritten", "onSwapUnderwriteComplete"}, of : Nat \ {0}]

StoreShape ==
    /\ active \in [UnderwriteIds -> Nat]
    /\ event \in 0..Len(log)
    /\ saveStep \in {"idle", "move", "complete"} /\ (saveStep # "idle" => event < Len(log))
    /\ channel \in Seq(Message)
    /\ \A m \in Range(channel) : m.of <= event

Taken == channel # <<>> /\ channel' = Tail(channel) /\ UNCHANGED <<active, event, saveStep>>

LEMMA StoreKinds ==
    ASSUME [Next]_vars
    PROVE  \/ UNCHANGED <<active, event, saveStep, channel>> \/ Taken \/ Saves \/ Restart
<1> USE DEF storeVs
<1>1. CASE Quiet \/ \E i \in pending : Settles(i)
    BY <1>1 DEF Quiet, Settles
<1>2. CASE RemoveExpireOrder \/ \E i \in DOMAIN log : AddExpireOrder(i)
    BY <1>2 DEF RemoveExpireOrder, AddExpireOrder, Receive, entryVars, saveVars, Taken
<1>3. CASE UpdateStatus
    BY <1>3 DEF UpdateStatus, storeVars, entryVars, saveVars
<1>4. CASE Subscribe
    BY <1>4 DEF Subscribe, entryVars, saveVars
<1>5. CASE BeginRound \/ GetBlockNumber
    BY <1>5 DEF BeginRound, GetBlockNumber, storeVars, entryVars, saveVars
<1>6. CASE AskBlockNumber \/ ReadActive \/ ReadSwap \/ SubmitExpires
    BY <1>6 DEF AskBlockNumber, ReadActive, ReadSwap, SubmitExpires, storeVars, entryVars, saveVars
<1> QED BY <1>1, <1>2, <1>3, <1>4, <1>5, <1>6, StepKinds

LEMMA CurrentFacts ==
    ASSUME ChainShape, StoreShape, event < Len(log)
    PROVE  /\ event + 1 \in DOMAIN log /\ Current \in Event /\ Current = log[event + 1]
           /\ Current.id \in UnderwriteIds /\ event \in Nat
<1>1. log \in Seq(Event) /\ event \in 0..Len(log)
    BY DEF ChainShape, StoreShape
<1>2. event + 1 \in 1..Len(log) /\ 1..Len(log) = DOMAIN log /\ event \in Nat
    BY <1>1, SeqFacts
<1>3. log[event + 1] \in Event
    BY <1>1, <1>2, SeqFacts
<1> QED BY <1>2, <1>3 DEF Current, Event

LEMMA PostFacts ==
    ASSUME StoreShape, NEW name \in {"onSwapUnderwritten", "onSwapUnderwriteComplete"},
           PostMessage(name)
    PROVE  \/ channel' = channel
           \/ \E m \in Message : /\ m.name = name /\ m.of = event + 1
                                 /\ channel' = Append(channel, m)
<1> DEFINE m == [name |-> name, of |-> event + 1]
<1>1. event + 1 \in Nat \ {0}
    BY SeqFacts DEF StoreShape
<1>2. m \in Message /\ m.name = name /\ m.of = event + 1
    BY <1>1 DEF Message
<1>3. channel' = channel \/ channel' = Append(channel, m)
    BY DEF PostMessage
<1> QED BY <1>2, <1>3

\* What the listener does with an event.
LEMMA SavesKinds ==
    ASSUME Saves
    PROVE  \/ SetUnderwrite \/ CompleteUnderwrite
           \/ UNCHANGED <<active, event, channel>> /\ event < Len(log)
              /\ saveStep' \in {"move", "complete"} /\ saveStep = "idle"
           \/ UNCHANGED <<active, event, channel>> /\ saveStep = "move"
              /\ saveStep' = "complete"
           \/ /\ UNCHANGED <<active, channel>> /\ event < Len(log) /\ EventSaved
              /\ saveStep = "idle" /\ Current.kind # "SwapUnderwritten" /\ Underwrite = 0
BY DEF Saves, GetUnderwrite, MoveDescription

LEMMA StoreShapeStep ==
    ASSUME ChainShape, StoreShape, ChainStep, [Next]_vars
    PROVE  StoreShape'
<1>1. /\ Len(log) \in Nat /\ Len(log') \in Nat /\ Len(log) <= Len(log')
    BY LogGrows DEF ChainShape
<1>2. CASE UNCHANGED <<active, event, saveStep, channel>>
    BY <1>1, <1>2 DEF StoreShape
<1>3. CASE Taken
  <2>1. channel' \in Seq(Message) /\ Range(channel') \subseteq Range(channel)
      BY <1>3, TailFacts DEF Taken, StoreShape
  <2> QED BY <1>1, <1>3, <2>1 DEF Taken, StoreShape
<1>4. CASE Restart
  <2>1. /\ event' \in 0..Len(log) /\ saveStep' = "idle" /\ channel' = <<>> /\ log' = log
        /\ StopBetweenCommands
      BY <1>4 DEF Restart, RestartStore
  <2>2. active' \in [UnderwriteIds -> Nat]
      BY <2>1, CurrentFacts DEF StopBetweenCommands, StoreShape
  <2>3. channel' \in Seq(Message) /\ Range(channel') = {}
      BY <2>1, EmptyFacts
  <2> QED BY <2>1, <2>2, <2>3 DEF StoreShape
<1>5. CASE Saves
  <2> DEFINE Passes == event < Len(log) /\ event' = event + 1 /\ saveStep' = "idle"
  <2>1. ASSUME Passes, active' \in [UnderwriteIds -> Nat],
               \/ channel' = channel
               \/ \E m \in Message : m.of = event + 1 /\ channel' = Append(channel, m)
        PROVE  StoreShape'
    <3>1. event \in Nat /\ event + 1 \in 0..Len(log') /\ channel \in Seq(Message)
          /\ \A m \in Range(channel) : m \in Message /\ m.of <= event
        BY <1>1, <2>1, SeqFacts DEF StoreShape
    <3>2. channel' \in Seq(Message) /\ \A m \in Range(channel') : m.of <= event + 1
      <4>1. CASE channel' = channel
        <5>1. \A m \in Range(channel) : m.of <= event + 1
            BY <3>1 DEF Message
        <5> QED BY <4>1, <5>1, <3>1
      <4>2. ASSUME NEW m \in Message, m.of = event + 1, channel' = Append(channel, m)
            PROVE  channel' \in Seq(Message) /\ \A x \in Range(channel') : x.of <= event + 1
        <5>1. channel' \in Seq(Message) /\ Range(channel') = Range(channel) \cup {m}
            BY <3>1, <4>2, AppendFacts
        <5>2. \A x \in Range(channel) : x.of <= event + 1
            BY <3>1 DEF Message
        <5> QED BY <3>1, <4>2, <5>1, <5>2
      <4> QED BY <2>1, <4>1, <4>2
    <3> QED BY <2>1, <3>1, <3>2 DEF StoreShape
  <2>2. CASE SetUnderwrite
    <3>1. Passes /\ PostMessage("onSwapUnderwritten")
        BY <2>2 DEF SetUnderwrite, EventSaved
    <3>2. active' \in [UnderwriteIds -> Nat]
        BY <2>2, <3>1, CurrentFacts DEF SetUnderwrite, StoreShape
    <3> QED BY <2>1, <3>1, <3>2, PostFacts
  <2>3. CASE CompleteUnderwrite
    <3>1. Passes /\ PostMessage("onSwapUnderwriteComplete")
        BY <2>3 DEF CompleteUnderwrite, EventSaved, StoreShape
    <3>2. active' \in [UnderwriteIds -> Nat]
        BY <2>3, <3>1, CurrentFacts DEF CompleteUnderwrite, StoreShape
    <3> QED BY <2>1, <3>1, <3>2, PostFacts
  <2>4. CASE UNCHANGED <<active, channel>> /\ event < Len(log) /\ EventSaved
      BY <2>1, <2>4 DEF EventSaved, StoreShape
  <2>5. CASE /\ UNCHANGED <<active, event, channel>>
             /\ saveStep' \in {"move", "complete"} /\ event < Len(log)
      BY <1>1, <2>5 DEF StoreShape
  <2>6. saveStep = "move" => event < Len(log)
      BY DEF StoreShape
  <2> QED BY <1>5, <2>2, <2>3, <2>4, <2>5, <2>6, SavesKinds
<1> QED BY <1>2, <1>3, <1>4, <1>5, StoreKinds

-----------------------------------------------------------------------------
(* The queues.                                                             *)

Tried(S) == [of : S, tries : Nat]

\* What a round takes up: orders and retries change places, and nothing is lost.
LEMMA EvaluateFacts ==
    ASSUME NEW S, newOrders \in Seq(S), retryQueue \in Seq(Tried(S)),
           NEW k \in 0..Len(newOrders), Evaluate(k)
    PROVE  /\ newOrders' \in Seq(S) /\ Range(newOrders') \subseteq Range(newOrders)
           /\ evalOrders' \in Seq(Tried(S)) /\ retryQueue' \in Seq(Tried(S))
           /\ Len(evalOrders') + Len(retryQueue') = Len(retryQueue) + k
           /\ \A x \in Range(newOrders) :
                 x \in Range(newOrders') \/ \E r \in Range(evalOrders') : r.of = x
           /\ \A q \in Range(retryQueue) :
                 \E r \in Range(evalOrders') \cup Range(retryQueue') : r.of = q.of
           /\ \A r \in Range(evalOrders') \cup Range(retryQueue') :
                 \/ \E q \in Range(retryQueue) : r.of = q.of
                 \/ \E l \in 1..k : r.of = newOrders[l]
           /\ pc' = "eval"
<1>1. PICK j \in 0..Len(retryQueue) :
         /\ evalOrders' = [n \in 1..j |-> Again(retryQueue[n])]
                            \o [n \in 1..k |-> Attempt(newOrders[n])]
         /\ retryQueue' = SubSeq(retryQueue, j + 1, Len(retryQueue))
         /\ newOrders' = SubSeq(newOrders, k + 1, Len(newOrders))
         /\ pc' = "eval"
    BY DEF Evaluate
<1> DEFINE a == [n \in 1..j |-> Again(retryQueue[n])]
           b == [n \in 1..k |-> Attempt(newOrders[n])]
<1>2. /\ Len(retryQueue) \in Nat /\ Len(newOrders) \in Nat /\ j \in Nat /\ k \in Nat
      /\ j <= Len(retryQueue) /\ k <= Len(newOrders)
      /\ \A n \in 1..Len(retryQueue) : retryQueue[n] \in Tried(S)
                                       /\ retryQueue[n] \in Range(retryQueue)
      /\ \A n \in 1..Len(newOrders) : newOrders[n] \in S /\ newOrders[n] \in Range(newOrders)
      /\ \A x \in Range(newOrders) : \E n \in 1..Len(newOrders) : x = newOrders[n]
      /\ \A q \in Range(retryQueue) : \E n \in 1..Len(retryQueue) : q = retryQueue[n]
    BY SeqFacts
<1>3. \A q \in Tried(S) : Again(q) \in Tried(S) /\ Again(q).of = q.of
    BY DEF Again, Tried
<1>4. \A x \in S : Attempt(x) \in Tried(S) /\ Attempt(x).of = x
    BY DEF Attempt, Tried
<1>5. \A n \in 1..j : a[n] \in Tried(S) /\ a[n].of = retryQueue[n].of
    BY <1>2, <1>3
<1>6. \A n \in 1..k : b[n] \in Tried(S) /\ b[n].of = newOrders[n]
    BY <1>2, <1>4
<1>7. /\ a \in [1..j -> Tried(S)] /\ DOMAIN a = 1..j
      /\ b \in [1..k -> Tried(S)] /\ DOMAIN b = 1..k
    BY <1>5, <1>6
<1>8. evalOrders' = a \o b
    BY <1>1
<1> HIDE DEF a, b
<1>9. /\ a \in Seq(Tried(S)) /\ Len(a) = j /\ b \in Seq(Tried(S)) /\ Len(b) = k
  <2>1. \A T, f : \A n \in Nat : f \in [1..n -> T] => f \in Seq(T) /\ Len(f) = n
    <3> SUFFICES ASSUME NEW T, NEW f, NEW n \in Nat, f \in [1..n -> T]
                 PROVE  f \in Seq(T) /\ Len(f) = n
        OBVIOUS
    <3>1. f \in Seq(T)
        BY IsASeq
    <3>2. DOMAIN f = 1..n /\ DOMAIN f = 1..Len(f) /\ Len(f) \in Nat
        BY <3>1, LenProperties
    <3> QED BY <3>1, <3>2
  <2> QED BY <1>2, <1>7, <2>1
<1>10. /\ evalOrders' \in Seq(Tried(S)) /\ Len(evalOrders') = j + k
       /\ Range(evalOrders') = Range(a) \cup Range(b)
  <2> DEFINE T == Tried(S)
             c == a \o b
  <2>1. a \in Seq(T) /\ b \in Seq(T)
      BY <1>9
  <2> HIDE DEF T
  <2>2. c \in Seq(T) /\ Len(c) = Len(a) + Len(b) /\ Range(c) = Range(a) \cup Range(b)
      BY <2>1, ConcatFacts
  <2> HIDE DEF c
  <2>3. evalOrders' = c
      BY <1>8 DEF c
  <2> QED BY <1>9, <2>2, <2>3 DEF T
<1>11. /\ retryQueue' \in Seq(Tried(S)) /\ Len(retryQueue') = Len(retryQueue) - j
       /\ \A n \in (j + 1)..Len(retryQueue) : retryQueue[n] \in Range(retryQueue')
       /\ \A r \in Range(retryQueue') : \E n \in (j + 1)..Len(retryQueue) : r = retryQueue[n]
  <2>1. j + 1 \in 1..(Len(retryQueue) + 1) /\ Len(retryQueue) \in ((j + 1) - 1)..Len(retryQueue)
      BY <1>2
  <2> DEFINE p == SubSeq(retryQueue, j + 1, Len(retryQueue))
  <2>2. Len(p) = Len(retryQueue) - (j + 1) + 1
      BY <2>1, PartFacts
  <2>3. /\ retryQueue' \in Seq(Tried(S))
        /\ \A n \in (j + 1)..Len(retryQueue) : retryQueue[n] \in Range(retryQueue')
        /\ \A r \in Range(retryQueue') : \E n \in (j + 1)..Len(retryQueue) : r = retryQueue[n]
      BY <1>1, <2>1, PartFacts
  <2> QED BY <1>1, <1>2, <2>2, <2>3
<1>12. /\ newOrders' \in Seq(S)
       /\ \A n \in (k + 1)..Len(newOrders) : newOrders[n] \in Range(newOrders')
       /\ \A r \in Range(newOrders') : \E n \in (k + 1)..Len(newOrders) : r = newOrders[n]
  <2>1. k + 1 \in 1..(Len(newOrders) + 1) /\ Len(newOrders) \in ((k + 1) - 1)..Len(newOrders)
      BY <1>2
  <2> QED BY <1>1, <2>1, PartFacts
<1>13. /\ \A n \in 1..j : a[n] \in Range(evalOrders')
       /\ \A n \in 1..k : b[n] \in Range(evalOrders')
       /\ \A r \in Range(evalOrders') : (\E n \in 1..j : r = a[n]) \/ \E n \in 1..k : r = b[n]
    BY <1>7, <1>10 DEF Range
<1>14. Range(newOrders') \subseteq Range(newOrders)
    BY <1>2, <1>12
<1>15. ASSUME NEW x \in Range(newOrders)
       PROVE  x \in Range(newOrders') \/ \E r \in Range(evalOrders') : r.of = x
  <2>1. PICK n \in 1..Len(newOrders) : x = newOrders[n]
      BY <1>2
  <2>2. CASE n <= k
    <3>1. n \in 1..k BY <2>2
    <3> QED BY <1>6, <1>13, <2>1, <3>1
  <2>3. CASE n > k
    <3>1. n \in (k + 1)..Len(newOrders) BY <1>2, <2>3
    <3> QED BY <1>12, <2>1, <3>1
  <2> QED BY <1>2, <2>2, <2>3
<1>16. ASSUME NEW q \in Range(retryQueue)
       PROVE  \E r \in Range(evalOrders') \cup Range(retryQueue') : r.of = q.of
  <2>1. PICK n \in 1..Len(retryQueue) : q = retryQueue[n]
      BY <1>2
  <2>2. CASE n <= j
    <3>1. n \in 1..j BY <2>2
    <3> QED BY <1>5, <1>13, <2>1, <3>1
  <2>3. CASE n > j
    <3>1. n \in (j + 1)..Len(retryQueue) BY <1>2, <2>3
    <3> QED BY <1>11, <2>1, <3>1
  <2> QED BY <1>2, <2>2, <2>3
<1>17. ASSUME NEW r \in Range(evalOrders') \cup Range(retryQueue')
       PROVE  \/ \E q \in Range(retryQueue) : r.of = q.of
              \/ \E l \in 1..k : r.of = newOrders[l]
  <2>1. CASE r \in Range(evalOrders')
    <3>1. ASSUME NEW n \in 1..j, r = a[n] PROVE \E q \in Range(retryQueue) : r.of = q.of
      <4>1. n \in 1..Len(retryQueue) BY <1>2
      <4> QED BY <1>2, <1>5, <3>1, <4>1
    <3> QED BY <1>6, <1>13, <2>1, <3>1
  <2>2. CASE r \in Range(retryQueue')
    <3>1. PICK n \in (j + 1)..Len(retryQueue) : r = retryQueue[n]
        BY <1>11, <2>2
    <3>2. n \in 1..Len(retryQueue) BY <1>2
    <3> QED BY <1>2, <3>1, <3>2
  <2> QED BY <2>1, <2>2
<1>18. Len(evalOrders') + Len(retryQueue') = Len(retryQueue) + k
    BY <1>2, <1>10, <1>11
<1> QED BY <1>1, <1>10, <1>11, <1>12, <1>14, <1>15, <1>16, <1>17, <1>18

\* What a round takes is due, and there is room for it.
LEMMA DuePrefixFacts ==
    ASSUME NEW S, newOrders \in Seq(S), Capacity \in Int, NEW n \in Int,
           \A x \in S : ExpireAt(x) \in Int
    PROVE  /\ DuePrefix(n) \in 0..Len(newOrders)
           /\ \A l \in 1..DuePrefix(n) : ExpireAt(newOrders[l]) <= n /\ l <= Capacity
<1> PICK c \in Int : c = Capacity
    OBVIOUS
<1> DEFINE Fits(l) == ExpireAt(newOrders[l]) <= n /\ l <= c
           T == {k \in 0..Len(newOrders) : k < Len(newOrders) => ~Fits(k + 1)}
           Is(k) == /\ \A l \in 1..k : ExpireAt(newOrders[l]) <= n /\ l <= Capacity
                    /\ k < Len(newOrders) =>
                          ExpireAt(newOrders[k + 1]) > n \/ k + 1 > Capacity
<1>1. Len(newOrders) \in Nat
    BY SeqFacts
<1>2. Len(newOrders) \in T /\ T \subseteq Nat
    BY <1>1
<1>3. PICK k \in T : \A m \in T : k <= m
    BY <1>2, LeastNatural
<1>4. k \in 0..Len(newOrders) /\ (k < Len(newOrders) => ~Fits(k + 1))
    BY <1>3
<1>5. ASSUME NEW l \in 1..k PROVE Fits(l)
  <2>1. l - 1 \in 0..Len(newOrders) /\ l - 1 < Len(newOrders) /\ (l - 1) + 1 = l /\ l - 1 < k
      BY <1>1, <1>4
  <2>2. l - 1 \notin T
      BY <1>1, <1>3, <1>4, <2>1
  <2> QED BY <2>1, <2>2
<1>6. \A l \in 1..k : ExpireAt(newOrders[l]) <= n /\ l <= Capacity
    BY <1>5
<1>7. k < Len(newOrders) => ExpireAt(newOrders[k + 1]) > n \/ k + 1 > Capacity
  <2> SUFFICES ASSUME k < Len(newOrders)
               PROVE  ExpireAt(newOrders[k + 1]) > n \/ k + 1 > Capacity
      OBVIOUS
  <2>1. k + 1 \in 1..Len(newOrders)
      BY <1>1, <1>4
  <2>2. ExpireAt(newOrders[k + 1]) \in Int /\ k + 1 \in Int
      BY <2>1, SeqFacts
  <2> QED BY <1>4, <2>2
<1>8. Is(k)
    BY <1>6, <1>7
<1>9. DuePrefix(n) = CHOOSE m \in 0..Len(newOrders) : Is(m)
    BY DEF DuePrefix
<1> HIDE DEF Is
<1>10. DuePrefix(n) \in 0..Len(newOrders) /\ Is(DuePrefix(n))
    BY <1>4, <1>8, <1>9
<1> QED BY <1>10 DEF Is

\* The first of a set of places.
LEMMA FirstPlace ==
    ASSUME NEW n \in Nat, NEW T, T \subseteq 1..n, T # {}
    PROVE  /\ (CHOOSE k \in T : \A l \in T : k <= l) \in T
           /\ \A l \in T : (CHOOSE k \in T : \A m \in T : k <= m) <= l
<1>1. T \subseteq Nat
    OBVIOUS
<1>2. \E k \in T : \A l \in T : k <= l
    BY <1>1, LeastNatural
<1> QED BY <1>2

\* An order that is put in its place pushes nothing out.
LEMMA InsertFacts ==
    ASSUME NEW S, newOrders \in Seq(S), NEW i \in S
    PROVE  LET orders == Inserted(i, InsertAt(i, newOrders), newOrders) IN
           /\ orders \in Seq(S) /\ Range(orders) = Range(newOrders) \cup {i}
<1> DEFINE k == InsertAt(i, newOrders)
           later == {m \in DOMAIN newOrders : ExpireAt(newOrders[m]) > ExpireAt(i)}
<1>1. Len(newOrders) \in Nat /\ DOMAIN newOrders = 1..Len(newOrders)
      /\ (\A x \in Range(newOrders) : \E m \in 1..Len(newOrders) : x = newOrders[m])
      /\ \A m \in 1..Len(newOrders) : newOrders[m] \in Range(newOrders)
    BY SeqFacts
<1>2. k \in 1..(Len(newOrders) + 1)
  <2>1. CASE later = {}
      BY <1>1, <2>1 DEF InsertAt
  <2>2. CASE later # {}
    <3>1. k = CHOOSE m \in later : \A l \in later : m <= l
        BY <2>2 DEF InsertAt
    <3>2. later \subseteq 1..Len(newOrders)
        BY <1>1
    <3> HIDE DEF later, k
    <3>3. k \in later
        BY <1>1, <2>2, <3>1, <3>2, FirstPlace
    <3> QED BY <1>1, <3>2, <3>3
  <2> QED BY <2>1, <2>2
<1> HIDE DEF k
<1> DEFINE a == SubSeq(newOrders, 1, k - 1)
           b == SubSeq(newOrders, k, Len(newOrders))
<1>3. /\ a \in Seq(S) /\ (\A m \in 1..(k - 1) : newOrders[m] \in Range(a))
      /\ \A x \in Range(a) : \E m \in 1..(k - 1) : x = newOrders[m]
  <2>1. 1 \in 1..(Len(newOrders) + 1) /\ k - 1 \in (1 - 1)..Len(newOrders)
      BY <1>1, <1>2
  <2> QED BY <2>1, PartFacts
<1>4. /\ b \in Seq(S) /\ (\A m \in k..Len(newOrders) : newOrders[m] \in Range(b))
      /\ \A x \in Range(b) : \E m \in k..Len(newOrders) : x = newOrders[m]
  <2>1. Len(newOrders) \in (k - 1)..Len(newOrders)
      BY <1>1, <1>2
  <2> QED BY <1>2, <2>1, PartFacts
<1> HIDE DEF a, b
<1>5. <<i>> \in Seq(S) /\ Range(<<i>>) = {i}
    BY DEF Range
<1>6. /\ a \o <<i>> \o b \in Seq(S)
      /\ Range(a \o <<i>> \o b) = Range(a) \cup {i} \cup Range(b)
  <2>1. a \o <<i>> \in Seq(S) /\ Range(a \o <<i>>) = Range(a) \cup Range(<<i>>)
    <3> DEFINE one == <<i>>
    <3>1. one \in Seq(S)
        BY <1>5
    <3> HIDE DEF one
    <3>2. a \o one \in Seq(S) /\ Range(a \o one) = Range(a) \cup Range(one)
        BY <1>3, <3>1, ConcatFacts
    <3> QED BY <3>2 DEF one
  <2> DEFINE c == a \o <<i>>
  <2> HIDE DEF c
  <2>2. c \o b \in Seq(S) /\ Range(c \o b) = Range(c) \cup Range(b)
    <3>1. c \in Seq(S)
        BY <2>1 DEF c
    <3> QED BY <1>4, <3>1, ConcatFacts
  <2> QED BY <1>5, <2>1, <2>2 DEF c
<1>7. Range(a) \subseteq Range(newOrders)
  <2>1. \A m \in 1..(k - 1) : m \in 1..Len(newOrders)
      BY <1>1, <1>2
  <2> QED BY <1>1, <1>3, <2>1
<1>8. Range(b) \subseteq Range(newOrders)
  <2>1. \A m \in k..Len(newOrders) : m \in 1..Len(newOrders)
      BY <1>1, <1>2
  <2> QED BY <1>1, <1>4, <2>1
<1>9. Range(newOrders) \subseteq Range(a) \cup Range(b)
  <2>1. \A m \in 1..Len(newOrders) : m \in 1..(k - 1) \/ m \in k..Len(newOrders)
      BY <1>1, <1>2
  <2> QED BY <1>1, <1>3, <1>4, <2>1
<1>10. Inserted(i, InsertAt(i, newOrders), newOrders) = a \o <<i>> \o b
    BY DEF Inserted, a, b, k
<1> QED BY <1>6, <1>7, <1>8, <1>9, <1>10

\* Nothing but an order with the id is taken away.
LEMMA RemoveFacts ==
    ASSUME NEW S, newOrders \in Seq(S), NEW u
    PROVE  LET orders == RemoveId(u, newOrders) IN
           /\ orders \in Seq(S) /\ Range(orders) \subseteq Range(newOrders)
           /\ \A x \in Range(newOrders) : IdOf(x) # u => x \in Range(orders)
<1> DEFINE same == {m \in DOMAIN newOrders : IdOf(newOrders[m]) = u}
           k == CHOOSE m \in same : \A l \in same : m <= l
<1>1. Len(newOrders) \in Nat /\ DOMAIN newOrders = 1..Len(newOrders)
      /\ (\A x \in Range(newOrders) : \E m \in 1..Len(newOrders) : x = newOrders[m])
      /\ \A m \in 1..Len(newOrders) : newOrders[m] \in Range(newOrders)
    BY SeqFacts
<1>2. CASE same = {}
  <2>1. RemoveId(u, newOrders) = newOrders
      BY <1>2 DEF RemoveId
  <2>2. \A x \in Range(newOrders) : x \in Range(newOrders)
      OBVIOUS
  <2> QED BY <2>1, <2>2
<1>3. CASE same # {}
  <2>1. same \subseteq 1..Len(newOrders)
      BY <1>1
  <2>2. k \in same /\ k \in 1..Len(newOrders) /\ IdOf(newOrders[k]) = u
    <3> HIDE DEF same
    <3>1. k \in same
        BY <1>1, <1>3, <2>1, FirstPlace
    <3> QED BY <2>1, <3>1 DEF same
  <2> DEFINE a == SubSeq(newOrders, 1, k - 1)
             b == SubSeq(newOrders, k + 1, Len(newOrders))
  <2>3. RemoveId(u, newOrders) = a \o b
      BY <1>3 DEF RemoveId
  <2> HIDE DEF k
  <2>4. /\ a \in Seq(S) /\ (\A m \in 1..(k - 1) : newOrders[m] \in Range(a))
        /\ \A x \in Range(a) : \E m \in 1..(k - 1) : x = newOrders[m]
    <3>1. 1 \in 1..(Len(newOrders) + 1) /\ k - 1 \in (1 - 1)..Len(newOrders)
        BY <1>1, <2>2
    <3> QED BY <3>1, PartFacts
  <2>5. /\ b \in Seq(S) /\ (\A m \in (k + 1)..Len(newOrders) : newOrders[m] \in Range(b))
        /\ \A x \in Range(b) : \E m \in (k + 1)..Len(newOrders) : x = newOrders[m]
    <3>1. k + 1 \in 1..(Len(newOrders) + 1) /\ Len(newOrders) \in ((k + 1) - 1)..Len(newOrders)
        BY <1>1, <2>2
    <3> QED BY <3>1, PartFacts
  <2> HIDE DEF a, b, same
  <2>6. a \o b \in Seq(S) /\ Range(a \o b) = Range(a) \cup Range(b)
      BY <2>4, <2>5, ConcatFacts
  <2>7. Range(a) \subseteq Range(newOrders)
    <3>1. \A m \in 1..(k - 1) : m \in 1..Len(newOrders)
        BY <1>1, <2>2
    <3> QED BY <1>1, <2>4, <3>1
  <2>8. Range(b) \subseteq Range(newOrders)
    <3>1. \A m \in (k + 1)..Len(newOrders) : m \in 1..Len(newOrders)
        BY <1>1, <2>2
    <3> QED BY <1>1, <2>5, <3>1
  <2>9. ASSUME NEW x \in Range(newOrders), IdOf(x) # u PROVE x \in Range(a) \cup Range(b)
    <3>1. PICK m \in 1..Len(newOrders) : x = newOrders[m]
        BY <1>1
    <3>2. m # k
        BY <2>2, <2>9, <3>1
    <3>3. m \in 1..(k - 1) \/ m \in (k + 1)..Len(newOrders)
        BY <1>1, <2>2, <3>2
    <3> QED BY <2>4, <2>5, <3>1, <3>3
  <2> QED BY <2>3, <2>6, <2>7, <2>8, <2>9
<1> QED BY <1>2, <1>3

-----------------------------------------------------------------------------
(* The worker.                                                             *)

\* The worker has orders for what it was told of, and only for that.
WorkerShape ==
    /\ heard \subseteq 1..event
    /\ newOrders \in Seq(heard) /\ evaluated \in Seq(heard)
    /\ evalOrders \in Seq(Tried(heard)) /\ retryQueue \in Seq(Tried(heard))
    /\ pending \cup settled \subseteq heard
    /\ orphans \subseteq DOMAIN log
    /\ activeState \in Nat
    /\ pc \in {"start", "loop", "asking", "eval", "evalSwap"}
    /\ pc \in {"start", "loop", "asking"} => evalOrders = <<>> /\ evaluated = <<>>
    /\ pc = "evalSwap" => evalOrders # <<>>

LEMMA SeqGrows ==
    ASSUME NEW T, NEW S \in SUBSET T
    PROVE  Seq(S) \subseteq Seq(T) /\ Seq(Tried(S)) \subseteq Seq(Tried(T))
<1>1. Tried(S) \subseteq Tried(T)
    BY DEF Tried
<1>2. \A A, B : A \subseteq B => Seq(A) \subseteq Seq(B)
  <2> SUFFICES ASSUME NEW A, NEW B, A \subseteq B, NEW s \in Seq(A) PROVE s \in Seq(B)
      OBVIOUS
  <2>1. Len(s) \in Nat /\ DOMAIN s = 1..Len(s) /\ s \in [1..Len(s) -> A]
      BY LenProperties
  <2>2. s \in [1..Len(s) -> B]
      BY <2>1
  <2> QED BY <2>1, <2>2, IsASeq
<1> QED BY <1>1, <1>2

LEMMA EventGrows ==
    ASSUME StoreShape, [Next]_vars, ~Restart
    PROVE  event \in Nat /\ event' \in Nat /\ event <= event'
<1>1. event \in Nat
    BY DEF StoreShape
<1>2. event' = event \/ event' = event + 1
    BY StoreKinds, SavesKinds DEF Taken, SetUnderwrite, CompleteUnderwrite, EventSaved
<1> QED BY <1>1, <1>2

LEMMA CapacityFacts ==
    ASSUME StoreShape, WorkerShape
    PROVE  /\ IsFiniteSet(pending) /\ IsFiniteSet(settled)
           /\ Cardinality(pending) \in Nat /\ Cardinality(settled) \in Nat
           /\ Len(retryQueue) \in Nat /\ Capacity \in Int
           /\ Capacity = MaxPending - Len(retryQueue) - Cardinality(pending) - Cardinality(settled)
<1>1. event \in Nat /\ IsFiniteSet(1..event)
    BY FS_Interval DEF StoreShape
<1>2. pending \subseteq 1..event /\ settled \subseteq 1..event
    BY DEF WorkerShape
<1>3. IsFiniteSet(pending) /\ IsFiniteSet(settled)
    BY <1>1, <1>2, FS_Subset
<1>4. Cardinality(pending) \in Nat /\ Cardinality(settled) \in Nat
    BY <1>3, FS_CardinalityType
<1>5. Len(retryQueue) \in Nat
    BY SeqFacts DEF WorkerShape
<1> QED BY <1>3, <1>4, <1>5, ConstantFacts DEF Capacity

LEMMA HeardFacts ==
    ASSUME ChainShape, StoreShape, WorkerShape
    PROVE  \A i \in heard : /\ i \in DOMAIN log /\ i \in Nat \ {0} /\ log[i] \in Event
                            /\ IdOf(i) \in UnderwriteIds /\ ExpireAt(i) \in Int
<1> SUFFICES ASSUME NEW i \in heard
             PROVE  /\ i \in DOMAIN log /\ i \in Nat \ {0} /\ log[i] \in Event
                    /\ IdOf(i) \in UnderwriteIds /\ ExpireAt(i) \in Int
    OBVIOUS
<1>1. i \in 1..event /\ event \in 0..Len(log) /\ log \in Seq(Event)
    BY DEF ChainShape, StoreShape, WorkerShape
<1>2. i \in 1..Len(log) /\ DOMAIN log = 1..Len(log)
    BY <1>1, SeqFacts
<1>3. log[i] \in Event
    BY <1>1, <1>2, SeqFacts
<1>4. log[i].expiry \in Int /\ log[i].id \in UnderwriteIds
    BY <1>3 DEF Event
<1>5. ExpireAt(i) \in Int
    BY <1>4, ConstantFacts DEF ExpireAt
<1> QED BY <1>1, <1>2, <1>3, <1>4, <1>5 DEF IdOf

\* The block numbers the worker has are of blocks there were.
Past(b) == b \in 0..block /\ Observed(b) <= Observed(block)

TimeShape ==
    /\ currentStatus = NoBlock \/ Past(currentStatus)
    /\ asked = NoBlock \/ Past(asked)
    /\ transactionBlockNumber = NoBlock \/ (/\ transactionBlockNumber \in Nat
                                            /\ transactionBlockNumber <= Observed(block))
    /\ pc = "asking" => asked # NoBlock
    /\ pc # "start" => currentStatus # NoBlock

\* A round takes up what is due by now, and there is room for it.
LEMMA RoundFacts ==
    ASSUME ChainShape, StoreShape, WorkerShape, TimeShape, BeginRound \/ GetBlockNumber
    PROVE  \E k \in 0..Len(newOrders) :
              /\ Evaluate(k)
              /\ \A l \in 1..k : ExpireAt(newOrders[l]) <= Observed(block) /\ l <= Capacity
<1>1. newOrders \in Seq(heard) /\ Len(newOrders) \in Nat
      /\ \A l \in 1..Len(newOrders) : newOrders[l] \in heard
    BY SeqFacts DEF WorkerShape
<1>2. Observed(block) \in Nat
    BY ConstantFacts DEF ChainShape
<1>3. CASE Evaluate(0)
  <2>1. 0 \in 0..Len(newOrders) /\ 1..0 = {}
      BY <1>1
  <2> QED BY <1>3, <2>1
<1>4. ASSUME NEW n \in Nat, n <= Observed(block), ProcessNewOrders(n)
      PROVE  \E k \in 0..Len(newOrders) :
                /\ Evaluate(k)
                /\ \A l \in 1..k : ExpireAt(newOrders[l]) <= Observed(block) /\ l <= Capacity
  <2> PICK k : k = DuePrefix(n)
      OBVIOUS
  <2>1. /\ k \in 0..Len(newOrders)
        /\ \A l \in 1..k : ExpireAt(newOrders[l]) <= n /\ l <= Capacity
    <3>1. \A x \in heard : ExpireAt(x) \in Int
        BY HeardFacts
    <3> QED BY <1>1, <3>1, CapacityFacts, DuePrefixFacts
  <2>2. ASSUME NEW l \in 1..k PROVE ExpireAt(newOrders[l]) <= Observed(block) /\ l <= Capacity
    <3>1. l \in 1..Len(newOrders)
        BY <1>1, <2>1
    <3>2. ExpireAt(newOrders[l]) \in Int /\ ExpireAt(newOrders[l]) <= n
        BY <1>1, <2>1, <3>1, HeardFacts
    <3> QED BY <1>2, <1>4, <2>1, <3>2
  <2>3. Evaluate(k)
      BY <1>4 DEF ProcessNewOrders
  <2> QED BY <2>1, <2>2, <2>3
<1>5. CASE BeginRound
  <2>1. CASE transactionBlockNumber # NoBlock /\ ProcessNewOrders(transactionBlockNumber)
      BY <1>4, <2>1 DEF TimeShape
  <2> QED BY <1>3, <1>5, <2>1 DEF BeginRound
<1>6. CASE GetBlockNumber
  <2>1. asked \in 0..MaxBlock /\ Observed(asked) <= Observed(block)
      BY <1>6, ConstantFacts DEF GetBlockNumber, TimeShape, Past, ChainShape
  <2>2. Observed(asked) \in Nat /\ ProcessNewOrders(Observed(asked))
      BY <1>6, <2>1, ConstantFacts DEF GetBlockNumber
  <2> QED BY <1>4, <2>1, <2>2
<1> QED BY <1>5, <1>6

LEMMA OrderFacts ==
    ASSUME WorkerShape, evalOrders # <<>>
    PROVE  /\ Order \in Tried(heard) /\ Order.of \in heard
           /\ Tail(evalOrders) \in Seq(Tried(heard))
           /\ Len(evalOrders) \in Nat \ {0} /\ Len(Tail(evalOrders)) = Len(evalOrders) - 1
           /\ Range(evalOrders) = Range(Tail(evalOrders)) \cup {Order}
<1> DEFINE T == Tried(heard)
<1>1. \A x \in T : x.of \in heard
    BY DEF Tried
<1>2. evalOrders \in Seq(T)
    BY DEF WorkerShape
<1> HIDE DEF T
<1>3. /\ Head(evalOrders) \in T /\ Tail(evalOrders) \in Seq(T)
      /\ Len(evalOrders) \in Nat \ {0} /\ Len(Tail(evalOrders)) = Len(evalOrders) - 1
      /\ Range(evalOrders) = Range(Tail(evalOrders)) \cup {Head(evalOrders)}
    BY <1>2, TailFacts
<1> QED BY <1>1, <1>3 DEF Order, T

LEMMA WorkerShapeStep ==
    ASSUME ChainShape, StoreShape, WorkerShape, TimeShape, ChainStep, StoreShape', [Next]_vars
    PROVE  WorkerShape'
<1>1. DOMAIN log \subseteq DOMAIN log' /\ DOMAIN log = 1..Len(log) /\ Len(log) \in Nat
    BY LogGrows DEF ChainShape
<1>2. \A i \in heard : i \in DOMAIN log
    BY HeardFacts
<1>3. ~Restart => heard \subseteq 1..event'
    BY EventGrows DEF WorkerShape
<1> USE DEF storeVs, timeVs, queueVs, walletVs, doneVs
<1>4. CASE Quiet \/ Saves \/ \E i \in pending : Settles(i)
  <2>1. /\ UNCHANGED <<queueVs, heard>> /\ orphans' \subseteq orphans
        /\ pending' \cup settled' \subseteq pending \cup settled
      BY <1>4 DEF Quiet, Saves, Settles
  <2>2. heard \subseteq 1..event'
      BY <1>3, <1>4 DEF Quiet, Saves, Settles, EventSaved, SetUnderwrite, GetUnderwrite,
                        MoveDescription, CompleteUnderwrite, WorkerShape, StoreShape
  <2> QED BY <1>1, <2>1, <2>2 DEF WorkerShape
<1>5. CASE UpdateStatus
    BY <1>1, <1>5 DEF UpdateStatus, storeVars, entryVars, saveVars, queueVars, walletVars,
                      historyVars, restartVars, WorkerShape
<1>6. CASE Restart
  <2>1. /\ heard' = {} /\ newOrders' = <<>> /\ evalOrders' = <<>> /\ retryQueue' = <<>>
        /\ evaluated' = <<>> /\ activeState' = 0 /\ pc' = "start" /\ pending' = {}
        /\ settled' = {} /\ orphans' = orphans \cup pending
      BY <1>6 DEF Restart
  <2>2. orphans' \subseteq DOMAIN log
      BY <1>2, <2>1 DEF WorkerShape
  <2>3. newOrders' \in Seq(heard') /\ evaluated' \in Seq(heard')
        /\ evalOrders' \in Seq(Tried(heard')) /\ retryQueue' \in Seq(Tried(heard'))
      BY <2>1, EmptyFacts
  <2> QED BY <1>1, <2>1, <2>2, <2>3 DEF WorkerShape
<1>7. ASSUME NEW i \in DOMAIN log, AddExpireOrder(i) PROVE WorkerShape'
  <2>1. /\ Receive("onSwapUnderwritten") /\ Head(channel).of = i /\ event' = event
        /\ newOrders' = Inserted(i, InsertAt(i, newOrders), newOrders)
        /\ heard' = heard \cup {i} /\ UNCHANGED <<queueVars, pc, walletVars, orphans>>
      BY <1>7 DEF AddExpireOrder, entryVars, saveVars, restartVars
  <2>2. i \in 1..event
    <3>1. Head(channel) \in Range(channel)
        BY <2>1, TailFacts DEF Receive, StoreShape
    <3> QED BY <1>1, <2>1, <3>1 DEF StoreShape
  <2>3. /\ Seq(heard) \subseteq Seq(heard')
        /\ Seq(Tried(heard)) \subseteq Seq(Tried(heard'))
      BY <2>1, SeqGrows
  <2>4. newOrders' \in Seq(heard')
    <3>1. newOrders \in Seq(heard') /\ i \in heard'
        BY <2>1, <2>3 DEF WorkerShape
    <3> QED BY <2>1, <3>1, InsertFacts
  <2>5. heard' \subseteq 1..event'
      BY <2>1, <2>2 DEF WorkerShape
  <2> QED BY <1>1, <2>1, <2>3, <2>4, <2>5 DEF WorkerShape, queueVars, walletVars
<1>8. CASE RemoveExpireOrder
  <2>1. /\ newOrders' = RemoveId(IdOf(Head(channel).of), newOrders) /\ event' = event
        /\ heard' = heard /\ UNCHANGED <<queueVars, pc, walletVars, orphans>>
      BY <1>8 DEF RemoveExpireOrder, entryVars, saveVars, restartVars
  <2>2. newOrders' \in Seq(heard')
      BY <2>1, RemoveFacts DEF WorkerShape
  <2> QED BY <1>1, <2>1, <2>2 DEF WorkerShape, queueVars, walletVars
<1>9. CASE Subscribe
  <2>1. /\ pc = "start" /\ pc' \in {"start", "loop"} /\ event' = event /\ heard' = heard
        /\ UNCHANGED <<newOrders, queueVars, walletVars, orphans>>
      BY <1>9 DEF Subscribe, entryVars, saveVars, historyVars, restartVars
  <2> QED BY <1>1, <2>1 DEF WorkerShape, queueVars, walletVars
<1>10. CASE BeginRound \/ GetBlockNumber
  <2>1. /\ event' = event /\ heard' = heard
        /\ UNCHANGED <<evaluated, activeState, walletVars, orphans>>
      BY <1>10 DEF BeginRound, GetBlockNumber, storeVars, entryVars, saveVars, historyVars,
                   restartVars
  <2>2. PICK k \in 0..Len(newOrders) : Evaluate(k)
      BY <1>10, RoundFacts
  <2>3. /\ newOrders' \in Seq(heard) /\ evalOrders' \in Seq(Tried(heard))
        /\ retryQueue' \in Seq(Tried(heard)) /\ pc' = "eval"
      BY <2>2, EvaluateFacts DEF WorkerShape
  <2> QED BY <1>1, <2>1, <2>3 DEF WorkerShape, walletVars
<1>11. CASE AskBlockNumber
    BY <1>1, <1>11 DEF AskBlockNumber, storeVars, entryVars, saveVars, queueVars, walletVars,
                       historyVars, restartVars, WorkerShape
<1>12. CASE ReadActive
  <2>1. /\ pc' = "evalSwap" /\ event' = event /\ heard' = heard /\ evalOrders # <<>>
        /\ activeState' = active[IdOf(Order.of)]
        /\ UNCHANGED <<newOrders, evalOrders, retryQueue, evaluated, walletVars, orphans>>
      BY <1>12 DEF ReadActive, storeVars, entryVars, saveVars, historyVars, restartVars
  <2>2. Order.of \in heard
      BY <2>1, OrderFacts
  <2>3. activeState' \in Nat
      BY <2>1, <2>2, HeardFacts DEF StoreShape
  <2> QED BY <1>1, <2>1, <2>3 DEF WorkerShape, walletVars
<1>13. CASE ReadSwap
  <2>1. /\ pc = "evalSwap" /\ pc' = "eval" /\ event' = event /\ heard' = heard
        /\ evalOrders' = Tail(evalOrders) /\ activeState' = 0
        /\ UNCHANGED <<newOrders, walletVars, orphans>>
      BY <1>13 DEF ReadSwap, storeVars, entryVars, saveVars, restartVars
  <2>2. Order \in Tried(heard) /\ Order.of \in heard /\ evalOrders' \in Seq(Tried(heard))
      BY <2>1, OrderFacts DEF WorkerShape
  <2>3. evaluated' \in Seq(heard) /\ retryQueue' \in Seq(Tried(heard))
    <3>1. \/ evaluated' = evaluated \/ evaluated' = Append(evaluated, Order.of)
        BY <1>13 DEF ReadSwap, EvaluateOrder, Drop, Fail, Accept
    <3>2. \/ retryQueue' = retryQueue \/ retryQueue' = Append(retryQueue, Order)
        BY <1>13 DEF ReadSwap, EvaluateOrder, Drop, Fail, Accept
    <3>3. evaluated \in Seq(heard) /\ retryQueue \in Seq(Tried(heard))
        BY DEF WorkerShape
    <3>4. Append(evaluated, Order.of) \in Seq(heard)
        BY <2>2, <3>3, AppendFacts
    <3>5. Append(retryQueue, Order) \in Seq(Tried(heard))
      <4> DEFINE T == Tried(heard)
      <4>1. Order \in T /\ retryQueue \in Seq(T)
          BY <2>2, <3>3
      <4> HIDE DEF T
      <4>2. Append(retryQueue, Order) \in Seq(T)
          BY <4>1, AppendFacts
      <4> QED BY <4>2 DEF T
    <3> QED BY <3>1, <3>2, <3>3, <3>4, <3>5
  <2> QED BY <1>1, <2>1, <2>2, <2>3 DEF WorkerShape, walletVars
<1>14. CASE SubmitExpires
  <2>1. /\ evalOrders = <<>> /\ pc' = "loop" /\ event' = event /\ heard' = heard
        /\ pending' = pending \cup Range(evaluated) /\ settled' = {} /\ evaluated' = <<>>
        /\ UNCHANGED <<newOrders, evalOrders, retryQueue, activeState, orphans>>
      BY <1>14 DEF SubmitExpires, storeVars, entryVars, saveVars, restartVars
  <2>2. Range(evaluated) \subseteq heard
      BY SeqFacts DEF WorkerShape
  <2>3. evaluated' \in Seq(heard)
      BY <2>1, EmptyFacts
  <2> QED BY <1>1, <2>1, <2>2, <2>3 DEF WorkerShape
<1> QED BY <1>4, <1>5, <1>6, <1>7, <1>8, <1>9, <1>10, <1>11, <1>12, <1>13, <1>14, StepKinds

LEMMA TimeShapeStep ==
    ASSUME ChainShape, TimeShape, BlockStep, [Next]_vars
    PROVE  TimeShape'
<1>1. /\ block' \in 0..MaxBlock /\ block <= block' /\ block \in 0..MaxBlock
      /\ Observed(block) \in Nat /\ Observed(block') \in Nat
      /\ Observed(block) <= Observed(block')
    BY ObservedGrows DEF ChainShape
<1>2. ASSUME NEW b, Past(b)
      PROVE  /\ b \in 0..MaxBlock /\ b \in 0..block' /\ Observed(b) \in Nat /\ b # NoBlock
             /\ Observed(b) <= Observed(block')
  <2>1. b \in 0..MaxBlock /\ b \in 0..block'
      BY <1>1, <1>2, ConstantFacts DEF Past
  <2>2. Observed(b) \in Nat
      BY <2>1, ConstantFacts
  <2> QED BY <1>1, <1>2, <2>1, <2>2 DEF Past, NoBlock
<1>3. Past(block)
    BY <1>1 DEF Past
<1>4. /\ currentStatus = NoBlock
         \/ (currentStatus \in 0..block' /\ Observed(currentStatus) <= Observed(block'))
      /\ asked = NoBlock \/ (asked \in 0..block' /\ Observed(asked) <= Observed(block'))
      /\ transactionBlockNumber = NoBlock \/ (/\ transactionBlockNumber \in Nat
                                              /\ transactionBlockNumber <= Observed(block'))
    BY <1>1, <1>2 DEF TimeShape
<1> USE DEF storeVs, timeVs, queueVs, walletVs, doneVs
<1>5. CASE UNCHANGED timeVs /\ (pc' = pc \/ (pc # "start" /\ pc' # "asking"))
    BY <1>4, <1>5 DEF TimeShape, Past
<1>6. CASE UpdateStatus
  <2>1. currentStatus' = block /\ transactionBlockNumber' = NoBlock /\ UNCHANGED <<asked, pc>>
      BY <1>6 DEF UpdateStatus
  <2> QED BY <1>2, <1>3, <1>4, <2>1 DEF TimeShape, Past
<1>7. CASE AskBlockNumber
  <2>1. /\ pc = "loop" /\ asked' = currentStatus /\ pc' = "asking"
        /\ UNCHANGED <<currentStatus, transactionBlockNumber>>
      BY <1>7 DEF AskBlockNumber, statusVars
  <2> QED BY <1>4, <2>1 DEF TimeShape, Past
<1>8. CASE GetBlockNumber
  <2>1. /\ pc = "asking" /\ asked' = NoBlock /\ transactionBlockNumber' = Observed(asked)
        /\ UNCHANGED currentStatus /\ pc' = "eval"
      BY <1>8 DEF GetBlockNumber, ProcessNewOrders, Evaluate
  <2>2. Observed(asked) \in Nat /\ Observed(asked) <= Observed(block')
      BY <1>2, <2>1 DEF TimeShape
  <2> QED BY <1>4, <2>1, <2>2 DEF TimeShape, Past
<1>9. CASE Restart
    BY <1>9 DEF Restart, TimeShape
<1>10. CASE \/ Quiet \/ Saves \/ RemoveExpireOrder \/ \E i \in pending : Settles(i)
            \/ \E i \in DOMAIN log : AddExpireOrder(i)
  <2>1. UNCHANGED timeVs /\ pc' = pc
      BY <1>10 DEF Quiet, Saves, RemoveExpireOrder, Settles, AddExpireOrder, statusVars
  <2> QED BY <1>5, <2>1
<1>11. CASE BeginRound
  <2>1. UNCHANGED timeVs /\ pc = "loop" /\ pc' = "eval"
      BY <1>11 DEF BeginRound, ProcessNewOrders, Evaluate, statusVars
  <2> QED BY <1>5, <2>1
<1>12. CASE ReadActive \/ ReadSwap \/ SubmitExpires
  <2>1. UNCHANGED timeVs /\ pc # "start" /\ pc' # "asking"
      BY <1>12 DEF ReadActive, ReadSwap, SubmitExpires, statusVars
  <2> QED BY <1>5, <2>1
<1>13. CASE Subscribe
  <2>1. UNCHANGED timeVs /\ pc = "start" /\ pc' \in {"start", "loop"} /\ currentStatus # NoBlock
      BY <1>13 DEF Subscribe, statusVars
  <2> QED BY <1>4, <2>1 DEF TimeShape, Past
<1> QED BY <1>6, <1>7, <1>8, <1>9, <1>10, <1>11, <1>12, <1>13, StepKinds

-----------------------------------------------------------------------------
(* The joint invariant, and when orders are due.                           *)

\* What is being evaluated, was evaluated or is retried is due by now.
Due(i) == ExpireAt(i) <= Observed(block)
AllDue ==
    /\ \A i \in Range(evaluated) : Due(i)
    /\ \A r \in Range(evalOrders) \cup Range(retryQueue) : Due(r.of)

Shape == ChainShape /\ Ages /\ StoreShape /\ WorkerShape /\ TimeShape /\ AllDue

LEMMA DueFacts ==
    ASSUME ChainShape, StoreShape, WorkerShape, ChainStep, BlockStep
    PROVE  \A i \in heard : Due(i) => ExpireAt(i)' <= Observed(block')
<1>1. \A i \in heard : ExpireAt(i)' = ExpireAt(i)
    BY LogGrows, HeardFacts DEF ChainShape
<1>2. \A i \in heard : ExpireAt(i) \in Int
    BY HeardFacts
<1>3. /\ Observed(block) \in Nat /\ Observed(block') \in Nat
      /\ Observed(block) <= Observed(block')
    BY ObservedGrows DEF ChainShape
<1> QED BY <1>1, <1>2, <1>3 DEF Due

LEMMA AllDueStep ==
    ASSUME Shape, ChainStep, BlockStep, [Next]_vars
    PROVE  AllDue'
<1> USE DEF Shape
<1>1. /\ \A i \in Range(evaluated) : Due(i) /\ i \in heard
      /\ \A r \in Range(evalOrders) \cup Range(retryQueue) : Due(r.of) /\ r.of \in heard
  <2>1. \A x \in Tried(heard) : x.of \in heard
      BY DEF Tried
  <2>2. Range(evaluated) \subseteq heard
      BY SeqFacts DEF WorkerShape
  <2>3. \A r \in Range(evalOrders) \cup Range(retryQueue) : r \in Tried(heard)
    <3> DEFINE T == Tried(heard)
    <3>1. evalOrders \in Seq(T) /\ retryQueue \in Seq(T)
        BY DEF WorkerShape
    <3> HIDE DEF T
    <3>2. \A r \in Range(evalOrders) \cup Range(retryQueue) : r \in T
        BY <3>1, SeqFacts
    <3> QED BY <3>2 DEF T
  <2> QED BY <2>1, <2>2, <2>3 DEF AllDue
<1>2. \A i \in heard : Due(i) => ExpireAt(i)' <= Observed(block')
    BY DueFacts
<1>3. ASSUME /\ \A i \in Range(evaluated') : Due(i) /\ i \in heard
             /\ \A r \in Range(evalOrders') \cup Range(retryQueue') : Due(r.of) /\ r.of \in heard
      PROVE  AllDue'
  <2>1. \A i \in Range(evaluated') : ExpireAt(i)' <= Observed(block')
      BY <1>2, <1>3
  <2>2. \A r \in Range(evalOrders') \cup Range(retryQueue') : ExpireAt(r.of)' <= Observed(block')
      BY <1>2, <1>3
  <2> QED BY <2>1, <2>2 DEF AllDue, Due, ExpireAt
<1> USE DEF storeVs, timeVs, queueVs, walletVs, doneVs
<1>4. CASE UNCHANGED <<evaluated, evalOrders, retryQueue>>
    BY <1>1, <1>3, <1>4
<1>5. CASE \/ Quiet \/ Saves \/ UpdateStatus \/ RemoveExpireOrder
           \/ \E i \in pending : Settles(i)
           \/ \E i \in DOMAIN log : AddExpireOrder(i)
           \/ Subscribe \/ AskBlockNumber \/ ReadActive
  <2>1. UNCHANGED <<evaluated, evalOrders, retryQueue>>
      BY <1>5 DEF Quiet, Saves, UpdateStatus, RemoveExpireOrder, Settles, AddExpireOrder,
                  Subscribe, AskBlockNumber, ReadActive, queueVars
  <2> QED BY <1>4, <2>1
<1>6. CASE Restart
  <2>1. evaluated' = <<>> /\ evalOrders' = <<>> /\ retryQueue' = <<>>
      BY <1>6 DEF Restart
  <2>2. Range(evaluated') = {} /\ Range(evalOrders') = {} /\ Range(retryQueue') = {}
      BY <2>1, EmptyFacts
  <2> QED BY <1>3, <2>2
<1>7. CASE BeginRound \/ GetBlockNumber
  <2>1. evaluated' = evaluated
      BY <1>7 DEF BeginRound, GetBlockNumber
  <2>2. PICK k \in 0..Len(newOrders) :
           /\ Evaluate(k)
           /\ \A l \in 1..k : ExpireAt(newOrders[l]) <= Observed(block) /\ l <= Capacity
      BY <1>7, RoundFacts
  <2>3. newOrders \in Seq(heard) /\ \A l \in 1..Len(newOrders) : newOrders[l] \in heard
      BY SeqFacts DEF WorkerShape
  <2>4. \A l \in 1..k : Due(newOrders[l]) /\ newOrders[l] \in heard
    <3>1. \A l \in 1..k : l \in 1..Len(newOrders)
        BY <2>3, SeqFacts
    <3> QED BY <2>2, <2>3, <3>1 DEF Due
  <2>5. \A r \in Range(evalOrders') \cup Range(retryQueue') :
                 \/ \E q \in Range(retryQueue) : r.of = q.of
                 \/ \E l \in 1..k : r.of = newOrders[l]
      BY <2>2, <2>3, EvaluateFacts DEF WorkerShape
  <2> QED BY <1>1, <1>3, <2>1, <2>4, <2>5
<1>8. CASE ReadSwap
  <2>1. /\ evalOrders # <<>> /\ evalOrders' = Tail(evalOrders)
        /\ evaluated' = evaluated \/ evaluated' = Append(evaluated, Order.of)
        /\ retryQueue' = retryQueue \/ retryQueue' = Append(retryQueue, Order)
      BY <1>8 DEF ReadSwap, EvaluateOrder, Drop, Fail, Accept, WorkerShape
  <2>2. /\ Range(evalOrders') \subseteq Range(evalOrders) /\ Order \in Range(evalOrders)
        /\ Order.of \in heard /\ Order \in Tried(heard)
      BY <2>1, OrderFacts
  <2>3. Range(evaluated') \subseteq Range(evaluated) \cup {Order.of}
    <3>1. evaluated \in Seq(heard)
        BY DEF WorkerShape
    <3>2. Range(Append(evaluated, Order.of)) = Range(evaluated) \cup {Order.of}
        BY <2>2, <3>1, AppendFacts
    <3> QED BY <2>1, <3>2
  <2>4. Range(retryQueue') \subseteq Range(retryQueue) \cup {Order}
    <3> DEFINE T == Tried(heard)
    <3>1. retryQueue \in Seq(T) /\ Order \in T
        BY <2>2 DEF WorkerShape
    <3> HIDE DEF T
    <3>2. Range(Append(retryQueue, Order)) = Range(retryQueue) \cup {Order}
        BY <3>1, AppendFacts
    <3> QED BY <2>1, <3>2
  <2> QED BY <1>1, <1>3, <2>2, <2>3, <2>4
<1>9. CASE SubmitExpires
  <2>1. evaluated' = <<>> /\ UNCHANGED <<evalOrders, retryQueue>>
      BY <1>9 DEF SubmitExpires
  <2>2. Range(evaluated') = {}
      BY <2>1, EmptyFacts
  <2> QED BY <1>1, <1>3, <2>1, <2>2
<1> QED BY <1>5, <1>6, <1>7, <1>8, <1>9, StepKinds

LEMMA ShapeStep ==
    ASSUME Shape, [Next]_vars
    PROVE  Shape' /\ ChainStep /\ BlockStep /\ (block' = block \/ ChainKept)
<1>1. log \in Seq(Event) /\ pending \cup orphans \subseteq DOMAIN log
    BY HeardFacts DEF Shape, ChainShape, WorkerShape
<1>2. ChainStep /\ BlockStep /\ (block' = block \/ ChainKept)
    BY <1>1, ChainSteps
<1>3. ChainShape' /\ Ages'
    BY <1>2, ChainShapeStep DEF Shape
<1>4. StoreShape'
    BY <1>2, StoreShapeStep DEF Shape
<1>5. WorkerShape'
    BY <1>2, <1>4, WorkerShapeStep DEF Shape
<1>6. TimeShape'
    BY <1>2, TimeShapeStep DEF Shape
<1>7. AllDue'
    BY <1>2, AllDueStep
<1> QED BY <1>2, <1>3, <1>4, <1>5, <1>6, <1>7 DEF Shape

LEMMA InitShape == Init => Shape
<1> SUFFICES ASSUME Init PROVE Shape
    OBVIOUS
<1>1. /\ \A S : <<>> \in Seq(S)
      /\ Range(<<>>) = {} /\ DOMAIN <<>> = {} /\ Len(<<>>) = 0
    BY EmptyFacts
<1>2. 0 \in 0..MaxBlock
    BY ConstantFacts
<1>3. ChainShape /\ Ages
    BY <1>1, <1>2 DEF Init, InitStore, ChainShape, Ages, IsLast
<1>4. StoreShape
    BY <1>1 DEF Init, InitStore, StoreShape
<1>5. WorkerShape
    BY <1>1 DEF Init, InitStore, WorkerShape
<1>6. TimeShape /\ AllDue
    BY <1>1 DEF Init, TimeShape, AllDue
<1> QED BY <1>3, <1>4, <1>5, <1>6 DEF Shape

LEMMA AlwaysShape == Spec => []Shape
<1>1. Shape /\ [Next]_vars => Shape'
    BY ShapeStep
<1> QED BY InitShape, <1>1, PTL DEF Spec

\* README.md: an expire order is executed "at the effective expiry time".  No transaction is
\* sent before, whatever block numbers the monitor left out and however old the one is that the
\* loop works with (ExpirerWorker.processNewOrders).
THEOREM NoExpireBeforeDue == Spec => NotBeforeDue
<1>1. Shape /\ [Next]_vars
        => [\A i \in submitted' \ submitted : Observed(block) >= ExpireAt(i)]_vars
  <2> SUFFICES ASSUME Shape, [Next]_vars, NEW i \in submitted' \ submitted
               PROVE  Observed(block) >= ExpireAt(i)
      OBVIOUS
  <2>1. SubmitExpires
    <3> USE DEF doneVs
    <3>1. CASE Quiet \/ Saves \/ \E j \in pending : Settles(j)
        BY <3>1 DEF Quiet, Saves, Settles
    <3>2. CASE UpdateStatus \/ RemoveExpireOrder \/ \E j \in DOMAIN log : AddExpireOrder(j)
        BY <3>2 DEF UpdateStatus, RemoveExpireOrder, AddExpireOrder, historyVars
    <3>3. CASE Subscribe \/ BeginRound \/ AskBlockNumber \/ GetBlockNumber
        BY <3>3 DEF Subscribe, BeginRound, AskBlockNumber, GetBlockNumber, historyVars
    <3>4. CASE ReadActive \/ ReadSwap
        BY <3>4 DEF ReadActive, ReadSwap, historyVars
    <3>5. CASE Restart
        BY <3>5 DEF Restart
    <3> QED BY <3>1, <3>2, <3>3, <3>4, <3>5, StepKinds
  <2>2. i \in Range(evaluated)
      BY <2>1 DEF SubmitExpires
  <2>3. i \in heard
      BY <2>2, SeqFacts DEF Shape, WorkerShape
  <2>4. ExpireAt(i) <= Observed(block) /\ ExpireAt(i) \in Int /\ Observed(block) \in Nat
      BY <2>2, <2>3, HeardFacts, ConstantFacts DEF Shape, AllDue, Due, ChainShape
  <2> QED BY <2>4
<1> QED BY <1>1, AlwaysShape, PTL DEF Spec, NotBeforeDue

-----------------------------------------------------------------------------
(* The store and the chain.                                                *)

\* No event of the id is left for the listener.
CaughtUp(u) == \A i \in DOMAIN log : i > event => log[i].id # u

\* While the listener has left nothing out, an id of which it has dealt with every event has
\* the entry the contract has; and it completes entries at completions only.
StoreAgrees ==
    /\ saveStep # "idle" => Current.kind # "SwapUnderwritten"
    /\ ~skipped => \A u \in UnderwriteIds : CaughtUp(u) => active[u] = onChain[u]

LEMMA SkippedKept ==
    ASSUME [Next]_vars, ~Restart
    PROVE  skipped' = skipped
<1> USE DEF storeVs
<1>1. CASE Quiet \/ Saves \/ \E i \in pending : Settles(i)
    BY <1>1 DEF Quiet, Saves, Settles
<1>2. CASE RemoveExpireOrder \/ UpdateStatus \/ \E i \in DOMAIN log : AddExpireOrder(i)
    BY <1>2 DEF RemoveExpireOrder, AddExpireOrder, UpdateStatus, restartVars, historyVars
<1>3. CASE Subscribe \/ BeginRound \/ GetBlockNumber \/ AskBlockNumber \/ ReadActive
    BY <1>3 DEF Subscribe, BeginRound, GetBlockNumber, AskBlockNumber, ReadActive, historyVars,
                restartVars
<1>4. CASE ReadSwap \/ SubmitExpires
    BY <1>4 DEF ReadSwap, SubmitExpires, restartVars
<1> QED BY <1>1, <1>2, <1>3, <1>4, StepKinds

\* What the chain does to an id is seen at the end of the log.
LEMMA ChainMoves ==
    ASSUME ChainShape, StoreShape, ChainStep, NEW u \in UnderwriteIds, event' = event
    PROVE  \/ onChain'[u] = onChain[u] /\ (CaughtUp(u)' => CaughtUp(u))
           \/ ~CaughtUp(u)'
<1>1. /\ DOMAIN log \subseteq DOMAIN log' /\ Len(log) \in Nat
      /\ \A i \in DOMAIN log : log'[i] = log[i]
    BY LogGrows DEF ChainShape
<1>2. CaughtUp(u)' => CaughtUp(u)
    BY <1>1 DEF CaughtUp
<1>3. ASSUME NEW v \in UnderwriteIds, NEW e, NEW n, log' = Append(log, e), e \in Event, e.id = v,
             onChain' = [onChain EXCEPT ![v] = n]
      PROVE  onChain'[u] = onChain[u] \/ ~CaughtUp(u)'
  <2>1. CASE v # u
      BY <1>3, <2>1 DEF ChainShape
  <2>2. CASE v = u
    <3> PICK m : m = Len(log) + 1
        OBVIOUS
    <3>1. m \in DOMAIN log' /\ log'[m] = e
        BY <1>3, AppendFacts DEF ChainShape
    <3>2. m > event
        BY <1>1 DEF StoreShape
    <3> QED BY <1>3, <2>2, <3>1, <3>2 DEF CaughtUp
  <2> QED BY <2>1, <2>2
<1>4. ASSUME NEW v \in UnderwriteIds, Ends(v) PROVE onChain'[u] = onChain[u] \/ ~CaughtUp(u)'
  <2>1. Completed(v) \in Event /\ Completed(v).id = v
      BY DEF Completed, Event
  <2> QED BY <1>3, <1>4, <2>1 DEF Ends
<1>5. ASSUME NEW v \in UnderwriteIds, NEW own \in BOOLEAN, Begins(v, own)
      PROVE  onChain'[u] = onChain[u] \/ ~CaughtUp(u)'
  <2> DEFINE e == [kind |-> "SwapUnderwritten", id |-> v, own |-> own,
                   expiry |-> Observed(block) + Duration, at |-> block]
  <2>1. Observed(block) + Duration \in Int /\ block \in Int
      BY ConstantFacts DEF ChainShape
  <2>2. e \in Event /\ e.id = v
      BY <2>1 DEF Event
  <2>3. log' = Append(log, e) /\ onChain' = [onChain EXCEPT ![v] = Len(log) + 1]
      BY <1>5 DEF Begins
  <2> HIDE DEF e
  <2> QED BY <1>3, <2>2, <2>3
<1> QED BY <1>2, <1>4, <1>5 DEF ChainStep, ChainKept

LEMMA StoreAgreesStep ==
    ASSUME Shape, StoreAgrees, ChainStep, [Next]_vars
    PROVE  StoreAgrees'
<1> USE DEF Shape
<1>1. /\ DOMAIN log \subseteq DOMAIN log' /\ Len(log) \in Nat /\ DOMAIN log = 1..Len(log)
      /\ \A i \in DOMAIN log : log'[i] = log[i]
    BY LogGrows DEF ChainShape
<1>2. event < Len(log) => Current = log[event + 1] /\ event + 1 \in DOMAIN log
    BY CurrentFacts
<1>3. CASE ~Restart /\ UNCHANGED <<active, event, saveStep>>
  <2>1. saveStep' # "idle" => Current'.kind # "SwapUnderwritten"
    <3> SUFFICES ASSUME saveStep # "idle" PROVE Current'.kind # "SwapUnderwritten"
        BY <1>3
    <3>1. Current' = Current
      <4>1. Current' = log'[event + 1]
          BY <1>3 DEF Current
      <4> QED BY <1>1, <1>2, <4>1 DEF StoreShape
    <3> QED BY <3>1 DEF StoreAgrees
  <2>2. ASSUME ~skipped', NEW u \in UnderwriteIds, CaughtUp(u)'
        PROVE  active'[u] = onChain'[u]
    <3>1. onChain'[u] = onChain[u] /\ CaughtUp(u)
        BY <1>3, <2>2, ChainMoves
    <3>2. ~skipped
        BY <1>3, <2>2, SkippedKept
    <3> QED BY <1>3, <3>1, <3>2 DEF StoreAgrees
  <2> QED BY <2>1, <2>2 DEF StoreAgrees
<1>4. CASE Restart
  <2>1. /\ event' \in 0..Len(log) /\ saveStep' = "idle" /\ StopBetweenCommands
        /\ UNCHANGED <<log, onChain>> /\ (event' > event => skipped') /\ (skipped => skipped')
      BY <1>4, Zenon DEF Restart, RestartStore, chainVars
  <2>2. ASSUME ~skipped', NEW u \in UnderwriteIds, CaughtUp(u)'
        PROVE  active'[u] = onChain'[u]
    <3>1. ~skipped /\ event' <= event /\ event \in Nat
        BY <2>1, <2>2 DEF StoreShape
    <3>2. \A i \in DOMAIN log : i > event' => log[i].id # u
        BY <2>1, <2>2 DEF CaughtUp
    <3>3. \A i \in DOMAIN log : i > event => log[i].id # u
        BY <1>1, <2>1, <3>1, <3>2
    <3>4. active[u] = onChain[u]
        BY <3>1, <3>3 DEF StoreAgrees, CaughtUp
    <3>5. event < Len(log) => Current.id # u
        BY <1>2, <3>3, <3>1
    <3>6. active'[u] = active[u]
        BY <2>1, <3>5 DEF StopBetweenCommands, StoreShape
    <3> QED BY <2>1, <3>4, <3>6
  <2> QED BY <2>1, <2>2 DEF StoreAgrees
<1>5. CASE Saves
  <2>1. event < Len(log) /\ log' = log /\ onChain' = onChain /\ skipped' = skipped
    <3>1. event < Len(log)
        BY <1>5, SavesKinds DEF SetUnderwrite, CompleteUnderwrite, StoreShape
    <3> QED BY <1>5, <3>1 DEF Saves, ChainKept
  <2> PICK u \in UnderwriteIds : u = Current.id
      BY <2>1, CurrentFacts
  <2> PICK e \in Nat : e = event + 1
      BY <2>1, CurrentFacts
  <2>2. /\ e \in DOMAIN log /\ log[e].id = u /\ log[e] = Current
        /\ event \in Nat /\ active \in [UnderwriteIds -> Nat]
        /\ (\A i \in DOMAIN log : i > e => log[i].id # u)
              => onChain[u] = IF log[e].kind = "SwapUnderwritten" THEN e ELSE 0
    <3>1. e \in DOMAIN log /\ log[e].id = u /\ log[e] = Current
        BY <1>2, <2>1
    <3>2. (\A i \in DOMAIN log : i > e => log[i].id # u) => IsLast(e)
        BY <3>1 DEF IsLast
    <3> QED BY <3>1, <3>2 DEF ChainShape, StoreShape
  <2>3. ASSUME event' = e, saveStep' = "idle",
               active'[u] = IF log[e].kind = "SwapUnderwritten" THEN e ELSE 0,
               \A v \in UnderwriteIds \ {u} : active'[v] = active[v]
        PROVE  StoreAgrees'
    <3>1. ASSUME ~skipped', NEW v \in UnderwriteIds, CaughtUp(v)'
          PROVE  active'[v] = onChain'[v]
      <4>1. \A i \in DOMAIN log : i > e => log[i].id # v
          BY <2>1, <2>3, <3>1 DEF CaughtUp
      <4>2. CASE v = u
          BY <2>1, <2>2, <2>3, <4>1, <4>2
      <4>3. CASE v # u
        <5>1. \A i \in DOMAIN log : i > event => log[i].id # v
          <6> SUFFICES ASSUME NEW i \in DOMAIN log, i > event PROVE log[i].id # v
              OBVIOUS
          <6>1. i = e \/ i > e
              BY <1>1, <2>2
          <6> QED BY <2>2, <4>1, <4>3, <6>1
        <5> QED BY <2>1, <2>3, <3>1, <4>3, <5>1 DEF StoreAgrees, CaughtUp
      <4> QED BY <4>2, <4>3
    <3> QED BY <2>3, <3>1 DEF StoreAgrees
  <2>4. CASE SetUnderwrite
    <3>1. /\ event' = e /\ saveStep' = "idle" /\ log[e].kind = "SwapUnderwritten"
          /\ active' = [active EXCEPT ![u] = e]
        BY <2>2, <2>4 DEF SetUnderwrite, EventSaved
    <3> QED BY <2>2, <2>3, <3>1
  <2>5. CASE CompleteUnderwrite
    <3>1. /\ event' = e /\ saveStep' = "idle" /\ log[e].kind # "SwapUnderwritten"
          /\ active' = [active EXCEPT ![u] = 0]
        BY <2>2, <2>5 DEF CompleteUnderwrite, EventSaved, StoreAgrees
    <3> QED BY <2>2, <2>3, <3>1
  <2>6. CASE /\ UNCHANGED <<active, channel>> /\ event < Len(log) /\ EventSaved
             /\ saveStep = "idle" /\ Current.kind # "SwapUnderwritten" /\ Underwrite = 0
    <3>1. event' = e /\ saveStep' = "idle" /\ log[e].kind # "SwapUnderwritten" /\ active[u] = 0
        BY <2>2, <2>6 DEF EventSaved, Underwrite
    <3> QED BY <2>2, <2>3, <2>6, <3>1
  <2>7. CASE UNCHANGED <<active, event, channel>> /\ Current.kind # "SwapUnderwritten"
    <3>1. Current' = Current
        BY <2>1, <2>7 DEF Current
    <3>2. \A v \in UnderwriteIds : CaughtUp(v)' => CaughtUp(v)
        BY <2>1, <2>7 DEF CaughtUp
    <3> QED BY <2>1, <2>7, <3>1, <3>2 DEF StoreAgrees
  <2>8. Saves => \/ SetUnderwrite \/ CompleteUnderwrite
                 \/ /\ UNCHANGED <<active, channel>> /\ event < Len(log) /\ EventSaved
                    /\ saveStep = "idle" /\ Current.kind # "SwapUnderwritten" /\ Underwrite = 0
                 \/ UNCHANGED <<active, event, channel>> /\ Current.kind # "SwapUnderwritten"
    <3>1. saveStep # "idle" => Current.kind # "SwapUnderwritten"
        BY DEF StoreAgrees
    <3> QED BY <3>1 DEF Saves, GetUnderwrite, MoveDescription
  <2> QED BY <1>5, <2>4, <2>5, <2>6, <2>7, <2>8
<1> QED BY <1>3, <1>4, <1>5, StoreKinds DEF Taken

\* When the listener has dealt with every event, the store has the underwrites the contract
\* has (ListenerWorker and Store.saveActiveUnderwriteState): whatever was fulfilled, expired,
\* underwritten again or interrupted by a restart on the way.
THEOREM StoreIsOfTheChain == Spec => []StoreFollowsChain
<1>1. Init => StoreAgrees
  <2>1. DOMAIN <<>> = {}
      BY EmptyFacts
  <2> QED BY <2>1 DEF Init, InitStore, StoreAgrees
<1>2. Shape /\ StoreAgrees /\ [Next]_vars => StoreAgrees'
    BY ShapeStep, StoreAgreesStep
<1>3. Shape /\ StoreAgrees => StoreFollowsChain
  <2> SUFFICES ASSUME Shape, StoreAgrees, event = Len(log), ~skipped PROVE active = onChain
      BY DEF StoreFollowsChain
  <2>1. Len(log) \in Nat /\ DOMAIN log = 1..Len(log)
      BY SeqFacts DEF Shape, ChainShape
  <2>2. \A u \in UnderwriteIds : CaughtUp(u)
      BY <2>1 DEF CaughtUp
  <2>3. \A u \in UnderwriteIds : active[u] = onChain[u]
      BY <2>2 DEF StoreAgrees
  <2> QED BY <2>3 DEF Shape, ChainShape, StoreShape
<1> QED BY <1>1, <1>2, <1>3, AlwaysShape, PTL DEF Spec

-----------------------------------------------------------------------------
(* The orders under way.                                                   *)

LEMMA UnionSize ==
    ASSUME NEW A, NEW B, IsFiniteSet(A), IsFiniteSet(B)
    PROVE  /\ Cardinality(A \cup B) \in Nat /\ Cardinality(A) \in Nat /\ Cardinality(B) \in Nat
           /\ Cardinality(A \cup B) <= Cardinality(A) + Cardinality(B)
           /\ Cardinality(A) <= Cardinality(A \cup B)
<1>1. IsFiniteSet(A \cup B) /\ IsFiniteSet(A \cap B)
    BY FS_Union, FS_Intersection
<1>2. /\ Cardinality(A \cup B) \in Nat /\ Cardinality(A) \in Nat /\ Cardinality(B) \in Nat
      /\ Cardinality(A \cap B) \in Nat
    BY <1>1, FS_CardinalityType
<1>3. Cardinality(A \cup B) = Cardinality(A) + Cardinality(B) - Cardinality(A \cap B)
    BY FS_Union
<1>4. Cardinality(A) <= Cardinality(A \cup B)
    BY <1>1, FS_Subset
<1> QED BY <1>2, <1>3, <1>4

LEMMA CapacityStep ==
    ASSUME Shape, CapacityRespected, [Next]_vars
    PROVE  CapacityRespected'
<1> USE DEF Shape, storeVs, timeVs, queueVs, walletVs, doneVs
<1>1. /\ Len(evalOrders) \in Nat /\ Len(retryQueue) \in Nat /\ Len(evaluated) \in Nat
      /\ IsFiniteSet(pending) /\ IsFiniteSet(settled) /\ MaxPending \in Nat
      /\ IsFiniteSet(Range(evaluated)) /\ Cardinality(Range(evaluated)) \in Nat
      /\ Cardinality(Range(evaluated)) <= Len(evaluated)
  <2>1. evaluated \in Seq(heard) /\ Len(evalOrders) \in Nat /\ Len(evaluated) \in Nat
      BY SeqFacts DEF WorkerShape
  <2>2. /\ IsFiniteSet(Range(evaluated)) /\ Cardinality(Range(evaluated)) \in Nat
        /\ Cardinality(Range(evaluated)) <= Len(evaluated)
      BY <2>1, RangeSize
  <2> QED BY <2>1, <2>2, CapacityFacts, ConstantFacts
<1>2. /\ Cardinality(pending \cup settled) \in Nat
      /\ Cardinality(pending) \in Nat /\ Cardinality(settled) \in Nat
      /\ Cardinality(pending \cup settled) <= Cardinality(pending) + Cardinality(settled)
      /\ Cardinality(pending) <= Cardinality(pending \cup settled)
    BY <1>1, UnionSize
<1>3. CASE /\ UNCHANGED <<evalOrders, retryQueue, evaluated>>
           /\ pending' \cup settled' = pending \cup settled
    BY <1>3 DEF CapacityRespected
<1>4. CASE \E i \in pending : Settles(i)
  <2>1. /\ UNCHANGED <<evalOrders, retryQueue, evaluated>>
        /\ pending' \cup settled' = pending \cup settled
      BY <1>4 DEF Settles
  <2> QED BY <1>3, <2>1
<1>5. CASE \/ Quiet \/ Saves \/ UpdateStatus \/ RemoveExpireOrder
           \/ \E i \in DOMAIN log : AddExpireOrder(i)
           \/ Subscribe \/ AskBlockNumber \/ ReadActive
  <2>1. UNCHANGED <<evalOrders, retryQueue, evaluated, pending, settled>>
      BY <1>5 DEF Quiet, Saves, UpdateStatus, RemoveExpireOrder, AddExpireOrder,
                  Subscribe, AskBlockNumber, ReadActive, queueVars, walletVars
  <2> QED BY <1>3, <2>1
<1>6. CASE Restart
  <2>1. /\ evalOrders' = <<>> /\ retryQueue' = <<>> /\ evaluated' = <<>>
        /\ pending' \cup settled' = {}
      BY <1>6 DEF Restart
  <2>2. Cardinality(pending' \cup settled') = 0
      BY <2>1, FS_EmptySet, Zenon
  <2>3. Len(evalOrders') = 0 /\ Len(retryQueue') = 0 /\ Len(evaluated') = 0
      BY <2>1, EmptyFacts
  <2> QED BY <1>1, <2>2, <2>3 DEF CapacityRespected
<1>7. CASE BeginRound \/ GetBlockNumber
  <2>1. /\ UNCHANGED <<evaluated, pending, settled>> /\ pc \in {"loop", "asking"}
      BY <1>7 DEF BeginRound, GetBlockNumber, walletVars
  <2>2. PICK k \in 0..Len(newOrders) :
           Evaluate(k) /\ \A l \in 1..k : ExpireAt(newOrders[l]) <= Observed(block) /\ l <= Capacity
      BY <1>7, RoundFacts
  <2>3. Len(evalOrders') + Len(retryQueue') = Len(retryQueue) + k
        /\ Len(evalOrders') \in Nat /\ Len(retryQueue') \in Nat
    <3>1. evalOrders' \in Seq(Tried(heard)) /\ retryQueue' \in Seq(Tried(heard))
          /\ Len(evalOrders') + Len(retryQueue') = Len(retryQueue) + k
        BY <2>2, EvaluateFacts DEF WorkerShape
    <3> QED BY <3>1, SeqFacts
  <2>4. Len(evaluated) = 0 /\ Len(evalOrders) = 0
      BY <2>1, EmptyFacts DEF WorkerShape
  <2> DEFINE c == Cardinality(pending \cup settled)
  <2> SUFFICES Len(retryQueue) + k + c <= MaxPending
    <3>1. Len(evaluated') = 0 /\ Cardinality(pending' \cup settled') = c
        BY <2>1, <2>4
    <3> QED BY <1>2, <2>3, <3>1 DEF CapacityRespected
  <2>5. CASE k = 0
      BY <1>1, <1>2, <2>4, <2>5 DEF CapacityRespected
  <2>6. CASE k # 0
    <3>1. Len(newOrders) \in Nat
        BY SeqFacts DEF WorkerShape
    <3>2. k \in 1..k /\ k \in Nat
        BY <2>6, <3>1
    <3>3. k <= MaxPending - Len(retryQueue) - Cardinality(pending) - Cardinality(settled)
        BY <2>2, <3>2, CapacityFacts
    <3> QED BY <1>1, <1>2, <3>2, <3>3
  <2> QED BY <2>5, <2>6
<1>8. CASE ReadSwap
  <2>1. /\ evalOrders # <<>> /\ evalOrders' = Tail(evalOrders) /\ UNCHANGED <<pending, settled>>
        /\ \/ UNCHANGED <<retryQueue, evaluated>>
           \/ retryQueue' = Append(retryQueue, Order) /\ UNCHANGED evaluated
           \/ evaluated' = Append(evaluated, Order.of) /\ UNCHANGED retryQueue
      BY <1>8 DEF ReadSwap, EvaluateOrder, Drop, Fail, Accept, WorkerShape, walletVars
  <2>2. Len(evalOrders') = Len(evalOrders) - 1 /\ Order.of \in heard /\ Order \in Tried(heard)
      BY <2>1, OrderFacts
  <2>3. Len(Append(evaluated, Order.of)) = Len(evaluated) + 1
      BY <2>2, AppendFacts DEF WorkerShape
  <2>4. Len(Append(retryQueue, Order)) = Len(retryQueue) + 1
    <3> DEFINE T == Tried(heard)
    <3>1. retryQueue \in Seq(T) /\ Order \in T
        BY <2>2 DEF WorkerShape
    <3> HIDE DEF T
    <3> QED BY <3>1, AppendFacts
  <2> QED BY <1>1, <1>2, <2>1, <2>2, <2>3, <2>4 DEF CapacityRespected
<1>9. CASE SubmitExpires
  <2>1. /\ UNCHANGED <<evalOrders, retryQueue>> /\ evaluated' = <<>>
        /\ pending' \cup settled' = pending \cup Range(evaluated)
      BY <1>9 DEF SubmitExpires
  <2>2. Len(evaluated') = 0
      BY <2>1, EmptyFacts
  <2>3. /\ Cardinality(pending \cup Range(evaluated)) \in Nat
        /\ Cardinality(pending \cup Range(evaluated))
              <= Cardinality(pending) + Cardinality(Range(evaluated))
      BY <1>1, UnionSize
  <2>4. Cardinality(pending' \cup settled') = Cardinality(pending \cup Range(evaluated))
      BY <2>1, Zenon
  <2> QED BY <1>1, <1>2, <2>1, <2>2, <2>3, <2>4 DEF CapacityRespected
<1> QED BY <1>4, <1>5, <1>6, <1>7, <1>8, <1>9, StepKinds

\* No more orders are between newOrdersQueue and their results than maxPendingTransactions
\* (ExpirerWorker.processNewOrders and getPendingCapacity), whatever is retried or not handed
\* back when the capacity is read.
THEOREM ExpiresRespectCapacity == Spec => []CapacityRespected
<1>1. Init => CapacityRespected
  <2> SUFFICES ASSUME Init PROVE CapacityRespected
      OBVIOUS
  <2>1. Len(<<>>) = 0 /\ Cardinality({}) = 0
      BY EmptyFacts, FS_EmptySet
  <2>2. /\ evalOrders = <<>> /\ retryQueue = <<>> /\ evaluated = <<>> /\ pending \cup settled = {}
      BY DEF Init
  <2>3. Cardinality(pending \cup settled) = 0
      BY <2>1, <2>2, Zenon
  <2> QED BY <2>1, <2>2, <2>3, ConstantFacts DEF CapacityRespected
<1>2. Shape /\ CapacityRespected /\ [Next]_vars => CapacityRespected'
    BY CapacityStep
<1> QED BY <1>1, <1>2, AlwaysShape, PTL DEF Spec

-----------------------------------------------------------------------------
(* No order is lost.                                                       *)

\* The store has the entry of an underwrite that is pending.
HasEntry(i) == onChain[IdOf(i)] = i => active[IdOf(i)] = i

\* The worker is told of events in their order, and of an underwrite when its entry is there.
InOrder(messages, events) ==
    /\ \A m \in Range(messages) : \A i \in events : i < m.of
    /\ \A k, l \in 1..Len(messages) : k < l => messages[k].of < messages[l].of
Arrivals ==
    /\ InOrder(channel, heard)
    /\ \A m \in Range(channel) : m.name = "onSwapUnderwritten" => HasEntry(m.of)
    /\ \A i \in heard : HasEntry(i)
    /\ pc = "evalSwap" => \A i \in heard : i = Order.of => (onChain[IdOf(i)] = i => activeState = i)

\* What was on the chain before a step is there after it only if it was there all the time.
LEMMA ChainBack ==
    ASSUME ChainShape, ChainStep
    PROVE  \A u \in UnderwriteIds : \A i \in DOMAIN log : onChain'[u] = i => onChain[u] = i
<1> SUFFICES ASSUME NEW u \in UnderwriteIds, NEW i \in DOMAIN log, onChain'[u] = i
             PROVE  onChain[u] = i
    OBVIOUS
<1>1. i # 0 /\ i # Len(log) + 1
    BY SeqFacts DEF ChainShape
<1>2. ASSUME NEW v \in UnderwriteIds, NEW n \in {0, Len(log) + 1},
             onChain' = [onChain EXCEPT ![v] = n]
      PROVE  onChain[u] = i
    BY <1>1, <1>2 DEF ChainShape
<1>3. ASSUME NEW v \in UnderwriteIds, Ends(v) PROVE onChain[u] = i
    BY <1>2, <1>3 DEF Ends
<1>4. ASSUME NEW v \in UnderwriteIds, NEW own \in BOOLEAN, Begins(v, own) PROVE onChain[u] = i
    BY <1>2, <1>4 DEF Begins
<1> QED BY <1>3, <1>4 DEF ChainStep, ChainKept

\* An underwrite that is followed by an event with its id is over.
LEMMA LaterEvent ==
    ASSUME ChainShape, NEW u \in UnderwriteIds, NEW i \in Nat \ {0}, onChain[u] = i
    PROVE  /\ i \in DOMAIN log /\ IdOf(i) = u /\ log[i].kind = "SwapUnderwritten"
           /\ \A j \in DOMAIN log : j > i => IdOf(j) # u
BY DEF ChainShape, IsLast, IdOf

LEMMA EntryKept ==
    ASSUME Shape, ChainStep, [Next]_vars, ~Restart, NEW i \in 1..event, HasEntry(i)
    PROVE  HasEntry(i)'
<1> USE DEF Shape
<1>1. /\ i \in DOMAIN log /\ i \in Nat \ {0} /\ event \in Nat
      /\ IdOf(i) \in UnderwriteIds
  <2>1. log \in Seq(Event) /\ event \in 0..Len(log)
      BY DEF ChainShape, StoreShape
  <2>2. i \in 1..Len(log) /\ DOMAIN log = 1..Len(log)
      BY <2>1, SeqFacts
  <2>3. log[i] \in Event
      BY <2>1, <2>2, SeqFacts
  <2> QED BY <2>1, <2>2, <2>3 DEF IdOf, Event
<1> PICK u \in UnderwriteIds : u = IdOf(i)
    BY <1>1
<1>2. IdOf(i)' = u
    BY <1>1, LogGrows DEF ChainShape
<1> SUFFICES ASSUME onChain'[u] = i PROVE active'[u] = i
    BY <1>2 DEF HasEntry
<1>3. onChain[u] = i /\ active[u] = i
    BY <1>1, ChainBack DEF HasEntry
<1>4. \A j \in DOMAIN log : j > i => IdOf(j) # u
    BY <1>1, <1>3, LaterEvent
<1>5. event < Len(log) => Current.id # u
  <2> SUFFICES ASSUME event < Len(log) PROVE Current.id # u
      OBVIOUS
  <2>1. event + 1 \in DOMAIN log /\ Current = log[event + 1] /\ event + 1 > i
      BY <1>1, CurrentFacts
  <2> QED BY <1>4, <2>1 DEF IdOf
<1>6. CASE UNCHANGED active
    BY <1>3, <1>6
<1>7. CASE event < Len(log) /\ \E n : active' = [active EXCEPT ![Current.id] = n]
    BY <1>3, <1>5, <1>7 DEF StoreShape
<1>8. CASE Saves
  <2>1. CASE SetUnderwrite
      BY <1>7, <2>1 DEF SetUnderwrite
  <2>2. CASE CompleteUnderwrite
      BY <1>7, <2>2 DEF CompleteUnderwrite, StoreShape
  <2> QED BY <1>6, <1>8, <2>1, <2>2, SavesKinds
<1> QED BY <1>6, <1>8, StoreKinds DEF Taken

LEMMA MessageFacts ==
    ASSUME Shape
    PROVE  \A m \in Range(channel) : m.of \in 1..event /\ m.of \in Nat \ {0} /\ m \in Message
<1>1. \A m \in Range(channel) : m \in Message /\ m.of <= event
    BY SeqFacts DEF Shape, StoreShape
<1>2. event \in Nat
    BY DEF Shape, StoreShape
<1> QED BY <1>1, <1>2 DEF Message

LEMMA HeardKinds ==
    ASSUME [Next]_vars
    PROVE  \/ heard' = heard \/ Restart
           \/ \E i \in DOMAIN log : AddExpireOrder(i) /\ heard' = heard \cup {i}
<1> USE DEF storeVs
<1>1. CASE Quiet \/ Saves \/ \E i \in pending : Settles(i)
    BY <1>1 DEF Quiet, Saves, Settles
<1>2. CASE RemoveExpireOrder \/ UpdateStatus \/ \E i \in DOMAIN log : AddExpireOrder(i)
    BY <1>2 DEF RemoveExpireOrder, AddExpireOrder, UpdateStatus, historyVars
<1>3. CASE Subscribe \/ BeginRound \/ GetBlockNumber \/ AskBlockNumber \/ ReadActive
    BY <1>3 DEF Subscribe, BeginRound, GetBlockNumber, AskBlockNumber, ReadActive, historyVars
<1>4. CASE ReadSwap \/ SubmitExpires
    BY <1>4 DEF ReadSwap, SubmitExpires
<1> QED BY <1>1, <1>2, <1>3, <1>4, StepKinds

LEMMA EvalSwapKinds ==
    ASSUME [Next]_vars, pc' = "evalSwap", ~ReadActive
    PROVE  pc = "evalSwap" /\ UNCHANGED <<evalOrders, activeState>>
<1> USE DEF storeVs, timeVs, queueVs, walletVs, doneVs
<1>1. CASE Quiet \/ Saves \/ \E i \in pending : Settles(i)
    BY <1>1 DEF Quiet, Saves, Settles
<1>2. CASE RemoveExpireOrder \/ UpdateStatus \/ \E i \in DOMAIN log : AddExpireOrder(i)
    BY <1>2 DEF RemoveExpireOrder, AddExpireOrder, UpdateStatus, queueVars
<1>3. CASE Subscribe \/ AskBlockNumber \/ ReadSwap \/ SubmitExpires \/ Restart
    BY <1>3 DEF Subscribe, AskBlockNumber, ReadSwap, SubmitExpires, Restart
<1>4. CASE BeginRound \/ GetBlockNumber
    BY <1>4 DEF BeginRound, GetBlockNumber, ProcessNewOrders, Evaluate
<1> QED BY <1>1, <1>2, <1>3, <1>4, StepKinds

LEMMA ChannelKinds ==
    ASSUME [Next]_vars, StoreShape, ~Restart
    PROVE  \/ channel' = channel /\ heard' = heard
           \/ channel # <<>> /\ channel' = Tail(channel) /\ heard' = heard
           \/ /\ channel # <<>> /\ channel' = Tail(channel)
              /\ Head(channel).name = "onSwapUnderwritten"
              /\ heard' = heard \cup {Head(channel).of}
           \/ \E m \in Message :
                 /\ m.of = event + 1 /\ channel' = Append(channel, m) /\ heard' = heard
                 /\ m.name = "onSwapUnderwritten" => SetUnderwrite
<1> USE DEF storeVs
<1>1. CASE Saves
  <2>1. heard' = heard
      BY <1>1 DEF Saves
  <2>2. CASE SetUnderwrite
    <3>1. PostMessage("onSwapUnderwritten")
        BY <2>2 DEF SetUnderwrite
    <3>2. \/ channel' = channel
          \/ \E m \in Message : m.of = event + 1 /\ channel' = Append(channel, m)
        BY <3>1, PostFacts
    <3> QED BY <2>1, <2>2, <3>2
  <2>3. CASE CompleteUnderwrite
    <3>1. PostMessage("onSwapUnderwriteComplete")
        BY <2>3 DEF CompleteUnderwrite
    <3>2. \/ channel' = channel
          \/ \E m \in Message : /\ m.name = "onSwapUnderwriteComplete"
                                /\ m.of = event + 1 /\ channel' = Append(channel, m)
        BY <3>1, PostFacts
    <3> QED BY <2>1, <3>2
  <2> QED BY <1>1, <2>1, <2>2, <2>3, SavesKinds
<1>2. ASSUME NEW i \in DOMAIN log, AddExpireOrder(i)
      PROVE  /\ channel # <<>> /\ channel' = Tail(channel)
             /\ Head(channel).name = "onSwapUnderwritten"
             /\ heard' = heard \cup {Head(channel).of}
    BY <1>2 DEF AddExpireOrder, Receive
<1>3. CASE RemoveExpireOrder
    BY <1>3 DEF RemoveExpireOrder, Receive
<1>4. CASE Quiet \/ \E i \in pending : Settles(i)
    BY <1>4 DEF Quiet, Settles
<1>5. CASE UpdateStatus \/ Subscribe \/ BeginRound \/ GetBlockNumber \/ AskBlockNumber \/ ReadActive
    BY <1>5 DEF UpdateStatus, Subscribe, BeginRound, GetBlockNumber, AskBlockNumber, ReadActive,
                storeVars, historyVars
<1>6. CASE ReadSwap \/ SubmitExpires
    BY <1>6 DEF ReadSwap, SubmitExpires, storeVars
<1> QED BY <1>1, <1>2, <1>3, <1>4, <1>5, <1>6, StepKinds

LEMMA ArrivalsStep ==
    ASSUME Shape, Arrivals, Shape', ChainStep, [Next]_vars
    PROVE  Arrivals'
<1>1. CASE Restart
  <2>1. heard' = {} /\ channel' = <<>> /\ pc' = "start"
      BY <1>1 DEF Restart, RestartStore
  <2>2. Range(channel') = {} /\ 1..Len(channel') = {}
    <3>1. Range(<<>>) = {} /\ Len(<<>>) = 0
        BY EmptyFacts
    <3> QED BY <2>1, <3>1
  <2>3. InOrder(channel', heard')
      BY <2>2 DEF InOrder
  <2>4. /\ \A m \in Range(channel') : m.name = "onSwapUnderwritten" => HasEntry(m.of)'
        /\ \A i \in heard' : HasEntry(i)'
      BY <2>1, <2>2
  <2> QED BY <2>1, <2>3, <2>4 DEF Arrivals, HasEntry, IdOf
<1>2. CASE ~Restart
  <2>1. /\ channel \in Seq(Message) /\ Len(channel) \in Nat /\ event \in Nat
        /\ \A m \in Range(channel) : m.of \in 1..event /\ m.of \in Nat \ {0}
        /\ \A i \in heard : i \in 1..event
        /\ \A k \in 1..Len(channel) : channel[k] \in Range(channel)
        /\ \A m \in Range(channel) : \E k \in 1..Len(channel) : m = channel[k]
    <3>1. channel \in Seq(Message) /\ event \in Nat /\ \A i \in heard : i \in 1..event
        BY DEF Shape, StoreShape, WorkerShape
    <3> QED BY <3>1, MessageFacts, SeqFacts
  <2>2. \A i \in 1..event : HasEntry(i) => HasEntry(i)'
      BY <1>2, EntryKept
  <2>3. /\ InOrder(channel, heard)
        /\ \A m \in Range(channel) : m.name = "onSwapUnderwritten" => HasEntry(m.of)'
        /\ \A i \in heard : HasEntry(i)'
      BY <2>1, <2>2 DEF Arrivals
  <2>4. /\ InOrder(channel', heard')
        /\ \A m \in Range(channel') : m.name = "onSwapUnderwritten" => HasEntry(m.of)'
        /\ \A i \in heard' : HasEntry(i)'
    <3>1. CASE channel' = channel /\ heard' = heard
        BY <2>3, <3>1
    <3>2. ASSUME channel # <<>>, channel' = Tail(channel)
          PROVE  /\ InOrder(channel', heard) /\ Range(channel') \subseteq Range(channel)
                 /\ Head(channel) \in Range(channel)
                 /\ \A m \in Range(channel') : Head(channel).of < m.of
      <4>1. /\ Head(channel) = channel[1] /\ Tail(channel) \in Seq(Message)
            /\ Len(channel) \in Nat \ {0} /\ Len(channel') = Len(channel) - 1
            /\ \A i \in 1..(Len(channel) - 1) : channel'[i] = channel[i + 1]
            /\ Range(channel) = Range(channel') \cup {Head(channel)}
          BY <2>1, <3>2, TailFacts
      <4>2. \A m \in Range(channel') : \E k \in 1..(Len(channel) - 1) : m = channel'[k]
        <5> DEFINE t == Tail(channel)
        <5>1. t \in Seq(Message) /\ channel' = t /\ Len(t) = Len(channel) - 1
            BY <3>2, <4>1
        <5> HIDE DEF t
        <5>2. \A m \in Range(t) : \E k \in 1..Len(t) : m = t[k]
            BY <5>1, SeqFacts
        <5> QED BY <5>1, <5>2
      <4>3. ASSUME NEW k \in 1..Len(channel'), NEW l \in 1..Len(channel'), k < l
            PROVE  channel'[k].of < channel'[l].of
        <5>1. k + 1 \in 1..Len(channel) /\ l + 1 \in 1..Len(channel) /\ k + 1 < l + 1
            BY <4>1, <4>3
        <5> QED BY <2>3, <4>1, <4>3, <5>1 DEF InOrder
      <4>4. ASSUME NEW m \in Range(channel') PROVE Head(channel).of < m.of
        <5>1. PICK k \in 1..(Len(channel) - 1) : m = channel'[k]
            BY <4>2
        <5>2. k + 1 \in 1..Len(channel) /\ 1 \in 1..Len(channel) /\ 1 < k + 1
            BY <4>1
        <5> QED BY <2>3, <4>1, <5>1, <5>2 DEF InOrder
      <4>5. \A m \in Range(channel') : \A i \in heard : i < m.of
          BY <2>3, <4>1 DEF InOrder
      <4> QED BY <4>1, <4>3, <4>4, <4>5 DEF InOrder
    <3>3. CASE channel # <<>> /\ channel' = Tail(channel) /\ heard' = heard
        BY <2>3, <3>2, <3>3
    <3>4. CASE /\ channel # <<>> /\ channel' = Tail(channel)
               /\ Head(channel).name = "onSwapUnderwritten"
               /\ heard' = heard \cup {Head(channel).of}
      <4>1. InOrder(channel', heard')
          BY <3>2, <3>4 DEF InOrder
      <4> QED BY <2>3, <3>2, <3>4, <4>1
    <3>5. ASSUME NEW m \in Message, m.of = event + 1, channel' = Append(channel, m),
                 heard' = heard, m.name = "onSwapUnderwritten" => SetUnderwrite
          PROVE  /\ InOrder(channel', heard')
                 /\ \A x \in Range(channel') : x.name = "onSwapUnderwritten" => HasEntry(x.of)'
      <4>1. /\ Len(channel') = Len(channel) + 1 /\ Range(channel') = Range(channel) \cup {m}
            /\ \A i \in 1..Len(channel) : channel'[i] = channel[i]
            /\ channel'[Len(channel) + 1] = m
          BY <2>1, <3>5, AppendFacts
      <4>2. \A x \in Range(channel') : \A i \in heard' : i < x.of
          BY <2>1, <2>3, <3>5, <4>1 DEF InOrder
      <4>3. ASSUME NEW k \in 1..Len(channel'), NEW l \in 1..Len(channel'), k < l
            PROVE  channel'[k].of < channel'[l].of
        <5>1. k \in 1..Len(channel)
            BY <2>1, <4>1, <4>3
        <5>2. CASE l = Len(channel) + 1
            BY <2>1, <3>5, <4>1, <5>1, <5>2
        <5>3. CASE l # Len(channel) + 1
          <6>1. l \in 1..Len(channel)
              BY <2>1, <4>1, <5>3
          <6> QED BY <2>3, <4>1, <4>3, <5>1, <6>1 DEF InOrder
        <5> QED BY <5>2, <5>3
      <4>4. ASSUME SetUnderwrite PROVE HasEntry(m.of)'
        <5> PICK e : e = event + 1
            OBVIOUS
        <5>1. /\ event < Len(log) /\ active' = [active EXCEPT ![Current.id] = e] /\ log' = log
            BY <4>4 DEF SetUnderwrite
        <5>2. Current.id \in UnderwriteIds /\ Current = log[e]
            BY <5>1, CurrentFacts DEF Shape
        <5>3. active'[log'[e].id] = e
            BY <5>1, <5>2 DEF Shape, StoreShape
        <5> QED BY <3>5, <5>3 DEF HasEntry, IdOf
      <4>5. InOrder(channel', heard')
          BY <4>2, <4>3 DEF InOrder
      <4> QED BY <2>3, <3>5, <4>1, <4>4, <4>5
    <3> QED BY <1>2, <2>3, <3>1, <3>3, <3>4, <3>5, ChannelKinds DEF Shape
  <2>5. ASSUME pc' = "evalSwap", NEW i \in heard', i = Order'.of, onChain'[IdOf(i)'] = i
        PROVE  activeState' = i
    <3>1. ASSUME evalOrders # <<>>, evalOrders' = evalOrders
          PROVE  /\ i \in heard /\ i = Order.of /\ IdOf(i) \in UnderwriteIds
                 /\ onChain[IdOf(i)] = i
      <4>1. Order' = Order
          BY <3>1 DEF Order
      <4>2. i \in heard /\ i = Order.of /\ i \in DOMAIN log /\ IdOf(i) \in UnderwriteIds
          BY <2>5, <3>1, <4>1, OrderFacts, HeardFacts DEF Shape
      <4>3. IdOf(i)' = IdOf(i)
          BY <4>2, LogGrows DEF Shape, ChainShape
      <4> QED BY <2>5, <4>2, <4>3, ChainBack DEF Shape
    <3>2. CASE ReadActive
      <4>1. /\ evalOrders # <<>> /\ evalOrders' = evalOrders
            /\ activeState' = active[IdOf(Order.of)]
          BY <3>2 DEF ReadActive
      <4> QED BY <3>1, <4>1 DEF Arrivals, HasEntry
    <3>3. CASE ~ReadActive
      <4>1. pc = "evalSwap" /\ UNCHANGED <<evalOrders, activeState>> /\ evalOrders # <<>>
          BY <2>5, <3>3, EvalSwapKinds DEF Shape, WorkerShape
      <4> QED BY <3>1, <4>1 DEF Arrivals
    <3> QED BY <3>2, <3>3
  <2> QED BY <2>4, <2>5 DEF Arrivals, HasEntry, IdOf
<1> QED BY <1>1, <1>2

\* An underwrite that is pending and due was made long enough ago.
LEMMA DueIsOldEnough ==
    ASSUME ChainShape, Ages, NEW u \in UnderwriteIds, NEW i \in Nat \ {0}, onChain[u] = i, Due(i)
    PROVE  block - log[i].at >= MinAge
<1>1. i \in DOMAIN log /\ log[i].kind = "SwapUnderwritten"
    BY LaterEvent
<1>2. /\ log[i].at \in 0..block /\ block \in 0..MaxBlock
      /\ log[i].expiry = Observed(log[i].at) + Duration
      /\ Observed(block) - Observed(log[i].at) <= block - log[i].at
    BY <1>1 DEF Ages, ChainShape
<1>3. log[i].at \in 0..MaxBlock
    BY <1>2, ConstantFacts
<1>4. Observed(block) \in Nat /\ Observed(log[i].at) \in Nat
    BY <1>2, <1>3, ConstantFacts
<1>5. ExpireAt(i) >= log[i].expiry - ExpireBlocksMargin
    BY <1>2, <1>4, ConstantFacts DEF ExpireAt
<1>6. ExpireAt(i) \in Int
    BY <1>2, <1>4, ConstantFacts DEF ExpireAt
<1> QED BY <1>2, <1>3, <1>4, <1>5, <1>6, ConstantFacts DEF Due

LEMMA InHeld ==
    ASSUME NEW i
    PROVE  i \in Held <=> \/ i \in Range(newOrders) \/ i \in Range(evaluated)
                          \/ i \in rejected \/ i \in submitted
                          \/ \E r \in Range(evalOrders) : r.of = i
                          \/ \E r \in Range(retryQueue) : r.of = i
BY DEF Held

\* Where the order of an underwrite that is pending goes.
LEMMA HeldStep ==
    ASSUME Shape, Arrivals, ChainStep, [Next]_vars, ~Restart,
           NEW u \in UnderwriteIds, NEW i \in heard, onChain[u] = i, i \in Held
    PROVE  i \in Held'
<1> USE DEF Shape, storeVs, timeVs, queueVs, walletVs, doneVs
<1>1. i \in DOMAIN log /\ i \in Nat \ {0} /\ IdOf(i) = u
      /\ \A j \in DOMAIN log : j > i => IdOf(j) # u
  <2>1. i \in Nat \ {0}
      BY HeardFacts
  <2> QED BY <2>1, LaterEvent
<1> DEFINE New == i \in Range(newOrders)
           Done == i \in Range(evaluated)
           Given == i \in rejected \/ i \in submitted
           Under == \E r \in Range(evalOrders) : r.of = i
           Retried == \E r \in Range(retryQueue) : r.of = i
<1>2. New \/ Done \/ Given \/ Under \/ Retried
    BY InHeld
<1>3. ASSUME \/ i \in Range(newOrders') \/ i \in Range(evaluated')
             \/ i \in rejected' \/ i \in submitted'
             \/ \E r \in Range(evalOrders') : r.of = i
             \/ \E r \in Range(retryQueue') : r.of = i
      PROVE  i \in Held'
    BY <1>3 DEF Held
<1>4. CASE \/ Quiet \/ Saves \/ UpdateStatus \/ \E j \in pending : Settles(j)
  <2>1. UNCHANGED <<newOrders, evaluated, rejected, submitted, evalOrders, retryQueue>>
      BY <1>4 DEF Quiet, Saves, Settles, UpdateStatus, queueVars, historyVars
  <2> QED BY <1>2, <1>3, <2>1
<1>5. CASE Subscribe \/ AskBlockNumber \/ ReadActive
  <2>1. UNCHANGED <<newOrders, evaluated, rejected, submitted, evalOrders, retryQueue>>
      BY <1>5 DEF Subscribe, AskBlockNumber, ReadActive, queueVars, historyVars
  <2> QED BY <1>2, <1>3, <2>1
<1>6. ASSUME NEW j \in DOMAIN log, AddExpireOrder(j) PROVE i \in Held'
  <2>1. /\ UNCHANGED <<evaluated, rejected, submitted, evalOrders, retryQueue>>
        /\ newOrders' = Inserted(j, InsertAt(j, newOrders), newOrders)
      BY <1>6 DEF AddExpireOrder, queueVars
  <2>2. Range(newOrders') = Range(newOrders) \cup {j}
    <3> DEFINE S == heard \cup {j}
    <3>1. newOrders \in Seq(S)
        BY SeqGrows DEF WorkerShape
    <3>2. j \in S
        OBVIOUS
    <3> HIDE DEF S
    <3> QED BY <2>1, <3>1, <3>2, InsertFacts
  <2> QED BY <1>2, <1>3, <2>1, <2>2
<1>7. CASE RemoveExpireOrder
  <2> PICK c : c = Head(channel).of
      OBVIOUS
  <2>1. /\ UNCHANGED <<evaluated, rejected, submitted, evalOrders, retryQueue>>
        /\ newOrders' = RemoveId(IdOf(c), newOrders) /\ channel # <<>>
      BY <1>7 DEF RemoveExpireOrder, Receive, queueVars
  <2>2. Head(channel) \in Range(channel)
      BY <2>1, TailFacts DEF StoreShape
  <2>3. c > i /\ c \in 1..event
      BY <2>2, MessageFacts, <1>1 DEF Arrivals, InOrder
  <2>4. c \in DOMAIN log
    <3>1. event \in 0..Len(log) /\ Len(log) \in Nat /\ DOMAIN log = 1..Len(log)
        BY SeqFacts DEF StoreShape, ChainShape
    <3> QED BY <2>3, <3>1
  <2>5. IdOf(i) # IdOf(c)
      BY <1>1, <2>3, <2>4
  <2>6. New => i \in Range(newOrders')
    <3>1. newOrders \in Seq(heard)
        BY DEF WorkerShape
    <3>2. \A x \in Range(newOrders) : IdOf(x) # IdOf(c) => x \in Range(newOrders')
        BY <2>1, <3>1, RemoveFacts
    <3> QED BY <2>5, <3>2
  <2> QED BY <1>2, <1>3, <2>1, <2>6
<1>8. CASE BeginRound \/ GetBlockNumber
  <2>1. UNCHANGED <<evaluated, rejected, submitted>> /\ pc \in {"loop", "asking"}
      BY <1>8 DEF BeginRound, GetBlockNumber, historyVars
  <2>2. PICK k \in 0..Len(newOrders) : Evaluate(k)
      BY <1>8, RoundFacts
  <2>3. /\ \A x \in Range(newOrders) :
              x \in Range(newOrders') \/ \E r \in Range(evalOrders') : r.of = x
        /\ \A q \in Range(retryQueue) :
              \E r \in Range(evalOrders') \cup Range(retryQueue') : r.of = q.of
      BY <2>2, EvaluateFacts DEF WorkerShape
  <2>4. Range(evalOrders) = {}
      BY <2>1, EmptyFacts DEF WorkerShape
  <2>5. Retried => \/ \E r \in Range(evalOrders') : r.of = i
                   \/ \E r \in Range(retryQueue') : r.of = i
      BY <2>3
  <2> QED BY <1>2, <1>3, <2>1, <2>3, <2>4, <2>5
<1>9. CASE ReadSwap
  <2>1. /\ pc = "evalSwap" /\ evalOrders # <<>> /\ evalOrders' = Tail(evalOrders)
        /\ UNCHANGED <<newOrders, submitted>> /\ EvaluateOrder
      BY <1>9 DEF ReadSwap, WorkerShape
  <2>2. /\ Range(evalOrders) = Range(evalOrders') \cup {Order} /\ Order.of \in heard
        /\ Order \in Tried(heard)
      BY <2>1, OrderFacts
  <2>3. /\ Range(retryQueue) \subseteq Range(retryQueue')
        /\ Range(evaluated) \subseteq Range(evaluated') /\ rejected \subseteq rejected'
    <3>1. /\ retryQueue' = retryQueue \/ retryQueue' = Append(retryQueue, Order)
          /\ evaluated' = evaluated \/ evaluated' = Append(evaluated, Order.of)
          /\ rejected \subseteq rejected'
        BY <2>1 DEF EvaluateOrder, Drop, Fail, Accept
    <3>2. Range(evaluated) \subseteq Range(Append(evaluated, Order.of))
        BY <2>2, AppendFacts DEF WorkerShape
    <3>3. Range(retryQueue) \subseteq Range(Append(retryQueue, Order))
      <4> DEFINE T == Tried(heard)
      <4>1. retryQueue \in Seq(T) /\ Order \in T
          BY <2>2 DEF WorkerShape
      <4> HIDE DEF T
      <4> QED BY <4>1, AppendFacts
    <3> QED BY <3>1, <3>2, <3>3
  <2>4. CASE Order.of = i
    <3>1. activeState = i
        BY <1>1, <2>1, <2>4 DEF Arrivals
    <3>2. Due(i)
        BY <2>2, <2>4 DEF AllDue
    <3>3. block - log[i].at >= MinAge
        BY <1>1, <3>2, DueIsOldEnough
    <3>4. Fail \/ Accept
        BY <1>1, <2>1, <3>1, <3>3 DEF EvaluateOrder, OldEnough
    <3>5. CASE Accept
      <4>1. evaluated' = Append(evaluated, Order.of)
          BY <3>5 DEF Accept
      <4>2. Range(Append(evaluated, Order.of)) = Range(evaluated) \cup {Order.of}
          BY <2>2, AppendFacts DEF WorkerShape
      <4> QED BY <1>3, <2>4, <4>1, <4>2
    <3>6. CASE Fail
      <4>1. CASE rejected' = rejected \cup {Order.of}
          BY <1>3, <2>4, <4>1
      <4>2. CASE retryQueue' = Append(retryQueue, Order)
        <5> DEFINE T == Tried(heard)
        <5>1. retryQueue \in Seq(T) /\ Order \in T
            BY <2>2 DEF WorkerShape
        <5> HIDE DEF T
        <5>2. Order \in Range(retryQueue')
            BY <4>2, <5>1, AppendFacts
        <5> QED BY <1>3, <2>4, <5>2
      <4> QED BY <3>6, <4>1, <4>2 DEF Fail
    <3> QED BY <3>4, <3>5, <3>6
  <2>5. CASE Order.of # i
    <3>1. Under => \E r \in Range(evalOrders') : r.of = i
        BY <2>2, <2>5
    <3>2. Retried => \E r \in Range(retryQueue') : r.of = i
        BY <2>3
    <3>3. Done => i \in Range(evaluated')
        BY <2>3
    <3>4. Given => i \in rejected' \/ i \in submitted'
        BY <2>1, <2>3
    <3>5. New => i \in Range(newOrders')
        BY <2>1
    <3> QED BY <1>2, <1>3, <3>1, <3>2, <3>3, <3>4, <3>5
  <2> QED BY <2>4, <2>5
<1>10. CASE SubmitExpires
  <2>1. /\ UNCHANGED <<newOrders, evalOrders, retryQueue, rejected>>
        /\ submitted' = submitted \cup Range(evaluated)
      BY <1>10 DEF SubmitExpires
  <2> QED BY <1>2, <1>3, <2>1
<1> QED BY <1>4, <1>5, <1>6, <1>7, <1>8, <1>9, <1>10, StepKinds

LEMMA ScheduledStep ==
    ASSUME Shape, Arrivals, ActiveStaysScheduled, Shape', ChainStep, [Next]_vars
    PROVE  ActiveStaysScheduled'
<1> SUFFICES ASSUME NEW u \in UnderwriteIds, NEW i, i \in heard', onChain'[u] = i
             PROVE  i \in Held'
    BY DEF ActiveStaysScheduled
<1>1. ~Restart
    BY DEF Restart
<1>2. i \in DOMAIN log /\ i \in Nat \ {0}
  <2>1. DOMAIN log = 1..Len(log)
      BY SeqFacts DEF Shape, ChainShape
  <2> QED BY <1>1, <2>1, HeardKinds, HeardFacts DEF Shape
<1>3. onChain[u] = i
    BY <1>2, ChainBack DEF Shape
<1>4. CASE i \in heard
  <2>1. i \in Held
      BY <1>3, <1>4 DEF ActiveStaysScheduled
  <2> QED BY <1>1, <1>3, <1>4, <2>1, HeldStep
<1>5. CASE i \notin heard
  <2>1. AddExpireOrder(i)
      BY <1>1, <1>5, HeardKinds
  <2>2. newOrders' = Inserted(i, InsertAt(i, newOrders), newOrders)
      BY <2>1 DEF AddExpireOrder
  <2>3. i \in Range(newOrders')
    <3> DEFINE S == heard \cup {i}
    <3>1. newOrders \in Seq(S)
        BY SeqGrows DEF Shape, WorkerShape
    <3>2. i \in S
        OBVIOUS
    <3> HIDE DEF S
    <3> QED BY <2>2, <3>1, <3>2, InsertFacts
  <2> QED BY <2>3 DEF Held
<1> QED BY <1>4, <1>5

\* An underwrite the worker was told of, and that is not over, has its order in a queue until
\* the transaction is sent, or given up after maxTries (ExpirerWorker, EvalQueue.handleOrder):
\* the completion, evaluation or retry of another underwrite with the id, which comes from
\* the same store and the same channels, never takes it away.
THEOREM NoActiveOrderIsLost == Spec => []ActiveStaysScheduled
<1>1. Init => Arrivals /\ ActiveStaysScheduled
  <2> SUFFICES ASSUME Init PROVE Arrivals /\ ActiveStaysScheduled
      OBVIOUS
  <2>1. channel = <<>> /\ heard = {} /\ pc = "start"
      BY DEF Init, InitStore
  <2>2. Range(channel) = {} /\ 1..Len(channel) = {}
    <3>1. Range(<<>>) = {} /\ Len(<<>>) = 0
        BY EmptyFacts
    <3> QED BY <2>1, <3>1
  <2> QED BY <2>1, <2>2 DEF Arrivals, InOrder, ActiveStaysScheduled
<1>2. Shape /\ Arrivals /\ ActiveStaysScheduled /\ [Next]_vars
        => Arrivals' /\ ActiveStaysScheduled'
    BY ShapeStep, ArrivalsStep, ScheduledStep
<1> QED BY <1>1, <1>2, AlwaysShape, PTL DEF Spec
=============================================================================
