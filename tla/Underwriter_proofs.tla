-------------------------- MODULE Underwriter_proofs --------------------------
(***************************************************************************)
(* Proofs about Underwriter, for every number of swaps and announcements,  *)
(* every cost and balance, and every capacity, number of tries and buffer. *)
(***************************************************************************)
EXTENDS Underwriter, SequenceTheorems, FiniteSetTheorems, WellFoundedInduction, TLAPS

-----------------------------------------------------------------------------
(* Numbers.                                                                *)

LEMMA LessIsWellFounded ==
    \E R : IsWellFoundedOn(R, Nat) /\ \A x, y \in Nat : x < y => <<x, y>> \in R
<1>1. \A x, y \in Nat : x < y => <<x, y>> \in OpToRel(<, Nat)
    BY DEF OpToRel
<1> QED BY <1>1, NatLessThanWellFounded

LEMMA LeastNatural ==
    ASSUME NEW T, T \subseteq Nat, T # {}
    PROVE  \E n \in T : \A m \in T : n <= m
<1>1. PICK R : IsWellFoundedOn(R, Nat) /\ \A x, y \in Nat : x < y => <<x, y>> \in R
    BY LessIsWellFounded
<1>2. IsWellFoundedOn(R, Nat)
    BY <1>1
<1>3. \E n \in T : \A m \in T : ~ (<<m, n>> \in R)
    BY ONLY <1>2, WFMin, T \subseteq Nat, T # {}
<1>4. PICK n \in T : \A m \in T : <<m, n>> \notin R
    BY <1>3
<1>5. \A m \in T : ~(m < n)
    BY <1>1, <1>4
<1>6. \A m \in T : n <= m
    BY <1>5
<1> QED BY <1>6

LEMMA NextOrEqual == \A m, k \in Nat : k <= m => m = k \/ k + 1 <= m
    OBVIOUS

-----------------------------------------------------------------------------
(* What orders need together.                                              *)

LEMMA SavesFacts ==
    /\ Len(Saves) \in Nat /\ Orders = 1..Len(Saves)
    /\ \A n \in Orders : /\ n \in Nat /\ SwapOf(n) \in Swaps /\ AmountOf(n) \in Nat
                         /\ Cost[SwapOf(n)] \in Nat /\ Cost[SwapOf(n)] <= AmountOf(n)
<1>1. Len(Saves) \in Nat /\ DOMAIN Saves = 1..Len(Saves) /\ \A n \in 1..Len(Saves) : Saves[n] \in Swaps
    BY UnderwriterAssumption, LenProperties, ElementOfSeq
<1>2. \A s \in Swaps : Cost[s] \in Nat /\ Amount[s] \in Nat /\ Cost[s] <= Amount[s]
    BY UnderwriterAssumption
<1> QED BY <1>1, <1>2 DEF Orders, SwapOf, AmountOf

\* What order n adds to the total of a set, and the sums over the first n orders.
Part(orders, n) == IF n \in orders THEN AmountOf(n) ELSE 0
IsSum(F, orders, n) ==
    F = [i \in 0..n |-> IF i = 0 THEN 0 ELSE F[i - 1] + Part(orders, i)]

LEMMA SumExists ==
    ASSUME NEW orders, NEW n \in Nat
    PROVE  \E F : IsSum(F, orders, n)
<1> DEFINE T == {m \in Nat : ~\E F : IsSum(F, orders, m)}
<1> SUFFICES ASSUME T # {} PROVE FALSE
    OBVIOUS
<1>1. PICK m \in T : \A k \in T : m <= k
    BY LeastNatural
<1>2. CASE m = 0
  <2> DEFINE F == [i \in 0..0 |-> 0]
  <2>1. F = [i \in 0..0 |-> IF i = 0 THEN 0 ELSE F[i - 1] + Part(orders, i)]
      OBVIOUS
  <2> QED BY <2>1, <1>2 DEF IsSum
<1>3. CASE m # 0
  <2>1. m - 1 \in Nat /\ m - 1 \notin T
      BY <1>1, <1>3
  <2>2. PICK F : IsSum(F, orders, m - 1)
      BY <2>1
  <2> DEFINE G == [i \in 0..m |-> IF i = m THEN F[m - 1] + Part(orders, m) ELSE F[i]]
  <2>3. ASSUME NEW i \in 0..m PROVE G[i] = IF i = 0 THEN 0 ELSE G[i - 1] + Part(orders, i)
    <3>1. CASE i = 0
      <4>1. 0 \in 0..(m - 1) BY <2>1
      <4> QED BY <3>1, <4>1, <1>3, <2>2 DEF IsSum
    <3>2. CASE i # 0 /\ i # m
      <4>1. i \in 0..(m - 1) /\ i - 1 \in 0..m /\ i - 1 # m BY <3>2, <2>1
      <4>2. F[i] = F[i - 1] + Part(orders, i) BY <4>1, <3>2, <2>2 DEF IsSum
      <4> QED BY <4>1, <4>2, <3>2
    <3>3. CASE i = m
      <4>1. m - 1 \in 0..m /\ m - 1 # m BY <1>1, <1>3, <2>1
      <4> QED BY <4>1, <3>3, <1>3
    <3> QED BY <3>1, <3>2, <3>3
  <2>4. IsSum(G, orders, m)
    <3>1. G = [i \in 0..m |-> G[i]] OBVIOUS
    <3> HIDE DEF G
    <3> QED BY <2>3, <3>1 DEF IsSum
  <2> QED BY <2>4, <1>1
<1> QED BY <1>2, <1>3

LEMMA TotalIsSum ==
    ASSUME NEW orders
    PROVE  \E F : IsSum(F, orders, Len(Saves)) /\ Total(orders) = F[Len(Saves)]
<1> DEFINE R(F) == F = [n \in 0..Len(Saves) |->
                           IF n = 0 THEN 0
                           ELSE F[n - 1] + (IF n \in orders THEN AmountOf(n) ELSE 0)]
           C == CHOOSE F : R(F)
<1>1. ASSUME NEW F PROVE R(F) <=> IsSum(F, orders, Len(Saves))
    BY DEF IsSum, Part
<1>2. Total(orders) = C[Len(Saves)]
    BY DEF Total
<1>3. \E F : R(F)
  <2>1. PICK F : IsSum(F, orders, Len(Saves)) BY SavesFacts, SumExists
  <2> HIDE DEF R
  <2> QED BY <2>1, <1>1
<1>4. R(C)
  <2> HIDE DEF R
  <2> QED BY <1>3
<1> HIDE DEF R, C
<1> QED BY <1>1, <1>2, <1>4

\* A sum, step by step.
LEMMA SumSteps ==
    ASSUME NEW orders, NEW F, IsSum(F, orders, Len(Saves))
    PROVE  /\ F[0] = 0
           /\ \A n \in 1..Len(Saves) :
                 /\ F[n] = F[n - 1] + Part(orders, n) /\ Part(orders, n) \in Nat
                 /\ n - 1 \in 0..Len(Saves)
<1>1. Len(Saves) \in Nat /\ 0 \in 0..Len(Saves) BY SavesFacts
<1>2. ASSUME NEW n \in 1..Len(Saves)
      PROVE  n \in 0..Len(Saves) /\ n # 0 /\ n - 1 \in 0..Len(Saves) /\ Part(orders, n) \in Nat
  <2>1. AmountOf(n) \in Nat BY SavesFacts
  <2>2. Part(orders, n) \in Nat BY <2>1 DEF Part
  <2> QED BY <1>1, <2>2
<1> QED BY <1>1, <1>2 DEF IsSum

LEMMA AddPairs ==
    \A a, b, c, d \in Nat :
        a + b \in Nat /\ c + d \in Nat /\ (a + c) + (b + d) = (a + b) + (c + d)
    OBVIOUS

LEMMA TotalOfUnion ==
    ASSUME NEW A, NEW B, A \cap B = {}
    PROVE  /\ Total(A) \in Nat /\ Total(B) \in Nat
           /\ Total(A \cup B) = Total(A) + Total(B)
<1>1. PICK F : IsSum(F, A, Len(Saves)) /\ Total(A) = F[Len(Saves)] BY TotalIsSum
<1>2. PICK G : IsSum(G, B, Len(Saves)) /\ Total(B) = G[Len(Saves)] BY TotalIsSum
<1>3. PICK H : IsSum(H, A \cup B, Len(Saves)) /\ Total(A \cup B) = H[Len(Saves)] BY TotalIsSum
<1> DEFINE P(n) == F[n] \in Nat /\ G[n] \in Nat /\ H[n] = F[n] + G[n]
           T == {n \in 0..Len(Saves) : ~P(n)}
<1>4. P(0) BY <1>1, <1>2, <1>3, SumSteps
<1>5. ASSUME NEW n \in 1..Len(Saves), P(n - 1) PROVE P(n)
  <2>1. F[n] = F[n - 1] + Part(A, n) /\ Part(A, n) \in Nat BY <1>1, SumSteps
  <2>2. G[n] = G[n - 1] + Part(B, n) /\ Part(B, n) \in Nat BY <1>2, SumSteps
  <2>3. H[n] = H[n - 1] + Part(A \cup B, n) BY <1>3, SumSteps
  <2>4. Part(A \cup B, n) = Part(A, n) + Part(B, n)
    <3>1. AmountOf(n) \in Nat BY SavesFacts
    <3> QED BY <3>1 DEF Part
  <2>5. F[n - 1] \in Nat /\ G[n - 1] \in Nat /\ H[n - 1] = F[n - 1] + G[n - 1] BY <1>5
  <2>6. H[n] = (F[n - 1] + G[n - 1]) + (Part(A, n) + Part(B, n)) BY <2>3, <2>4, <2>5
  <2>7. /\ F[n - 1] + Part(A, n) \in Nat /\ G[n - 1] + Part(B, n) \in Nat
        /\ H[n] = (F[n - 1] + Part(A, n)) + (G[n - 1] + Part(B, n))
    <3> DEFINE f == F[n - 1]  g == G[n - 1]  a == Part(A, n)  b == Part(B, n)
    <3>1. f \in Nat /\ g \in Nat /\ a \in Nat /\ b \in Nat /\ H[n] = (f + g) + (a + b)
        BY <2>1, <2>2, <2>5, <2>6
    <3> HIDE DEF f, g, a, b
    <3>2. f + a \in Nat /\ g + b \in Nat /\ H[n] = (f + a) + (g + b) BY <3>1, AddPairs
    <3> QED BY <3>2 DEF f, g, a, b
  <2> QED BY <2>1, <2>2, <2>7
<1>6. T = {}
  <2> SUFFICES ASSUME T # {} PROVE FALSE
      OBVIOUS
  <2> HIDE DEF P
  <2>1. T \subseteq Nat BY SavesFacts
  <2>2. PICK n \in T : \A k \in T : n <= k BY <2>1, LeastNatural
  <2>3. n # 0 /\ n \in 0..Len(Saves) BY <2>2, <1>4
  <2>4. n \in 1..Len(Saves) /\ n - 1 \in 0..Len(Saves) /\ ~(n <= n - 1) BY <2>3, SavesFacts
  <2>5. P(n - 1) BY <2>2, <2>4
  <2> QED BY <2>2, <2>4, <2>5, <1>5
<1>7. P(Len(Saves))
  <2> HIDE DEF P
  <2>1. Len(Saves) \in 0..Len(Saves) BY SavesFacts
  <2> QED BY <2>1, <1>6
<1> QED BY <1>1, <1>2, <1>3, <1>7

LEMMA TotalOfNone == Total({}) = 0
<1>1. Total({}) \in Nat /\ Total({} \cup {}) = Total({}) + Total({}) BY TotalOfUnion
<1>2. {} \cup {} = {} OBVIOUS
<1>3. Total({}) = Total({}) + Total({}) BY <1>1, <1>2
<1>4. \A x \in Nat : x = x + x => x = 0 OBVIOUS
<1> QED BY <1>1, <1>3, <1>4

LEMMA TotalGrows ==
    ASSUME NEW A, NEW B, A \subseteq B
    PROVE  /\ Total(A) \in Nat /\ Total(B) \in Nat /\ Total(A) <= Total(B)
           /\ Total(B \ A) = Total(B) - Total(A)
<1>1. A \cap (B \ A) = {} /\ A \cup (B \ A) = B OBVIOUS
<1>2. Total(A) \in Nat /\ Total(B \ A) \in Nat /\ Total(A \cup (B \ A)) = Total(A) + Total(B \ A)
    BY <1>1, TotalOfUnion
<1>3. Total(B) = Total(A) + Total(B \ A) BY <1>1, <1>2
<1> QED BY <1>2, <1>3

LEMMA TotalOfOne == ASSUME NEW n \in Orders PROVE Total({n}) = AmountOf(n)
<1>1. PICK F : IsSum(F, {n}, Len(Saves)) /\ Total({n}) = F[Len(Saves)] BY TotalIsSum
<1>2. n \in Nat /\ n \in 1..Len(Saves) /\ AmountOf(n) \in Nat /\ Len(Saves) \in Nat BY SavesFacts
<1> DEFINE P(i) == F[i] = IF i < n THEN 0 ELSE AmountOf(n)
           T == {i \in 0..Len(Saves) : ~P(i)}
<1>3. P(0) BY <1>1, <1>2, SumSteps
<1>4. ASSUME NEW i \in 1..Len(Saves), P(i - 1) PROVE P(i)
  <2>1. F[i] = F[i - 1] + Part({n}, i) BY <1>1, SumSteps
  <2>2. CASE i = n
    <3>1. Part({n}, i) = AmountOf(n) /\ F[i - 1] = 0 BY <1>2, <1>4, <2>2 DEF Part
    <3> QED BY <1>2, <2>1, <2>2, <3>1
  <2>3. CASE i # n
    <3>1. Part({n}, i) = 0 BY <2>3 DEF Part
    <3>2. i < n <=> i - 1 < n BY <1>2, <2>3
    <3> QED BY <1>2, <1>4, <2>1, <3>1, <3>2
  <2> QED BY <2>2, <2>3
<1>5. T = {}
  <2> SUFFICES ASSUME T # {} PROVE FALSE
      OBVIOUS
  <2> HIDE DEF P
  <2>1. T \subseteq Nat BY SavesFacts
  <2>2. PICK i \in T : \A k \in T : i <= k BY <2>1, LeastNatural
  <2>3. i # 0 /\ i \in 0..Len(Saves) BY <2>2, <1>3
  <2>4. i \in 1..Len(Saves) /\ i - 1 \in 0..Len(Saves) /\ ~(i <= i - 1) BY <2>3, SavesFacts
  <2>5. P(i - 1) BY <2>2, <2>4
  <2> QED BY <2>2, <2>4, <2>5, <1>4
<1>6. P(Len(Saves))
  <2> HIDE DEF P
  <2>1. Len(Saves) \in 0..Len(Saves) BY SavesFacts
  <2> QED BY <2>1, <1>5
<1> QED BY <1>1, <1>2, <1>6
-----------------------------------------------------------------------------
(* Queues.                                                                 *)

Distinct(q) == \A i, j \in DOMAIN q : q[i] = q[j] => i = j

LEMMA QueueFacts ==
    ASSUME NEW S, NEW q \in Seq(S)
    PROVE  /\ Len(q) \in Nat /\ DOMAIN q = 1..Len(q)
           /\ \A i \in 1..Len(q) : q[i] \in S /\ q[i] \in Range(q)
           /\ Range(q) \subseteq S
           /\ \A x \in Range(q) : \E i \in 1..Len(q) : x = q[i]
           /\ q # <<>> => Len(q) > 0
           /\ Len(q) > 0 => q # <<>>
<1>1. Len(q) \in Nat /\ DOMAIN q = 1..Len(q) /\ \A i \in 1..Len(q) : q[i] \in S
    BY LenProperties, ElementOfSeq
<1>2. (q # <<>> => Len(q) > 0) /\ (Len(q) > 0 => q # <<>>)
    BY <1>1, EmptySeq
<1> QED BY <1>1, <1>2 DEF Range

LEMMA EmptyFacts ==
    /\ \A S : <<>> \in Seq(S)
    /\ Len(<<>>) = 0 /\ DOMAIN <<>> = {} /\ Range(<<>>) = {} /\ Distinct(<<>>)
<1>1. (\A S : <<>> \in Seq(S)) /\ Len(<<>>) = 0 /\ DOMAIN <<>> = {}
    BY EmptySeq, LenProperties
<1> QED BY <1>1 DEF Range, Distinct

LEMMA AppendFacts ==
    ASSUME NEW S, NEW q \in Seq(S), NEW x \in S
    PROVE  /\ Append(q, x) \in Seq(S) /\ Len(Append(q, x)) = Len(q) + 1
           /\ Range(Append(q, x)) = Range(q) \cup {x}
           /\ Distinct(q) /\ x \notin Range(q) => Distinct(Append(q, x))
<1> DEFINE s == Append(q, x)
<1>1. /\ s \in Seq(S) /\ Len(s) = Len(q) + 1 /\ Len(q) \in Nat
      /\ DOMAIN q = 1..Len(q) /\ DOMAIN s = 1..(Len(q) + 1)
      /\ \A i \in 1..Len(q) : s[i] = q[i]
      /\ s[Len(q) + 1] = x
    BY AppendProperties, LenProperties
<1> HIDE DEF s
<1>2. Range(s) = Range(q) \cup {x}
    BY <1>1 DEF Range
<1>3. ASSUME Distinct(q), x \notin Range(q) PROVE Distinct(s)
    BY <1>1, <1>3 DEF Distinct, Range
<1> QED BY <1>1, <1>2, <1>3 DEF s

LEMMA TailFacts ==
    ASSUME NEW S, NEW q \in Seq(S), q # <<>>
    PROVE  /\ Head(q) = q[1] /\ Head(q) \in S
           /\ Tail(q) \in Seq(S) /\ Len(Tail(q)) = Len(q) - 1 /\ Len(q) > 0
           /\ \A i \in 1..(Len(q) - 1) : Tail(q)[i] = q[i + 1]
           /\ Range(q) = {Head(q)} \cup Range(Tail(q))
           /\ Distinct(q) => Distinct(Tail(q)) /\ Head(q) \notin Range(Tail(q))
<1> DEFINE s == Tail(q)
<1>1. /\ Head(q) = q[1] /\ q[1] \in S
      /\ s \in Seq(S) /\ Len(s) = Len(q) - 1 /\ Len(q) \in Nat /\ Len(q) > 0
      /\ DOMAIN q = 1..Len(q) /\ DOMAIN s = 1..(Len(q) - 1)
      /\ \A i \in 1..(Len(q) - 1) : s[i] = q[i + 1]
    BY HeadTailProperties, LenProperties, QueueFacts
<1> HIDE DEF s
<1>2. ASSUME NEW i \in 1..Len(q) PROVE i = 1 \/ (i - 1 \in 1..(Len(q) - 1) /\ s[i - 1] = q[i])
    BY <1>1
<1>3. ASSUME NEW i \in 1..(Len(q) - 1) PROVE i + 1 \in 1..Len(q) /\ s[i] = q[i + 1] /\ 1 \in 1..Len(q)
    BY <1>1
<1>4. Range(q) = {q[1]} \cup Range(s)
  <2>1. \A i \in DOMAIN q : q[i] \in {q[1]} \cup Range(s)
      BY <1>1, <1>2 DEF Range
  <2>2. \A i \in DOMAIN s : s[i] \in Range(q)
      BY <1>1, <1>3 DEF Range
  <2>3. q[1] \in Range(q)
      BY <1>1 DEF Range
  <2> QED BY <2>1, <2>2, <2>3 DEF Range
<1>5. ASSUME Distinct(q) PROVE Distinct(s) /\ q[1] \notin Range(s)
  <2>1. ASSUME NEW i \in DOMAIN s, NEW j \in DOMAIN s, s[i] = s[j] PROVE i = j
    <3>1. i + 1 = j + 1 BY <1>1, <1>3, <1>5, <2>1 DEF Distinct
    <3> QED BY <3>1, <1>1
  <2>2. ASSUME NEW i \in DOMAIN s, s[i] = q[1] PROVE FALSE
    <3>1. i + 1 = 1 BY <1>1, <1>3, <1>5, <2>2 DEF Distinct
    <3> QED BY <3>1, <1>1
  <2> QED BY <2>1, <2>2 DEF Distinct, Range
<1> QED BY <1>1, <1>4, <1>5 DEF s

LEMMA ConcatIs ==
    ASSUME NEW S, NEW q \in Seq(S), NEW s \in Seq(S)
    PROVE  /\ q \o s \in Seq(S) /\ Len(q \o s) = Len(q) + Len(s)
           /\ \A i \in 1..(Len(q) + Len(s)) :
                 (q \o s)[i] = IF i <= Len(q) THEN q[i] ELSE s[i - Len(q)]
    BY ConcatProperties

LEMMA ConcatFacts ==
    ASSUME NEW S, NEW q \in Seq(S), NEW s \in Seq(S)
    PROVE  /\ q \o s \in Seq(S) /\ Len(q \o s) = Len(q) + Len(s)
           /\ Range(q \o s) = Range(q) \cup Range(s)
           /\ Distinct(q) /\ Distinct(s) /\ Range(q) \cap Range(s) = {} => Distinct(q \o s)
           /\ \A i \in 1..(Len(q) + Len(s)) :
                 (q \o s)[i] = IF i <= Len(q) THEN q[i] ELSE s[i - Len(q)]
<1> DEFINE c == q \o s
<1>1. /\ c \in Seq(S) /\ Len(c) = Len(q) + Len(s) /\ Len(q) \in Nat /\ Len(s) \in Nat
      /\ DOMAIN q = 1..Len(q) /\ DOMAIN s = 1..Len(s) /\ DOMAIN c = 1..(Len(q) + Len(s))
      /\ \A i \in 1..(Len(q) + Len(s)) : c[i] = IF i <= Len(q) THEN q[i] ELSE s[i - Len(q)]
    BY ConcatProperties, LenProperties
<1> HIDE DEF c
<1>2. ASSUME NEW i \in 1..Len(q) PROVE i \in DOMAIN c /\ c[i] = q[i]
    BY <1>1
<1>3. ASSUME NEW i \in 1..Len(s) PROVE Len(q) + i \in DOMAIN c /\ c[Len(q) + i] = s[i]
  <2>1. /\ Len(q) + i \in 1..(Len(q) + Len(s)) /\ ~(Len(q) + i <= Len(q))
        /\ (Len(q) + i) - Len(q) = i
      BY <1>1
  <2> QED BY <2>1, <1>1
<1>4. ASSUME NEW i \in DOMAIN c
      PROVE  \/ i \in 1..Len(q) /\ c[i] = q[i]
             \/ i > Len(q) /\ i - Len(q) \in 1..Len(s) /\ c[i] = s[i - Len(q)]
  <2>1. CASE i <= Len(q)
      BY <2>1, <1>1
  <2>2. CASE ~(i <= Len(q))
    <3>1. i \in 1..(Len(q) + Len(s)) BY <1>1
    <3>2. i > Len(q) /\ i - Len(q) \in 1..Len(s) BY <2>2, <3>1, <1>1
    <3>3. c[i] = s[i - Len(q)] BY <2>2, <3>1, <1>1
    <3> QED BY <3>2, <3>3
  <2> QED BY <2>1, <2>2
<1>5. Range(c) = Range(q) \cup Range(s)
  <2>1. \A i \in DOMAIN c : c[i] \in Range(q) \cup Range(s)
      BY <1>1, <1>4 DEF Range
  <2>2. \A i \in DOMAIN q : q[i] \in Range(c)
      BY <1>1, <1>2 DEF Range
  <2>3. \A i \in DOMAIN s : s[i] \in Range(c)
      BY <1>1, <1>3 DEF Range
  <2> QED BY <2>1, <2>2, <2>3 DEF Range
<1>6. ASSUME Distinct(q), Distinct(s), Range(q) \cap Range(s) = {} PROVE Distinct(c)
  <2> SUFFICES ASSUME NEW i \in DOMAIN c, NEW j \in DOMAIN c, c[i] = c[j] PROVE i = j
      BY DEF Distinct
  <2>1. \A k \in 1..Len(q), l \in 1..Len(s) : q[k] # s[l]
      BY <1>1, <1>6 DEF Range
  <2>2. CASE i \in 1..Len(q) /\ c[i] = q[i]
    <3>1. CASE j \in 1..Len(q) /\ c[j] = q[j]
        BY <2>2, <3>1, <1>1, <1>6 DEF Distinct
    <3>2. CASE j > Len(q) /\ j - Len(q) \in 1..Len(s) /\ c[j] = s[j - Len(q)]
        BY <2>1, <2>2, <3>2
    <3> QED BY <3>1, <3>2, <1>4
  <2>3. CASE i > Len(q) /\ i - Len(q) \in 1..Len(s) /\ c[i] = s[i - Len(q)]
    <3>1. CASE j \in 1..Len(q) /\ c[j] = q[j]
        BY <2>1, <2>3, <3>1
    <3>2. CASE j > Len(q) /\ j - Len(q) \in 1..Len(s) /\ c[j] = s[j - Len(q)]
      <4>1. i - Len(q) = j - Len(q)
          BY <2>3, <3>2, <1>1, <1>6 DEF Distinct
      <4>2. i \in Int /\ j \in Int /\ Len(q) \in Int BY <1>1
      <4> QED BY ONLY <4>1, <4>2
    <3> QED BY <3>1, <3>2, <1>4
  <2> QED BY <2>2, <2>3, <1>4
<1> QED BY <1>1, <1>5, <1>6 DEF c

\* Cutting a queue in two.
LEMMA SplitFacts ==
    ASSUME NEW S, NEW q \in Seq(S), NEW n \in 0..Len(q)
    PROVE  LET a == SubSeq(q, 1, n)
               b == SubSeq(q, n + 1, Len(q))
           IN  /\ a \in Seq(S) /\ Len(a) = n /\ \A i \in 1..n : a[i] = q[i]
               /\ b \in Seq(S) /\ Len(b) = Len(q) - n
               /\ \A i \in 1..(Len(q) - n) : b[i] = q[n + i]
               /\ Range(q) = Range(a) \cup Range(b)
               /\ Distinct(q) => Distinct(a) /\ Distinct(b) /\ Range(a) \cap Range(b) = {}
<1> DEFINE a == SubSeq(q, 1, n)  b == SubSeq(q, n + 1, Len(q))
<1>1. Len(q) \in Nat /\ DOMAIN q = 1..Len(q) /\ n \in Nat /\ n <= Len(q)
    BY QueueFacts
<1>2. \A i \in 1..n : q[i] \in S
    BY <1>1, QueueFacts
<1>3. \A i \in (n + 1)..Len(q) : q[i] \in S
    BY <1>1, QueueFacts
<1>4. /\ a \in Seq(S) /\ Len(a) = n /\ \A i \in 1..n : a[i] = q[i]
  <2>1. n - 1 + 1 = n /\ \A i \in 1..n : 1 + i - 1 = i BY <1>1
  <2>2. /\ a \in Seq(S) /\ Len(a) = (IF 1 <= n THEN n - 1 + 1 ELSE 0)
        /\ \A i \in 1..(n - 1 + 1) : a[i] = q[1 + i - 1]
      BY <1>1, <1>2, SubSeqProperties
  <2> HIDE DEF a
  <2> QED BY <2>1, <2>2, <1>1
<1>5. /\ b \in Seq(S) /\ Len(b) = Len(q) - n
      /\ \A i \in 1..(Len(q) - n) : b[i] = q[n + i]
  <2>1. Len(q) - (n + 1) + 1 = Len(q) - n /\ \A i \in 1..(Len(q) - n) : n + 1 + i - 1 = n + i BY <1>1
  <2>2. /\ b \in Seq(S)
        /\ Len(b) = (IF n + 1 <= Len(q) THEN Len(q) - (n + 1) + 1 ELSE 0)
        /\ \A i \in 1..(Len(q) - (n + 1) + 1) : b[i] = q[n + 1 + i - 1]
      BY <1>1, <1>3, SubSeqProperties
  <2> HIDE DEF b
  <2>3. Len(b) = Len(q) - n
    <3>1. CASE n + 1 <= Len(q)
        BY <2>1, <2>2, <3>1
    <3>2. CASE Len(q) = n
      <4>1. ~(n + 1 <= Len(q)) /\ Len(q) - n = 0 BY <3>2, <1>1
      <4>2. Len(b) = 0 BY <2>2, <4>1
      <4> QED BY <4>1, <4>2
    <3>3. Len(q) = n \/ n + 1 <= Len(q)
        BY <1>1, NextOrEqual
    <3> QED BY <3>1, <3>2, <3>3
  <2>4. \A i \in 1..(Len(q) - n) : b[i] = q[n + i]
      BY <2>1, <2>2
  <2> QED BY <2>2, <2>3, <2>4
<1>6. DOMAIN a = 1..n /\ DOMAIN b = 1..(Len(q) - n)
    BY <1>4, <1>5, LenProperties
<1> HIDE DEF a, b
<1>7. ASSUME NEW i \in 1..Len(q)
      PROVE  \/ i \in 1..n
             \/ i - n \in 1..(Len(q) - n) /\ n + (i - n) = i
    BY <1>1
<1>8. ASSUME NEW i \in 1..n PROVE i \in 1..Len(q)
    BY <1>1
<1>9. ASSUME NEW i \in 1..(Len(q) - n) PROVE n + i \in 1..Len(q) /\ n + i > n /\ n + i \notin 1..n
    BY <1>1
<1>10. Range(q) = Range(a) \cup Range(b)
  <2>1. ASSUME NEW i \in DOMAIN q PROVE q[i] \in Range(a) \cup Range(b)
    <3>1. CASE i \in 1..n
        BY <3>1, <1>4, <1>6 DEF Range
    <3>2. CASE i - n \in 1..(Len(q) - n) /\ n + (i - n) = i
      <4>1. b[i - n] = q[i] BY <3>2, <1>5
      <4> QED BY <3>2, <4>1, <1>6 DEF Range
    <3> QED BY <3>1, <3>2, <1>1, <1>7
  <2>2. \A i \in DOMAIN a : a[i] \in Range(q)
      BY <1>1, <1>4, <1>6, <1>8 DEF Range
  <2>3. \A i \in DOMAIN b : b[i] \in Range(q)
      BY <1>1, <1>5, <1>6, <1>9 DEF Range
  <2> QED BY <2>1, <2>2, <2>3 DEF Range
<1>11. ASSUME Distinct(q) PROVE Distinct(a) /\ Distinct(b) /\ Range(a) \cap Range(b) = {}
  <2>1. Distinct(a)
      BY <1>1, <1>4, <1>6, <1>8, <1>11 DEF Distinct
  <2>2. ASSUME NEW i \in DOMAIN b, NEW j \in DOMAIN b, b[i] = b[j] PROVE i = j
    <3>1. n + i = n + j BY <1>1, <1>5, <1>6, <1>9, <1>11, <2>2 DEF Distinct
    <3> QED BY <3>1, <1>1, <1>6
  <2>3. ASSUME NEW i \in DOMAIN a, NEW j \in DOMAIN b, a[i] = b[j] PROVE FALSE
    <3>1. i \in 1..Len(q) /\ n + j \in 1..Len(q) /\ n + j \notin 1..n /\ i \in 1..n
        BY <1>6, <1>8, <1>9
    <3>2. q[i] = q[n + j]
        BY <1>4, <1>5, <1>6, <2>3
    <3> QED BY <3>1, <3>2, <1>1, <1>11 DEF Distinct
  <2> QED BY <2>1, <2>2, <2>3 DEF Distinct, Range
<1> QED BY <1>4, <1>5, <1>10, <1>11 DEF a, b

LEMMA RangeSize ==
    ASSUME NEW S, NEW q \in Seq(S)
    PROVE  IsFiniteSet(Range(q)) /\ Cardinality(Range(q)) <= Len(q) /\ Cardinality(Range(q)) \in Nat
<1>1. Len(q) \in Nat /\ DOMAIN q = 1..Len(q) BY QueueFacts
<1>2. IsFiniteSet(1..Len(q)) /\ Cardinality(1..Len(q)) = Len(q)
    BY <1>1, FS_Interval
<1>3. q \in Surjection(1..Len(q), Range(q))
  <2>1. q \in [1..Len(q) -> Range(q)]
    <3>1. q = [i \in 1..Len(q) |-> q[i]] BY <1>1, SeqDef
    <3> QED BY <3>1, <1>1 DEF Range
  <2> QED BY <1>1, <2>1 DEF Surjection, Range
<1>4. IsFiniteSet(Range(q)) /\ Cardinality(Range(q)) <= Cardinality(1..Len(q))
    BY <1>2, <1>3, FS_Surjection
<1>5. Cardinality(Range(q)) \in Nat BY <1>4, FS_CardinalityType
<1> QED BY <1>2, <1>4, <1>5
-----------------------------------------------------------------------------
(* Orders with their tries.                                                *)

Records == [of : Orders, tries : Nat]
Attempts == [of : Orders, tries : 1..MaxTries]
Retries == [of : Orders, tries : 1..(MaxTries - 1)]

Numbers(q) == [i \in DOMAIN q |-> q[i].of]

LEMMA RecordFacts ==
    /\ Attempts \subseteq Records /\ Retries \subseteq Attempts
    /\ \A n \in Orders : Attempt(n) \in Attempts /\ Attempt(n).of = n
    /\ \A r \in Retries : Again(r) \in Attempts /\ Again(r).of = r.of
    /\ \A r \in Attempts : r.tries < MaxTries => r \in Retries
    /\ \A r \in Attempts : r.of \in Orders /\ r.tries \in 1..MaxTries
<1>1. MaxTries \in Nat /\ MaxTries >= 1 BY UnderwriterAssumption
<1>2. ASSUME NEW r \in Retries PROVE Again(r) \in Attempts /\ Again(r).of = r.of
  <2>1. r.of \in Orders /\ r.tries \in 1..(MaxTries - 1) /\ r = [of |-> r.of, tries |-> r.tries]
      BY DEF Retries
  <2>2. r.tries + 1 \in 1..MaxTries BY <1>1, <2>1
  <2>3. Again(r) = [of |-> r.of, tries |-> r.tries + 1] BY <2>1 DEF Again
  <2> QED BY <2>1, <2>2, <2>3 DEF Attempts
<1>3. ASSUME NEW r \in Attempts PROVE r.of \in Orders /\ r.tries \in 1..MaxTries
    BY DEF Attempts
<1>4. ASSUME NEW r \in Attempts, r.tries < MaxTries PROVE r \in Retries
  <2>1. r.tries \in 1..(MaxTries - 1) BY <1>1, <1>3, <1>4
  <2> QED BY <2>1 DEF Attempts, Retries
<1>5. ASSUME NEW n \in Orders PROVE Attempt(n) \in Attempts /\ Attempt(n).of = n
  <2>1. 1 \in 1..MaxTries BY <1>1
  <2> QED BY <2>1 DEF Attempt, Attempts
<1>6. 1..(MaxTries - 1) \subseteq 1..MaxTries /\ 1..MaxTries \subseteq Nat BY <1>1
<1>7. Attempts \subseteq Records /\ Retries \subseteq Attempts
    BY <1>6 DEF Attempts, Retries, Records
<1> QED BY <1>2, <1>3, <1>4, <1>5, <1>7

LEMMA NumbersFacts ==
    ASSUME NEW S, S \subseteq Records, NEW q \in Seq(S)
    PROVE  /\ Numbers(q) \in Seq(Orders) /\ Len(Numbers(q)) = Len(q)
           /\ \A i \in 1..Len(q) : Numbers(q)[i] = q[i].of
           /\ Range(Numbers(q)) = OrdersOf(Range(q))
           /\ OrdersOf(Range(q)) \subseteq Orders
           /\ q # <<>> => Numbers(q) # <<>>
<1>1. Len(q) \in Nat /\ DOMAIN q = 1..Len(q) /\ \A i \in 1..Len(q) : q[i] \in S
    BY QueueFacts
<1>2. \A r \in S : r.of \in Orders BY DEF Records
<1>3. Numbers(q) = [i \in 1..Len(q) |-> q[i].of] /\ \A i \in 1..Len(q) : q[i].of \in Orders
    BY <1>1, <1>2 DEF Numbers
<1>4. Numbers(q) \in [1..Len(q) -> Orders] BY <1>3
<1>5. Numbers(q) \in Seq(Orders) BY <1>1, <1>4, SeqDef
<1>6. Len(Numbers(q)) = Len(q) BY <1>1, <1>3, <1>5, LenProperties
<1>7. DOMAIN Numbers(q) = 1..Len(q) BY <1>3
<1>8. Range(Numbers(q)) = OrdersOf(Range(q))
    BY <1>1, <1>3, <1>7 DEF Range, OrdersOf
<1>9. OrdersOf(Range(q)) \subseteq Orders
    BY <1>1, <1>2 DEF Range, OrdersOf
<1>10. q # <<>> => Numbers(q) # <<>>
    BY <1>5, <1>6, QueueFacts
<1> QED BY <1>3, <1>5, <1>6, <1>8, <1>9, <1>10

LEMMA NumbersOfNone == Numbers(<<>>) = <<>> /\ OrdersOf(Range(<<>>)) = {}
<1>1. <<>> \in Seq(Records) BY EmptyFacts
<1>2. Numbers(<<>>) \in Seq(Orders) /\ Len(Numbers(<<>>)) = 0 BY <1>1, NumbersFacts, EmptyFacts
<1>3. Numbers(<<>>) = <<>> BY <1>2, EmptySeq
<1> QED BY <1>3, EmptyFacts DEF OrdersOf

LEMMA NumbersOfTail ==
    ASSUME NEW S, S \subseteq Records, NEW q \in Seq(S), q # <<>>
    PROVE  /\ Head(q) \in S /\ Head(q).of \in Orders /\ Tail(q) \in Seq(S)
           /\ OrdersOf(Range(q)) = {Head(q).of} \cup OrdersOf(Range(Tail(q)))
           /\ Distinct(Numbers(q)) => /\ Distinct(Numbers(Tail(q)))
                                      /\ Head(q).of \notin OrdersOf(Range(Tail(q)))
<1>1. /\ Head(q) = q[1] /\ Head(q) \in S /\ Tail(q) \in Seq(S) /\ Len(Tail(q)) = Len(q) - 1
      /\ Len(q) > 0 /\ \A i \in 1..(Len(q) - 1) : Tail(q)[i] = q[i + 1]
    BY TailFacts
<1>2. Len(q) \in Nat BY QueueFacts
<1>3. Head(q).of \in Orders BY <1>1 DEF Records
<1> DEFINE m == Numbers(q)  t == Numbers(Tail(q))
<1>4. /\ m \in Seq(Orders) /\ Len(m) = Len(q) /\ m # <<>>
      /\ \A i \in 1..Len(q) : m[i] = q[i].of
      /\ Range(m) = OrdersOf(Range(q))
    BY NumbersFacts
<1>5. /\ t \in Seq(Orders) /\ Len(t) = Len(q) - 1
      /\ \A i \in 1..(Len(q) - 1) : t[i] = Tail(q)[i].of
      /\ Range(t) = OrdersOf(Range(Tail(q)))
    BY <1>1, NumbersFacts
<1> HIDE DEF m, t
<1>6. /\ Tail(m) \in Seq(Orders) /\ Len(Tail(m)) = Len(q) - 1 /\ Head(m) = m[1]
      /\ \A i \in 1..(Len(q) - 1) : Tail(m)[i] = m[i + 1]
      /\ Range(m) = {Head(m)} \cup Range(Tail(m))
      /\ Distinct(m) => Distinct(Tail(m)) /\ Head(m) \notin Range(Tail(m))
    BY <1>4, TailFacts
<1>7. ASSUME NEW i \in 1..(Len(q) - 1) PROVE Tail(m)[i] = t[i]
  <2>1. i + 1 \in 1..Len(q) BY <1>2
  <2> QED BY <2>1, <1>1, <1>4, <1>5, <1>6
<1>8. Tail(m) = t BY <1>5, <1>6, <1>7, SeqEqual
<1>9. Head(m) = Head(q).of
  <2>1. 1 \in 1..Len(q) BY <1>1, <1>2
  <2> QED BY <2>1, <1>1, <1>4, <1>6
<1> QED BY <1>1, <1>3, <1>4, <1>5, <1>6, <1>8, <1>9 DEF m, t

LEMMA NumbersOfAppend ==
    ASSUME NEW S, S \subseteq Records, NEW q \in Seq(S), NEW r \in S
    PROVE  /\ Append(q, r) \in Seq(S)
           /\ OrdersOf(Range(Append(q, r))) = OrdersOf(Range(q)) \cup {r.of}
           /\ Distinct(Numbers(q)) /\ r.of \notin OrdersOf(Range(q))
                 => Distinct(Numbers(Append(q, r)))
<1>1. /\ Append(q, r) \in Seq(S) /\ Len(Append(q, r)) = Len(q) + 1
      /\ Range(Append(q, r)) = Range(q) \cup {r}
    BY AppendFacts
<1>2. OrdersOf(Range(Append(q, r))) = OrdersOf(Range(q)) \cup {r.of}
    BY <1>1 DEF OrdersOf
<1>3. /\ Append(q, r)[Len(q) + 1] = r /\ \A i \in 1..Len(q) : Append(q, r)[i] = q[i]
      /\ Len(q) \in Nat
    BY AppendProperties, QueueFacts
<1> DEFINE m == Numbers(q)  a == Numbers(Append(q, r))
<1>4. /\ m \in Seq(Orders) /\ Len(m) = Len(q) /\ \A i \in 1..Len(q) : m[i] = q[i].of
      /\ Range(m) = OrdersOf(Range(q))
    BY NumbersFacts
<1>5. /\ a \in Seq(Orders) /\ Len(a) = Len(q) + 1
      /\ \A i \in 1..(Len(q) + 1) : a[i] = Append(q, r)[i].of
    BY <1>1, NumbersFacts
<1>6. r.of \in Orders BY DEF Records
<1> HIDE DEF m, a
<1>7. /\ Append(m, r.of) \in Seq(Orders) /\ Len(Append(m, r.of)) = Len(q) + 1
      /\ \A i \in 1..Len(q) : Append(m, r.of)[i] = m[i]
      /\ Append(m, r.of)[Len(q) + 1] = r.of
      /\ Distinct(m) /\ r.of \notin Range(m) => Distinct(Append(m, r.of))
    BY <1>4, <1>6, AppendFacts, AppendProperties
<1>8. ASSUME NEW i \in 1..(Len(q) + 1) PROVE Append(m, r.of)[i] = a[i]
  <2>1. i \in 1..Len(q) \/ i = Len(q) + 1 BY <1>3
  <2> QED BY <2>1, <1>3, <1>4, <1>5, <1>7
<1>9. Append(m, r.of) = a BY <1>5, <1>7, <1>8, SeqEqual
<1> QED BY <1>1, <1>2, <1>4, <1>7, <1>9 DEF m, a

\* What processOrders takes up: the first j retries, and the new orders behind them.
TakenUp(q, j, orders) ==
    [i \in 1..j |-> Again(q[i])] \o [i \in DOMAIN orders |-> Attempt(orders[i])]

LEMMA TakenUpFacts ==
    ASSUME NEW q \in Seq(Retries), NEW j \in 0..Len(q), NEW orders \in Seq(Orders)
    PROVE  LET b == TakenUp(q, j, orders)
               rest == SubSeq(q, j + 1, Len(q))
               due == OrdersOf(Range(SubSeq(q, 1, j)))
           IN  /\ b \in Seq(Attempts) /\ rest \in Seq(Retries)
               /\ Len(rest) = Len(q) - j /\ Len(b) = j + Len(orders)
               /\ OrdersOf(Range(q)) = due \cup OrdersOf(Range(rest))
               /\ OrdersOf(Range(b)) = due \cup Range(orders)
               /\ Distinct(Numbers(q)) => /\ Distinct(Numbers(rest))
                                          /\ due \cap OrdersOf(Range(rest)) = {}
               /\ Distinct(Numbers(q)) /\ Distinct(orders) /\ due \cap Range(orders) = {}
                     => Distinct(Numbers(b))
<1> DEFINE a == SubSeq(q, 1, j)
           rest == SubSeq(q, j + 1, Len(q))
           l == [i \in 1..j |-> Again(q[i])]
           r == [i \in DOMAIN orders |-> Attempt(orders[i])]
<1>1. /\ a \in Seq(Retries) /\ Len(a) = j /\ \A i \in 1..j : a[i] = q[i]
      /\ rest \in Seq(Retries) /\ Len(rest) = Len(q) - j
      /\ \A i \in 1..(Len(q) - j) : rest[i] = q[j + i]
      /\ Range(q) = Range(a) \cup Range(rest)
    BY SplitFacts
<1>2. /\ Len(q) \in Nat /\ j \in Nat /\ Len(orders) \in Nat /\ DOMAIN orders = 1..Len(orders)
      /\ \A i \in 1..Len(q) : q[i] \in Retries
      /\ \A i \in 1..Len(orders) : orders[i] \in Orders
    BY QueueFacts
<1>3. \A i \in 1..j : Again(q[i]) \in Attempts /\ Again(q[i]).of = q[i].of
  <2>1. \A i \in 1..j : i \in 1..Len(q) BY <1>2
  <2> QED BY <2>1, <1>2, RecordFacts
<1>4. \A i \in 1..Len(orders) : Attempt(orders[i]) \in Attempts /\ Attempt(orders[i]).of = orders[i]
    BY <1>2, RecordFacts
<1>5. l \in Seq(Attempts) /\ Len(l) = j /\ \A i \in 1..j : l[i].of = q[i].of
  <2>1. l \in [1..j -> Attempts] /\ DOMAIN l = 1..j BY <1>3
  <2>2. l \in Seq(Attempts) BY <2>1, <1>2, SeqDef
  <2>3. Len(l) = j BY <2>1, <2>2, <1>2, LenProperties
  <2> QED BY <2>2, <2>3, <1>3
<1>6. r \in Seq(Attempts) /\ Len(r) = Len(orders) /\ \A i \in 1..Len(orders) : r[i].of = orders[i]
  <2>1. r \in [1..Len(orders) -> Attempts] /\ DOMAIN r = 1..Len(orders) BY <1>2, <1>4
  <2>2. r \in Seq(Attempts) BY <2>1, <1>2, SeqDef
  <2>3. Len(r) = Len(orders) BY <2>1, <2>2, <1>2, LenProperties
  <2> QED BY <2>2, <2>3, <1>2, <1>4
<1> DEFINE b == l \o r
<1>7. b = TakenUp(q, j, orders) BY DEF TakenUp
<1> HIDE DEF a, rest, l, r, b
<1>8. Retries \subseteq Records /\ Attempts \subseteq Records BY RecordFacts
<1>9. /\ b \in Seq(Attempts) /\ Len(b) = j + Len(orders)
      /\ \A i \in 1..(j + Len(orders)) : b[i] = IF i <= j THEN l[i] ELSE r[i - j]
  <2>1. /\ l \o r \in Seq(Attempts) /\ Len(l \o r) = Len(l) + Len(r)
        /\ \A i \in 1..(Len(l) + Len(r)) : (l \o r)[i] = IF i <= Len(l) THEN l[i] ELSE r[i - Len(l)]
    <3>1. l \in Seq(Attempts) /\ r \in Seq(Attempts) BY <1>5, <1>6
    <3> QED BY ONLY <3>1, ConcatIs
  <2> QED BY <2>1, <1>5, <1>6 DEF b
\* The same of the numbers.
<1> DEFINE m == Numbers(q)  mb == Numbers(b)  mr == Numbers(rest)  ma == Numbers(a)
<1>10. /\ m \in Seq(Orders) /\ Len(m) = Len(q) /\ \A i \in 1..Len(q) : m[i] = q[i].of
       /\ Range(m) = OrdersOf(Range(q))
    BY <1>8, NumbersFacts
<1>11. /\ mb \in Seq(Orders) /\ Len(mb) = j + Len(orders)
       /\ \A i \in 1..(j + Len(orders)) : mb[i] = b[i].of
       /\ Range(mb) = OrdersOf(Range(b))
    BY <1>8, <1>9, NumbersFacts
<1>12. /\ mr \in Seq(Orders) /\ Len(mr) = Len(q) - j /\ \A i \in 1..(Len(q) - j) : mr[i] = rest[i].of
       /\ Range(mr) = OrdersOf(Range(rest))
    BY <1>1, <1>8, NumbersFacts
<1>13. /\ ma \in Seq(Orders) /\ Len(ma) = j /\ \A i \in 1..j : ma[i] = a[i].of
       /\ Range(ma) = OrdersOf(Range(a))
    BY <1>1, <1>8, NumbersFacts
<1> HIDE DEF m, mb, mr, ma
<1> DEFINE sa == SubSeq(m, 1, j)  sr == SubSeq(m, j + 1, Len(m))
<1>14. /\ sa \in Seq(Orders) /\ Len(sa) = j /\ \A i \in 1..j : sa[i] = m[i]
       /\ sr \in Seq(Orders) /\ Len(sr) = Len(q) - j
       /\ \A i \in 1..(Len(q) - j) : sr[i] = m[j + i]
       /\ Range(m) = Range(sa) \cup Range(sr)
       /\ Distinct(m) => Distinct(sa) /\ Distinct(sr) /\ Range(sa) \cap Range(sr) = {}
  <2>1. j \in 0..Len(m) BY <1>10
  <2> HIDE DEF sa, sr
  <2> QED BY <2>1, <1>10, SplitFacts DEF sa, sr
<1> HIDE DEF sa, sr
<1>15. sa = ma
  <2>1. \A i \in 1..j : i \in 1..Len(q) BY <1>2
  <2>2. \A i \in 1..j : sa[i] = ma[i] BY <2>1, <1>1, <1>10, <1>13, <1>14
  <2> QED BY <2>2, <1>13, <1>14, SeqEqual
<1>16. sr = mr
  <2>1. \A i \in 1..(Len(q) - j) : j + i \in 1..Len(q) BY <1>2
  <2>2. \A i \in 1..(Len(q) - j) : sr[i] = mr[i] BY <2>1, <1>1, <1>10, <1>12, <1>14
  <2> QED BY <2>2, <1>12, <1>14, SeqEqual
<1>17. mb = ma \o orders
  <2>1. /\ ma \o orders \in Seq(Orders) /\ Len(ma \o orders) = j + Len(orders)
        /\ \A i \in 1..(j + Len(orders)) :
              (ma \o orders)[i] = IF i <= j THEN ma[i] ELSE orders[i - j]
      BY <1>13, ConcatFacts
  <2>2. ASSUME NEW i \in 1..(j + Len(orders)) PROVE mb[i] = (ma \o orders)[i]
    <3>1. CASE i <= j
      <4>1. i \in 1..j BY <3>1, <1>2
      <4>2. mb[i] = l[i].of /\ (ma \o orders)[i] = ma[i] BY <3>1, <2>1, <1>9, <1>11
      <4> QED BY <4>1, <4>2, <1>1, <1>5, <1>13
    <3>2. CASE ~(i <= j)
      <4>1. i - j \in 1..Len(orders) BY <3>2, <1>2
      <4>2. mb[i] = r[i - j].of /\ (ma \o orders)[i] = orders[i - j] BY <3>2, <2>1, <1>9, <1>11
      <4> QED BY <4>1, <4>2, <1>6
    <3> QED BY <3>1, <3>2
  <2> QED BY <2>1, <2>2, <1>11, SeqEqual
<1>18. /\ Range(ma \o orders) = Range(ma) \cup Range(orders)
       /\ Distinct(ma) /\ Distinct(orders) /\ Range(ma) \cap Range(orders) = {}
             => Distinct(ma \o orders)
    BY <1>13, ConcatFacts
<1>19. OrdersOf(Range(b)) = OrdersOf(Range(a)) \cup Range(orders)
    BY <1>11, <1>13, <1>17, <1>18
<1>20. OrdersOf(Range(q)) = OrdersOf(Range(a)) \cup OrdersOf(Range(rest))
    BY <1>10, <1>12, <1>13, <1>14, <1>15, <1>16
<1>21. Distinct(Numbers(q)) => /\ Distinct(Numbers(rest))
                               /\ OrdersOf(Range(a)) \cap OrdersOf(Range(rest)) = {}
    BY <1>12, <1>13, <1>14, <1>15, <1>16 DEF m, mr
<1>22. Distinct(Numbers(q)) /\ Distinct(orders) /\ OrdersOf(Range(a)) \cap Range(orders) = {}
         => Distinct(Numbers(b))
    BY <1>13, <1>14, <1>15, <1>17, <1>18 DEF m, mb
<1> QED BY <1>1, <1>7, <1>9, <1>19, <1>20, <1>21, <1>22 DEF a, rest

-----------------------------------------------------------------------------
(* The shape of the state.                                                 *)

Stages == {"start", "loop", "discover", "eval", "balance", "use", "allowance", "approving",
           "underwrite"}
Sent == [of : Orders, tries : 1..MaxTries, executed : BOOLEAN]

StoreShape ==
    /\ saves \in 0..Len(Saves) /\ (saving => saves < Len(Saves))
    /\ channel \in Seq(Orders) /\ newOrders \in Seq(Orders)
    /\ pc = "start" => channel = <<>>

\* processOrders is through with a queue before it goes on to the next.
StageShape ==
    /\ pc \in Stages
    /\ batch \in Seq(Attempts) /\ passed \in Seq(Orders)
    /\ retryQueue \in [Queues -> Seq(Retries)]
    /\ pc \in {"start", "loop"} => batch = <<>> /\ passed = <<>>
    /\ pc \in {"allowance", "approving"} => batch = <<>>
    /\ pc = "underwrite" => passed = <<>>
    /\ pc \in {"balance", "use"} => batch # <<>>

\* An approval that is awaited is what the allowance counts as set to.
AllowanceShape ==
    /\ allowanceBuffer \in AllowanceBuffers
    /\ required \in Nat \cup {None} /\ setAllowance \in Nat \cup {None}
    /\ approval \in Approvals \cup {None}
    /\ approval # None <=> pc = "approving"
    /\ approval # None => required # None /\ setAllowance = approval.new

BalanceShape == walletBalance \in Nat /\ usesSinceUpdate \in Nat /\ isBalanceLow \in BOOLEAN

WalletShape ==
    /\ pending \subseteq Sent /\ IsFiniteSet(pending)
    /\ completed \subseteq Orders /\ skipped \subseteq Orders /\ rejected \subseteq Orders
    /\ submissions \in [Orders -> Nat]

ChainShape == allowance \in Nat /\ balance \in Nat

Shape ==
    /\ StoreShape /\ StageShape /\ AllowanceShape /\ BalanceShape /\ WalletShape /\ ChainShape

\* A queue is taken up.
LEMMA BeginFacts ==
    ASSUME StageShape, NEW queue \in Queues, NEW orders \in Seq(Orders), Begin(queue, orders)
    PROVE  \E due, rest :
               /\ pc' = queue /\ batch' \in Seq(Attempts)
               /\ rest \in Seq(Retries) /\ retryQueue' = [retryQueue EXCEPT ![queue] = rest]
               /\ OrdersOf(Range(batch')) = due \cup Range(orders)
               /\ OrdersOf(Range(retryQueue[queue])) = due \cup OrdersOf(Range(rest))
               /\ Distinct(Numbers(retryQueue[queue])) =>
                     Distinct(Numbers(rest)) /\ due \cap OrdersOf(Range(rest)) = {}
               /\ /\ Distinct(Numbers(retryQueue[queue])) /\ Distinct(orders)
                  /\ due \cap Range(orders) = {}
                  => Distinct(Numbers(batch'))
<1> DEFINE q == retryQueue[queue]
<1>1. q \in Seq(Retries) BY DEF StageShape
<1>2. PICK j \in 0..Len(q) :
         /\ batch' = TakenUp(q, j, orders)
         /\ retryQueue' = [retryQueue EXCEPT ![queue] = SubSeq(q, j + 1, Len(q))]
         /\ pc' = queue
    BY DEF Begin, TakenUp, StageShape
<1> DEFINE b == TakenUp(q, j, orders)  rest == SubSeq(q, j + 1, Len(q))
           due == OrdersOf(Range(SubSeq(q, 1, j)))
<1> HIDE DEF q
<1>3. /\ b \in Seq(Attempts) /\ rest \in Seq(Retries)
      /\ OrdersOf(Range(q)) = due \cup OrdersOf(Range(rest))
      /\ OrdersOf(Range(b)) = due \cup Range(orders)
      /\ Distinct(Numbers(q)) => Distinct(Numbers(rest)) /\ due \cap OrdersOf(Range(rest)) = {}
      /\ Distinct(Numbers(q)) /\ Distinct(orders) /\ due \cap Range(orders) = {}
            => Distinct(Numbers(b))
    BY <1>1, TakenUpFacts
<1>4. batch' = b /\ retryQueue' = [retryQueue EXCEPT ![queue] = rest] /\ pc' = queue
    BY <1>2
<1> HIDE DEF b, rest, due
<1> QED BY <1>3, <1>4 DEF q

\* The first of the batch is handled.
LEMMA HeadFacts ==
    ASSUME StageShape, batch # <<>>
    PROVE  /\ Order \in Attempts /\ Order.of \in Orders /\ Tail(batch) \in Seq(Attempts)
           /\ OrdersOf(Range(batch)) = {Order.of} \cup OrdersOf(Range(Tail(batch)))
           /\ Distinct(Numbers(batch)) => /\ Distinct(Numbers(Tail(batch)))
                                          /\ Order.of \notin OrdersOf(Range(Tail(batch)))
<1>1. batch \in Seq(Attempts) /\ Attempts \subseteq Records BY RecordFacts DEF StageShape
<1> QED BY <1>1, NumbersOfTail DEF Order

LEMMA RetryFacts ==
    ASSUME StageShape, batch # <<>>, NEW queue \in Queues, RetryIn(queue)
    PROVE  \E more :
               /\ more \in Seq(Retries) /\ retryQueue' = [retryQueue EXCEPT ![queue] = more]
               /\ batch' = Tail(batch) /\ passed' = passed /\ pc' = pc
               /\ OrdersOf(Range(more)) = OrdersOf(Range(retryQueue[queue])) \cup {Order.of}
               /\ /\ Distinct(Numbers(retryQueue[queue]))
                  /\ Order.of \notin OrdersOf(Range(retryQueue[queue]))
                  => Distinct(Numbers(more))
<1> DEFINE q == retryQueue[queue]
<1>1. q \in Seq(Retries) BY DEF StageShape
<1>2. Order \in Retries
  <2>1. Order \in Attempts /\ Order.tries < MaxTries BY HeadFacts DEF RetryIn
  <2> QED BY <2>1, RecordFacts
<1>3. /\ retryQueue' = [retryQueue EXCEPT ![queue] = Append(q, Order)]
      /\ batch' = Tail(batch) /\ passed' = passed /\ pc' = pc
    BY DEF RetryIn, StageShape
<1>4. Retries \subseteq Records BY RecordFacts
<1> HIDE DEF q
<1> DEFINE more == Append(q, Order)
<1>5. /\ more \in Seq(Retries)
      /\ OrdersOf(Range(more)) = OrdersOf(Range(q)) \cup {Order.of}
      /\ Distinct(Numbers(q)) /\ Order.of \notin OrdersOf(Range(q)) => Distinct(Numbers(more))
    BY <1>1, <1>2, <1>4, NumbersOfAppend
<1> HIDE DEF more
<1>6. retryQueue' = [retryQueue EXCEPT ![queue] = more] BY <1>3 DEF more
<1> QED BY <1>3, <1>5, <1>6 DEF q

LEMMA AcceptFacts ==
    ASSUME StageShape, batch # <<>>, Accept
    PROVE  /\ batch' = Tail(batch) /\ retryQueue' = retryQueue
           /\ passed' \in Seq(Orders) /\ Range(passed') = Range(passed) \cup {Order.of}
           /\ Distinct(passed) /\ Order.of \notin Range(passed) => Distinct(passed')
<1>1. passed \in Seq(Orders) /\ Order.of \in Orders BY HeadFacts DEF StageShape
<1>2. passed' = Append(passed, Order.of) /\ batch' = Tail(batch) /\ retryQueue' = retryQueue
    BY DEF Accept
<1> QED BY <1>1, <1>2, AppendFacts

-----------------------------------------------------------------------------
(* Every step keeps the shape.                                             *)

LEMMA InitShape == ASSUME Init PROVE Shape
<1>1. <<>> \in Seq(Orders) /\ <<>> \in Seq(Attempts) /\ <<>> \in Seq(Retries)
    BY EmptyFacts
<1>2. StoreShape BY <1>1, SavesFacts DEF Init, StoreShape
<1>3. StageShape BY <1>1 DEF Init, StageShape, Stages
<1>4. AllowanceShape BY UnderwriterAssumption DEF Init, AllowanceShape
<1>5. BalanceShape BY DEF Init, BalanceShape
<1>6. WalletShape BY FS_EmptySet DEF Init, WalletShape
<1>7. ChainShape BY UnderwriterAssumption DEF Init, ChainShape
<1> QED BY <1>2, <1>3, <1>4, <1>5, <1>6, <1>7 DEF Shape

LEMMA FiniteFacts ==
    /\ IsFiniteSet(Orders)
    /\ \A S : S \subseteq Orders => IsFiniteSet(S) /\ Cardinality(S) \in Nat
<1>1. Orders = 1..Len(Saves) /\ Len(Saves) \in Nat BY SavesFacts
<1>2. IsFiniteSet(Orders) BY <1>1, FS_Interval
<1>3. \A S : S \subseteq Orders => IsFiniteSet(S) /\ Cardinality(S) \in Nat
    BY <1>2, FS_Subset, FS_CardinalityType
<1> QED BY <1>2, <1>3

\* What the orders in the three queues leave of maxPendingTransactions.
LEMMA RoomFacts ==
    ASSUME StageShape, WalletShape
    PROVE  /\ getUnderwriterCapacity \in Nat
           /\ getUnderwriterCapacity > 0 =>
                 getUnderwriterCapacity
                   = MaxPending - Len(retryQueue["discover"]) - Len(retryQueue["eval"])
                       - (Len(retryQueue["underwrite"]) + Cardinality(pending)
                            + Cardinality(completed \cup skipped \cup rejected))
<1> DEFINE d == Len(retryQueue["discover"])  e == Len(retryQueue["eval"])
           u == Len(retryQueue["underwrite"])  p == Cardinality(pending)
           r == Cardinality(completed \cup skipped \cup rejected)
<1>1. d \in Nat /\ e \in Nat /\ u \in Nat
  <2>1. \A queue \in Queues : retryQueue[queue] \in Seq(Retries) BY DEF StageShape
  <2>2. \A queue \in Queues : Len(retryQueue[queue]) \in Nat BY <2>1, QueueFacts
  <2> QED BY <2>2 DEF Queues
<1>2. p \in Nat BY FS_CardinalityType DEF WalletShape
<1>3. r \in Nat
  <2>1. completed \cup skipped \cup rejected \subseteq Orders BY DEF WalletShape
  <2> QED BY <2>1, FiniteFacts
<1>4. MaxPending \in Nat BY UnderwriterAssumption
<1>5. getUnderwriterCapacity = NotNegative(MaxPending - d - e - (u + p + r))
    BY DEF getUnderwriterCapacity, underwriteSize
<1> HIDE DEF d, e, u, p, r
<1>6. MaxPending - d - e - (u + p + r) \in Int BY <1>1, <1>2, <1>3, <1>4
<1>7. /\ getUnderwriterCapacity \in Nat
      /\ getUnderwriterCapacity > 0 => getUnderwriterCapacity = MaxPending - d - e - (u + p + r)
    BY <1>5, <1>6 DEF NotNegative
<1> QED BY <1>7 DEF d, e, u, p, r

LEMMA StoreNext ==
    ASSUME StoreShape, StageShape, WalletShape, [Next]_vars, pc' = "start" => pc = "start"
    PROVE  StoreShape'
<1>1. Len(Saves) \in Nat /\ Orders = 1..Len(Saves) BY SavesFacts
<1>2. CASE UNCHANGED <<saves, saving, channel, newOrders>>
    BY <1>2 DEF StoreShape
<1>3. CASE GetSwapState
  <2>1. saves < Len(Saves) BY <1>3, <1>1 DEF GetSwapState, StoreShape
  <2> QED BY <1>3, <2>1 DEF GetSwapState, StoreShape
<1>4. CASE SetSwapState
  <2>1. /\ saving /\ ~saving' /\ saves' = saves + 1
        /\ channel' = IF pc # "start" THEN Append(channel, saves + 1) ELSE channel
        /\ newOrders' = newOrders /\ pc' = pc
      BY <1>4 DEF SetSwapState, WriteSwap, arrivalFrame, queueVars
  <2>2. saves + 1 \in 0..Len(Saves) /\ saves + 1 \in Orders
      BY <2>1, <1>1 DEF StoreShape
  <2>3. channel' \in Seq(Orders)
    <3>1. Append(channel, saves + 1) \in Seq(Orders) BY <2>2, AppendFacts DEF StoreShape
    <3> QED BY <3>1, <2>1 DEF StoreShape
  <2> QED BY <2>1, <2>2, <2>3 DEF StoreShape
<1>5. CASE AddUnderwriteOrder
  <2>1. /\ channel # <<>> /\ channel' = Tail(channel) /\ newOrders' = Append(newOrders, Head(channel))
        /\ saves' = saves /\ saving' = saving /\ pc' = pc
      BY <1>5 DEF AddUnderwriteOrder, arrivalFrame, queueVars
  <2>2. Head(channel) \in Orders /\ Tail(channel) \in Seq(Orders)
      BY <2>1, TailFacts DEF StoreShape
  <2>3. newOrders' \in Seq(Orders) BY <2>1, <2>2, AppendFacts DEF StoreShape
  <2> QED BY <2>1, <2>2, <2>3 DEF StoreShape
<1>6. CASE ProcessNewOrdersQueue
  <2> DEFINE k == IF Len(newOrders) < getUnderwriterCapacity THEN Len(newOrders)
                  ELSE getUnderwriterCapacity
  <2>1. /\ newOrders' = SubSeq(newOrders, k + 1, Len(newOrders))
        /\ saves' = saves /\ saving' = saving /\ channel' = channel
      BY <1>6 DEF ProcessNewOrdersQueue
  <2>2. newOrders' \in Seq(Orders)
    <3>1. newOrders \in Seq(Orders) /\ Len(newOrders) \in Nat BY QueueFacts DEF StoreShape
    <3>2. k \in Int /\ k <= Len(newOrders) /\ k >= 0 BY <1>6, <3>1, RoomFacts
    <3> HIDE DEF k
    <3>3. k \in 0..Len(newOrders) BY <3>1, <3>2
    <3> QED BY <2>1, <3>1, <3>3, SplitFacts
  <2> QED BY <2>1, <2>2 DEF StoreShape
<1>7. CASE ~(UNCHANGED <<saves, saving, channel, newOrders>>)
  <2>1. StoreStep \/ ProcessNewOrdersQueue
    BY <1>7 DEF Next, vars, storeVars, Start, evalFrame, DiscoverOrder, DiscoverDone, EvalStep,
       EvaluateAndSkip, EvaluationFails, Evaluate, HasEnoughBalance, RegisterBalanceUse,
       AllowanceStep, ProcessNewAllowances, QueryAllowance, NothingToApprove, SetAllowance,
       ExecuteApproval, ApprovalSettled, allowanceFrame, UnderwriteOrder, underwriteFrame,
       HandleFinished, Finish, Transactions, ExecuteUnderwrite, UnderwriteConfirmed,
       UnderwriteFails, ReportedFailed, Refund
  <2> QED BY <2>1, <1>3, <1>4, <1>5, <1>6, <1>7 DEF StoreStep, SaveAdditionalSwapData
<1> QED BY <1>2, <1>7

LEMMA StageBegin ==
    ASSUME StageShape, NEW queue \in Queues, NEW orders \in Seq(Orders), Begin(queue, orders),
           passed' \in Seq(Orders), queue = "underwrite" => passed' = <<>>
    PROVE  StageShape'
<1>1. PICK rest : /\ pc' = queue /\ batch' \in Seq(Attempts) /\ rest \in Seq(Retries)
                  /\ retryQueue' = [retryQueue EXCEPT ![queue] = rest]
    BY BeginFacts
<1>2. retryQueue' \in [Queues -> Seq(Retries)] BY <1>1 DEF StageShape
<1> QED BY <1>1, <1>2 DEF StageShape, Stages, Queues

LEMMA StageDrop ==
    ASSUME StageShape, batch # <<>>, pc \in Queues, Drop
    PROVE  StageShape'
  BY HeadFacts DEF Drop, StageShape, Queues

LEMMA StageRetry ==
    ASSUME StageShape, batch # <<>>, pc \in Queues, NEW queue \in Queues, RetryIn(queue)
    PROVE  StageShape'
<1>1. PICK more : /\ more \in Seq(Retries) /\ retryQueue' = [retryQueue EXCEPT ![queue] = more]
                  /\ batch' = Tail(batch) /\ passed' = passed /\ pc' = pc
    BY RetryFacts
<1>2. retryQueue' \in [Queues -> Seq(Retries)] BY <1>1 DEF StageShape
<1> QED BY <1>1, <1>2, HeadFacts DEF StageShape, Queues

LEMMA StageFail ==
    ASSUME StageShape, batch # <<>>, pc \in Queues, Fail(pc)
    PROVE  StageShape'
<1>1. RetryIn(pc) \/ Drop BY DEF Fail
<1> QED BY <1>1, StageRetry, StageDrop

LEMMA StageAccept ==
    ASSUME StageShape, batch # <<>>, Accept, pc' \in {"discover", "eval"}
    PROVE  StageShape'
  BY AcceptFacts, HeadFacts DEF StageShape, Stages

LEMMA StageNext ==
    ASSUME StoreShape, StageShape, WalletShape, [Next]_vars
    PROVE  StageShape'
<1>0. <<>> \in Seq(Orders) BY EmptyFacts
<1>1. CASE UNCHANGED queueVars
    BY <1>1 DEF queueVars, stageVars, StageShape
<1>3. CASE ProcessNewOrdersQueue
  <2> DEFINE k == IF Len(newOrders) < getUnderwriterCapacity THEN Len(newOrders)
                  ELSE getUnderwriterCapacity
  <2>1. Begin("discover", SubSeq(newOrders, 1, k)) /\ passed' = passed
      BY <1>3 DEF ProcessNewOrdersQueue
  <2>2. SubSeq(newOrders, 1, k) \in Seq(Orders)
    <3>1. newOrders \in Seq(Orders) /\ Len(newOrders) \in Nat BY QueueFacts DEF StoreShape
    <3>2. k \in Int /\ k <= Len(newOrders) /\ k >= 0 BY <3>1, RoomFacts
    <3> HIDE DEF k
    <3>3. k \in 0..Len(newOrders) BY <3>1, <3>2
    <3> QED BY <3>1, <3>3, SplitFacts
  <2> HIDE DEF k
  <2> QED BY <2>1, <2>2, StageBegin DEF Queues, StageShape
<1>4. CASE DiscoverOrder
  <2>1. pc = "discover" /\ batch # <<>> BY <1>4 DEF DiscoverOrder
  <2>2. Drop \/ Fail("discover") \/ (Accept /\ pc' = pc)
      BY <1>4 DEF DiscoverOrder, VaultInvalid, VaultQueryFails, AssetQueryFails, Discovered
  <2> QED BY <2>1, <2>2, StageDrop, StageFail, StageAccept DEF Queues
<1>5. CASE DiscoverDone
    BY <1>0, <1>5, StageBegin DEF DiscoverDone, Queues, StageShape
<1>6. CASE EvalStep
  <2>1. CASE EvaluateAndSkip
      BY <2>1, StageDrop DEF EvaluateAndSkip, Queues
  <2>2. CASE EvaluationFails
      BY <2>2, StageFail DEF EvaluationFails, Queues
  <2>3. CASE HasEnoughBalance
    <3>1. pc = "balance" /\ batch # <<>> BY <2>3 DEF HasEnoughBalance, StageShape
    <3>2. CASE pc' = "use" /\ UNCHANGED stageVars
        BY <3>1, <3>2 DEF stageVars, StageShape, Stages
    <3>3. CASE pc' = "eval" /\ batch' = Tail(batch) /\ UNCHANGED <<passed, retryQueue>>
        BY <3>1, <3>3, HeadFacts DEF StageShape, Stages
    <3> QED BY <2>3, <3>2, <3>3 DEF HasEnoughBalance
  <2>4. CASE RegisterBalanceUse
    <3>1. pc' = "eval" /\ Accept /\ batch # <<>>
        BY <2>4 DEF RegisterBalanceUse, StageShape
    <3> QED BY <3>1, StageAccept
  <2>5. CASE Evaluate
      BY <2>5 DEF Evaluate, stageVars, StageShape, Stages
  <2> QED BY <1>6, <2>1, <2>2, <2>3, <2>4, <2>5 DEF EvalStep
<1>7. CASE BeginUnderwrites
    BY <1>0, <1>7, StageBegin DEF BeginUnderwrites, Queues, StageShape
<1>8. CASE UnderwriteOrder
  <2>1. pc = "underwrite" /\ batch # <<>> /\ (RetryIn("underwrite") \/ Drop)
      BY <1>8 DEF UnderwriteOrder, EstimateFails, TooMuchGas, SubmitUnderwrite
  <2> QED BY <2>1, StageDrop, StageRetry DEF Queues
<1>9. CASE Start
    BY <1>9 DEF Start, stageVars, StageShape, Stages
<1>10. CASE ProcessNewAllowances
    BY <1>10 DEF ProcessNewAllowances, stageVars, StageShape, Stages
<1>11. CASE SetAllowance
    BY <1>11 DEF SetAllowance, stageVars, StageShape, Stages
<1>12. CASE HandleFinished
    BY <1>12 DEF HandleFinished, Finish, stageVars, StageShape, Stages
<1>13. CASE StoreStep
    BY <1>1, <1>13 DEF StoreStep, GetSwapState, SetSwapState, WriteSwap, AddUnderwriteOrder,
       SaveAdditionalSwapData, arrivalFrame
<1>14. CASE QueryAllowance \/ NothingToApprove \/ ExecuteApproval \/ ApprovalSettled
    BY <1>1, <1>7, <1>14 DEF QueryAllowance, NothingToApprove, ExecuteApproval, ApprovalSettled
<1>15. CASE Transactions
    BY <1>1, <1>15 DEF Transactions, ExecuteUnderwrite, UnderwriteConfirmed, UnderwriteFails, Refund
<1>16. CASE UNCHANGED vars
    BY <1>1, <1>16 DEF vars
<1> QED BY <1>3, <1>4, <1>5, <1>6, <1>8, <1>9, <1>10, <1>11, <1>12, <1>13, <1>14, <1>15, <1>16
    DEF Next, AllowanceStep

LEMMA PcNext ==
    ASSUME [Next]_vars
    PROVE  /\ pc' = "start" => pc = "start"
           /\ pc' = "approving" => pc = "approving" \/ SetAllowance
           /\ pc = "approving" => pc' = "approving" \/ ApprovalSettled
  BY DEF Next, vars, queueVars, StoreStep, GetSwapState, SetSwapState, WriteSwap, arrivalFrame,
     AddUnderwriteOrder, SaveAdditionalSwapData, Start, ProcessNewOrdersQueue, Begin, DiscoverOrder,
     VaultInvalid, VaultQueryFails, AssetQueryFails, Discovered, Drop, Accept, Fail, RetryIn,
     DiscoverDone, EvalStep, EvaluateAndSkip, EvaluationFails, Evaluate, HasEnoughBalance,
     RegisterBalanceUse, AllowanceStep, ProcessNewAllowances, QueryAllowance, NothingToApprove,
     BeginUnderwrites, SetAllowance, ExecuteApproval, ApprovalSettled, UnderwriteOrder,
     EstimateFails, TooMuchGas, SubmitUnderwrite, HandleFinished, Finish, Transactions,
     ExecuteUnderwrite, UnderwriteConfirmed, UnderwriteFails, Refund

LEMMA TotalIsNatural == \A A : Total(A) \in Nat
  BY TotalGrows

LEMMA ApprovalFacts ==
    /\ None \notin Nat /\ None \notin Approvals /\ MaxUint \in Nat
    /\ \A a \in Approvals : a.old \in Nat /\ a.new \in Nat /\ a.executed \in BOOLEAN
    /\ \A a \in Approvals : [a EXCEPT !.executed = TRUE] \in Approvals
    /\ \A a \in Approvals : [a EXCEPT !.executed = TRUE].new = a.new
    /\ \A b \in AllowanceBuffers : b = None \/ b \in Nat
  BY UnderwriterAssumption DEF Approvals

LEMMA AllowanceNext ==
    ASSUME AllowanceShape, ChainShape, [Next]_vars
    PROVE  AllowanceShape'
<1>0. \A A : Total(A) \in Nat BY TotalIsNatural
<1>1. CASE UNCHANGED allowanceVars /\ ~(pc = "approving") /\ ~(pc' = "approving")
    BY <1>1 DEF allowanceVars, AllowanceShape
<1>2. CASE UNCHANGED allowanceVars /\ pc' = pc
    BY <1>2 DEF allowanceVars, AllowanceShape
<1>3. CASE ProcessNewAllowances
  <2>1. required' \in Nat \cup {None}
      BY <1>0, <1>3 DEF ProcessNewAllowances, RequiredAllowance, AllowanceShape
  <2> QED BY <1>3, <2>1 DEF ProcessNewAllowances, allowanceFrame, AllowanceShape
<1>4. CASE QueryAllowance
  <2>1. pc = "allowance" /\ pc' # "approving" /\ approval' = approval /\ required' = required
        /\ allowanceBuffer' = allowanceBuffer
        /\ (setAllowance' = allowance \/ setAllowance' = setAllowance)
      BY <1>4 DEF QueryAllowance, allowanceFrame, queueVars, BeginUnderwrites, Begin
  <2> QED BY <2>1 DEF AllowanceShape, ChainShape
<1>5. CASE NothingToApprove
    BY <1>5 DEF NothingToApprove, allowanceFrame, BeginUnderwrites, Begin, AllowanceShape
<1>6. CASE SetAllowance
  <2>1. /\ required' = required /\ allowanceBuffer' = allowanceBuffer /\ pc' = "approving"
        /\ setAllowance' = NewAllowance
        /\ approval' = [old |-> setAllowance, new |-> NewAllowance, executed |-> FALSE]
        /\ required # None /\ setAllowance # None
      BY <1>6 DEF SetAllowance, allowanceFrame
  <2>2. required \in Nat /\ setAllowance \in Nat BY <2>1 DEF AllowanceShape
  <2>3. NewAllowance \in Nat
      BY <2>1, <2>2, ApprovalFacts DEF NewAllowance, AllowanceShape
  <2>4. approval' \in Approvals /\ approval'.new = NewAllowance
      BY <2>1, <2>2, <2>3 DEF Approvals
  <2> QED BY <2>1, <2>2, <2>3, <2>4, ApprovalFacts DEF AllowanceShape
<1>7. CASE ExecuteApproval
  <2>1. /\ required' = required /\ allowanceBuffer' = allowanceBuffer /\ pc' = pc
        /\ setAllowance' = setAllowance /\ approval' = [approval EXCEPT !.executed = TRUE]
        /\ pc = "approving"
      BY <1>7 DEF ExecuteApproval, allowanceFrame, queueVars
  <2>2. approval \in Approvals /\ approval # None BY <2>1 DEF AllowanceShape
  <2>3. approval' \in Approvals /\ approval'.new = approval.new
      BY <2>1, <2>2, ApprovalFacts
  <2>4. approval' # None BY <2>3, ApprovalFacts
  <2> QED BY <2>1, <2>2, <2>3, <2>4 DEF AllowanceShape
<1>8. CASE ApprovalSettled
  <2>1. /\ required' = required /\ allowanceBuffer' = allowanceBuffer /\ pc' = "underwrite"
        /\ approval' = None /\ pc = "approving"
        /\ (setAllowance' = setAllowance
              \/ setAllowance' = NotNegative(setAllowance - (approval.new - approval.old)))
      BY <1>8 DEF ApprovalSettled, allowanceFrame, BeginUnderwrites, Begin, RollBack
  <2>2. approval \in Approvals /\ setAllowance \in Nat
    <3>1. approval \in Approvals /\ setAllowance = approval.new BY <2>1 DEF AllowanceShape
    <3> QED BY <3>1, ApprovalFacts
  <2>3. approval.old \in Nat /\ approval.new \in Nat BY <2>2, ApprovalFacts
  <2>4. NotNegative(setAllowance - (approval.new - approval.old)) \in Nat
      BY <2>2, <2>3 DEF NotNegative
  <2> QED BY <2>1, <2>2, <2>4 DEF AllowanceShape
<1>9. CASE HandleFinished
  <2>1. /\ allowanceBuffer' = allowanceBuffer /\ pc = "underwrite" /\ pc' = "loop"
        /\ approval' = approval
        /\ required' = IF required = None THEN None
                       ELSE NotNegative(required - Total(completed \cup (skipped \cup rejected)))
        /\ setAllowance' = IF completed = {} THEN setAllowance
                           ELSE IF setAllowance = None THEN 0
                           ELSE NotNegative(setAllowance - Total(completed))
      BY <1>9 DEF HandleFinished, Finish, underwriteFrame
  <2>2. required' \in Nat \cup {None}
      BY <1>0, <2>1 DEF NotNegative, AllowanceShape
  <2>3. setAllowance' \in Nat \cup {None}
      BY <1>0, <2>1 DEF NotNegative, AllowanceShape
  <2> QED BY <2>1, <2>2, <2>3 DEF AllowanceShape
<1>10. ASSUME UNCHANGED allowanceVars, pc' = pc \/ (pc # "approving" /\ pc' # "approving")
       PROVE  AllowanceShape'
    BY <1>10 DEF allowanceVars, AllowanceShape
<1>11. CASE StoreStep
    BY <1>10, <1>11 DEF StoreStep, GetSwapState, SetSwapState, WriteSwap, AddUnderwriteOrder,
       SaveAdditionalSwapData, arrivalFrame, queueVars, allowanceVars
<1>12. CASE EvalStep
  <2>1. UNCHANGED allowanceVars
      BY <1>12 DEF EvalStep, EvaluateAndSkip, EvaluationFails, Evaluate, HasEnoughBalance,
         RegisterBalanceUse, evalFrame, allowanceVars
  <2>2. pc \in {"eval", "balance", "use"} /\ pc' \in {"eval", "balance", "use"}
      BY <1>12 DEF EvalStep, EvaluateAndSkip, EvaluationFails, Evaluate, HasEnoughBalance,
         RegisterBalanceUse, Drop, Fail, RetryIn
  <2> QED BY <1>10, <2>1, <2>2
<1>13. CASE ProcessNewOrdersQueue \/ DiscoverDone \/ Start
    BY <1>10, <1>13 DEF ProcessNewOrdersQueue, DiscoverDone, Begin, Start, evalFrame, discoverFrame,
       allowanceVars
<1>14. CASE DiscoverOrder
  <2>1. UNCHANGED allowanceVars
      BY <1>14 DEF DiscoverOrder, discoverFrame, allowanceVars
  <2>2. pc' = pc
      BY <1>14 DEF DiscoverOrder, VaultInvalid, VaultQueryFails, AssetQueryFails, Discovered, Drop,
         Fail, RetryIn
  <2> QED BY <1>10, <2>1, <2>2
<1>15. CASE UnderwriteOrder
    BY <1>10, <1>15 DEF UnderwriteOrder, EstimateFails, TooMuchGas, SubmitUnderwrite, Drop, RetryIn,
       underwriteFrame, allowanceVars
<1>16. CASE Transactions
    BY <1>10, <1>16 DEF Transactions, ExecuteUnderwrite, UnderwriteConfirmed,
       UnderwriteFails, ReportedFailed, Refund, underwriteFrame, queueVars, allowanceVars
<1>17. CASE UNCHANGED vars
    BY <1>10, <1>17 DEF vars, queueVars
<1> QED BY <1>3, <1>4, <1>5, <1>6, <1>7, <1>8, <1>9, <1>11, <1>12, <1>13, <1>14, <1>15, <1>16, <1>17
    DEF Next, AllowanceStep

LEMMA BalanceNext ==
    ASSUME StageShape, BalanceShape, ChainShape, [Next]_vars
    PROVE  BalanceShape'
<1>1. CASE UNCHANGED balanceVars
    BY <1>1 DEF balanceVars, BalanceShape
<1>2. LowBalance \in Nat BY UnderwriterAssumption
<1>3. CASE UpdateWalletBalance
  <2>1. walletBalance' = balance /\ usesSinceUpdate' = 0 /\ isBalanceLow' = (balance < LowBalance)
      BY <1>3 DEF UpdateWalletBalance
  <2>2. isBalanceLow' \in BOOLEAN BY <2>1
  <2> QED BY <2>1, <2>2 DEF BalanceShape, ChainShape
<1>4. CASE Start
  <2>1. walletBalance' = balance /\ usesSinceUpdate' = usesSinceUpdate
        /\ isBalanceLow' = (balance < LowBalance)
      BY <1>4 DEF Start
  <2>2. isBalanceLow' \in BOOLEAN BY <2>1
  <2> QED BY <2>1, <2>2 DEF BalanceShape, ChainShape
<1>5. CASE RegisterBalanceUse
  <2>1. \/ UpdateWalletBalance
        \/ /\ walletBalance' = NotNegative(walletBalance - AmountOf(Order.of))
           /\ usesSinceUpdate' = usesSinceUpdate + 1 /\ isBalanceLow' = isBalanceLow
      BY <1>5 DEF RegisterBalanceUse
  <2>2. Order.of \in Orders BY <1>5, HeadFacts DEF RegisterBalanceUse, StageShape
  <2>3. AmountOf(Order.of) \in Nat BY <2>2, SavesFacts
  <2>4. NotNegative(walletBalance - AmountOf(Order.of)) \in Nat
      BY <2>3 DEF NotNegative, BalanceShape
  <2> QED BY <2>1, <2>4, <1>3 DEF BalanceShape
<1>6. CASE HasEnoughBalance
    BY <1>1, <1>3, <1>6 DEF HasEnoughBalance
<1>7. CASE ~(UpdateWalletBalance \/ Start \/ RegisterBalanceUse \/ HasEnoughBalance)
    BY <1>1, <1>7 DEF Next, vars, StoreStep, GetSwapState, SetSwapState, WriteSwap, arrivalFrame,
       AddUnderwriteOrder, SaveAdditionalSwapData, ProcessNewOrdersQueue, DiscoverOrder,
       DiscoverDone, discoverFrame, EvalStep, EvaluateAndSkip, EvaluationFails, Evaluate,
       AllowanceStep, ProcessNewAllowances, QueryAllowance, NothingToApprove, SetAllowance,
       ExecuteApproval, ApprovalSettled, allowanceFrame, UnderwriteOrder, underwriteFrame,
       HandleFinished, Finish, Transactions, ExecuteUnderwrite, UnderwriteConfirmed,
       UnderwriteFails, ReportedFailed, Refund
<1> QED BY <1>3, <1>4, <1>5, <1>6, <1>7

LEMMA WalletNext ==
    ASSUME StageShape, WalletShape, [Next]_vars
    PROVE  WalletShape'
<1>0. \A p \in Sent : /\ p.of \in Orders /\ p.tries \in 1..MaxTries /\ p.executed \in BOOLEAN
                      /\ [p EXCEPT !.executed = TRUE] \in Sent
    BY DEF Sent
<1>1. CASE UNCHANGED walletVars
    BY <1>1 DEF walletVars, resultVars, WalletShape
<1>2. CASE UnderwriteOrder
  <2>1. Order \in Attempts /\ Order.of \in Orders BY <1>2, HeadFacts DEF UnderwriteOrder
  <2>2. CASE EstimateFails \/ TooMuchGas
      BY <2>1, <2>2 DEF EstimateFails, TooMuchGas, WalletShape
  <2>3. CASE SubmitUnderwrite
    <3> DEFINE p == [of |-> Order.of, tries |-> Order.tries, executed |-> FALSE]
    <3>1. p \in Sent BY <2>1, RecordFacts DEF Sent
    <3> HIDE DEF p
    <3>2. /\ submissions' = [submissions EXCEPT ![Order.of] = @ + 1]
          /\ pending' = pending \cup {p} /\ UNCHANGED resultVars
        BY <2>3 DEF SubmitUnderwrite, p
    <3>3. submissions' \in [Orders -> Nat] BY <2>1, <3>2 DEF WalletShape
    <3>4. IsFiniteSet(pending') BY <3>2, FS_AddElement DEF WalletShape
    <3> QED BY <3>1, <3>2, <3>3, <3>4 DEF WalletShape, resultVars
  <2> QED BY <1>2, <2>2, <2>3 DEF UnderwriteOrder
<1>3. ASSUME NEW p \in pending, pending' = pending \ {p}
      PROVE  pending' \subseteq Sent /\ IsFiniteSet(pending') /\ p.of \in Orders
    BY <1>0, <1>3, FS_RemoveElement DEF WalletShape
<1>4. CASE \E p \in pending : ExecuteUnderwrite(p)
  <2>1. PICK p \in pending : ExecuteUnderwrite(p) BY <1>4
  <2> DEFINE e == [p EXCEPT !.executed = TRUE]
  <2>2. /\ pending' = (pending \ {p}) \cup {e} /\ UNCHANGED resultVars
        /\ submissions' = submissions
      BY <2>1 DEF ExecuteUnderwrite
  <2>3. e \in Sent BY <1>0 DEF WalletShape
  <2> HIDE DEF e
  <2>4. IsFiniteSet(pending \ {p}) BY FS_RemoveElement DEF WalletShape
  <2>5. IsFiniteSet(pending') BY <2>2, <2>4, FS_AddElement
  <2> QED BY <2>2, <2>3, <2>5 DEF WalletShape, resultVars
<1>5. CASE \E p \in pending : UnderwriteConfirmed(p)
  <2>1. PICK p \in pending : UnderwriteConfirmed(p) BY <1>5
  <2>2. /\ pending' = pending \ {p} /\ completed' = completed \cup {p.of}
        /\ UNCHANGED <<skipped, rejected, submissions>>
      BY <2>1 DEF UnderwriteConfirmed
  <2> QED BY <2>2, <1>3 DEF WalletShape
<1>6. CASE \E p \in pending : UnderwriteFails(p)
  <2>1. PICK p \in pending : UnderwriteFails(p) BY <1>6
  <2>2. /\ pending' = pending \ {p} /\ UNCHANGED <<completed, submissions>>
        /\ skipped' = skipped \cup {p.of} \/ skipped' = skipped
        /\ rejected' = rejected \cup {p.of} \/ rejected' = rejected
      BY <2>1 DEF UnderwriteFails, ReportedFailed
  <2> QED BY <2>2, <1>3 DEF WalletShape
<1>7. CASE HandleFinished
    BY <1>7 DEF HandleFinished, Finish, WalletShape
<1>8. CASE \E s \in Swaps : Refund(s)
    BY <1>1, <1>8 DEF Refund
<1>9. CASE ~(UnderwriteOrder \/ Transactions \/ HandleFinished)
    BY <1>1, <1>9 DEF Next, vars, StoreStep, GetSwapState, SetSwapState, WriteSwap, arrivalFrame,
       AddUnderwriteOrder, SaveAdditionalSwapData, ProcessNewOrdersQueue, DiscoverOrder,
       DiscoverDone, discoverFrame, Start, EvalStep, EvaluateAndSkip, EvaluationFails, Evaluate,
       HasEnoughBalance, RegisterBalanceUse, evalFrame,
       AllowanceStep, ProcessNewAllowances, QueryAllowance, NothingToApprove, SetAllowance,
       ExecuteApproval, ApprovalSettled, allowanceFrame
<1> QED BY <1>2, <1>4, <1>5, <1>6, <1>7, <1>8, <1>9 DEF Transactions

LEMMA ChainNext ==
    ASSUME ChainShape, WalletShape, AllowanceShape, [Next]_vars
    PROVE  ChainShape'
<1>1. CASE UNCHANGED <<allowance, balance>>
    BY <1>1 DEF ChainShape
<1>2. CASE ExecuteApproval
  <2>1. approval \in Approvals /\ allowance' = approval.new /\ balance' = balance
      BY <1>2 DEF ExecuteApproval, allowanceFrame, AllowanceShape
  <2> QED BY <2>1, ApprovalFacts DEF ChainShape
<1>3. CASE \E p \in pending : ExecuteUnderwrite(p)
  <2>1. PICK p \in pending : ExecuteUnderwrite(p) BY <1>3
  <2>2. p.of \in Orders BY DEF WalletShape, Sent
  <2>3. /\ allowance >= Cost[SwapOf(p.of)] /\ balance >= Cost[SwapOf(p.of)]
        /\ allowance' = allowance - Cost[SwapOf(p.of)] /\ balance' = balance - Cost[SwapOf(p.of)]
      BY <2>1 DEF ExecuteUnderwrite, Executable
  <2>4. Cost[SwapOf(p.of)] \in Nat BY <2>2, SavesFacts
  <2> QED BY <2>3, <2>4 DEF ChainShape
<1>4. CASE \E s \in Swaps : Refund(s)
  <2>1. PICK s \in Swaps : Refund(s) BY <1>4
  <2>2. Cost[s] \in Nat BY UnderwriterAssumption
  <2> QED BY <2>1, <2>2 DEF Refund, ChainShape
<1>5. CASE ~(ExecuteApproval \/ (\E p \in pending : ExecuteUnderwrite(p)) \/ \E s \in Swaps : Refund(s))
    BY <1>1, <1>5 DEF Next, vars, chainVars, StoreStep, GetSwapState, SetSwapState, WriteSwap,
       arrivalFrame, AddUnderwriteOrder, SaveAdditionalSwapData, ProcessNewOrdersQueue,
       DiscoverOrder, DiscoverDone, discoverFrame, Start, EvalStep, EvaluateAndSkip,
       EvaluationFails, Evaluate, HasEnoughBalance, RegisterBalanceUse, evalFrame,
       AllowanceStep, ProcessNewAllowances, QueryAllowance, NothingToApprove, SetAllowance,
       ApprovalSettled, allowanceFrame, UnderwriteOrder, underwriteFrame, HandleFinished, Finish,
       Transactions, UnderwriteConfirmed, UnderwriteFails, ReportedFailed
<1> QED BY <1>2, <1>3, <1>4, <1>5

LEMMA NextShape == ASSUME Shape, [Next]_vars PROVE Shape'
  BY StoreNext, StageNext, AllowanceNext, BalanceNext, WalletNext, ChainNext, PcNext DEF Shape

\* Type correctness: what the store, the stages, the approval handler, the balance, the wallet
\* and the chain keep has its form, and lies where the stage the worker is in allows it.
THEOREM ShapeInvariant == Spec => []Shape
<1>1. Init => Shape BY InitShape
<1>2. Shape /\ [Next]_vars => Shape' BY NextShape
<1> QED BY <1>1, <1>2, PTL DEF Spec

-----------------------------------------------------------------------------
(* An order is refused for want of tokens only when they are wanting.      *)

LEMMA RefusedStep ==
    ASSUME Shape, [Next]_vars, pc = "balance", pc' = "eval"
    PROVE  balance < AmountOf(Order.of)
<1>1. HasEnoughBalance
  BY DEF Next, vars, queueVars, StoreStep, GetSwapState, SetSwapState, WriteSwap, arrivalFrame,
     AddUnderwriteOrder, SaveAdditionalSwapData, Start, ProcessNewOrdersQueue, DiscoverOrder,
     DiscoverDone, EvalStep, EvaluateAndSkip, EvaluationFails, Evaluate,
     RegisterBalanceUse, AllowanceStep, ProcessNewAllowances, QueryAllowance, NothingToApprove,
     SetAllowance, ExecuteApproval, ApprovalSettled, UnderwriteOrder,
     HandleFinished, Finish, Transactions,
     ExecuteUnderwrite, UnderwriteConfirmed, UnderwriteFails, Refund
<1>2. walletBalance' < AmountOf(Order.of)
    BY <1>1 DEF HasEnoughBalance
<1>3. walletBalance \in Nat /\ balance \in Nat /\ AmountOf(Order.of) \in Nat
  <2>1. Order.of \in Orders BY HeadFacts DEF Shape, StageShape
  <2> QED BY <2>1, SavesFacts DEF Shape, BalanceShape, ChainShape
<1>4. CASE UpdateWalletBalance
    BY <1>2, <1>4 DEF UpdateWalletBalance
<1>5. CASE ~MustUpdate(AmountOf(Order.of)) /\ UNCHANGED balanceVars
  <2>1. ~(walletBalance < AmountOf(Order.of)) /\ walletBalance' = walletBalance
      BY <1>5 DEF MustUpdate, balanceVars
  <2> QED BY <1>2, <1>3, <2>1
<1> QED BY <1>1, <1>4, <1>5 DEF HasEnoughBalance

\* When an order leaves the eval queue for its balance, the account holds less than it needs:
\* between two readings walletBalance only goes down by what was used, and one that is too
\* small is read again.
THEOREM RefusalsAreFounded == Spec => RefusedOnlyIfPoor
<1>1. Shape /\ [Next]_vars => (pc = "balance" /\ pc' = "eval" => balance < AmountOf(Order.of))
    BY RefusedStep
<1> QED BY <1>1, ShapeInvariant, PTL DEF Spec, RefusedOnlyIfPoor

-----------------------------------------------------------------------------
(* An order is in one place at a time.                                     *)

Places == 1..11
Where == <<Range(channel), Range(newOrders), Waiting("discover"), Waiting("eval"),
           Waiting("underwrite"), OrdersOf(Range(batch)), Range(passed), OrdersOf(pending),
           completed, skipped, rejected>>

LEMMA WhereFacts ==
    /\ Where[1] = Range(channel) /\ Where[2] = Range(newOrders)
    /\ Where[3] = OrdersOf(Range(retryQueue["discover"]))
    /\ Where[4] = OrdersOf(Range(retryQueue["eval"]))
    /\ Where[5] = OrdersOf(Range(retryQueue["underwrite"]))
    /\ Where[6] = OrdersOf(Range(batch)) /\ Where[7] = Range(passed)
    /\ Where[8] = OrdersOf(pending)
    /\ Where[9] = completed /\ Where[10] = skipped /\ Where[11] = rejected
  BY DEF Where, Waiting

\* Orders M leave the places S, and come to d (or are let go of, for d = 0).
Goes(new, old, leaves, comes, M) ==
    new \subseteq IF comes THEN old \cup M ELSE IF leaves THEN old \ M ELSE old

StoreGoes(S, d, M) ==
    /\ Goes(Range(channel'), Range(channel), 1 \in S, d = 1, M)
    /\ Goes(Range(newOrders'), Range(newOrders), 2 \in S, d = 2, M)
QueueGoes(S, d, M) ==
    /\ Goes(OrdersOf(Range(retryQueue'["discover"])), OrdersOf(Range(retryQueue["discover"])),
            3 \in S, d = 3, M)
    /\ Goes(OrdersOf(Range(retryQueue'["eval"])), OrdersOf(Range(retryQueue["eval"])),
            4 \in S, d = 4, M)
    /\ Goes(OrdersOf(Range(retryQueue'["underwrite"])), OrdersOf(Range(retryQueue["underwrite"])),
            5 \in S, d = 5, M)
    /\ Goes(OrdersOf(Range(batch')), OrdersOf(Range(batch)), 6 \in S, d = 6, M)
    /\ Goes(Range(passed'), Range(passed), 7 \in S, d = 7, M)
WalletGoes(S, d, M) ==
    /\ Goes(OrdersOf(pending'), OrdersOf(pending), 8 \in S, d = 8, M)
    /\ Goes(completed', completed, 9 \in S, d = 9, M)
    /\ Goes(skipped', skipped, 10 \in S, d = 10, M)
    /\ Goes(rejected', rejected, 11 \in S, d = 11, M)

\* The ways an order may go.
Lawful(S, d) ==
    /\ S \subseteq Places /\ d \in 0..11 /\ d \notin S
    /\ d = 1 => S = {}
    /\ d = 2 => S = {1}
    /\ d \in 3..7 => S \subseteq 2..7
    /\ d \in 8..11 => S \subseteq 6..8
Comes(S, d, M) ==
    \/ M = {}
    \/ d = 1 /\ M = {saves + 1} /\ saves' = saves + 1
    \/ M \subseteq UNION {Where[p] : p \in S}

Moved(S, d, M) ==
    /\ Lawful(S, d) /\ Comes(S, d, M)
    /\ \A p \in Places : Goes(Where'[p], Where[p], p \in S, d = p, M)

LEMMA MovedIntro ==
    ASSUME NEW S, NEW d, NEW M, Lawful(S, d), Comes(S, d, M),
           StoreGoes(S, d, M), QueueGoes(S, d, M), WalletGoes(S, d, M)
    PROVE  Moved(S, d, M)
<1>1. /\ Where'[1] = Range(channel') /\ Where'[2] = Range(newOrders')
      /\ Where'[3] = OrdersOf(Range(retryQueue'["discover"]))
      /\ Where'[4] = OrdersOf(Range(retryQueue'["eval"]))
      /\ Where'[5] = OrdersOf(Range(retryQueue'["underwrite"]))
      /\ Where'[6] = OrdersOf(Range(batch')) /\ Where'[7] = Range(passed')
      /\ Where'[8] = OrdersOf(pending')
      /\ Where'[9] = completed' /\ Where'[10] = skipped' /\ Where'[11] = rejected'
  BY DEF Where, Waiting, Range, OrdersOf
<1>2. \A p \in 1..2 : Goes(Where'[p], Where[p], p \in S, d = p, M)
  <2>1. \A p \in 1..2 : p = 1 \/ p = 2 OBVIOUS
  <2> QED BY <2>1, <1>1, WhereFacts DEF StoreGoes
<1>3. \A p \in 3..7 : Goes(Where'[p], Where[p], p \in S, d = p, M)
  <2>1. \A p \in 3..7 : p = 3 \/ p = 4 \/ p = 5 \/ p = 6 \/ p = 7 OBVIOUS
  <2> QED BY <2>1, <1>1, WhereFacts DEF QueueGoes
<1>4. \A p \in 8..11 : Goes(Where'[p], Where[p], p \in S, d = p, M)
  <2>1. \A p \in 8..11 : p = 8 \/ p = 9 \/ p = 10 \/ p = 11 OBVIOUS
  <2> QED BY <2>1, <1>1, WhereFacts DEF WalletGoes
<1>5. \A p \in Places : p \in 1..2 \/ p \in 3..7 \/ p \in 8..11 BY DEF Places
<1> QED BY <1>2, <1>3, <1>4, <1>5 DEF Moved

\* In one place at most, and announced.
Apart ==
    /\ \A p, q \in Places : p # q => Where[p] \cap Where[q] = {}
    /\ \A p \in Places : Where[p] \subseteq 1..saves

LEMMA MovedApart ==
    ASSUME Apart, saves \in Nat, saves' = saves \/ saves' = saves + 1,
           NEW S, NEW d, NEW M, Moved(S, d, M)
    PROVE  Apart'
<1>1. ASSUME NEW p \in Places, p \in S PROVE p # d /\ Where'[p] \subseteq Where[p] \ M
    BY <1>1 DEF Moved, Goes, Lawful
<1>2. ASSUME NEW p \in Places, p # d PROVE Where'[p] \subseteq Where[p]
    BY <1>2 DEF Moved, Goes
<1>3. ASSUME NEW p \in Places PROVE Where'[p] \subseteq Where[p] \cup M
    BY <1>3 DEF Moved, Goes
<1>4. ASSUME NEW p \in Places, p \notin S PROVE M \cap Where[p] = {}
  <2>1. CASE M = {}
      BY <2>1
  <2>2. CASE M = {saves + 1}
    <3>1. Where[p] \subseteq 1..saves BY DEF Apart
    <3>2. saves + 1 \notin 1..saves OBVIOUS
    <3> QED BY <3>1, <3>2, <2>2
  <2>3. CASE M \subseteq UNION {Where[q] : q \in S}
    <3>1. \A q \in S : q \in Places /\ q # p BY <1>4 DEF Moved, Lawful
    <3>2. \A q \in S : Where[q] \cap Where[p] = {} BY <3>1 DEF Apart
    <3> QED BY <3>2, <2>3
  <2> QED BY <2>1, <2>2, <2>3 DEF Moved, Comes
<1>5. M \subseteq 1..saves'
  <2>1. CASE M = {}
      BY <2>1
  <2>2. CASE M = {saves + 1} /\ saves' = saves + 1
    <3>1. saves + 1 \in 1..(saves + 1) OBVIOUS
    <3> QED BY <2>2, <3>1
  <2>3. CASE M \subseteq UNION {Where[q] : q \in S}
    <3>1. \A q \in S : Where[q] \subseteq 1..saves BY DEF Moved, Lawful, Apart
    <3>2. M \subseteq 1..saves BY <2>3, <3>1
    <3> QED BY <3>2
  <2> QED BY <2>1, <2>2, <2>3 DEF Moved, Comes
<1>6. ASSUME NEW p \in Places PROVE Where'[p] \subseteq 1..saves'
  <2>1. Where[p] \subseteq 1..saves BY DEF Apart
  <2>2. Where[p] \subseteq 1..saves' BY <2>1
  <2> QED BY <1>3, <1>5, <2>2
<1>7. ASSUME NEW p \in Places, NEW q \in Places, p # q, q # d
      PROVE  Where'[p] \cap Where'[q] = {}
  <2>1. Where[p] \cap Where[q] = {} BY <1>7 DEF Apart
  <2>2. M \cap Where'[q] = {}
    <3>1. CASE q \in S
        BY <3>1, <1>1
    <3>2. CASE q \notin S
        BY <3>2, <1>2, <1>4, <1>7
    <3> QED BY <3>1, <3>2
  <2>3. Where'[q] \subseteq Where[q] BY <1>2, <1>7
  <2> QED BY <2>1, <2>2, <2>3, <1>3
<1>8. ASSUME NEW p \in Places, NEW q \in Places, p # q
      PROVE  Where'[p] \cap Where'[q] = {}
  <2>1. p # d \/ q # d BY <1>8
  <2>2. CASE q # d
      BY <2>2, <1>7, <1>8
  <2>3. CASE p # d
    <3>1. Where'[q] \cap Where'[p] = {} BY <2>3, <1>7, <1>8
    <3> QED BY <3>1
  <2> QED BY <2>1, <2>2, <2>3
<1> QED BY <1>6, <1>8 DEF Apart

\* No queue holds an order twice, nor do the transactions.
StoreOnce == Distinct(channel) /\ Distinct(newOrders)
QueueOnce ==
    /\ Distinct(passed) /\ Distinct(Numbers(batch))
    /\ \A queue \in Queues : Distinct(Numbers(retryQueue[queue]))
WalletOnce == \A p, r \in pending : p.of = r.of => p = r

HeldOnce == Apart /\ StoreOnce /\ QueueOnce /\ WalletOnce

OrdersMove ==
    \E S, d, M : /\ Moved(S, d, M) /\ saves' \in {saves, saves + 1}
                 /\ 2 \in S \/ 3 \in S => ProcessNewOrdersQueue

LEMMA ApartFacts ==
    ASSUME Apart
    PROVE  \A p, q \in Places : p # q => Where[p] \cap Where[q] = {}
  BY DEF Apart

LEMMA StayMoves ==
    ASSUME UNCHANGED <<channel, newOrders>>, UNCHANGED stageVars, UNCHANGED pending,
           UNCHANGED resultVars, saves' = saves, HeldOnce
    PROVE  OrdersMove /\ StoreOnce' /\ QueueOnce' /\ WalletOnce'
<1>1. Lawful({}, 0) /\ Comes({}, 0, {}) BY DEF Lawful, Comes
<1>2. StoreGoes({}, 0, {}) BY DEF StoreGoes, Goes
<1>3. QueueGoes({}, 0, {}) BY DEF QueueGoes, Goes, stageVars
<1>4. WalletGoes({}, 0, {}) BY DEF WalletGoes, Goes, resultVars
<1>5. Moved({}, 0, {}) BY <1>1, <1>2, <1>3, <1>4, MovedIntro
<1>6. StoreOnce' /\ QueueOnce' /\ WalletOnce'
    BY DEF HeldOnce, StoreOnce, QueueOnce, WalletOnce, stageVars, Distinct, Numbers
<1> QED BY <1>5, <1>6 DEF OrdersMove

LEMMA AnnounceMoves ==
    ASSUME Shape, HeldOnce, SetSwapState
    PROVE  OrdersMove /\ StoreOnce' /\ QueueOnce' /\ WalletOnce'
<1>1. /\ saves' = saves + 1 /\ newOrders' = newOrders
      /\ channel' = IF pc # "start" THEN Append(channel, saves + 1) ELSE channel
      /\ UNCHANGED stageVars /\ UNCHANGED pending /\ UNCHANGED resultVars /\ saving
    BY DEF SetSwapState, WriteSwap, arrivalFrame, queueVars, walletVars
<1>2. channel \in Seq(Orders) /\ saves + 1 \in Orders /\ saves \in Nat
    BY <1>1, SavesFacts DEF Shape, StoreShape
<1>3. saves + 1 \notin Range(channel)
  <2>1. Range(channel) \subseteq 1..saves
      BY WhereFacts DEF HeldOnce, Apart, Places
  <2> QED BY <1>2, <2>1
<1>4. Range(channel') \subseteq Range(channel) \cup {saves + 1} /\ Distinct(channel')
  <2>1. /\ Range(Append(channel, saves + 1)) = Range(channel) \cup {saves + 1}
        /\ Distinct(Append(channel, saves + 1))
      BY <1>2, <1>3, AppendFacts DEF HeldOnce, StoreOnce
  <2> QED BY <1>1, <2>1 DEF HeldOnce, StoreOnce
<1> DEFINE M == {saves + 1}
<1>5. Lawful({}, 1) /\ Comes({}, 1, M) BY <1>1 DEF Lawful, Comes, Places
<1>6. StoreGoes({}, 1, M) BY <1>1, <1>4 DEF StoreGoes, Goes
<1>7. QueueGoes({}, 1, M) BY <1>1 DEF QueueGoes, Goes, stageVars
<1>8. WalletGoes({}, 1, M) BY <1>1 DEF WalletGoes, Goes, resultVars
<1>9. Moved({}, 1, M) BY <1>5, <1>6, <1>7, <1>8, MovedIntro
<1>10. StoreOnce' BY <1>1, <1>4 DEF HeldOnce, StoreOnce, Distinct
<1>11. QueueOnce' /\ WalletOnce'
    BY <1>1 DEF HeldOnce, QueueOnce, WalletOnce, stageVars, Distinct, Numbers
<1> QED BY <1>1, <1>9, <1>10, <1>11 DEF OrdersMove

LEMMA HearMoves ==
    ASSUME Shape, HeldOnce, AddUnderwriteOrder
    PROVE  OrdersMove /\ StoreOnce' /\ QueueOnce' /\ WalletOnce'
<1>1. /\ saves' = saves /\ channel # <<>>
      /\ channel' = Tail(channel) /\ newOrders' = Append(newOrders, Head(channel))
      /\ UNCHANGED stageVars /\ UNCHANGED pending /\ UNCHANGED resultVars
    BY DEF AddUnderwriteOrder, arrivalFrame, queueVars, walletVars
<1> DEFINE n == Head(channel)
<1>2. channel \in Seq(Orders) /\ newOrders \in Seq(Orders)
    BY DEF Shape, StoreShape
<1>3. /\ n \in Orders /\ Range(channel) = {n} \cup Range(Tail(channel))
      /\ Distinct(Tail(channel)) /\ n \notin Range(Tail(channel))
    BY <1>1, <1>2, TailFacts DEF HeldOnce, StoreOnce
<1>4. n \notin Range(newOrders)
  <2>1. Where[1] \cap Where[2] = {} BY ApartFacts DEF HeldOnce, Places
  <2> QED BY <2>1, <1>3, WhereFacts
<1>5. /\ Range(Append(newOrders, n)) = Range(newOrders) \cup {n}
      /\ Distinct(Append(newOrders, n))
    BY <1>2, <1>3, <1>4, AppendFacts DEF HeldOnce, StoreOnce
<1> DEFINE M == {n}
<1>6. Lawful({1}, 2) BY DEF Lawful, Places
<1>7. Comes({1}, 2, M)
  <2>1. M \subseteq Where[1] BY <1>3, WhereFacts
  <2> QED BY <2>1 DEF Comes
<1>8. StoreGoes({1}, 2, M) BY <1>1, <1>3, <1>5 DEF StoreGoes, Goes
<1>9. QueueGoes({1}, 2, M) BY <1>1 DEF QueueGoes, Goes, stageVars
<1>10. WalletGoes({1}, 2, M) BY <1>1 DEF WalletGoes, Goes, resultVars
<1>11. Moved({1}, 2, M) BY <1>6, <1>7, <1>8, <1>9, <1>10, MovedIntro
<1>12. StoreOnce' BY <1>1, <1>3, <1>5 DEF StoreOnce
<1>13. QueueOnce' /\ WalletOnce'
    BY <1>1 DEF HeldOnce, QueueOnce, WalletOnce, stageVars, Distinct, Numbers
<1> QED BY <1>1, <1>11, <1>12, <1>13 DEF OrdersMove

\* A queue is taken up: what is due, and the orders that come.
LEMMA BeginOnce ==
    ASSUME StageShape, QueueOnce, batch = <<>>, NEW queue \in Queues, NEW orders \in Seq(Orders),
           Begin(queue, orders), Distinct(orders),
           Range(orders) \cap OrdersOf(Range(retryQueue[queue])) = {}
    PROVE  \E M :
              /\ Range(orders) \subseteq M
              /\ M \subseteq OrdersOf(Range(retryQueue[queue])) \cup Range(orders)
              /\ OrdersOf(Range(batch')) = M
              /\ OrdersOf(Range(retryQueue[queue])) \subseteq OrdersOf(Range(retryQueue'[queue])) \cup M
              /\ OrdersOf(Range(retryQueue'[queue])) \subseteq OrdersOf(Range(retryQueue[queue])) \ M
              /\ \A other \in Queues \ {queue} : retryQueue'[other] = retryQueue[other]
              /\ Distinct(Numbers(batch'))
              /\ \A any \in Queues : Distinct(Numbers(retryQueue'[any]))
<1> DEFINE Q == OrdersOf(Range(retryQueue[queue]))
<1>1. PICK due, rest :
         /\ retryQueue' = [retryQueue EXCEPT ![queue] = rest]
         /\ OrdersOf(Range(batch')) = due \cup Range(orders)
         /\ Q = due \cup OrdersOf(Range(rest))
         /\ Distinct(Numbers(retryQueue[queue])) =>
               Distinct(Numbers(rest)) /\ due \cap OrdersOf(Range(rest)) = {}
         /\ /\ Distinct(Numbers(retryQueue[queue])) /\ Distinct(orders)
            /\ due \cap Range(orders) = {}
            => Distinct(Numbers(batch'))
    BY BeginFacts
<1> HIDE DEF Q
<1>2. retryQueue'[queue] = rest /\ \A other \in Queues \ {queue} : retryQueue'[other] = retryQueue[other]
    BY <1>1 DEF StageShape
<1>3. Distinct(Numbers(rest)) /\ due \cap OrdersOf(Range(rest)) = {}
    BY <1>1 DEF QueueOnce
<1>4. Range(orders) \cap Q = {} BY DEF Q
<1>5. due \cap Range(orders) = {} BY <1>1, <1>4
<1>6. Distinct(Numbers(batch')) BY <1>1, <1>5 DEF QueueOnce
<1>7. \A any \in Queues : Distinct(Numbers(retryQueue'[any]))
  <2>1. ASSUME NEW any \in Queues, any # queue PROVE Distinct(Numbers(retryQueue'[any]))
    <3>1. retryQueue'[any] = retryQueue[any] BY <1>2, <2>1
    <3> QED BY <3>1 DEF QueueOnce
  <2>2. Distinct(Numbers(retryQueue'[queue])) BY <1>2, <1>3
  <2> QED BY <2>1, <2>2
<1> DEFINE M == due \cup Range(orders)  R == OrdersOf(Range(rest))
<1>8. /\ Range(orders) \subseteq M /\ M \subseteq Q \cup Range(orders) /\ OrdersOf(Range(batch')) = M
      /\ Q \subseteq R \cup M /\ R \subseteq Q \ M
  <2> HIDE DEF R
  <2> QED BY <1>1, <1>3, <1>4 DEF R
<1>9. OrdersOf(Range(retryQueue'[queue])) = R BY <1>2
<1> HIDE DEF M, R
<1> QED BY <1>2, <1>6, <1>7, <1>8, <1>9 DEF Q

LEMMA TakeUpMoves ==
    ASSUME Shape, HeldOnce, ProcessNewOrdersQueue
    PROVE  OrdersMove /\ StoreOnce' /\ QueueOnce' /\ WalletOnce'
<1> DEFINE k == IF Len(newOrders) < getUnderwriterCapacity THEN Len(newOrders)
                ELSE getUnderwriterCapacity
           a == SubSeq(newOrders, 1, k)
           b == SubSeq(newOrders, k + 1, Len(newOrders))
<1>1. /\ pc = "loop" /\ Begin("discover", a) /\ newOrders' = b /\ passed' = passed
      /\ saves' = saves /\ channel' = channel /\ UNCHANGED pending /\ UNCHANGED resultVars
    BY DEF ProcessNewOrdersQueue, discoverFrame, walletVars
<1>2. newOrders \in Seq(Orders) /\ Len(newOrders) \in Nat /\ k \in 0..Len(newOrders)
  <2>1. newOrders \in Seq(Orders) /\ Len(newOrders) \in Nat BY QueueFacts DEF Shape, StoreShape
  <2>2. k \in Int /\ k <= Len(newOrders) /\ k >= 0 BY <2>1, RoomFacts DEF Shape
  <2> HIDE DEF k
  <2> QED BY <2>1, <2>2
<1> HIDE DEF k
<1>3. /\ a \in Seq(Orders) /\ Range(newOrders) = Range(a) \cup Range(b)
      /\ Distinct(a) /\ Distinct(b) /\ Range(a) \cap Range(b) = {}
    BY <1>2, SplitFacts DEF HeldOnce, StoreOnce
<1> HIDE DEF a, b
<1>4. Where[2] \cap Where[3] = {} BY ApartFacts DEF HeldOnce, Places
<1>5. Range(a) \cap OrdersOf(Range(retryQueue["discover"])) = {}
    BY <1>3, <1>4, WhereFacts
<1>6. StageShape /\ QueueOnce /\ batch = <<>> /\ "discover" \in Queues
    BY <1>1 DEF Shape, StageShape, HeldOnce, Queues
<1>7. PICK M :
         /\ Range(a) \subseteq M
         /\ M \subseteq OrdersOf(Range(retryQueue["discover"])) \cup Range(a)
         /\ OrdersOf(Range(batch')) = M
         /\ OrdersOf(Range(retryQueue'["discover"])) \subseteq OrdersOf(Range(retryQueue["discover"])) \ M
         /\ \A other \in Queues \ {"discover"} : retryQueue'[other] = retryQueue[other]
         /\ Distinct(Numbers(batch'))
         /\ \A any \in Queues : Distinct(Numbers(retryQueue'[any]))
    BY <1>1, <1>3, <1>5, <1>6, BeginOnce
<1>8. Lawful({2, 3}, 6) BY DEF Lawful, Places
<1>9. Comes({2, 3}, 6, M)
  <2>1. M \subseteq Where[2] \cup Where[3] BY <1>3, <1>7, WhereFacts
  <2> QED BY <2>1 DEF Comes
<1>10. StoreGoes({2, 3}, 6, M)
  <2>1. Range(newOrders') \cap M = {}
    <3>1. Range(b) \cap OrdersOf(Range(retryQueue["discover"])) = {}
        BY <1>3, <1>4, WhereFacts
    <3> QED BY <3>1, <1>1, <1>3, <1>7
  <2> QED BY <2>1, <1>1, <1>3 DEF StoreGoes, Goes
<1>11. QueueGoes({2, 3}, 6, M)
  <2>1. retryQueue'["eval"] = retryQueue["eval"] /\ retryQueue'["underwrite"] = retryQueue["underwrite"]
      BY <1>7 DEF Queues
  <2> QED BY <2>1, <1>1, <1>7 DEF QueueGoes, Goes
<1>12. WalletGoes({2, 3}, 6, M) BY <1>1 DEF WalletGoes, Goes, resultVars
<1>13. Moved({2, 3}, 6, M) BY <1>8, <1>9, <1>10, <1>11, <1>12, MovedIntro
<1>14. StoreOnce' BY <1>1, <1>3 DEF HeldOnce, StoreOnce
<1>15. QueueOnce' BY <1>1, <1>7 DEF HeldOnce, QueueOnce, Distinct
<1>16. WalletOnce' BY <1>1 DEF HeldOnce, WalletOnce
<1> QED BY <1>1, <1>13, <1>14, <1>15, <1>16 DEF OrdersMove

\* The next queue takes up what the one before has passed on.
LEMMA PassMoves ==
    ASSUME Shape, HeldOnce, batch = <<>>, NEW queue \in {"eval", "underwrite"},
           Begin(queue, passed), passed' = <<>>, saves' = saves,
           UNCHANGED <<channel, newOrders>>, UNCHANGED pending, UNCHANGED resultVars
    PROVE  OrdersMove /\ StoreOnce' /\ QueueOnce' /\ WalletOnce'
<1> DEFINE s == IF queue = "eval" THEN 4 ELSE 5
<1>1. Where[s] = OrdersOf(Range(retryQueue[queue])) /\ Where[7] = Range(passed)
    BY WhereFacts
<1>2. Where[s] \cap Where[7] = {} BY ApartFacts DEF HeldOnce, Places
<1>3. StageShape /\ QueueOnce /\ queue \in Queues /\ passed \in Seq(Orders) /\ Distinct(passed)
    BY DEF Shape, StageShape, HeldOnce, QueueOnce, Queues
<1>4. Range(passed) \cap OrdersOf(Range(retryQueue[queue])) = {} BY <1>1, <1>2
<1>5. PICK M :
         /\ M \subseteq OrdersOf(Range(retryQueue[queue])) \cup Range(passed)
         /\ OrdersOf(Range(batch')) = M
         /\ OrdersOf(Range(retryQueue'[queue])) \subseteq OrdersOf(Range(retryQueue[queue])) \ M
         /\ \A other \in Queues \ {queue} : retryQueue'[other] = retryQueue[other]
         /\ Distinct(Numbers(batch'))
         /\ \A any \in Queues : Distinct(Numbers(retryQueue'[any]))
    BY <1>3, <1>4, BeginOnce
<1>6. Lawful({s, 7}, 6) BY DEF Lawful, Places
<1>7. Comes({s, 7}, 6, M)
  <2>1. M \subseteq Where[s] \cup Where[7] BY <1>1, <1>5
  <2> HIDE DEF s
  <2> QED BY <2>1 DEF Comes
<1>8. StoreGoes({s, 7}, 6, M) BY DEF StoreGoes, Goes
<1>9. Range(passed') = {} BY EmptyFacts
<1>10. QueueGoes({s, 7}, 6, M)
  <2>1. CASE queue = "eval"
    <3>1. /\ retryQueue'["discover"] = retryQueue["discover"]
          /\ retryQueue'["underwrite"] = retryQueue["underwrite"]
        BY <2>1, <1>5 DEF Queues
    <3> QED BY <2>1, <3>1, <1>5, <1>9 DEF QueueGoes, Goes
  <2>2. CASE queue = "underwrite"
    <3>1. /\ retryQueue'["discover"] = retryQueue["discover"]
          /\ retryQueue'["eval"] = retryQueue["eval"]
        BY <2>2, <1>5 DEF Queues
    <3> QED BY <2>2, <3>1, <1>5, <1>9 DEF QueueGoes, Goes
  <2> QED BY <2>1, <2>2
<1>11. WalletGoes({s, 7}, 6, M) BY DEF WalletGoes, Goes, resultVars
<1>12. Moved({s, 7}, 6, M) BY <1>6, <1>7, <1>8, <1>10, <1>11, MovedIntro
<1>13. StoreOnce' /\ WalletOnce' BY DEF HeldOnce, StoreOnce, WalletOnce
<1>14. Distinct(passed') BY EmptyFacts
<1>15. QueueOnce' BY <1>5, <1>14 DEF QueueOnce
<1>16. 2 \notin {s, 7} /\ 3 \notin {s, 7} OBVIOUS
<1> QED BY <1>12, <1>13, <1>15, <1>16 DEF OrdersMove

LEMMA DropGoes ==
    ASSUME StageShape, HeldOnce, batch # <<>>, batch' = Tail(batch), UNCHANGED <<passed, retryQueue>>,
           NEW d \in {0} \cup 8..11
    PROVE  QueueGoes({6}, d, {Order.of}) /\ QueueOnce' /\ Order.of \in Where[6]
<1>1. /\ OrdersOf(Range(batch)) = {Order.of} \cup OrdersOf(Range(Tail(batch)))
      /\ Distinct(Numbers(Tail(batch))) /\ Order.of \notin OrdersOf(Range(Tail(batch)))
    BY HeadFacts DEF HeldOnce, QueueOnce
<1>2. QueueGoes({6}, d, {Order.of}) BY <1>1 DEF QueueGoes, Goes
<1>3. QueueOnce' BY <1>1 DEF HeldOnce, QueueOnce
<1> QED BY <1>1, <1>2, <1>3, WhereFacts

LEMMA RetryGoes ==
    ASSUME StageShape, HeldOnce, batch # <<>>, NEW queue \in Queues, RetryIn(queue)
    PROVE  LET d == CASE queue = "discover" -> 3 [] queue = "eval" -> 4 [] queue = "underwrite" -> 5
           IN  QueueGoes({6}, d, {Order.of}) /\ QueueOnce' /\ Order.of \in Where[6] /\ d \in 3..5
<1> DEFINE d == CASE queue = "discover" -> 3 [] queue = "eval" -> 4 [] queue = "underwrite" -> 5
<1>0. d \in 3..5 /\ d # 6 BY DEF Queues
<1>1. /\ OrdersOf(Range(batch)) = {Order.of} \cup OrdersOf(Range(Tail(batch)))
      /\ Distinct(Numbers(Tail(batch))) /\ Order.of \notin OrdersOf(Range(Tail(batch)))
    BY HeadFacts DEF HeldOnce, QueueOnce
<1>2. Where[6] \cap Where[d] = {}
  <2> HIDE DEF d
  <2>1. 6 \in Places /\ d \in Places BY <1>0 DEF Places
  <2> QED BY <2>1, <1>0, ApartFacts DEF HeldOnce
<1>3. Where[d] = OrdersOf(Range(retryQueue[queue])) BY WhereFacts DEF Queues
<1>4. Order.of \in Where[6] BY <1>1, WhereFacts
<1>5. PICK more :
         /\ more \in Seq(Retries) /\ retryQueue' = [retryQueue EXCEPT ![queue] = more]
         /\ batch' = Tail(batch) /\ passed' = passed
         /\ OrdersOf(Range(more)) = OrdersOf(Range(retryQueue[queue])) \cup {Order.of}
         /\ /\ Distinct(Numbers(retryQueue[queue]))
            /\ Order.of \notin OrdersOf(Range(retryQueue[queue]))
            => Distinct(Numbers(more))
    BY RetryFacts
<1>6. Distinct(Numbers(more)) BY <1>2, <1>3, <1>4, <1>5 DEF HeldOnce, QueueOnce
<1>7. retryQueue'[queue] = more /\ \A other \in Queues \ {queue} : retryQueue'[other] = retryQueue[other]
    BY <1>5 DEF StageShape
<1>8. QueueGoes({6}, d, {Order.of})
  <2>1. CASE queue = "discover"
    <3>1. retryQueue'["eval"] = retryQueue["eval"] /\ retryQueue'["underwrite"] = retryQueue["underwrite"]
        BY <2>1, <1>7 DEF Queues
    <3> QED BY <2>1, <3>1, <1>1, <1>5, <1>7 DEF QueueGoes, Goes
  <2>2. CASE queue = "eval"
    <3>1. retryQueue'["discover"] = retryQueue["discover"] /\ retryQueue'["underwrite"] = retryQueue["underwrite"]
        BY <2>2, <1>7 DEF Queues
    <3> QED BY <2>2, <3>1, <1>1, <1>5, <1>7 DEF QueueGoes, Goes
  <2>3. CASE queue = "underwrite"
    <3>1. retryQueue'["discover"] = retryQueue["discover"] /\ retryQueue'["eval"] = retryQueue["eval"]
        BY <2>3, <1>7 DEF Queues
    <3> QED BY <2>3, <3>1, <1>1, <1>5, <1>7 DEF QueueGoes, Goes
  <2> QED BY <2>1, <2>2, <2>3 DEF Queues
<1>9. QueueOnce'
  <2>1. ASSUME NEW any \in Queues PROVE Distinct(Numbers(retryQueue'[any]))
    <3>1. CASE any = queue
        BY <3>1, <1>6, <1>7
    <3>2. CASE any # queue
      <4>1. retryQueue'[any] = retryQueue[any] BY <3>2, <1>7
      <4> QED BY <4>1 DEF HeldOnce, QueueOnce
    <3> QED BY <3>1, <3>2
  <2>2. Distinct(Numbers(batch')) BY <1>1, <1>5
  <2>3. Distinct(passed') BY <1>5 DEF HeldOnce, QueueOnce
  <2> QED BY <2>1, <2>2, <2>3 DEF QueueOnce
<1> QED BY <1>0, <1>4, <1>8, <1>9

LEMMA AcceptGoes ==
    ASSUME StageShape, HeldOnce, batch # <<>>, Accept
    PROVE  QueueGoes({6}, 7, {Order.of}) /\ QueueOnce' /\ Order.of \in Where[6]
<1>1. /\ OrdersOf(Range(batch)) = {Order.of} \cup OrdersOf(Range(Tail(batch)))
      /\ Distinct(Numbers(Tail(batch))) /\ Order.of \notin OrdersOf(Range(Tail(batch)))
    BY HeadFacts DEF HeldOnce, QueueOnce
<1>2. Where[6] \cap Where[7] = {} BY ApartFacts DEF HeldOnce, Places
<1>3. Order.of \in Where[6] BY <1>1, WhereFacts
<1>4. /\ batch' = Tail(batch) /\ retryQueue' = retryQueue
      /\ Range(passed') = Range(passed) \cup {Order.of}
      /\ Distinct(passed) /\ Order.of \notin Range(passed) => Distinct(passed')
    BY AcceptFacts
<1>5. Distinct(passed') BY <1>2, <1>3, <1>4, WhereFacts DEF HeldOnce, QueueOnce
<1>6. QueueGoes({6}, 7, {Order.of}) BY <1>1, <1>4 DEF QueueGoes, Goes
<1>7. QueueOnce' BY <1>1, <1>4, <1>5 DEF HeldOnce, QueueOnce
<1> QED BY <1>3, <1>6, <1>7

\* The first order of a batch goes, and not to the wallet.
LEMMA HeadMoves ==
    ASSUME Shape, HeldOnce, batch # <<>>, saves' = saves, UNCHANGED <<channel, newOrders>>,
           UNCHANGED pending, UNCHANGED resultVars,
           \/ batch' = Tail(batch) /\ UNCHANGED <<passed, retryQueue>>
           \/ \E queue \in Queues : RetryIn(queue)
           \/ Accept
    PROVE  OrdersMove /\ StoreOnce' /\ QueueOnce' /\ WalletOnce'
<1> DEFINE n == Order.of
<1>0. StageShape BY DEF Shape
<1>1. PICK d \in {0, 3, 4, 5, 7} : QueueGoes({6}, d, {n}) /\ QueueOnce' /\ n \in Where[6]
  <2>1. CASE batch' = Tail(batch) /\ UNCHANGED <<passed, retryQueue>>
    <3>1. QueueGoes({6}, 0, {n}) /\ QueueOnce' /\ n \in Where[6] BY <1>0, <2>1, DropGoes
    <3> HIDE DEF n
    <3> QED BY <3>1
  <2>2. CASE \E queue \in Queues : RetryIn(queue)
    <3>1. PICK queue \in Queues : RetryIn(queue) BY <2>2
    <3> DEFINE e == CASE queue = "discover" -> 3 [] queue = "eval" -> 4 [] queue = "underwrite" -> 5
    <3>2. QueueGoes({6}, e, {n}) /\ QueueOnce' /\ n \in Where[6] /\ e \in 3..5
        BY <1>0, <3>1, RetryGoes
    <3> HIDE DEF n, e
    <3>3. e \in {0, 3, 4, 5, 7} BY <3>2
    <3> QED BY <3>2, <3>3
  <2>3. CASE Accept
    <3>1. QueueGoes({6}, 7, {n}) /\ QueueOnce' /\ n \in Where[6] BY <1>0, <2>3, AcceptGoes
    <3> HIDE DEF n
    <3> QED BY <3>1
  <2> QED BY <2>1, <2>2, <2>3
<1> HIDE DEF n
<1>2. Lawful({6}, d) BY DEF Lawful, Places
<1>3. Comes({6}, d, {n}) BY <1>1 DEF Comes
<1>4. StoreGoes({6}, d, {n}) BY DEF StoreGoes, Goes
<1>5. WalletGoes({6}, d, {n}) BY DEF WalletGoes, Goes, resultVars
<1>6. Moved({6}, d, {n}) BY <1>1, <1>2, <1>3, <1>4, <1>5, MovedIntro
<1>7. StoreOnce' /\ WalletOnce' BY DEF HeldOnce, StoreOnce, WalletOnce
<1> QED BY <1>1, <1>6, <1>7 DEF OrdersMove

LEMMA UnderwriteMoves ==
    ASSUME Shape, HeldOnce, UnderwriteOrder
    PROVE  OrdersMove /\ StoreOnce' /\ QueueOnce' /\ WalletOnce'
<1> DEFINE n == Order.of
<1>1. /\ StageShape /\ batch # <<>> /\ saves' = saves /\ UNCHANGED <<channel, newOrders>>
    BY DEF Shape, UnderwriteOrder, underwriteFrame, storeVars
<1>2. CASE EstimateFails /\ RetryIn("underwrite") /\ UNCHANGED rejected
  <2>1. UNCHANGED pending /\ UNCHANGED resultVars BY <1>2 DEF EstimateFails, resultVars
  <2> QED BY <1>1, <1>2, <2>1, HeadMoves DEF Queues
<1>3. ASSUME NEW d \in {8, 10, 11}, Drop, WalletGoes({6}, d, {n}), WalletOnce'
      PROVE  OrdersMove /\ StoreOnce' /\ QueueOnce' /\ WalletOnce'
  <2>1. d \in {0} \cup 8..11 OBVIOUS
  <2>2. QueueGoes({6}, d, {n}) /\ QueueOnce' /\ n \in Where[6]
      BY <1>1, <1>3, <2>1, DropGoes DEF Drop
  <2> HIDE DEF n
  <2>3. Lawful({6}, d) BY DEF Lawful, Places
  <2>4. Comes({6}, d, {n}) BY <2>2 DEF Comes
  <2>5. StoreGoes({6}, d, {n}) BY <1>1 DEF StoreGoes, Goes
  <2>6. Moved({6}, d, {n}) BY <1>3, <2>2, <2>3, <2>4, <2>5, MovedIntro
  <2>7. StoreOnce' BY <1>1 DEF HeldOnce, StoreOnce
  <2> QED BY <1>1, <1>3, <2>2, <2>6, <2>7 DEF OrdersMove
<1>4. CASE Drop /\ rejected' = rejected \cup {n} /\ UNCHANGED <<pending, completed, skipped>>
  <2>1. WalletGoes({6}, 11, {n}) /\ WalletOnce'
    <3> HIDE DEF n
    <3> QED BY <1>4 DEF WalletGoes, Goes, HeldOnce, WalletOnce
  <2> QED BY <1>3, <1>4, <2>1
<1>5. CASE Drop /\ skipped' = skipped \cup {n} /\ UNCHANGED <<pending, completed, rejected>>
  <2>1. WalletGoes({6}, 10, {n}) /\ WalletOnce'
    <3> HIDE DEF n
    <3> QED BY <1>5 DEF WalletGoes, Goes, HeldOnce, WalletOnce
  <2> QED BY <1>3, <1>5, <2>1
<1>6. CASE SubmitUnderwrite
  <2> DEFINE p == [of |-> n, tries |-> Order.tries, executed |-> FALSE]
  <2>1. pending' = pending \cup {p} /\ UNCHANGED resultVars /\ Drop
      BY <1>6 DEF SubmitUnderwrite
  <2>2. p.of = n OBVIOUS
  <2>3. n \in Where[6]
      BY <1>1, HeadFacts, WhereFacts
  <2>4. n \notin OrdersOf(pending)
    <3>1. Where[6] \cap Where[8] = {} BY ApartFacts DEF HeldOnce, Places
    <3> QED BY <3>1, <2>3, WhereFacts
  <2> HIDE DEF p, n
  <2>5. OrdersOf(pending') = OrdersOf(pending) \cup {n}
      BY <2>1, <2>2 DEF OrdersOf
  <2>6. \A r \in pending : r.of # n BY <2>4 DEF OrdersOf
  <2>7. WalletOnce' BY <2>1, <2>2, <2>6 DEF HeldOnce, WalletOnce
  <2>8. WalletGoes({6}, 8, {n}) BY <2>1, <2>5 DEF WalletGoes, Goes, resultVars
  <2> QED BY <1>3, <2>1, <2>7, <2>8
<1> QED BY <1>2, <1>4, <1>5, <1>6 DEF UnderwriteOrder, EstimateFails, TooMuchGas

LEMMA SettleMoves ==
    ASSUME Shape, HeldOnce, NEW p \in pending, pending' = pending \ {p},
           saves' = saves, UNCHANGED <<channel, newOrders>>, UNCHANGED stageVars,
           \/ completed' = completed \cup {p.of} /\ UNCHANGED <<skipped, rejected>>
           \/ skipped' = skipped \cup {p.of} /\ UNCHANGED <<completed, rejected>>
           \/ rejected' = rejected \cup {p.of} /\ UNCHANGED <<completed, skipped>>
    PROVE  OrdersMove /\ StoreOnce' /\ QueueOnce' /\ WalletOnce'
<1> DEFINE n == p.of
<1>1. n \in OrdersOf(pending) /\ n \notin OrdersOf(pending')
    BY DEF OrdersOf, HeldOnce, WalletOnce
<1>2. OrdersOf(pending') \subseteq OrdersOf(pending) \ {n} BY <1>1 DEF OrdersOf
<1> HIDE DEF n
<1>3. PICK d \in {9, 10, 11} : WalletGoes({8}, d, {n})
  <2>1. CASE completed' = completed \cup {p.of} /\ UNCHANGED <<skipped, rejected>>
    <3>1. WalletGoes({8}, 9, {n}) BY <1>2, <2>1 DEF WalletGoes, Goes, n
    <3> QED BY <3>1
  <2>2. CASE skipped' = skipped \cup {p.of} /\ UNCHANGED <<completed, rejected>>
    <3>1. WalletGoes({8}, 10, {n}) BY <1>2, <2>2 DEF WalletGoes, Goes, n
    <3> QED BY <3>1
  <2>3. CASE rejected' = rejected \cup {p.of} /\ UNCHANGED <<completed, skipped>>
    <3>1. WalletGoes({8}, 11, {n}) BY <1>2, <2>3 DEF WalletGoes, Goes, n
    <3> QED BY <3>1
  <2> QED BY <2>1, <2>2, <2>3
<1>4. Lawful({8}, d) BY DEF Lawful, Places
<1>5. Comes({8}, d, {n}) BY <1>1, WhereFacts DEF Comes
<1>6. StoreGoes({8}, d, {n}) BY DEF StoreGoes, Goes
<1>7. QueueGoes({8}, d, {n}) BY DEF QueueGoes, Goes, stageVars
<1>8. Moved({8}, d, {n}) BY <1>3, <1>4, <1>5, <1>6, <1>7, MovedIntro
<1>9. StoreOnce' /\ QueueOnce' /\ WalletOnce'
    BY DEF HeldOnce, StoreOnce, QueueOnce, WalletOnce, stageVars
<1> QED BY <1>8, <1>9 DEF OrdersMove

LEMMA TransactionMoves ==
    ASSUME Shape, HeldOnce, Transactions
    PROVE  OrdersMove /\ StoreOnce' /\ QueueOnce' /\ WalletOnce'
<1>1. saves' = saves /\ UNCHANGED <<channel, newOrders>> /\ UNCHANGED stageVars
    BY DEF Transactions, ExecuteUnderwrite, UnderwriteConfirmed, UnderwriteFails, ReportedFailed,
       Refund, underwriteFrame, storeVars, queueVars
<1>2. CASE \E p \in pending : ExecuteUnderwrite(p)
  <2>1. PICK p \in pending : ExecuteUnderwrite(p) BY <1>2
  <2> DEFINE e == [p EXCEPT !.executed = TRUE]
  <2>2. pending' = (pending \ {p}) \cup {e} /\ UNCHANGED resultVars
      BY <2>1 DEF ExecuteUnderwrite
  <2>3. e.of = p.of BY DEF Shape, WalletShape, Sent
  <2> HIDE DEF e
  <2>4. OrdersOf(pending') = OrdersOf(pending) BY <2>2, <2>3 DEF OrdersOf
  <2>5. WalletOnce' BY <2>2, <2>3 DEF HeldOnce, WalletOnce
  <2>6. Lawful({}, 0) /\ Comes({}, 0, {}) BY DEF Lawful, Comes
  <2>7. StoreGoes({}, 0, {}) BY <1>1 DEF StoreGoes, Goes
  <2>8. QueueGoes({}, 0, {}) BY <1>1 DEF QueueGoes, Goes, stageVars
  <2>9. WalletGoes({}, 0, {}) BY <2>2, <2>4 DEF WalletGoes, Goes, resultVars
  <2>10. Moved({}, 0, {}) BY <2>6, <2>7, <2>8, <2>9, MovedIntro
  <2>11. StoreOnce' /\ QueueOnce'
      BY <1>1 DEF HeldOnce, StoreOnce, QueueOnce, stageVars
  <2> QED BY <1>1, <2>5, <2>10, <2>11 DEF OrdersMove
<1>3. CASE \E p \in pending : UnderwriteConfirmed(p)
  <2>1. PICK p \in pending : UnderwriteConfirmed(p) BY <1>3
  <2> QED BY <1>1, <2>1, SettleMoves DEF UnderwriteConfirmed
<1>4. CASE \E p \in pending : UnderwriteFails(p)
  <2>1. PICK p \in pending : UnderwriteFails(p) BY <1>4
  <2> QED BY <1>1, <2>1, SettleMoves DEF UnderwriteFails, ReportedFailed
<1>5. CASE \E s \in Swaps : Refund(s)
    BY <1>1, <1>5, StayMoves DEF Refund, walletVars
<1> QED BY <1>2, <1>3, <1>4, <1>5 DEF Transactions

LEMMA FinishMoves ==
    ASSUME Shape, HeldOnce, HandleFinished
    PROVE  OrdersMove /\ StoreOnce' /\ QueueOnce' /\ WalletOnce'
<1>1. /\ saves' = saves /\ UNCHANGED <<channel, newOrders>> /\ UNCHANGED stageVars
      /\ UNCHANGED pending /\ completed' = {} /\ skipped' = {} /\ rejected' = {}
    BY DEF HandleFinished, Finish, underwriteFrame, storeVars
<1>2. Lawful({}, 0) /\ Comes({}, 0, {}) BY DEF Lawful, Comes
<1>3. StoreGoes({}, 0, {}) BY <1>1 DEF StoreGoes, Goes
<1>4. QueueGoes({}, 0, {}) BY <1>1 DEF QueueGoes, Goes, stageVars
<1>5. WalletGoes({}, 0, {}) BY <1>1 DEF WalletGoes, Goes
<1>6. Moved({}, 0, {}) BY <1>2, <1>3, <1>4, <1>5, MovedIntro
<1>7. StoreOnce' /\ QueueOnce' /\ WalletOnce'
    BY <1>1 DEF HeldOnce, StoreOnce, QueueOnce, WalletOnce, stageVars
<1> QED BY <1>1, <1>6, <1>7 DEF OrdersMove

LEMMA NextMoves ==
    ASSUME Shape, HeldOnce, [Next]_vars
    PROVE  OrdersMove /\ StoreOnce' /\ QueueOnce' /\ WalletOnce'
<1>1. CASE GetSwapState \/ (\E n \in Orders : SaveAdditionalSwapData(n))
    BY <1>1, StayMoves DEF GetSwapState, SaveAdditionalSwapData, arrivalFrame, queueVars, walletVars
<1>2. CASE Start \/ Evaluate
    BY <1>2, StayMoves DEF Start, Evaluate, evalFrame, storeVars, walletVars
<1>3. CASE DiscoverOrder
  <2>1. /\ batch # <<>> /\ saves' = saves /\ UNCHANGED <<channel, newOrders>>
        /\ UNCHANGED pending /\ UNCHANGED resultVars
      BY <1>3 DEF DiscoverOrder, discoverFrame, walletVars
  <2>2. \/ batch' = Tail(batch) /\ UNCHANGED <<passed, retryQueue>>
        \/ \E queue \in Queues : RetryIn(queue)
        \/ Accept
    <3>1. "discover" \in Queues BY DEF Queues
    <3> QED BY <1>3, <3>1 DEF DiscoverOrder, VaultInvalid, VaultQueryFails, AssetQueryFails,
        Discovered, Drop, Fail
  <2> QED BY <2>1, <2>2, HeadMoves
<1>4. CASE DiscoverDone
    BY <1>4, PassMoves DEF DiscoverDone, storeVars, discoverFrame, walletVars
<1>5. CASE EvaluateAndSkip \/ EvaluationFails \/ RegisterBalanceUse
            \/ (HasEnoughBalance /\ batch' = Tail(batch) /\ UNCHANGED <<passed, retryQueue>>)
  <2>1. /\ batch # <<>> /\ saves' = saves /\ UNCHANGED <<channel, newOrders>>
        /\ UNCHANGED pending /\ UNCHANGED resultVars
      BY <1>5 DEF EvaluateAndSkip, EvaluationFails, HasEnoughBalance, RegisterBalanceUse, evalFrame,
         storeVars, walletVars, Shape, StageShape
  <2>2. \/ batch' = Tail(batch) /\ UNCHANGED <<passed, retryQueue>>
        \/ \E queue \in Queues : RetryIn(queue)
        \/ Accept
    <3>1. "eval" \in Queues BY DEF Queues
    <3> QED BY <1>5, <3>1 DEF EvaluateAndSkip, EvaluationFails, RegisterBalanceUse, Drop, Fail
  <2> QED BY <2>1, <2>2, HeadMoves
<1>6. CASE HasEnoughBalance /\ UNCHANGED stageVars
    BY <1>6, StayMoves DEF HasEnoughBalance, evalFrame, storeVars, walletVars
<1>7. CASE AllowanceStep
  <2>1. saves' = saves /\ UNCHANGED <<channel, newOrders>> /\ UNCHANGED pending /\ UNCHANGED resultVars
      BY <1>7 DEF AllowanceStep, ProcessNewAllowances, QueryAllowance, NothingToApprove,
         SetAllowance, ExecuteApproval, ApprovalSettled, allowanceFrame, storeVars, walletVars
  <2>2. CASE UNCHANGED stageVars
      BY <2>1, <2>2, StayMoves
  <2>3. CASE BeginUnderwrites /\ batch = <<>>
      BY <2>1, <2>3, PassMoves DEF BeginUnderwrites
  <2>4. UNCHANGED stageVars \/ BeginUnderwrites
      BY <1>7 DEF AllowanceStep, ProcessNewAllowances, QueryAllowance, NothingToApprove,
         SetAllowance, ExecuteApproval, ApprovalSettled, queueVars
  <2>5. BeginUnderwrites => pc' = "underwrite" BY DEF BeginUnderwrites, Begin
  <2>6. pc \in {"allowance", "approving"} \/ ProcessNewAllowances
      BY <1>7 DEF AllowanceStep, QueryAllowance, NothingToApprove, SetAllowance, ExecuteApproval,
         ApprovalSettled
  <2>7. ProcessNewAllowances => UNCHANGED stageVars BY DEF ProcessNewAllowances
  <2>8. pc \in {"allowance", "approving"} => batch = <<>> BY DEF Shape, StageShape
  <2> QED BY <2>2, <2>3, <2>4, <2>6, <2>7, <2>8
<1>8. CASE UNCHANGED vars
    BY <1>8, StayMoves DEF vars, storeVars, queueVars, walletVars
<1>9. CASE EvalStep
  <2>1. HasEnoughBalance => UNCHANGED stageVars \/ (batch' = Tail(batch) /\ UNCHANGED <<passed, retryQueue>>)
      BY DEF HasEnoughBalance
  <2> QED BY <1>9, <2>1, <1>2, <1>5, <1>6 DEF EvalStep
<1> QED BY <1>1, <1>2, <1>3, <1>4, <1>7, <1>8, <1>9, AnnounceMoves, HearMoves, TakeUpMoves,
    UnderwriteMoves, TransactionMoves, FinishMoves DEF Next, StoreStep

LEMMA InitHeld == ASSUME Init PROVE HeldOnce
<1>1. /\ channel = <<>> /\ newOrders = <<>> /\ batch = <<>> /\ passed = <<>>
      /\ retryQueue["discover"] = <<>> /\ retryQueue["eval"] = <<>> /\ retryQueue["underwrite"] = <<>>
      /\ pending = {} /\ completed = {} /\ skipped = {} /\ rejected = {}
    BY DEF Init, Queues
<1>2. /\ Where[1] = {} /\ Where[2] = {} /\ Where[3] = {} /\ Where[4] = {} /\ Where[5] = {}
      /\ Where[6] = {} /\ Where[7] = {} /\ Where[8] = {} /\ Where[9] = {} /\ Where[10] = {}
      /\ Where[11] = {}
    BY <1>1, WhereFacts, EmptyFacts DEF OrdersOf
<1>3. \A p \in Places : Where[p] = {}
  <2>1. \A p \in Places : \/ p = 1 \/ p = 2 \/ p = 3 \/ p = 4 \/ p = 5 \/ p = 6 \/ p = 7 \/ p = 8
                          \/ p = 9 \/ p = 10 \/ p = 11
      BY DEF Places
  <2> QED BY <2>1, <1>2
<1>4. Apart BY <1>3 DEF Apart
<1>5. StoreOnce BY <1>1, EmptyFacts DEF StoreOnce
<1>6. QueueOnce BY <1>1, EmptyFacts, NumbersOfNone DEF QueueOnce, Queues
<1>7. WalletOnce BY <1>1 DEF WalletOnce
<1> QED BY <1>4, <1>5, <1>6, <1>7 DEF HeldOnce

LEMMA NextHeld == ASSUME Shape, HeldOnce, [Next]_vars PROVE HeldOnce'
<1>1. OrdersMove /\ StoreOnce' /\ QueueOnce' /\ WalletOnce' BY NextMoves
<1>2. saves \in Nat BY SavesFacts DEF Shape, StoreShape
<1>3. Apart' BY <1>1, <1>2, MovedApart DEF OrdersMove, HeldOnce
<1> QED BY <1>1, <1>3 DEF HeldOnce

\* An order announced so far is in at most one place of the pipeline, and there once: in no two
\* queues, nor twice in one, nor awaited and retried at a time.
THEOREM HeldInvariant == Spec => [](Shape /\ HeldOnce)
<1>1. Init => Shape /\ HeldOnce BY InitShape, InitHeld
<1>2. (Shape /\ HeldOnce) /\ [Next]_vars => (Shape /\ HeldOnce)' BY NextShape, NextHeld
<1> QED BY <1>1, <1>2, PTL DEF Spec

-----------------------------------------------------------------------------
(* An order goes to the wallet once.                                       *)

\* One that went there is announced, and not on its way there again.
Once ==
    \A n \in Orders :
        /\ submissions[n] <= 1
        /\ submissions[n] = 1 => n <= saves /\ \A p \in 1..7 : n \notin Where[p]

LEMMA SubmitsFromBatch ==
    ASSUME WalletShape, [Next]_vars
    PROVE  \/ submissions' = submissions
           \/ UnderwriteOrder /\ SubmitUnderwrite
<1>1. CASE UnderwriteOrder
    BY <1>1 DEF UnderwriteOrder, EstimateFails, TooMuchGas
<1>2. CASE ~UnderwriteOrder
    BY <1>2 DEF Next, vars, walletVars, StoreStep, GetSwapState, SetSwapState, WriteSwap,
       arrivalFrame, AddUnderwriteOrder, SaveAdditionalSwapData, ProcessNewOrdersQueue,
       DiscoverOrder, DiscoverDone, discoverFrame, Start, EvalStep, EvaluateAndSkip,
       EvaluationFails, Evaluate, HasEnoughBalance, RegisterBalanceUse, evalFrame,
       AllowanceStep, ProcessNewAllowances, QueryAllowance, NothingToApprove, SetAllowance,
       ExecuteApproval, ApprovalSettled, allowanceFrame, HandleFinished, Finish,
       Transactions, ExecuteUnderwrite, UnderwriteConfirmed, UnderwriteFails, ReportedFailed, Refund
<1> QED BY <1>1, <1>2

\* An order that is with the wallet or has a result does not come before it again.
LEMMA NoWayBack ==
    ASSUME Apart, saves \in Nat, NEW S, NEW d, NEW M, Moved(S, d, M),
           NEW n, n \in 1..saves, \A p \in 1..7 : n \notin Where[p]
    PROVE  \A p \in 1..7 : n \notin Where'[p]
<1> SUFFICES ASSUME NEW p \in 1..7, n \in Where'[p] PROVE FALSE
    OBVIOUS
<1>1. p \in Places /\ n \notin Where[p] BY DEF Places
<1>2. Where'[p] \subseteq (IF d = p THEN Where[p] \cup M ELSE Where[p])
    BY <1>1 DEF Moved, Goes
<1>3. d = p /\ n \in M BY <1>1, <1>2
<1>4. S \subseteq 1..7
  <2>1. Lawful(S, d) BY DEF Moved
  <2>2. d \in 1..7 BY <1>3
  <2>3. d = 1 \/ d = 2 \/ d \in 3..7 BY <2>2
  <2>4. 2..7 \subseteq 1..7 /\ {1} \subseteq 1..7 OBVIOUS
  <2> QED BY <2>1, <2>3, <2>4 DEF Lawful
<1>5. CASE M \subseteq UNION {Where[q] : q \in S}
    BY <1>3, <1>4, <1>5
<1>6. CASE M = {saves + 1}
  <2>1. n = saves + 1 BY <1>3, <1>6
  <2> QED BY <2>1
<1>7. M # {} BY <1>3
<1> QED BY <1>5, <1>6, <1>7 DEF Moved, Comes

LEMMA OnceNext ==
    ASSUME Shape, HeldOnce, HeldOnce', Once, [Next]_vars
    PROVE  Once'
<1>1. PICK S, d, M : Moved(S, d, M) /\ saves' \in {saves, saves + 1}
    BY NextMoves DEF OrdersMove
<1>2. saves \in Nat BY SavesFacts DEF Shape, StoreShape
<1>3. Apart BY DEF HeldOnce
<1>4. \A n \in Orders : n \in Nat /\ n >= 1 BY SavesFacts
<1>5. ASSUME NEW n \in Orders, n <= saves, \A p \in 1..7 : n \notin Where[p]
      PROVE  n <= saves' /\ \A p \in 1..7 : n \notin Where'[p]
  <2>1. n \in 1..saves BY <1>2, <1>4, <1>5
  <2>2. \A p \in 1..7 : n \notin Where'[p] BY <1>1, <1>2, <1>3, <1>5, <2>1, NoWayBack
  <2>3. n <= saves' BY <1>1, <1>2, <1>4, <1>5
  <2> QED BY <2>2, <2>3
<1>6. CASE submissions' = submissions
    BY <1>5, <1>6 DEF Once
<1>7. CASE UnderwriteOrder /\ SubmitUnderwrite
  <2> DEFINE o == Order.of
  <2>1. /\ StageShape /\ WalletShape /\ batch # <<>> /\ Drop
        /\ submissions' = [submissions EXCEPT ![o] = @ + 1]
        /\ pending' = pending \cup {[of |-> o, tries |-> Order.tries, executed |-> FALSE]}
      BY <1>7 DEF UnderwriteOrder, SubmitUnderwrite, Shape
  <2>2. o \in Orders /\ o \in Where[6] BY <2>1, HeadFacts, WhereFacts
  <2> HIDE DEF o
  <2>3. submissions[o] = 0
    <3>1. submissions[o] \in Nat /\ submissions[o] <= 1 /\ submissions[o] # 1
        BY <2>1, <2>2 DEF WalletShape, Once
    <3> QED BY <3>1
  <2>4. submissions'[o] = 1 BY <2>1, <2>2, <2>3 DEF WalletShape
  <2>5. o <= saves'
    <3>1. o \in 1..saves BY <2>2 DEF HeldOnce, Apart, Places
    <3> QED BY <3>1, <1>1, <1>2
  <2>6. o \in OrdersOf(pending')
    <3> DEFINE p == [of |-> o, tries |-> Order.tries, executed |-> FALSE]
    <3>1. p.of = o /\ p \in pending' BY <2>1
    <3> HIDE DEF p
    <3> QED BY <3>1 DEF OrdersOf
  <2>7. \A p \in 1..7 : o \notin Where'[p]
    <3>1. Where'[8] = OrdersOf(pending') BY DEF Where, OrdersOf
    <3>2. \A p \in 1..7 : p \in Places /\ p # 8 BY DEF Places
    <3>3. \A p \in 1..7 : Where'[p] \cap Where'[8] = {} BY <3>2 DEF HeldOnce, Apart, Places
    <3> QED BY <3>1, <3>3, <2>6
  <2>8. ASSUME NEW n \in Orders, n # o PROVE submissions'[n] = submissions[n]
      BY <2>1, <2>8 DEF WalletShape
  <2>9. ASSUME NEW n \in Orders
        PROVE  /\ submissions'[n] <= 1
               /\ submissions'[n] = 1 => n <= saves' /\ \A p \in 1..7 : n \notin Where'[p]
    <3>1. CASE n = o
        BY <3>1, <2>4, <2>5, <2>7
    <3>2. CASE n # o
        BY <3>2, <2>8, <1>5 DEF Once
    <3> QED BY <3>1, <3>2
  <2> QED BY <2>9 DEF Once
<1> QED BY <1>6, <1>7, SubmitsFromBatch DEF Shape

\* An order is sent to the wallet at most once, however often it is retried before, and whatever
\* comes of its transaction.
THEOREM NoOrderIsSubmittedTwice == Spec => []SubmittedOnce
<1>1. Init => Once BY DEF Init, Once
<1>2. Shape /\ HeldOnce /\ (Shape /\ HeldOnce)' /\ Once /\ [Next]_vars => Once' BY OnceNext
<1>3. Once => SubmittedOnce BY DEF Once, SubmittedOnce
<1> QED BY <1>1, <1>2, <1>3, HeldInvariant, PTL DEF Spec

-----------------------------------------------------------------------------
(* The capacity is respected.                                              *)

Accepted == UNION {Where[p] : p \in 3..11}
CapacityKept == Cardinality(Accepted) <= MaxPending

LEMMA AcceptedFacts ==
    ASSUME Shape
    PROVE  /\ Accepted \subseteq Orders /\ InDiscover \cup InEval \cup InUnderwrite \subseteq Accepted
           /\ Accepted = OrdersOf(Range(retryQueue["discover"])) \cup OrdersOf(Range(retryQueue["eval"]))
                           \cup OrdersOf(Range(retryQueue["underwrite"])) \cup OrdersOf(Range(batch))
                           \cup Range(passed) \cup OrdersOf(pending) \cup (completed \cup skipped \cup rejected)
<1>1. Accepted = Where[3] \cup Where[4] \cup Where[5] \cup Where[6] \cup Where[7] \cup Where[8]
                   \cup Where[9] \cup Where[10] \cup Where[11]
  <2>1. \A p : p \in 3..11 <=> p = 3 \/ p = 4 \/ p = 5 \/ p = 6 \/ p = 7 \/ p = 8
                                  \/ p = 9 \/ p = 10 \/ p = 11
      OBVIOUS
  <2> QED BY <2>1 DEF Accepted
<1>2. Accepted = OrdersOf(Range(retryQueue["discover"])) \cup OrdersOf(Range(retryQueue["eval"]))
                   \cup OrdersOf(Range(retryQueue["underwrite"])) \cup OrdersOf(Range(batch))
                   \cup Range(passed) \cup OrdersOf(pending) \cup (completed \cup skipped \cup rejected)
    BY <1>1, WhereFacts
<1>3. InDiscover \cup InEval \cup InUnderwrite \subseteq Accepted
    BY <1>2 DEF InDiscover, InEval, InUnderwrite, Waiting, BatchOf, PassedAt, Results
<1>4. Accepted \subseteq Orders
  <2>1. \A queue \in Queues : OrdersOf(Range(retryQueue[queue])) \subseteq Orders
    <3>1. \A queue \in Queues : retryQueue[queue] \in Seq(Retries) BY DEF Shape, StageShape
    <3>2. Retries \subseteq Records BY RecordFacts
    <3> QED BY <3>1, <3>2, NumbersFacts
  <2>2. OrdersOf(Range(batch)) \subseteq Orders
      BY RecordFacts, NumbersFacts DEF Shape, StageShape
  <2>3. Range(passed) \subseteq Orders BY QueueFacts DEF Shape, StageShape
  <2>4. OrdersOf(pending) \subseteq Orders BY DEF OrdersOf, Shape, WalletShape, Sent
  <2>5. completed \subseteq Orders /\ skipped \subseteq Orders /\ rejected \subseteq Orders
      BY DEF Shape, WalletShape
  <2>6. "discover" \in Queues /\ "eval" \in Queues /\ "underwrite" \in Queues BY DEF Queues
  <2> QED BY <1>2, <2>1, <2>2, <2>3, <2>4, <2>5, <2>6
<1> QED BY <1>2, <1>3, <1>4

LEMMA UnionSize ==
    ASSUME NEW A, NEW B, IsFiniteSet(A), IsFiniteSet(B), NEW a \in Nat, NEW b \in Nat,
           Cardinality(A) <= a, Cardinality(B) <= b
    PROVE  IsFiniteSet(A \cup B) /\ Cardinality(A \cup B) <= a + b
<1>1. /\ IsFiniteSet(A \cup B) /\ Cardinality(A) \in Nat /\ Cardinality(B) \in Nat
      /\ Cardinality(A \cup B) = Cardinality(A) + Cardinality(B) - Cardinality(A \cap B)
      /\ IsFiniteSet(A \cap B)
    BY FS_Union, FS_CardinalityType, FS_Intersection
<1>2. Cardinality(A \cap B) \in Nat BY <1>1, FS_CardinalityType
<1> QED BY <1>1, <1>2

LEMMA NumbersSize ==
    ASSUME NEW S, S \subseteq Records, NEW q \in Seq(S)
    PROVE  IsFiniteSet(OrdersOf(Range(q))) /\ Cardinality(OrdersOf(Range(q))) <= Len(q) /\ Len(q) \in Nat
<1>1. /\ Numbers(q) \in Seq(Orders) /\ Len(Numbers(q)) = Len(q)
      /\ Range(Numbers(q)) = OrdersOf(Range(q))
    BY NumbersFacts
<1>2. IsFiniteSet(Range(Numbers(q))) /\ Cardinality(Range(Numbers(q))) <= Len(Numbers(q))
    BY <1>1, RangeSize
<1>3. Len(q) \in Nat BY QueueFacts
<1> QED BY <1>1, <1>2, <1>3

LEMMA PendingSize ==
    ASSUME WalletShape
    PROVE  /\ IsFiniteSet(OrdersOf(pending)) /\ Cardinality(OrdersOf(pending)) <= Cardinality(pending)
           /\ Cardinality(pending) \in Nat
<1> DEFINE f == [p \in pending |-> p.of]
<1>1. f \in Surjection(pending, OrdersOf(pending)) BY DEF Surjection, OrdersOf
<1>2. IsFiniteSet(pending) BY DEF WalletShape
<1> HIDE DEF f
<1>3. IsFiniteSet(OrdersOf(pending)) /\ Cardinality(OrdersOf(pending)) <= Cardinality(pending)
    BY <1>1, <1>2, FS_Surjection
<1> QED BY <1>2, <1>3, FS_CardinalityType

\* What processOrders of the discover queue starts with, and what is further on already.
LEMMA RoomIsEnough ==
    ASSUME Shape, HeldOnce, ProcessNewOrdersQueue, CapacityKept, Shape'
    PROVE  CapacityKept'
<1> DEFINE room == getUnderwriterCapacity
           k == IF Len(newOrders) < room THEN Len(newOrders) ELSE room
           a == SubSeq(newOrders, 1, k)
           D == OrdersOf(Range(retryQueue["discover"]))
           E == OrdersOf(Range(retryQueue["eval"]))
           U == OrdersOf(Range(retryQueue["underwrite"]))
           P == OrdersOf(pending)
           R == completed \cup skipped \cup rejected
<1>1. /\ pc = "loop" /\ Begin("discover", a) /\ passed' = passed
      /\ UNCHANGED pending /\ UNCHANGED resultVars
    BY DEF ProcessNewOrdersQueue, discoverFrame, walletVars
<1>2. batch = <<>> /\ passed = <<>> BY <1>1 DEF Shape, StageShape
<1>3. newOrders \in Seq(Orders) /\ Len(newOrders) \in Nat BY QueueFacts DEF Shape, StoreShape
<1>4. /\ room \in Nat
      /\ room > 0 =>
            room = MaxPending - Len(retryQueue["discover"]) - Len(retryQueue["eval"])
                     - (Len(retryQueue["underwrite"]) + Cardinality(pending) + Cardinality(R))
    BY RoomFacts DEF Shape
<1> HIDE DEF room
<1>5. k \in 0..Len(newOrders) /\ k <= room BY <1>3, <1>4
<1> HIDE DEF k
<1>6. a \in Seq(Orders) /\ Len(a) = k BY <1>3, <1>5, SplitFacts
<1> HIDE DEF a
<1>7. Accepted' \subseteq Range(a) \cup D \cup E \cup U \cup P \cup R
  <2>1. PICK due, rest :
           /\ retryQueue' = [retryQueue EXCEPT !["discover"] = rest]
           /\ OrdersOf(Range(batch')) = due \cup Range(a)
           /\ D = due \cup OrdersOf(Range(rest))
      BY <1>1, <1>6, BeginFacts DEF Shape, Queues
  <2>2. /\ retryQueue'["discover"] = rest /\ retryQueue'["eval"] = retryQueue["eval"]
        /\ retryQueue'["underwrite"] = retryQueue["underwrite"]
      BY <2>1 DEF Shape, StageShape, Queues
  <2>3. Accepted' = OrdersOf(Range(retryQueue'["discover"])) \cup OrdersOf(Range(retryQueue'["eval"]))
                      \cup OrdersOf(Range(retryQueue'["underwrite"])) \cup OrdersOf(Range(batch'))
                      \cup Range(passed') \cup OrdersOf(pending') \cup (completed' \cup skipped' \cup rejected')
    <3>1. (Shape => Accepted = OrdersOf(Range(retryQueue["discover"])) \cup OrdersOf(Range(retryQueue["eval"]))
                      \cup OrdersOf(Range(retryQueue["underwrite"])) \cup OrdersOf(Range(batch))
                      \cup Range(passed) \cup OrdersOf(pending) \cup (completed \cup skipped \cup rejected))'
        BY AcceptedFacts, PTL
    <3> QED BY <3>1 DEF OrdersOf, Range
  <2>4. Range(passed') = {} BY <1>1, <1>2, EmptyFacts
  <2> QED BY <2>1, <2>2, <2>3, <2>4, <1>1 DEF resultVars
<1>8. /\ IsFiniteSet(D) /\ IsFiniteSet(E) /\ IsFiniteSet(U)
      /\ Cardinality(D) <= Len(retryQueue["discover"]) /\ Len(retryQueue["discover"]) \in Nat
      /\ Cardinality(E) <= Len(retryQueue["eval"]) /\ Len(retryQueue["eval"]) \in Nat
      /\ Cardinality(U) <= Len(retryQueue["underwrite"]) /\ Len(retryQueue["underwrite"]) \in Nat
  <2>1. "discover" \in Queues /\ "eval" \in Queues /\ "underwrite" \in Queues BY DEF Queues
  <2>2. \A queue \in Queues : retryQueue[queue] \in Seq(Retries) BY DEF Shape, StageShape
  <2>3. Retries \subseteq Records BY RecordFacts
  <2> QED BY <2>1, <2>2, <2>3, NumbersSize
<1>9. /\ IsFiniteSet(P) /\ Cardinality(P) <= Cardinality(pending) /\ Cardinality(pending) \in Nat
    BY PendingSize DEF Shape
<1>10. IsFiniteSet(R) /\ Cardinality(R) \in Nat
  <2>1. R \subseteq Orders BY DEF Shape, WalletShape
  <2> QED BY <2>1, FiniteFacts
<1>11. IsFiniteSet(Range(a)) /\ Cardinality(Range(a)) <= k /\ k \in Nat
    BY <1>5, <1>6, RangeSize
<1>12. D \cup E \cup U \cup P \cup R \subseteq Accepted
  <2> HIDE DEF R
  <2> QED BY AcceptedFacts DEF R
<1>13. Accepted \subseteq Orders /\ Accepted' \subseteq Orders
  <2>1. (Shape => Accepted \subseteq Orders)' BY AcceptedFacts, PTL
  <2> QED BY <2>1, AcceptedFacts
<1>14. MaxPending \in Nat BY UnderwriterAssumption
<1> DEFINE ld == Len(retryQueue["discover"])  le == Len(retryQueue["eval"])
           lu == Len(retryQueue["underwrite"])  lp == Cardinality(pending)  lr == Cardinality(R)
<1>15. room > 0 => room = MaxPending - ld - le - (lu + lp + lr) BY <1>4
<1>16. ld \in Nat /\ le \in Nat /\ lu \in Nat /\ lp \in Nat /\ lr \in Nat
    BY <1>8, <1>9, <1>10
<1>17. CASE room = 0
  <2>1. Range(a) = {}
    <3>1. k = 0 BY <1>4, <1>5, <1>11, <1>17
    <3>2. a = <<>> BY <3>1, <1>6, EmptySeq
    <3> QED BY <3>2, EmptyFacts
  <2>2. Accepted' \subseteq Accepted BY <2>1, <1>7, <1>12
  <2>3. Cardinality(Accepted') <= Cardinality(Accepted) BY <2>2, <1>13, FiniteFacts, FS_Subset
  <2>4. Cardinality(Accepted') \in Nat /\ Cardinality(Accepted) \in Nat BY <1>13, FiniteFacts
  <2>5. Cardinality(Accepted) <= MaxPending BY DEF CapacityKept
  <2>6. Cardinality(Accepted') <= MaxPending BY <2>3, <2>4, <2>5, <1>14
  <2> QED BY <2>6 DEF CapacityKept
<1>18. CASE room > 0
  <2> HIDE DEF D, E, U, P, R, ld, le, lu, lp, lr
  <2>1. Cardinality(D) <= ld /\ Cardinality(E) <= le /\ Cardinality(U) <= lu /\ Cardinality(P) <= lp
        /\ Cardinality(R) <= lr
      BY <1>8, <1>9, <1>16 DEF ld, le, lu, lp, lr
  <2>2. IsFiniteSet(Range(a) \cup D) /\ Cardinality(Range(a) \cup D) <= k + ld
      BY <2>1, <1>8, <1>11, <1>16, UnionSize
  <2>3. /\ IsFiniteSet(Range(a) \cup D \cup E)
        /\ Cardinality(Range(a) \cup D \cup E) <= k + ld + le
    <3>1. k + ld \in Nat BY <1>11, <1>16
    <3> QED BY <3>1, <2>1, <2>2, <1>8, <1>16, UnionSize
  <2>4. /\ IsFiniteSet(Range(a) \cup D \cup E \cup U)
        /\ Cardinality(Range(a) \cup D \cup E \cup U) <= k + ld + le + lu
    <3>1. k + ld + le \in Nat BY <1>11, <1>16
    <3> QED BY <3>1, <2>1, <2>3, <1>8, <1>16, UnionSize
  <2>5. /\ IsFiniteSet(Range(a) \cup D \cup E \cup U \cup P)
        /\ Cardinality(Range(a) \cup D \cup E \cup U \cup P) <= k + ld + le + lu + lp
    <3>1. k + ld + le + lu \in Nat BY <1>11, <1>16
    <3> QED BY <3>1, <2>1, <2>4, <1>9, <1>16, UnionSize
  <2>6. /\ IsFiniteSet(Range(a) \cup D \cup E \cup U \cup P \cup R)
        /\ Cardinality(Range(a) \cup D \cup E \cup U \cup P \cup R) <= k + ld + le + lu + lp + lr
    <3>1. k + ld + le + lu + lp \in Nat BY <1>11, <1>16
    <3> QED BY <3>1, <2>1, <2>5, <1>10, <1>16, UnionSize
  <2>7. Cardinality(Accepted') <= Cardinality(Range(a) \cup D \cup E \cup U \cup P \cup R)
      BY <2>6, <1>7, FS_Subset
  <2>8. /\ Cardinality(Accepted') \in Nat
        /\ Cardinality(Range(a) \cup D \cup E \cup U \cup P \cup R) \in Nat
      BY <2>6, <1>13, FiniteFacts, FS_CardinalityType
  <2> DEFINE c == Cardinality(Accepted')
             e == Cardinality(Range(a) \cup D \cup E \cup U \cup P \cup R)
  <2>9. c \in Nat /\ e \in Nat /\ c <= e /\ e <= k + ld + le + lu + lp + lr BY <2>6, <2>7, <2>8
  <2>10. room = MaxPending - ld - le - (lu + lp + lr) BY <1>15, <1>18
  <2> HIDE DEF c, e
  <2>11. c <= MaxPending BY ONLY <2>9, <2>10, <1>5, <1>11, <1>14, <1>16, room \in Nat, <1>4
  <2> QED BY <2>11 DEF c, CapacityKept
<1> QED BY <1>4, <1>17, <1>18

LEMMA CapacityNext ==
    ASSUME Shape, HeldOnce, CapacityKept, Shape', [Next]_vars
    PROVE  CapacityKept'
<1>1. PICK S, d, M : Moved(S, d, M) /\ (2 \in S => ProcessNewOrdersQueue)
    BY NextMoves DEF OrdersMove
<1>2. CASE ProcessNewOrdersQueue
    BY <1>2, RoomIsEnough
<1>3. CASE 2 \notin S
  <2>1. ASSUME NEW p \in 3..11, NEW n \in Where'[p] PROVE n \in Accepted
    <3>1. p \in Places BY DEF Places
    <3>2. n \in Where[p] \/ (d = p /\ n \in M) BY <1>1, <2>1, <3>1 DEF Moved, Goes
    <3>3. CASE d = p /\ n \in M
      <4>1. S \subseteq 3..11
        <5>1. Lawful(S, d) /\ d \in 3..11 BY <1>1, <3>3 DEF Moved
        <5>2. S \subseteq 2..7 \/ S \subseteq 6..8
          <6>1. d \in 3..7 \/ d \in 8..11 BY <5>1
          <6> QED BY <5>1, <6>1 DEF Lawful
        <5>3. \A q \in 2..7 : q = 2 \/ q \in 3..11 OBVIOUS
        <5>4. 6..8 \subseteq 3..11 OBVIOUS
        <5> QED BY <5>2, <5>3, <5>4, <1>3
      <4>2. d # 1 BY <3>3
      <4>3. M \subseteq UNION {Where[q] : q \in S} BY <1>1, <3>3, <4>2 DEF Moved, Comes
      <4> QED BY <3>3, <4>1, <4>3 DEF Accepted
    <3> QED BY <3>2, <3>3 DEF Accepted
  <2>2. Accepted' \subseteq Accepted
    <3>1. Accepted' = UNION {Where'[p] : p \in 3..11} BY DEF Accepted
    <3> QED BY <2>1, <3>1
  <2>3. Accepted \subseteq Orders /\ Accepted' \subseteq Orders
    <3>1. Accepted \subseteq Orders BY AcceptedFacts
    <3> QED BY <3>1, <2>2
  <2>4. Cardinality(Accepted') <= Cardinality(Accepted) BY <2>2, <2>3, FiniteFacts, FS_Subset
  <2>5. Cardinality(Accepted') \in Nat /\ Cardinality(Accepted) \in Nat BY <2>3, FiniteFacts
  <2>6. Cardinality(Accepted) <= MaxPending /\ MaxPending \in Nat
      BY UnderwriterAssumption DEF CapacityKept
  <2>7. Cardinality(Accepted') <= MaxPending BY <2>4, <2>5, <2>6
  <2> QED BY <2>7 DEF CapacityKept
<1> QED BY <1>1, <1>2, <1>3

LEMMA InitCapacity == ASSUME Init PROVE CapacityKept
<1>1. Accepted = {}
  <2>1. Shape BY InitShape
  <2>2. /\ batch = <<>> /\ passed = <<>> /\ pending = {} /\ completed = {} /\ skipped = {} /\ rejected = {}
        /\ retryQueue["discover"] = <<>> /\ retryQueue["eval"] = <<>> /\ retryQueue["underwrite"] = <<>>
      BY DEF Init, Queues
  <2>3. OrdersOf(Range(<<>>)) = {} /\ Range(<<>>) = {} /\ OrdersOf({}) = {}
      BY NumbersOfNone, EmptyFacts DEF OrdersOf
  <2> QED BY <2>1, <2>2, <2>3, AcceptedFacts
<1>2. Cardinality({}) = 0 BY FS_EmptySet
<1>3. MaxPending \in Nat BY UnderwriterAssumption
<1> QED BY <1>1, <1>2, <1>3 DEF CapacityKept

LEMMA CapacityFollows == ASSUME Shape, CapacityKept PROVE CapacityRespected
<1> DEFINE A == InDiscover \cup InEval \cup InUnderwrite
<1>1. Accepted \subseteq Orders /\ A \subseteq Accepted BY AcceptedFacts
<1> HIDE DEF A
<1>2. Cardinality(A) <= Cardinality(Accepted) BY <1>1, FiniteFacts, FS_Subset
<1>3. Cardinality(A) \in Nat /\ Cardinality(Accepted) \in Nat BY <1>1, FiniteFacts
<1>4. Cardinality(Accepted) <= MaxPending /\ MaxPending \in Nat
    BY UnderwriterAssumption DEF CapacityKept
<1>5. Cardinality(A) <= MaxPending BY <1>2, <1>3, <1>4
<1> QED BY <1>5 DEF CapacityRespected, A

\* Orders that are retried, evaluated, sent and finished, taken together, are never more than
\* maxPendingTransactions.
THEOREM CapacityIsRespected == Spec => []CapacityRespected
<1>1. Init => CapacityKept BY InitCapacity
<1>2. Shape /\ HeldOnce /\ (Shape /\ HeldOnce)' /\ CapacityKept /\ [Next]_vars => CapacityKept'
    BY CapacityNext
<1>3. Shape /\ CapacityKept => CapacityRespected BY CapacityFollows
<1> QED BY <1>1, <1>2, <1>3, HeldInvariant, PTL DEF Spec

-----------------------------------------------------------------------------
(* What the expirer needs of a swap is stored in the end.                  *)

IsLast(n) == \A k \in heard \cup Range(channel) : SwapOf(k) = SwapOf(n) => k <= n
Covered(s) == s \in additional \/ \E m \in registering : SwapOf(m) = s

\* The last announcement of a swap, once it is discovered, has the data registered, or it is
\* being registered.
Registered ==
    /\ heard \subseteq 1..saves /\ discovered \subseteq heard
    /\ \A p \in 2..7 : Where[p] \subseteq heard
    /\ pc = "start" => heard = {}
    /\ \A n \in discovered : IsLast(n) => Covered(SwapOf(n))

LEMMA InitRegistered == ASSUME Init PROVE Registered
<1>1. \A p \in 2..7 : Where[p] = {}
  <2>1. /\ newOrders = <<>> /\ batch = <<>> /\ passed = <<>>
        /\ retryQueue["discover"] = <<>> /\ retryQueue["eval"] = <<>> /\ retryQueue["underwrite"] = <<>>
      BY DEF Init, Queues
  <2>2. /\ Where[2] = {} /\ Where[3] = {} /\ Where[4] = {} /\ Where[5] = {} /\ Where[6] = {}
        /\ Where[7] = {}
      BY <2>1, WhereFacts, EmptyFacts DEF OrdersOf
  <2>3. \A p \in 2..7 : p = 2 \/ p = 3 \/ p = 4 \/ p = 5 \/ p = 6 \/ p = 7 OBVIOUS
  <2> QED BY <2>2, <2>3
<1> QED BY <1>1 DEF Init, Registered

LEMMA DiscoverySteps ==
    ASSUME [Next]_vars
    PROVE  \/ SetSwapState \/ AddUnderwriteOrder \/ \E n \in Orders : SaveAdditionalSwapData(n)
           \/ DiscoverOrder /\ Discovered
           \/ UNCHANGED <<heard, channel, additional, registering, discovered, saves>>
<1>1. CASE DiscoverOrder
    BY <1>1 DEF DiscoverOrder, VaultInvalid, VaultQueryFails, AssetQueryFails, discoverVars
<1>2. CASE StoreStep
    BY <1>2 DEF StoreStep, GetSwapState, arrivalFrame, discoverVars
<1>3. CASE ~DiscoverOrder /\ ~StoreStep
    BY <1>3 DEF Next, vars, storeVars, discoverVars, ProcessNewOrdersQueue, DiscoverDone,
       discoverFrame, Start, EvalStep, EvaluateAndSkip, EvaluationFails, Evaluate,
       HasEnoughBalance, RegisterBalanceUse, evalFrame, AllowanceStep, ProcessNewAllowances,
       QueryAllowance, NothingToApprove, SetAllowance, ExecuteApproval, ApprovalSettled,
       allowanceFrame, UnderwriteOrder, underwriteFrame, HandleFinished, Finish, Transactions,
       ExecuteUnderwrite, UnderwriteConfirmed, UnderwriteFails, ReportedFailed, Refund
<1> QED BY <1>1, <1>2, <1>3

LEMMA NewOrdersSteps ==
    ASSUME Shape, [Next]_vars, ~AddUnderwriteOrder
    PROVE  Range(newOrders') \subseteq Range(newOrders)
<1>1. CASE ProcessNewOrdersQueue
  <2> DEFINE k == IF Len(newOrders) < getUnderwriterCapacity THEN Len(newOrders)
                  ELSE getUnderwriterCapacity
  <2>1. newOrders' = SubSeq(newOrders, k + 1, Len(newOrders)) BY <1>1 DEF ProcessNewOrdersQueue
  <2>2. newOrders \in Seq(Orders) /\ Len(newOrders) \in Nat BY QueueFacts DEF Shape, StoreShape
  <2>3. k \in Int /\ k <= Len(newOrders) /\ k >= 0 BY <2>2, RoomFacts DEF Shape
  <2> HIDE DEF k
  <2>4. k \in 0..Len(newOrders) BY <2>2, <2>3
  <2>5. Range(newOrders) = Range(SubSeq(newOrders, 1, k)) \cup Range(newOrders')
      BY <2>1, <2>2, <2>4, SplitFacts
  <2> QED BY <2>5
<1>2. CASE StoreStep
    BY <1>2 DEF StoreStep, GetSwapState, SetSwapState, WriteSwap, SaveAdditionalSwapData
<1>3. CASE ~ProcessNewOrdersQueue /\ ~StoreStep
  <2>1. newOrders' = newOrders
      BY <1>3 DEF Next, vars, storeVars, DiscoverOrder, DiscoverDone, Start, EvalStep,
         EvaluateAndSkip, EvaluationFails, Evaluate, HasEnoughBalance, RegisterBalanceUse,
         evalFrame, AllowanceStep, ProcessNewAllowances, QueryAllowance, NothingToApprove,
         SetAllowance, ExecuteApproval, ApprovalSettled, allowanceFrame, UnderwriteOrder,
         underwriteFrame, HandleFinished, Finish, Transactions, ExecuteUnderwrite,
         UnderwriteConfirmed, UnderwriteFails, ReportedFailed, Refund
  <2> QED BY <2>1
<1> QED BY <1>1, <1>2, <1>3

\* Orders on their way to the wallet were heard of.
LEMMA HeardNext ==
    ASSUME Shape, HeldOnce, Registered, [Next]_vars
    PROVE  \A p \in 2..7 : Where'[p] \subseteq heard'
<1>1. PICK S, d, M : Moved(S, d, M)
    BY NextMoves DEF OrdersMove
<1>2. heard \subseteq heard'
    BY DiscoverySteps DEF SetSwapState, WriteSwap, AddUnderwriteOrder, SaveAdditionalSwapData,
       DiscoverOrder
<1>3. Where'[2] = Range(newOrders') BY DEF Where, Range
<1>4. Range(newOrders) \subseteq heard
  <2>1. 2 \in 2..7 OBVIOUS
  <2> QED BY <2>1, WhereFacts DEF Registered
<1>5. Range(newOrders') \subseteq heard'
  <2>1. CASE AddUnderwriteOrder
    <3>1. /\ channel # <<>> /\ newOrders' = Append(newOrders, Head(channel))
          /\ heard' = heard \cup {Head(channel)}
        BY <2>1 DEF AddUnderwriteOrder
    <3>2. Head(channel) \in Orders BY <3>1, TailFacts DEF Shape, StoreShape
    <3>3. Range(newOrders') = Range(newOrders) \cup {Head(channel)}
        BY <3>1, <3>2, AppendFacts DEF Shape, StoreShape
    <3> QED BY <3>1, <3>3, <1>4
  <2>2. CASE ~AddUnderwriteOrder
      BY <2>2, <1>2, <1>4, NewOrdersSteps
  <2> QED BY <2>1, <2>2
<1>6. ASSUME NEW p \in 3..7 PROVE Where'[p] \subseteq heard'
  <2>1. p \in Places /\ p \in 2..7 BY DEF Places
  <2>2. Where'[p] \subseteq Where[p] \cup (IF d = p THEN M ELSE {}) BY <1>1, <2>1 DEF Moved, Goes
  <2>3. Where[p] \subseteq heard BY <2>1 DEF Registered
  <2>4. CASE d = p
    <3>1. d \in 3..7 /\ d # 1 BY <2>4
    <3>2. S \subseteq 2..7 BY <1>1, <3>1 DEF Moved, Lawful
    <3>3. M = {} \/ M \subseteq UNION {Where[q] : q \in S} BY <1>1, <3>1 DEF Moved, Comes
    <3>4. \A q \in S : Where[q] \subseteq heard BY <3>2 DEF Registered
    <3>5. M \subseteq heard BY <3>3, <3>4
    <3> QED BY <3>5, <2>2, <2>3, <1>2
  <2>5. CASE d # p
      BY <2>5, <2>2, <2>3, <1>2
  <2> QED BY <2>4, <2>5
<1>7. \A p \in 2..7 : p = 2 \/ p \in 3..7 OBVIOUS
<1> QED BY <1>3, <1>5, <1>6, <1>7

LEMMA RegisteredNext ==
    ASSUME Shape, HeldOnce, Registered, [Next]_vars
    PROVE  Registered'
<1>1. (\A p \in 2..7 : Where[p] \subseteq heard)' BY HeardNext
<1>2. pc' = "start" => pc = "start" BY PcNext
<1>3. saves \in Nat /\ Orders = 1..Len(Saves) /\ Len(Saves) \in Nat /\ saves <= Len(Saves)
    BY SavesFacts DEF Shape, StoreShape
<1>4. CASE SetSwapState
  <2> DEFINE s == SwapOf(saves + 1)
  <2>1. /\ saves' = saves + 1 /\ UNCHANGED <<heard, discovered, registering>> /\ pc' = pc
        /\ additional' = IF saw THEN additional \cup {s} ELSE additional \ {s}
        /\ channel' = IF pc # "start" THEN Append(channel, saves + 1) ELSE channel
        /\ saving
      BY <1>4 DEF SetSwapState, WriteSwap, arrivalFrame, discoverVars, queueVars
  <2>2. heard' \subseteq 1..saves' /\ discovered' \subseteq heard' /\ (pc' = "start" => heard' = {})
      BY <2>1, <1>3 DEF Registered
  <2>3. ASSUME NEW n \in discovered', IsLast(n)' PROVE Covered(SwapOf(n))'
    <3>1. n \in discovered /\ n \in heard /\ n \in 1..saves BY <2>1, <2>3 DEF Registered
    <3>2. pc # "start" BY <3>1 DEF Registered
    <3>3. saves + 1 \in Orders BY <2>1, <1>3 DEF Shape, StoreShape
    <3>4. Range(channel') = Range(channel) \cup {saves + 1}
        BY <2>1, <3>2, <3>3, AppendFacts DEF Shape, StoreShape
    <3>5. SwapOf(n) # s
      <4>1. saves + 1 \in heard' \cup Range(channel') BY <3>4
      <4>2. SwapOf(saves + 1) = SwapOf(n) => saves + 1 <= n
          BY <4>1, <2>3 DEF IsLast, SwapOf, Range
      <4>3. ~(saves + 1 <= n) BY <3>1, <1>3
      <4> QED BY <4>2, <4>3
    <3>6. IsLast(n)
      <4>1. \A k \in heard' \cup Range(channel') : SwapOf(k) = SwapOf(n) => k <= n
          BY <2>3 DEF IsLast, SwapOf, Range
      <4> QED BY <4>1, <3>4, <2>1 DEF IsLast
    <3>7. Covered(SwapOf(n)) BY <3>1, <3>6 DEF Registered
    <3> HIDE DEF s
    <3>8. SwapOf(n) \in additional => SwapOf(n) \in additional' BY <2>1, <3>5
    <3> QED BY <3>7, <3>8, <2>1 DEF Covered, SwapOf
  <2> QED BY <1>1, <2>2, <2>3 DEF Registered
<1>5. CASE AddUnderwriteOrder
  <2>1. /\ channel # <<>> /\ channel' = Tail(channel) /\ heard' = heard \cup {Head(channel)}
        /\ UNCHANGED <<saves, additional, registering, discovered>> /\ pc' = pc
      BY <1>5 DEF AddUnderwriteOrder, arrivalFrame, discoverVars, queueVars
  <2>2. Range(channel) = {Head(channel)} \cup Range(Tail(channel))
      BY <2>1, TailFacts DEF Shape, StoreShape
  <2>3. heard' \cup Range(channel') = heard \cup Range(channel) BY <2>1, <2>2
  <2>4. Head(channel) \in 1..saves
      BY <2>2, WhereFacts DEF HeldOnce, Apart, Places
  <2>5. pc # "start" BY <2>1 DEF Shape, StoreShape
  <2>6. heard' \subseteq 1..saves' /\ discovered' \subseteq heard' /\ (pc' = "start" => heard' = {})
      BY <2>1, <2>4, <2>5 DEF Registered
  <2>7. ASSUME NEW n \in discovered', IsLast(n)' PROVE Covered(SwapOf(n))'
    <3>1. \A k \in heard' \cup Range(channel') : SwapOf(k) = SwapOf(n) => k <= n
        BY <2>7 DEF IsLast, SwapOf, Range
    <3>2. IsLast(n) BY <3>1, <2>3 DEF IsLast
    <3>3. Covered(SwapOf(n)) BY <3>2, <2>1, <2>7 DEF Registered
    <3> QED BY <3>3, <2>1 DEF Covered, SwapOf
  <2> QED BY <1>1, <2>6, <2>7 DEF Registered
<1>6. ASSUME UNCHANGED <<heard, channel, saves>>, heard \subseteq heard', discovered' \subseteq heard,
             \A n \in discovered' : n \in discovered \/ n \in registering',
             \A n \in discovered : Covered(SwapOf(n)) => Covered(SwapOf(n))'
      PROVE  Registered'
  <2>1. heard' \subseteq 1..saves' /\ discovered' \subseteq heard' /\ (pc' = "start" => heard' = {})
      BY <1>2, <1>6 DEF Registered
  <2>2. ASSUME NEW n \in discovered', IsLast(n)' PROVE Covered(SwapOf(n))'
    <3>1. CASE n \in registering'
        BY <3>1 DEF Covered, SwapOf
    <3>2. CASE n \in discovered
      <4>1. \A k \in heard' \cup Range(channel') : SwapOf(k) = SwapOf(n) => k <= n
          BY <2>2 DEF IsLast, SwapOf, Range
      <4>2. IsLast(n) BY <4>1, <1>6 DEF IsLast
      <4> QED BY <3>2, <4>2, <1>6 DEF Registered
    <3> QED BY <2>2, <3>1, <3>2, <1>6
  <2> QED BY <1>1, <2>1, <2>2 DEF Registered
<1>7. CASE \E n \in Orders : SaveAdditionalSwapData(n)
  <2>1. PICK m \in Orders : SaveAdditionalSwapData(m) BY <1>7
  <2>2. /\ UNCHANGED <<heard, channel, saves, discovered>>
        /\ registering' = registering \ {m} /\ additional' = additional \cup {SwapOf(m)}
      BY <2>1 DEF SaveAdditionalSwapData, arrivalFrame, discoverVars
  <2>3. ASSUME NEW n \in discovered, Covered(SwapOf(n)) PROVE Covered(SwapOf(n))'
    <3>1. (SwapOf(n) \in additional)' \/ \E k \in registering' : SwapOf(k) = SwapOf(n)
        BY <2>2, <2>3 DEF Covered, SwapOf
    <3> QED BY <3>1 DEF Covered, SwapOf
  <2> QED BY <2>2, <2>3, <1>6 DEF Registered
<1>8. CASE DiscoverOrder /\ Discovered
  <2>1. /\ UNCHANGED <<heard, channel, saves, additional>> /\ batch # <<>>
        /\ discovered' = discovered \cup {Order.of} /\ registering' = registering \cup {Order.of}
      BY <1>8 DEF DiscoverOrder, Discovered
  <2>2. Order.of \in heard
    <3>1. Order.of \in Where[6] BY <2>1, HeadFacts, WhereFacts DEF Shape
    <3>2. 6 \in 2..7 OBVIOUS
    <3> QED BY <3>1, <3>2 DEF Registered
  <2>3. ASSUME NEW n \in discovered, Covered(SwapOf(n)) PROVE Covered(SwapOf(n))'
      BY <2>1, <2>3 DEF Covered, SwapOf
  <2> QED BY <2>1, <2>2, <2>3, <1>6 DEF Registered
<1>9. CASE UNCHANGED <<heard, channel, additional, registering, discovered, saves>>
  <2>1. ASSUME NEW n \in discovered, Covered(SwapOf(n)) PROVE Covered(SwapOf(n))'
      BY <1>9, <2>1 DEF Covered, SwapOf
  <2> QED BY <2>1, <1>6, <1>9 DEF Registered
<1> QED BY <1>4, <1>5, <1>7, <1>8, <1>9, DiscoverySteps

LEMMA RegisteredFollows == ASSUME Registered PROVE RegisteredAtRest
<1> SUFFICES ASSUME NEW n \in discovered, AtRest(SwapOf(n)),
                    \A k \in heard : SwapOf(k) = SwapOf(n) => k <= n
             PROVE  SwapOf(n) \in additional
    BY DEF RegisteredAtRest
<1>1. \A k \in Range(channel) \cup registering : SwapOf(k) # SwapOf(n)
    BY DEF AtRest
<1>2. IsLast(n) BY <1>1 DEF IsLast
<1>3. Covered(SwapOf(n)) BY <1>2 DEF Registered
<1> QED BY <1>1, <1>3 DEF Covered

\* When nothing of a swap is under way and its last order was discovered, its entry holds what
\* the expirer needs, however the writes of the listener and of the worker have interleaved.
THEOREM DataIsRegistered == Spec => []RegisteredAtRest
<1>1. Init => Registered BY InitRegistered
<1>2. Shape /\ HeldOnce /\ Registered /\ [Next]_vars => Registered' BY RegisteredNext
<1>3. Registered => RegisteredAtRest BY RegisteredFollows
<1> QED BY <1>1, <1>2, <1>3, HeldInvariant, PTL DEF Spec

-----------------------------------------------------------------------------
(* What is required is what the orders of the underwrite queue need.       *)

LEMMA UnderwriteFacts ==
    InUnderwrite = OrdersOf(Range(retryQueue["underwrite"]))
                     \cup (IF pc = "underwrite" THEN OrdersOf(Range(batch)) ELSE {})
                     \cup (IF pc \in {"allowance", "approving"} THEN Range(passed) ELSE {})
                     \cup OrdersOf(pending) \cup completed \cup skipped \cup rejected
  BY DEF InUnderwrite, Waiting, BatchOf, PassedAt, Results

\* The same of the next state.
LEMMA UnderwriteFactsNext ==
    InUnderwrite' = OrdersOf(Range(retryQueue'["underwrite"]))
                     \cup (IF pc' = "underwrite" THEN OrdersOf(Range(batch')) ELSE {})
                     \cup (IF pc' \in {"allowance", "approving"} THEN Range(passed') ELSE {})
                     \cup OrdersOf(pending') \cup completed' \cup skipped' \cup rejected'
  BY DEF InUnderwrite, Waiting, BatchOf, PassedAt, Results, OrdersOf, Range

LEMMA FailElsewhere ==
    ASSUME StageShape, batch # <<>>, NEW queue \in {"discover", "eval"}, Fail(queue) \/ Drop \/ Accept
    PROVE  retryQueue'["underwrite"] = retryQueue["underwrite"]
  BY DEF Fail, Drop, Accept, RetryIn, StageShape, Queues

\* Only processNewAllowances and the results handed back change what is to be underwritten.
LEMMA UnderwriteStays ==
    ASSUME Shape, [Next]_vars, ~ProcessNewAllowances, ~HandleFinished
    PROVE  InUnderwrite' = InUnderwrite /\ required' = required
<1>0. "underwrite" \in Queues /\ "eval" \in Queues /\ "discover" \in Queues BY DEF Queues
<1>1. ASSUME retryQueue'["underwrite"] = retryQueue["underwrite"],
             pc \notin {"underwrite", "allowance", "approving"},
             pc' \notin {"underwrite", "allowance", "approving"},
             UNCHANGED pending, UNCHANGED resultVars
      PROVE  InUnderwrite' = InUnderwrite
    BY <1>1, UnderwriteFacts, UnderwriteFactsNext DEF resultVars
<1>2. ASSUME UNCHANGED stageVars, UNCHANGED pending, UNCHANGED resultVars,
             pc' = pc \/ (pc \in {"allowance", "approving"} /\ pc' \in {"allowance", "approving"})
      PROVE  InUnderwrite' = InUnderwrite
    BY <1>2, UnderwriteFacts, UnderwriteFactsNext DEF resultVars, stageVars
<1>3. CASE StoreStep \/ UNCHANGED vars
  <2>1. UNCHANGED stageVars /\ UNCHANGED pending /\ UNCHANGED resultVars /\ pc' = pc
        /\ required' = required
      BY <1>3 DEF StoreStep, GetSwapState, SetSwapState, WriteSwap, AddUnderwriteOrder,
         SaveAdditionalSwapData, arrivalFrame, queueVars, walletVars, allowanceVars, vars
  <2> QED BY <2>1, <1>2
<1>4. CASE Start \/ EvalStep
  <2>1. UNCHANGED pending /\ UNCHANGED resultVars /\ required' = required
      BY <1>4 DEF Start, EvalStep, EvaluateAndSkip, EvaluationFails, Evaluate, HasEnoughBalance,
         RegisterBalanceUse, evalFrame, walletVars, allowanceVars
  <2>2. retryQueue'["underwrite"] = retryQueue["underwrite"]
    <3>1. CASE EvaluateAndSkip \/ EvaluationFails \/ RegisterBalanceUse
      <4>1. batch # <<>> /\ (Drop \/ Fail("eval") \/ Accept)
          BY <3>1 DEF EvaluateAndSkip, EvaluationFails, RegisterBalanceUse, Shape, StageShape
      <4> QED BY <4>1, FailElsewhere DEF Shape
    <3>2. CASE Start \/ Evaluate \/ HasEnoughBalance
        BY <3>2 DEF Start, Evaluate, HasEnoughBalance, stageVars
    <3> QED BY <1>4, <3>1, <3>2 DEF EvalStep
  <2>3. pc \in {"start", "eval", "balance", "use"} /\ pc' \in {"loop", "eval", "balance", "use"}
      BY <1>4 DEF Start, EvalStep, EvaluateAndSkip, EvaluationFails, Evaluate, HasEnoughBalance,
         RegisterBalanceUse, Drop, Fail, RetryIn
  <2> QED BY <2>1, <2>2, <2>3, <1>1
<1>5. CASE ProcessNewOrdersQueue \/ DiscoverDone
  <2>1. UNCHANGED pending /\ UNCHANGED resultVars /\ required' = required
      BY <1>5 DEF ProcessNewOrdersQueue, DiscoverDone, discoverFrame, walletVars, allowanceVars
  <2>2. retryQueue'["underwrite"] = retryQueue["underwrite"]
      BY <1>5 DEF ProcessNewOrdersQueue, DiscoverDone, Begin, Shape, StageShape, Queues
  <2>3. pc \in {"loop", "discover"} /\ pc' \in {"discover", "eval"}
      BY <1>5 DEF ProcessNewOrdersQueue, DiscoverDone, Begin
  <2> QED BY <2>1, <2>2, <2>3, <1>1
<1>6. CASE DiscoverOrder
  <2>1. UNCHANGED pending /\ UNCHANGED resultVars /\ required' = required
      BY <1>6 DEF DiscoverOrder, discoverFrame, walletVars, allowanceVars
  <2>2. batch # <<>> /\ (Fail("discover") \/ Drop \/ Accept) /\ pc = "discover" /\ pc' = "discover"
      BY <1>6 DEF DiscoverOrder, VaultInvalid, VaultQueryFails, AssetQueryFails, Discovered, Drop,
         Fail, RetryIn
  <2>3. retryQueue'["underwrite"] = retryQueue["underwrite"]
      BY <2>2, FailElsewhere DEF Shape
  <2> QED BY <2>1, <2>2, <2>3, <1>1
<1>7. CASE AllowanceStep
  <2>1. UNCHANGED pending /\ UNCHANGED resultVars /\ required' = required
      BY <1>7 DEF AllowanceStep, QueryAllowance, NothingToApprove,
         SetAllowance, ExecuteApproval, ApprovalSettled, allowanceFrame, walletVars
  <2>2. pc \in {"allowance", "approving"}
      BY <1>7 DEF AllowanceStep, QueryAllowance, NothingToApprove, SetAllowance, ExecuteApproval,
         ApprovalSettled
  <2>3. CASE BeginUnderwrites
    <3>1. batch = <<>> /\ passed \in Seq(Orders) /\ StageShape BY <2>2 DEF Shape, StageShape
    <3>2. PICK due, rest :
             /\ pc' = "underwrite" /\ retryQueue' = [retryQueue EXCEPT !["underwrite"] = rest]
             /\ OrdersOf(Range(batch')) = due \cup Range(passed)
             /\ OrdersOf(Range(retryQueue["underwrite"])) = due \cup OrdersOf(Range(rest))
      <4>1. Begin("underwrite", passed) /\ "underwrite" \in Queues
          BY <2>3 DEF BeginUnderwrites, Queues
      <4> QED BY <3>1, <4>1, BeginFacts
    <3>3. retryQueue'["underwrite"] = rest BY <3>1, <3>2, <1>0 DEF StageShape
    <3> QED BY <2>1, <2>2, <3>2, <3>3, UnderwriteFacts, UnderwriteFactsNext DEF resultVars
  <2>4. CASE UNCHANGED stageVars /\ pc' \in {"allowance", "approving"}
      BY <2>1, <2>2, <2>4, <1>2
  <2>5. BeginUnderwrites \/ (UNCHANGED stageVars /\ pc' \in {"allowance", "approving"})
      BY <1>7 DEF AllowanceStep, QueryAllowance, NothingToApprove, SetAllowance, ExecuteApproval,
         ApprovalSettled, queueVars
  <2> QED BY <2>1, <2>3, <2>4, <2>5
<1>8. CASE UnderwriteOrder
  <2> DEFINE n == Order.of
  <2>1. /\ required' = required /\ pc = "underwrite" /\ batch # <<>> /\ pc' = pc
        /\ StageShape
      BY <1>8 DEF UnderwriteOrder, EstimateFails, TooMuchGas, SubmitUnderwrite, Drop, RetryIn, Shape
  <2>2. OrdersOf(Range(batch)) = {n} \cup OrdersOf(Range(Tail(batch)))
      BY <2>1, HeadFacts
  <2>3. CASE EstimateFails /\ RetryIn("underwrite") /\ UNCHANGED rejected
    <3>1. PICK more :
             /\ retryQueue' = [retryQueue EXCEPT !["underwrite"] = more] /\ batch' = Tail(batch)
             /\ OrdersOf(Range(more)) = OrdersOf(Range(retryQueue["underwrite"])) \cup {n}
        BY <2>1, <2>3, <1>0, RetryFacts
    <3>2. retryQueue'["underwrite"] = more BY <2>1, <3>1, <1>0 DEF StageShape
    <3>3. UNCHANGED <<pending, completed, skipped, rejected>> BY <2>3 DEF EstimateFails
    <3> HIDE DEF n
    <3> QED BY <2>1, <2>2, <3>1, <3>2, <3>3, UnderwriteFacts, UnderwriteFactsNext
  <2>4. CASE Drop /\ rejected' = rejected \cup {n} /\ UNCHANGED <<pending, completed, skipped>>
    <3> HIDE DEF n
    <3> QED BY <2>1, <2>2, <2>4, UnderwriteFacts, UnderwriteFactsNext DEF Drop
  <2>5. CASE Drop /\ skipped' = skipped \cup {n} /\ UNCHANGED <<pending, completed, rejected>>
    <3> HIDE DEF n
    <3> QED BY <2>1, <2>2, <2>5, UnderwriteFacts, UnderwriteFactsNext DEF Drop
  <2>6. CASE SubmitUnderwrite
    <3> DEFINE p == [of |-> n, tries |-> Order.tries, executed |-> FALSE]
    <3>1. pending' = pending \cup {p} /\ UNCHANGED <<completed, skipped, rejected>> /\ Drop
        BY <2>6 DEF SubmitUnderwrite, resultVars
    <3>2. p.of = n OBVIOUS
    <3> HIDE DEF p, n
    <3>3. OrdersOf(pending') = OrdersOf(pending) \cup {n} BY <3>1, <3>2 DEF OrdersOf
    <3> QED BY <2>1, <2>2, <3>1, <3>3, UnderwriteFacts, UnderwriteFactsNext DEF Drop
  <2> QED BY <1>8, <2>1, <2>3, <2>4, <2>5, <2>6 DEF UnderwriteOrder, EstimateFails, TooMuchGas
<1>9. CASE Transactions
  <2>1. required' = required /\ UNCHANGED stageVars /\ pc' = pc
      BY <1>9 DEF Transactions, ExecuteUnderwrite, UnderwriteConfirmed, UnderwriteFails,
         ReportedFailed, Refund, queueVars
  <2>2. ASSUME OrdersOf(pending') \cup completed' \cup skipped' \cup rejected'
                 = OrdersOf(pending) \cup completed \cup skipped \cup rejected
        PROVE  InUnderwrite' = InUnderwrite
      BY <2>1, <2>2, UnderwriteFacts, UnderwriteFactsNext DEF stageVars
  <2>3. CASE \E p \in pending : ExecuteUnderwrite(p)
    <3>1. PICK p \in pending : ExecuteUnderwrite(p) BY <2>3
    <3> DEFINE e == [p EXCEPT !.executed = TRUE]
    <3>2. pending' = (pending \ {p}) \cup {e} /\ UNCHANGED <<completed, skipped, rejected>>
        BY <3>1 DEF ExecuteUnderwrite, resultVars
    <3>3. e.of = p.of BY DEF Shape, WalletShape, Sent
    <3> HIDE DEF e
    <3>4. OrdersOf(pending') = OrdersOf(pending) BY <3>2, <3>3 DEF OrdersOf
    <3> QED BY <2>1, <2>2, <3>2, <3>4
  <2>4. CASE \E p \in pending : UnderwriteConfirmed(p) \/ UnderwriteFails(p)
    <3>1. PICK p \in pending : UnderwriteConfirmed(p) \/ UnderwriteFails(p) BY <2>4
    <3>2. /\ pending' = pending \ {p}
          /\ \/ completed' = completed \cup {p.of} /\ UNCHANGED <<skipped, rejected>>
             \/ skipped' = skipped \cup {p.of} /\ UNCHANGED <<completed, rejected>>
             \/ rejected' = rejected \cup {p.of} /\ UNCHANGED <<completed, skipped>>
        BY <3>1 DEF UnderwriteConfirmed, UnderwriteFails, ReportedFailed
    <3>3. /\ OrdersOf(pending) = OrdersOf(pending') \cup {p.of}
        BY <3>2 DEF OrdersOf
    <3> QED BY <2>1, <2>2, <3>2, <3>3
  <2>5. CASE \E s \in Swaps : Refund(s)
      BY <2>1, <2>2, <2>5 DEF Refund, walletVars, resultVars
  <2> QED BY <2>1, <2>3, <2>4, <2>5, <1>9 DEF Transactions
<1> QED BY <1>3, <1>4, <1>5, <1>6, <1>7, <1>8, <1>9 DEF Next

LEMMA RequiredNext ==
    ASSUME Shape, HeldOnce, RequiredMatchesOrders, [Next]_vars
    PROVE  RequiredMatchesOrders'
<1>0. None \notin Nat /\ \A A : Total(A) \in Nat BY TotalIsNatural, ApprovalFacts
<1>1. CASE ~ProcessNewAllowances /\ ~HandleFinished
  <2>1. InUnderwrite' = InUnderwrite /\ required' = required BY <1>1, UnderwriteStays
  <2>2. Total(InUnderwrite') = Total(InUnderwrite) BY <2>1
  <2>3. RequiredAllowance' = RequiredAllowance BY <2>1 DEF RequiredAllowance
  <2>4. Total(InUnderwrite)' = Total(InUnderwrite') BY DEF Total, Orders, AmountOf, SwapOf
  <2> QED BY <2>2, <2>3, <2>4 DEF RequiredMatchesOrders
<1>2. CASE ProcessNewAllowances
  <2>1. /\ pc = "eval" /\ batch = <<>> /\ pc' = "allowance" /\ UNCHANGED stageVars
        /\ required' = IF required = None /\ passed = <<>> THEN None
                       ELSE RequiredAllowance + Total(Range(passed))
        /\ UNCHANGED pending /\ UNCHANGED resultVars
      BY <1>2 DEF ProcessNewAllowances, allowanceFrame, walletVars
  <2>2. InUnderwrite' = InUnderwrite \cup Range(passed)
      BY <2>1, UnderwriteFacts, UnderwriteFactsNext DEF stageVars, resultVars
  <2>3. InUnderwrite \cap Range(passed) = {}
    <3>1. /\ Where[5] \cap Where[7] = {} /\ Where[8] \cap Where[7] = {} /\ Where[9] \cap Where[7] = {}
          /\ Where[10] \cap Where[7] = {} /\ Where[11] \cap Where[7] = {}
        BY ApartFacts DEF HeldOnce, Places
    <3> QED BY <2>1, <3>1, WhereFacts, UnderwriteFacts
  <2>4. Total(InUnderwrite \cup Range(passed)) = Total(InUnderwrite) + Total(Range(passed))
      BY <2>3, TotalOfUnion
  <2>5. RequiredAllowance = Total(InUnderwrite) BY DEF RequiredMatchesOrders
  <2>6. RequiredAllowance' = RequiredAllowance + Total(Range(passed))
    <3>1. CASE required = None /\ passed = <<>>
      <4>1. Total(Range(passed)) = 0 BY <3>1, EmptyFacts, TotalOfNone
      <4>2. RequiredAllowance = 0 /\ RequiredAllowance' = 0 BY <2>1, <3>1 DEF RequiredAllowance
      <4> QED BY <4>1, <4>2
    <3>2. CASE ~(required = None /\ passed = <<>>)
      <4>1. required' = RequiredAllowance + Total(Range(passed)) BY <2>1, <3>2
      <4>2. required' \in Nat BY <4>1, <2>5, <1>0
      <4> QED BY <4>1, <4>2, <1>0 DEF RequiredAllowance
    <3> QED BY <3>1, <3>2
  <2>7. Total(InUnderwrite)' = Total(InUnderwrite') BY DEF Total, Orders, AmountOf, SwapOf
  <2>8. Total(InUnderwrite') = Total(InUnderwrite \cup Range(passed)) BY <2>2
  <2> QED BY <2>4, <2>5, <2>6, <2>7, <2>8 DEF RequiredMatchesOrders
<1>3. CASE HandleFinished
  <2> DEFINE R == completed \cup (skipped \cup rejected)
  <2>1. /\ pc = "underwrite" /\ batch = <<>> /\ pc' = "loop" /\ UNCHANGED stageVars
        /\ completed' = {} /\ skipped' = {} /\ rejected' = {} /\ pending' = pending
        /\ required' = IF required = None THEN None ELSE NotNegative(required - Total(R))
      BY <1>3 DEF HandleFinished, Finish
  <2>2. passed = <<>> BY <2>1 DEF Shape, StageShape
  <2>3. OrdersOf(Range(batch)) = {} BY <2>1, NumbersOfNone
  <2>4. R \subseteq InUnderwrite BY UnderwriteFacts
  <2>5. InUnderwrite' = InUnderwrite \ R
    <3>1. /\ Where[5] \cap Where[9] = {} /\ Where[5] \cap Where[10] = {} /\ Where[5] \cap Where[11] = {}
          /\ Where[8] \cap Where[9] = {} /\ Where[8] \cap Where[10] = {} /\ Where[8] \cap Where[11] = {}
        BY ApartFacts DEF HeldOnce, Places
    <3> QED BY <2>1, <2>3, <3>1, WhereFacts, UnderwriteFacts, UnderwriteFactsNext DEF stageVars
  <2> HIDE DEF R
  <2>6. /\ Total(InUnderwrite \ R) = Total(InUnderwrite) - Total(R) /\ Total(R) <= Total(InUnderwrite)
        /\ Total(R) \in Nat /\ Total(InUnderwrite) \in Nat
      BY <2>4, TotalGrows
  <2>7. RequiredAllowance = Total(InUnderwrite) BY DEF RequiredMatchesOrders
  <2>8. RequiredAllowance' = RequiredAllowance - Total(R)
    <3>1. CASE required = None
      <4>1. RequiredAllowance = 0 /\ RequiredAllowance' = 0 BY <2>1, <3>1 DEF RequiredAllowance
      <4> QED BY <4>1, <2>6, <2>7
    <3>2. CASE required # None
      <4>1. RequiredAllowance = required BY <3>2 DEF RequiredAllowance
      <4>2. required' = required - Total(R) /\ required' \in Nat
          BY <2>1, <2>6, <2>7, <3>2, <4>1 DEF NotNegative
      <4> QED BY <4>1, <4>2, <1>0 DEF RequiredAllowance
    <3> QED BY <3>1, <3>2
  <2>9. Total(InUnderwrite)' = Total(InUnderwrite') BY DEF Total, Orders, AmountOf, SwapOf
  <2>10. Total(InUnderwrite') = Total(InUnderwrite \ R) BY <2>5
  <2> QED BY <2>6, <2>7, <2>8, <2>9, <2>10 DEF RequiredMatchesOrders
<1> QED BY <1>1, <1>2, <1>3

LEMMA InitRequired == ASSUME Init PROVE RequiredMatchesOrders
<1>1. /\ retryQueue["underwrite"] = <<>> /\ pc = "start" /\ pending = {} /\ completed = {}
      /\ skipped = {} /\ rejected = {} /\ required = None
    BY DEF Init, Queues
<1>2. OrdersOf(Range(<<>>)) = {} /\ OrdersOf({}) = {} BY NumbersOfNone DEF OrdersOf
<1>3. InUnderwrite = {} BY <1>1, <1>2, UnderwriteFacts
<1>4. Total(InUnderwrite) = 0 BY <1>3, TotalOfNone
<1> QED BY <1>1, <1>4 DEF RequiredMatchesOrders, RequiredAllowance

\* requiredAllowance is, at any time, exactly the sum over the orders that are in the underwrite
\* queue: the handler never loses, or keeps too long, what one of them needs.
THEOREM RequiredIsExact == Spec => []RequiredMatchesOrders
<1>1. Init => RequiredMatchesOrders BY InitRequired
<1>2. Shape /\ HeldOnce /\ RequiredMatchesOrders /\ [Next]_vars => RequiredMatchesOrders'
    BY RequiredNext
<1> QED BY <1>1, <1>2, HeldInvariant, PTL DEF Spec

-----------------------------------------------------------------------------
(* The allowance is enough for what is to be executed.                     *)

LEMMA AllowanceElsewhere ==
    ASSUME [Next]_vars, ~AllowanceStep, ~HandleFinished
    PROVE  UNCHANGED allowanceVars /\ (pc' = "underwrite" => pc = "underwrite")
<1>1. CASE StoreStep \/ UNCHANGED vars
    BY <1>1 DEF StoreStep, GetSwapState, SetSwapState, WriteSwap, AddUnderwriteOrder,
       SaveAdditionalSwapData, arrivalFrame, queueVars, allowanceVars, vars
<1>2. CASE Start \/ EvalStep
  <2>1. UNCHANGED allowanceVars
      BY <1>2 DEF Start, EvalStep, EvaluateAndSkip, EvaluationFails, Evaluate, HasEnoughBalance,
         RegisterBalanceUse, evalFrame, allowanceVars
  <2>2. pc' \in {"loop", "eval", "balance", "use"}
      BY <1>2 DEF Start, EvalStep, EvaluateAndSkip, EvaluationFails, Evaluate, HasEnoughBalance,
         RegisterBalanceUse, Drop, Fail, RetryIn
  <2> QED BY <2>1, <2>2
<1>3. CASE ProcessNewOrdersQueue \/ DiscoverDone
    BY <1>3 DEF ProcessNewOrdersQueue, DiscoverDone, Begin, discoverFrame, allowanceVars
<1>4. CASE DiscoverOrder
  <2>1. UNCHANGED allowanceVars BY <1>4 DEF DiscoverOrder, discoverFrame, allowanceVars
  <2>2. pc' = "discover"
      BY <1>4 DEF DiscoverOrder, VaultInvalid, VaultQueryFails, AssetQueryFails, Discovered, Drop,
         Fail, RetryIn
  <2> QED BY <2>1, <2>2
<1>5. CASE UnderwriteOrder
    BY <1>5 DEF UnderwriteOrder, underwriteFrame, allowanceVars
<1>6. CASE Transactions
    BY <1>6 DEF Transactions, ExecuteUnderwrite, UnderwriteConfirmed, UnderwriteFails,
       ReportedFailed, Refund, underwriteFrame, queueVars, allowanceVars
<1> QED BY <1>1, <1>2, <1>3, <1>4, <1>5, <1>6 DEF Next

\* What is approved is as much as is required.
ApprovedFits ==
    /\ approval # None => required <= approval.new
    /\ pc = "underwrite" /\ approved /\ required # None
          => setAllowance # None /\ required <= setAllowance

LEMMA RequiredBound ==
    ASSUME Shape, RequiredMatchesOrders, required # None
    PROVE  /\ required \in Nat /\ required = Total(InUnderwrite)
           /\ None \in AllowanceBuffers => required <= MaxUint \div 2 /\ required <= MaxUint
<1>1. required \in Nat BY DEF Shape, AllowanceShape
<1>2. required = Total(InUnderwrite) BY DEF RequiredMatchesOrders, RequiredAllowance
<1>3. InUnderwrite \subseteq Orders BY AcceptedFacts
<1>4. Total(InUnderwrite) <= Total(Orders) /\ Total(Orders) \in Nat BY <1>3, TotalGrows
<1>5. MaxUint \in Nat BY ApprovalFacts
<1>6. MaxUint \div 2 \in Nat /\ MaxUint \div 2 <= MaxUint BY <1>5
<1>7. ASSUME None \in AllowanceBuffers PROVE required <= MaxUint \div 2 /\ required <= MaxUint
  <2>1. Total(Orders) <= MaxUint \div 2 BY <1>7, UnlimitedAssumption
  <2> QED BY <2>1, <1>1, <1>2, <1>4, <1>5, <1>6
<1> QED BY <1>1, <1>2, <1>7

LEMMA FitsNext ==
    ASSUME Shape, Shape', RequiredMatchesOrders, ApprovedFits, [Next]_vars
    PROVE  ApprovedFits'
<1>0. None \notin Nat BY ApprovalFacts
<1>1. CASE ~AllowanceStep /\ ~HandleFinished
    BY <1>1, AllowanceElsewhere DEF ApprovedFits, allowanceVars
<1>2. CASE HandleFinished
  <2>1. pc = "underwrite" /\ pc' = "loop" /\ approval' = approval
      BY <1>2 DEF HandleFinished, Finish, underwriteFrame
  <2>2. approval = None BY <2>1 DEF Shape, AllowanceShape
  <2> QED BY <2>1, <2>2 DEF ApprovedFits
<1>3. CASE ProcessNewAllowances
  <2>1. pc = "eval" /\ pc' = "allowance" /\ approval' = approval
      BY <1>3 DEF ProcessNewAllowances
  <2>2. approval = None BY <2>1 DEF Shape, AllowanceShape
  <2> QED BY <2>1, <2>2 DEF ApprovedFits
<1>4. CASE QueryAllowance
  <2>1. pc = "allowance" /\ approval' = approval /\ (pc' = pc \/ approved' = FALSE)
      BY <1>4 DEF QueryAllowance, queueVars
  <2>2. approval = None BY <2>1 DEF Shape, AllowanceShape
  <2> QED BY <2>1, <2>2 DEF ApprovedFits
<1>5. CASE NothingToApprove
  <2>1. /\ pc = "allowance" /\ UNCHANGED <<approval, required, setAllowance, allowanceBuffer>>
        /\ required = None \/ (setAllowance # None /\ AllowanceFits)
      BY <1>5 DEF NothingToApprove, allowanceFrame
  <2>2. approval = None BY <2>1 DEF Shape, AllowanceShape
  <2>3. ASSUME required # None PROVE setAllowance # None /\ required <= setAllowance
    <3>1. setAllowance \in Nat /\ AllowanceFits BY <2>1, <2>3 DEF Shape, AllowanceShape
    <3>2. required \in Nat /\ (None \in AllowanceBuffers => required <= MaxUint \div 2)
        BY <2>3, RequiredBound
    <3>3. CASE allowanceBuffer = None /\ setAllowance >= MaxUint \div 2
      <4>1. None \in AllowanceBuffers BY <3>3 DEF Shape, AllowanceShape
      <4>2. MaxUint \div 2 \in Nat BY ApprovalFacts
      <4> QED BY <3>1, <3>2, <3>3, <4>1, <4>2, <1>0
    <3>4. CASE setAllowance \in required..(required + 2 * allowanceBuffer)
        BY <3>1, <3>2, <3>4, <1>0
    <3> QED BY <3>1, <3>3, <3>4 DEF AllowanceFits
  <2> QED BY <2>1, <2>2, <2>3 DEF ApprovedFits
<1>6. CASE SetAllowance
  <2>1. /\ pc' = "approving" /\ required' = required /\ required # None /\ setAllowance # None
        /\ approval' = [old |-> setAllowance, new |-> NewAllowance, executed |-> FALSE]
      BY <1>6 DEF SetAllowance
  <2>2. approval'.new = NewAllowance BY <2>1
  <2>3. required \in Nat /\ (None \in AllowanceBuffers => required <= MaxUint)
      BY <2>1, RequiredBound
  <2>4. required <= NewAllowance
    <3>1. CASE allowanceBuffer = None
      <4>1. None \in AllowanceBuffers BY <3>1 DEF Shape, AllowanceShape
      <4> QED BY <4>1, <3>1, <2>3 DEF NewAllowance
    <3>2. CASE allowanceBuffer # None
      <4>1. allowanceBuffer \in Nat BY <3>2, ApprovalFacts DEF Shape, AllowanceShape
      <4> QED BY <4>1, <3>2, <2>3 DEF NewAllowance
    <3> QED BY <3>1, <3>2
  <2> QED BY <2>1, <2>2, <2>4 DEF ApprovedFits
<1>7. CASE ExecuteApproval
  <2>1. /\ pc = "approving" /\ pc' = pc /\ required' = required
        /\ approval' = [approval EXCEPT !.executed = TRUE]
      BY <1>7 DEF ExecuteApproval, queueVars
  <2>2. approval \in Approvals /\ approval # None BY <2>1 DEF Shape, AllowanceShape
  <2>3. approval'.new = approval.new BY <2>1, <2>2, ApprovalFacts
  <2> QED BY <2>1, <2>2, <2>3 DEF ApprovedFits
<1>8. CASE ApprovalSettled
  <2>1. /\ pc = "approving" /\ required' = required /\ approval' = None
        /\ approved' = FALSE \/ setAllowance' = setAllowance
      BY <1>8 DEF ApprovalSettled
  <2>2. approval # None /\ required # None /\ setAllowance = approval.new
        /\ approval \in Approvals /\ setAllowance # None
    <3>1. approval # None /\ required # None /\ setAllowance = approval.new /\ approval \in Approvals
        BY <2>1 DEF Shape, AllowanceShape
    <3> QED BY <3>1, ApprovalFacts
  <2>3. required <= setAllowance BY <2>2 DEF ApprovedFits
  <2> QED BY <2>1, <2>2, <2>3 DEF ApprovedFits
<1> QED BY <1>1, <1>2, <1>3, <1>4, <1>5, <1>6, <1>7, <1>8 DEF AllowanceStep

LEMMA InitFits == ASSUME Init PROVE ApprovedFits
  BY DEF Init, ApprovedFits

-----------------------------------------------------------------------------
(* The allowance on the chain, as the handler keeps it without looking.    *)

\* What it counts as set is there, but for what was executed since; before an approval is, the
\* same of what was there before.
AllowanceKnown ==
    ~misreported =>
        /\ setAllowance # None /\ (approval # None => approval.executed)
              => allowance >= setAllowance - Total(Executed)
        /\ approval # None /\ ~approval.executed
              => allowance >= approval.old - Total(Executed)

LEMMA ExecutedNext ==
    Executed' = completed' \cup OrdersOf({p \in pending' : p.executed})
  BY DEF Executed, OrdersOf

LEMMA TotalOfExecuted == Total(Executed)' = Total(Executed')
  BY DEF Total, Orders, AmountOf, SwapOf

\* Where neither the allowance nor what is known of it changes.
LEMMA KnownStays ==
    ASSUME AllowanceKnown, UNCHANGED <<setAllowance, approval, allowance>>,
           misreported => misreported', Executed' = Executed
    PROVE  AllowanceKnown'
<1>1. Total(Executed)' = Total(Executed) BY TotalOfExecuted
<1> QED BY <1>1 DEF AllowanceKnown

LEMMA KnownElsewhere ==
    ASSUME AllowanceKnown, [Next]_vars, ~AllowanceStep, ~HandleFinished, ~Transactions
    PROVE  AllowanceKnown'
<1>1. UNCHANGED <<setAllowance, approval>> BY AllowanceElsewhere DEF allowanceVars
<1>2. UNCHANGED <<allowance, misreported, completed>>
    BY DEF Next, vars, resultVars, walletVars, chainVars, faultVars, StoreStep, GetSwapState, SetSwapState,
       WriteSwap, arrivalFrame, AddUnderwriteOrder, SaveAdditionalSwapData, ProcessNewOrdersQueue,
       DiscoverOrder, DiscoverDone, discoverFrame, Start, EvalStep, EvaluateAndSkip,
       EvaluationFails, Evaluate, HasEnoughBalance, RegisterBalanceUse, evalFrame,
       UnderwriteOrder, EstimateFails, TooMuchGas, SubmitUnderwrite
<1>3. {p \in pending' : p.executed} = {p \in pending : p.executed}
  <2>1. CASE UnderwriteOrder /\ SubmitUnderwrite
    <3> DEFINE o == [of |-> Order.of, tries |-> Order.tries, executed |-> FALSE]
    <3>1. pending' = pending \cup {o} BY <2>1 DEF SubmitUnderwrite
    <3>2. ~o.executed OBVIOUS
    <3> HIDE DEF o
    <3> QED BY <3>1, <3>2
  <2>2. CASE ~(UnderwriteOrder /\ SubmitUnderwrite)
    <3>1. pending' = pending
      BY <2>2 DEF Next, vars, walletVars, StoreStep, GetSwapState, SetSwapState,
         WriteSwap, arrivalFrame, AddUnderwriteOrder, SaveAdditionalSwapData, ProcessNewOrdersQueue,
         DiscoverOrder, DiscoverDone, discoverFrame, Start, EvalStep, EvaluateAndSkip,
         EvaluationFails, Evaluate, HasEnoughBalance, RegisterBalanceUse, evalFrame,
         UnderwriteOrder, EstimateFails, TooMuchGas
    <3> QED BY <3>1
  <2> QED BY <2>1, <2>2
<1>4. Executed' = Executed BY <1>2, <1>3, ExecutedNext DEF Executed
<1> QED BY <1>1, <1>2, <1>4, KnownStays

LEMMA KnownOfTransactions ==
    ASSUME Shape, HeldOnce, AllowanceKnown, Transactions
    PROVE  AllowanceKnown'
<1>0. /\ allowance \in Nat /\ \A A : Total(A) \in Nat
      /\ setAllowance \in Nat \cup {None} /\ None \notin Nat
    BY TotalIsNatural, ApprovalFacts DEF Shape, ChainShape, AllowanceShape
<1>1. UNCHANGED <<setAllowance, approval>>
    BY DEF Transactions, ExecuteUnderwrite, UnderwriteConfirmed, UnderwriteFails, ReportedFailed,
       Refund, underwriteFrame
<1>2. CASE \E p \in pending : ExecuteUnderwrite(p)
  <2>1. PICK p \in pending : ExecuteUnderwrite(p) BY <1>2
  <2> DEFINE e == [p EXCEPT !.executed = TRUE]  n == p.of  c == Cost[SwapOf(p.of)]
  <2>2. /\ pending' = (pending \ {p}) \cup {e} /\ completed' = completed /\ ~p.executed
        /\ allowance' = allowance - c /\ misreported' = misreported
      BY <2>1 DEF ExecuteUnderwrite, resultVars, faultVars
  <2>3. p \in Sent BY DEF Shape, WalletShape
  <2>4. e.of = n /\ e.executed BY <2>3 DEF Sent
  <2>5. n \in Orders BY <2>3 DEF Sent
  <2>6. c \in Nat /\ AmountOf(n) \in Nat /\ c <= AmountOf(n) BY <2>5, SavesFacts
  <2> HIDE DEF e, c
  <2>7. Executed' = Executed \cup {n}
      BY <2>2, <2>4, ExecutedNext DEF Executed, OrdersOf
  <2>8. n \notin Executed
    <3>1. n \in OrdersOf(pending) BY DEF OrdersOf
    <3>2. Where[8] \cap Where[9] = {} BY ApartFacts DEF HeldOnce, Places
    <3>3. n \notin completed BY <3>1, <3>2, WhereFacts
    <3>4. \A r \in pending : r.of = n => r = p BY DEF HeldOnce, WalletOnce
    <3>5. \A r \in pending : r.executed => r.of # n BY <3>4, <2>2
    <3> QED BY <3>3, <3>5 DEF Executed, OrdersOf
  <2> HIDE DEF n
  <2>9. Total(Executed \cup {n}) = Total(Executed) + Total({n})
      BY <2>8, TotalOfUnion
  <2>10. Total({n}) = AmountOf(n) BY <2>5, TotalOfOne
  <2>11. Total(Executed)' = Total(Executed) + AmountOf(n)
    <3>1. Total(Executed)' = Total(Executed') BY TotalOfExecuted
    <3>2. Total(Executed') = Total(Executed \cup {n}) BY <2>7
    <3> QED BY <3>1, <3>2, <2>9, <2>10
  <2> DEFINE t == Total(Executed)  a == AmountOf(n)
  <2>12. t \in Nat /\ a \in Nat /\ Total(Executed)' = t + a BY <1>0, <2>6, <2>11
  <2> HIDE DEF t, a
  <2>13. \A k \in Int : allowance >= k - t => allowance - c >= k - (t + a)
    <3>1. c <= a BY <2>6 DEF a
    <3> QED BY <3>1, <2>6, <2>12, <1>0
  <2>14. CASE misreported
      BY <2>2, <2>14 DEF AllowanceKnown
  <2>15. CASE ~misreported
    <3>1. /\ setAllowance # None /\ (approval # None => approval.executed) => allowance >= setAllowance - t
          /\ approval # None /\ ~approval.executed => allowance >= approval.old - t
        BY <2>15 DEF AllowanceKnown, t
    <3>2. approval # None => approval.old \in Nat
        BY ApprovalFacts DEF Shape, AllowanceShape
    <3>3. setAllowance # None /\ (approval # None => approval.executed)
              => allowance' >= setAllowance - (t + a)
        BY <3>1, <2>2, <2>13, <1>0
    <3>4. approval # None /\ ~approval.executed => allowance' >= approval.old - (t + a)
        BY <3>1, <3>2, <2>2, <2>13
    <3> QED BY <3>3, <3>4, <2>12, <1>1 DEF AllowanceKnown
  <2> QED BY <2>14, <2>15
<1>3. CASE \E p \in pending : UnderwriteConfirmed(p)
  <2>1. PICK p \in pending : UnderwriteConfirmed(p) BY <1>3
  <2>2. /\ pending' = pending \ {p} /\ completed' = completed \cup {p.of} /\ p.executed
        /\ UNCHANGED <<allowance, misreported>>
      BY <2>1 DEF UnderwriteConfirmed, chainVars, faultVars
  <2>3. Executed' = Executed BY <2>2, ExecutedNext DEF Executed, OrdersOf
  <2> QED BY <1>1, <2>2, <2>3, KnownStays
<1>4. CASE \E p \in pending : UnderwriteFails(p)
  <2>1. PICK p \in pending : UnderwriteFails(p) BY <1>4
  <2>2. /\ pending' = pending \ {p} /\ completed' = completed /\ allowance' = allowance
        /\ \/ ~p.executed /\ misreported' = misreported
           \/ misreported' = (misreported \/ p.executed)
      BY <2>1 DEF UnderwriteFails, ReportedFailed, chainVars, faultVars
  <2>3. CASE p.executed
    <3>1. misreported' BY <2>2, <2>3
    <3> QED BY <3>1 DEF AllowanceKnown
  <2>4. CASE ~p.executed
    <3>1. misreported => misreported' BY <2>2
    <3>2. Executed' = Executed BY <2>2, <2>4, ExecutedNext DEF Executed
    <3> QED BY <1>1, <2>2, <3>1, <3>2, KnownStays
  <2> QED BY <2>3, <2>4
<1>5. CASE \E s \in Swaps : Refund(s)
  <2>1. UNCHANGED <<allowance, misreported, pending, completed>>
      BY <1>5 DEF Refund, walletVars, resultVars, faultVars
  <2>2. Executed' = Executed BY <2>1, ExecutedNext DEF Executed
  <2> QED BY <1>1, <2>1, <2>2, KnownStays
<1> QED BY <1>2, <1>3, <1>4, <1>5 DEF Transactions

LEMMA KnownOfApprovals ==
    ASSUME Shape, AllowanceKnown, AllowanceStep
    PROVE  AllowanceKnown'
<1>0. /\ allowance \in Nat /\ \A A : Total(A) \in Nat
      /\ setAllowance \in Nat \cup {None} /\ None \notin Nat /\ None \notin Approvals
    BY TotalIsNatural, ApprovalFacts DEF Shape, ChainShape, AllowanceShape
<1>1. UNCHANGED <<pending, completed>>
    BY DEF AllowanceStep, ProcessNewAllowances, QueryAllowance, NothingToApprove,
       SetAllowance, ExecuteApproval, ApprovalSettled, allowanceFrame, walletVars, resultVars
<1>2. Executed' = Executed BY <1>1, ExecutedNext DEF Executed
<1> DEFINE t == Total(Executed)
<1>3. t \in Nat /\ Total(Executed)' = t
  <2>1. Total(Executed)' = Total(Executed') BY TotalOfExecuted
  <2> QED BY <2>1, <1>0, <1>2
<1> HIDE DEF t
<1>4. CASE ProcessNewAllowances \/ NothingToApprove \/ (QueryAllowance /\ UNCHANGED setAllowance)
  <2>1. UNCHANGED <<setAllowance, approval, allowance, misreported>>
      BY <1>4 DEF ProcessNewAllowances, NothingToApprove, QueryAllowance, faultVars
  <2> QED BY <2>1, <1>2, KnownStays
<1>5. CASE QueryAllowance /\ setAllowance' = allowance
  <2>1. pc = "allowance" /\ UNCHANGED <<approval, allowance>>
      BY <1>5 DEF QueryAllowance
  <2>2. approval = None BY <2>1 DEF Shape, AllowanceShape
  <2>3. allowance' >= setAllowance' - t BY <1>0, <1>3, <1>5, <2>1
  <2> QED BY <2>1, <2>2, <2>3, <1>3 DEF AllowanceKnown
<1>6. CASE SetAllowance
  <2>1. /\ pc = "allowance" /\ UNCHANGED <<allowance, misreported>> /\ setAllowance # None
        /\ approval' = [old |-> setAllowance, new |-> NewAllowance, executed |-> FALSE]
      BY <1>6 DEF SetAllowance, faultVars
  <2>2. approval = None BY <2>1 DEF Shape, AllowanceShape
  <2>3. approval'.old = setAllowance /\ ~approval'.executed /\ approval' # None
    <3>1. approval'.old = setAllowance /\ ~approval'.executed BY <2>1
    <3>2. approval' \in Approvals \cup {None} /\ (approval' # None <=> pc' = "approving")
      <4>1. Shape' BY NextShape, <1>6 DEF Next
      <4> QED BY <4>1 DEF Shape, AllowanceShape
    <3>3. pc' = "approving" BY <1>6 DEF SetAllowance
    <3> QED BY <3>1, <3>2, <3>3
  <2>4. ~misreported => allowance >= setAllowance - t
      BY <2>1, <2>2 DEF AllowanceKnown, t
  <2> QED BY <2>1, <2>3, <2>4, <1>3 DEF AllowanceKnown
<1>7. CASE ExecuteApproval
  <2>1. /\ pc = "approving" /\ allowance' = approval.new /\ UNCHANGED setAllowance
        /\ approval' = [approval EXCEPT !.executed = TRUE]
      BY <1>7 DEF ExecuteApproval
  <2>2. approval \in Approvals /\ setAllowance = approval.new
      BY <2>1 DEF Shape, AllowanceShape
  <2>3. approval'.executed /\ approval.new \in Nat BY <2>1, <2>2 DEF Approvals
  <2>4. allowance' >= setAllowance' - t BY <2>1, <2>2, <2>3, <1>3
  <2> QED BY <2>3, <2>4, <1>3 DEF AllowanceKnown
<1>8. CASE ApprovalSettled
  <2>1. /\ pc = "approving" /\ allowance' = allowance /\ approval' = None
        /\ \/ approval.executed /\ UNCHANGED <<setAllowance, misreported>>
           \/ /\ setAllowance' = NotNegative(setAllowance - (approval.new - approval.old))
              /\ misreported' = (misreported \/ approval.executed)
      BY <1>8 DEF ApprovalSettled, RollBack, faultVars
  <2>2. approval \in Approvals /\ setAllowance = approval.new /\ approval # None
    <3>1. approval \in Approvals /\ setAllowance = approval.new
        BY <2>1 DEF Shape, AllowanceShape
    <3> QED BY <3>1, <1>0
  <2>3. approval.old \in Nat /\ approval.new \in Nat BY <2>2, ApprovalFacts
  <2>4. setAllowance # None BY <2>2, <2>3, <1>0
  <2>5. CASE approval.executed /\ UNCHANGED <<setAllowance, misreported>>
    <3>1. ~misreported => allowance >= setAllowance - t BY <2>4, <2>5 DEF AllowanceKnown, t
    <3> QED BY <3>1, <2>1, <2>5, <1>3 DEF AllowanceKnown
  <2>6. CASE /\ setAllowance' = NotNegative(setAllowance - (approval.new - approval.old))
             /\ misreported' = (misreported \/ approval.executed)
    <3>1. CASE misreported \/ approval.executed
      <4>1. misreported' BY <2>6, <3>1
      <4> QED BY <4>1 DEF AllowanceKnown
    <3>2. CASE ~misreported /\ ~approval.executed
      <4>1. allowance >= approval.old - t BY <2>2, <3>2 DEF AllowanceKnown, t
      <4>2. setAllowance' = approval.old BY <2>2, <2>3, <2>6 DEF NotNegative
      <4> QED BY <4>1, <4>2, <2>1, <1>3 DEF AllowanceKnown
    <3> QED BY <3>1, <3>2
  <2> QED BY <2>1, <2>5, <2>6
<1>9. QueryAllowance => UNCHANGED setAllowance \/ setAllowance' = allowance
    BY DEF QueryAllowance
<1> QED BY <1>4, <1>5, <1>6, <1>7, <1>8, <1>9 DEF AllowanceStep

LEMMA KnownOfResults ==
    ASSUME Shape, HeldOnce, AllowanceKnown, HandleFinished
    PROVE  AllowanceKnown'
<1>1. /\ pc = "underwrite" /\ completed' = {} /\ UNCHANGED <<pending, allowance, misreported, approval>>
      /\ setAllowance' = IF completed = {} THEN setAllowance
                         ELSE IF setAllowance = None THEN 0
                         ELSE NotNegative(setAllowance - Total(completed))
    BY DEF HandleFinished, Finish, underwriteFrame, chainVars, faultVars
<1>2. approval = None BY <1>1 DEF Shape, AllowanceShape
<1>3. Executed' = Executed \ completed
  <2>1. Where[8] \cap Where[9] = {} BY ApartFacts DEF HeldOnce, Places
  <2>2. OrdersOf({p \in pending : p.executed}) \subseteq OrdersOf(pending) BY DEF OrdersOf
  <2>3. OrdersOf({p \in pending : p.executed}) \cap completed = {} BY <2>1, <2>2, WhereFacts
  <2>4. Executed' = OrdersOf({p \in pending : p.executed}) BY <1>1, ExecutedNext
  <2> QED BY <2>3, <2>4 DEF Executed
<1>4. completed \subseteq Executed BY DEF Executed
<1> DEFINE t == Total(Executed)  c == Total(completed)
<1>5. t \in Nat /\ c \in Nat /\ c <= t /\ Total(Executed)' = t - c
  <2>1. Total(Executed \ completed) = t - c /\ t \in Nat /\ c \in Nat /\ c <= t
      BY <1>4, TotalGrows
  <2>2. Total(Executed)' = Total(Executed') BY TotalOfExecuted
  <2>3. Total(Executed') = Total(Executed \ completed) BY <1>3
  <2> QED BY <2>1, <2>2, <2>3
<1>6. completed = {} => c = 0 BY TotalOfNone
<1> HIDE DEF t, c
<1>7. ~misreported /\ setAllowance # None => allowance >= setAllowance - t
    BY <1>2 DEF AllowanceKnown, t
<1>8. allowance \in Nat /\ setAllowance \in Nat \cup {None}
    BY DEF Shape, ChainShape, AllowanceShape
<1>9. setAllowance' = IF completed = {} THEN setAllowance
                      ELSE IF setAllowance = None THEN 0 ELSE NotNegative(setAllowance - c)
    BY <1>1 DEF c
<1>10. ~misreported /\ setAllowance' # None => allowance >= setAllowance' - (t - c)
  <2>1. CASE completed = {}
      BY <2>1, <1>5, <1>6, <1>7, <1>8, <1>9
  <2>2. CASE completed # {} /\ setAllowance = None
      BY <2>2, <1>5, <1>8, <1>9
  <2>3. CASE completed # {} /\ setAllowance # None
    <3>1. setAllowance' = NotNegative(setAllowance - c) /\ setAllowance \in Nat BY <2>3, <1>8, <1>9
    <3> QED BY <2>3, <3>1, <1>5, <1>7, <1>8 DEF NotNegative
  <2> QED BY <2>1, <2>2, <2>3
<1> QED BY <1>1, <1>2, <1>5, <1>10 DEF AllowanceKnown

LEMMA KnownNext ==
    ASSUME Shape, HeldOnce, AllowanceKnown, [Next]_vars
    PROVE  AllowanceKnown'
  BY KnownElsewhere, KnownOfTransactions, KnownOfApprovals, KnownOfResults

LEMMA InitKnown == ASSUME Init PROVE AllowanceKnown
  BY DEF Init, AllowanceKnown

LEMMA AllowanceFollows ==
    ASSUME Shape, RequiredMatchesOrders, ApprovedFits, AllowanceKnown
    PROVE  AllowanceSuffices
<1> SUFFICES ASSUME pc = "underwrite", approved, ~misreported
             PROVE  allowance >= Total(InUnderwrite \ (Executed \cup skipped \cup rejected))
    BY DEF AllowanceSuffices
<1> DEFINE left == InUnderwrite \ (Executed \cup skipped \cup rejected)
           u == Total(InUnderwrite)  t == Total(Executed)  l == Total(left)
<1>1. left \subseteq InUnderwrite \ Executed OBVIOUS
<1>2. Executed \subseteq InUnderwrite
  <2>1. OrdersOf({p \in pending : p.executed}) \subseteq OrdersOf(pending) BY DEF OrdersOf
  <2> QED BY <2>1, UnderwriteFacts DEF Executed
<1> HIDE DEF left
<1>3. Total(InUnderwrite \ Executed) = u - t /\ u \in Nat /\ t \in Nat /\ l \in Nat
    BY <1>2, TotalGrows
<1>4. l <= Total(InUnderwrite \ Executed) BY <1>1, TotalGrows
<1>5. allowance \in Nat BY DEF Shape, ChainShape
<1>6. approval = None BY DEF Shape, AllowanceShape
<1>7. u = RequiredAllowance BY DEF RequiredMatchesOrders
<1> HIDE DEF u, t, l
<1>8. l <= u - t BY <1>3, <1>4
<1>9. CASE required = None
  <2>1. u = 0 BY <1>7, <1>9 DEF RequiredAllowance
  <2>2. allowance >= l BY <2>1, <1>3, <1>5, <1>8
  <2> QED BY <2>2 DEF l, left
<1>10. CASE required # None
  <2>1. required = u BY <1>7, <1>10 DEF RequiredAllowance
  <2>2. setAllowance # None /\ required <= setAllowance BY <1>10 DEF ApprovedFits
  <2>3. setAllowance \in Nat BY <2>2 DEF Shape, AllowanceShape
  <2>4. allowance >= setAllowance - t BY <1>6, <2>2 DEF AllowanceKnown, t
  <2>5. allowance >= l BY <2>1, <2>2, <2>3, <2>4, <1>3, <1>5, <1>8
  <2> QED BY <2>5 DEF l, left
<1> QED BY <1>9, <1>10

\* The allowance on the chain suffices for every order that is still to be executed when orders
\* are underwritten after approvals that did not fail, though the handler reads it only once.
THEOREM AllowanceIsEnough == Spec => []AllowanceSuffices
<1>1. Init => ApprovedFits /\ AllowanceKnown BY InitFits, InitKnown
<1>2. /\ Shape /\ HeldOnce /\ (Shape /\ HeldOnce)' /\ RequiredMatchesOrders /\ ApprovedFits
      /\ AllowanceKnown /\ [Next]_vars
      => (ApprovedFits /\ AllowanceKnown)'
    BY FitsNext, KnownNext
<1>3. Shape /\ RequiredMatchesOrders /\ ApprovedFits /\ AllowanceKnown => AllowanceSuffices
    BY AllowanceFollows
<1> QED BY <1>1, <1>2, <1>3, HeldInvariant, RequiredIsExact, PTL DEF Spec

-----------------------------------------------------------------------------
(* What is behind the discover queue was discovered; with that, TypeOK.    *)

Behind ==
    /\ additional \subseteq Range(Saves) /\ registering \subseteq discovered
    /\ validated \in {"unknown", "valid", "invalid"} /\ assetKnown \in BOOLEAN
    /\ \A p \in {4, 5} \cup 7..11 : Where[p] \subseteq discovered
    /\ pc # "discover" => Where[6] \subseteq discovered

LEMMA InitBehind == ASSUME Init PROVE Behind
<1>1. /\ batch = <<>> /\ passed = <<>> /\ retryQueue["eval"] = <<>> /\ retryQueue["underwrite"] = <<>>
      /\ pending = {} /\ completed = {} /\ skipped = {} /\ rejected = {}
    BY DEF Init, Queues
<1>2. /\ Where[4] = {} /\ Where[5] = {} /\ Where[6] = {} /\ Where[7] = {} /\ Where[8] = {}
      /\ Where[9] = {} /\ Where[10] = {} /\ Where[11] = {}
    BY <1>1, WhereFacts, EmptyFacts DEF OrdersOf
<1>3. \A p \in {4, 5} \cup 7..11 : p = 4 \/ p = 5 \/ p = 7 \/ p = 8 \/ p = 9 \/ p = 10 \/ p = 11
    OBVIOUS
<1>4. \A p \in {4, 5} \cup 7..11 : Where[p] \subseteq discovered BY <1>2, <1>3
<1> QED BY <1>2, <1>4 DEF Behind, Init

\* What the listener and the discover queue keep about swaps.
LEMMA DiscoveryKnown ==
    ASSUME Shape, Behind, [Next]_vars
    PROVE  /\ discovered \subseteq discovered'
           /\ additional' \subseteq Range(Saves) /\ registering' \subseteq discovered'
           /\ validated' \in {"unknown", "valid", "invalid"} /\ assetKnown' \in BOOLEAN
<1>1. \A n \in Orders : SwapOf(n) \in Range(Saves) BY UnderwriterAssumption, SavesFacts, QueueFacts DEF SwapOf
<1>2. discovered \subseteq discovered' /\ additional' \subseteq Range(Saves)
         /\ registering' \subseteq discovered'
  <2>1. CASE SetSwapState
    <3>1. /\ UNCHANGED <<registering, discovered>>
          /\ additional' \subseteq additional \cup {SwapOf(saves + 1)}
          /\ saw => additional' = additional \cup {SwapOf(saves + 1)}
          /\ ~saw => additional' \subseteq additional
        BY <2>1 DEF SetSwapState, WriteSwap, arrivalFrame, discoverVars
    <3>2. saves + 1 \in Orders
        BY <2>1, SavesFacts DEF SetSwapState, WriteSwap, Shape, StoreShape
    <3> QED BY <3>1, <3>2, <1>1 DEF Behind
  <2>2. CASE AddUnderwriteOrder
      BY <2>2 DEF AddUnderwriteOrder, arrivalFrame, discoverVars, Behind
  <2>3. CASE \E n \in Orders : SaveAdditionalSwapData(n)
      BY <2>3, <1>1 DEF SaveAdditionalSwapData, arrivalFrame, discoverVars, Behind
  <2>4. CASE DiscoverOrder /\ Discovered
      BY <2>4 DEF DiscoverOrder, Discovered, Behind
  <2>5. CASE UNCHANGED <<heard, channel, additional, registering, discovered, saves>>
      BY <2>5 DEF Behind
  <2> QED BY <2>1, <2>2, <2>3, <2>4, <2>5, DiscoverySteps
<1>3. validated' \in {"unknown", "valid", "invalid"} /\ assetKnown' \in BOOLEAN
  <2>1. CASE DiscoverOrder
      BY <2>1 DEF DiscoverOrder, VaultInvalid, VaultQueryFails, AssetQueryFails, Discovered,
         discoverVars, Behind
  <2>2. CASE ~DiscoverOrder
    <3>1. UNCHANGED <<validated, assetKnown>>
        BY <2>2 DEF Next, vars, StoreStep, GetSwapState, SetSwapState, WriteSwap,
           SaveAdditionalSwapData, AddUnderwriteOrder, arrivalFrame, discoverVars,
           ProcessNewOrdersQueue, DiscoverDone, Start, EvalStep, EvaluateAndSkip, EvaluationFails,
           Evaluate, HasEnoughBalance, RegisterBalanceUse, evalFrame, AllowanceStep,
           ProcessNewAllowances, QueryAllowance, NothingToApprove, SetAllowance, ExecuteApproval,
           ApprovalSettled, allowanceFrame, UnderwriteOrder, underwriteFrame, HandleFinished,
           Finish, Transactions, ExecuteUnderwrite, UnderwriteConfirmed, UnderwriteFails,
           ReportedFailed, Refund
    <3> QED BY <3>1 DEF Behind
  <2> QED BY <2>1, <2>2
<1> QED BY <1>2, <1>3

\* Orders go from the places behind the discover queue to such places only.
LEMMA BehindStays ==
    ASSUME Shape, HeldOnce, Behind, [Next]_vars, ~ProcessNewOrdersQueue,
           Where[6] \subseteq discovered
    PROVE  \A p \in 4..11 : Where'[p] \subseteq discovered'
<1>1. PICK S, d, M : Moved(S, d, M) /\ (2 \in S \/ 3 \in S => ProcessNewOrdersQueue)
    BY NextMoves DEF OrdersMove
<1>2. discovered \subseteq discovered' BY DiscoveryKnown
<1>3. ASSUME NEW p \in 4..11 PROVE Where[p] \subseteq discovered
  <2>1. p = 6 \/ p \in {4, 5} \cup 7..11 OBVIOUS
  <2> QED BY <2>1 DEF Behind
<1> SUFFICES ASSUME NEW p \in 4..11 PROVE Where'[p] \subseteq discovered'
    OBVIOUS
<1>4. p \in Places BY DEF Places
<1>5. Where'[p] \subseteq Where[p] \cup (IF d = p THEN M ELSE {}) BY <1>1, <1>4 DEF Moved, Goes
<1>6. CASE d = p
  <2>1. d \in 4..11 /\ d # 1 BY <1>6
  <2>2. d \in 3..7 \/ d \in 8..11 BY <2>1
  <2>3. S \subseteq 2..8 /\ 2 \notin S /\ 3 \notin S BY <1>1, <2>2 DEF Moved, Lawful
  <2>4. \A q \in S : q \in 4..11 BY <2>3
  <2>5. M = {} \/ M \subseteq UNION {Where[q] : q \in S} BY <1>1, <2>1 DEF Moved, Comes
  <2>6. M \subseteq discovered BY <2>4, <2>5, <1>3
  <2> QED BY <2>6, <1>2, <1>3, <1>5
<1>7. CASE d # p
    BY <1>7, <1>2, <1>3, <1>5
<1> QED BY <1>6, <1>7

LEMMA WalletStays ==
    ASSUME Transactions
    PROVE  /\ UNCHANGED queueVars
           /\ OrdersOf(pending') \subseteq OrdersOf(pending)
           /\ completed' \subseteq completed \cup OrdersOf(pending)
           /\ skipped' \subseteq skipped \cup OrdersOf(pending)
           /\ rejected' \subseteq rejected \cup OrdersOf(pending)
<1>1. CASE \E p \in pending : ExecuteUnderwrite(p)
  <2>1. PICK p \in pending : ExecuteUnderwrite(p) BY <1>1
  <2>2. /\ UNCHANGED queueVars /\ UNCHANGED resultVars
        /\ pending' = (pending \ {p}) \cup {[p EXCEPT !.executed = TRUE]}
      BY <2>1 DEF ExecuteUnderwrite
  <2>3. ASSUME NEW r \in pending' PROVE r.of \in OrdersOf(pending)
    <3>1. [p EXCEPT !.executed = TRUE].of = p.of OBVIOUS
    <3> QED BY <2>2, <3>1 DEF OrdersOf
  <2> QED BY <2>2, <2>3 DEF OrdersOf, resultVars
<1>2. CASE \E p \in pending : UnderwriteConfirmed(p)
    BY <1>2 DEF UnderwriteConfirmed, OrdersOf
<1>3. CASE \E p \in pending : UnderwriteFails(p)
    BY <1>3 DEF UnderwriteFails, ReportedFailed, OrdersOf
<1>4. CASE \E s \in Swaps : Refund(s)
    BY <1>4 DEF Refund, walletVars, resultVars
<1> QED BY <1>1, <1>2, <1>3, <1>4 DEF Transactions

LEMMA BehindNext ==
    ASSUME Shape, HeldOnce, Behind, [Next]_vars
    PROVE  Behind'
<1>1. discovered \subseteq discovered' BY DiscoveryKnown
<1>2. /\ Where'[4] = OrdersOf(Range(retryQueue'["eval"]))
      /\ Where'[5] = OrdersOf(Range(retryQueue'["underwrite"]))
      /\ Where'[6] = OrdersOf(Range(batch')) /\ Where'[7] = Range(passed')
      /\ Where'[8] = OrdersOf(pending')
      /\ Where'[9] = completed' /\ Where'[10] = skipped' /\ Where'[11] = rejected'
    BY DEF Where, Waiting, Range, OrdersOf
<1>3. /\ Where[4] \subseteq discovered /\ Where[5] \subseteq discovered
      /\ Where[7] \subseteq discovered /\ Where[8] \subseteq discovered
      /\ Where[9] \subseteq discovered /\ Where[10] \subseteq discovered
      /\ Where[11] \subseteq discovered
    BY DEF Behind
<1>4. ASSUME Where'[4] \subseteq discovered', Where'[5] \subseteq discovered',
             Where'[7] \subseteq discovered', Where'[8] \subseteq discovered',
             Where'[9] \subseteq discovered', Where'[10] \subseteq discovered',
             Where'[11] \subseteq discovered', pc' # "discover" => Where'[6] \subseteq discovered'
      PROVE  Behind'
  <2>1. \A p \in {4, 5} \cup 7..11 : p = 4 \/ p = 5 \/ p = 7 \/ p = 8 \/ p = 9 \/ p = 10 \/ p = 11
      OBVIOUS
  <2>2. \A p \in {4, 5} \cup 7..11 : Where'[p] \subseteq discovered' BY <1>4, <2>1
  <2> QED BY <1>4, <2>2, DiscoveryKnown DEF Behind
<1>5. CASE Where[6] \subseteq discovered /\ ~ProcessNewOrdersQueue
  <2>1. \A p \in 4..11 : Where'[p] \subseteq discovered' BY <1>5, BehindStays
  <2> QED BY <2>1, <1>4
<1>6. CASE StoreStep \/ UNCHANGED vars
  <2>1. UNCHANGED queueVars /\ UNCHANGED walletVars
      BY <1>6 DEF StoreStep, GetSwapState, SetSwapState, WriteSwap, SaveAdditionalSwapData,
         AddUnderwriteOrder, arrivalFrame, vars
  <2>2. /\ Where'[4] = Where[4] /\ Where'[5] = Where[5] /\ Where'[6] = Where[6]
        /\ Where'[7] = Where[7] /\ Where'[8] = Where[8] /\ Where'[9] = Where[9]
        /\ Where'[10] = Where[10] /\ Where'[11] = Where[11] /\ pc' = pc
      BY <2>1, <1>2, WhereFacts DEF queueVars, stageVars, walletVars, resultVars
  <2> QED BY <2>2, <1>1, <1>3, <1>4 DEF Behind
<1>7. CASE Transactions
  <2>1. /\ Where'[4] = Where[4] /\ Where'[5] = Where[5] /\ Where'[6] = Where[6]
        /\ Where'[7] = Where[7] /\ pc' = pc
      BY <1>7, <1>2, WhereFacts, WalletStays DEF queueVars, stageVars
  <2>2. /\ Where'[8] \subseteq Where[8] /\ Where'[9] \subseteq Where[9] \cup Where[8]
        /\ Where'[10] \subseteq Where[10] \cup Where[8] /\ Where'[11] \subseteq Where[11] \cup Where[8]
      BY <1>7, <1>2, WhereFacts, WalletStays
  <2> QED BY <2>1, <2>2, <1>1, <1>3, <1>4 DEF Behind
<1>8. CASE ProcessNewOrdersQueue
  <2>1. /\ pc' = "discover" /\ passed' = passed /\ UNCHANGED walletVars
        /\ \A other \in Queues \ {"discover"} : retryQueue'[other] = retryQueue[other]
      BY <1>8 DEF ProcessNewOrdersQueue, Begin, discoverFrame, Shape, StageShape
  <2>2. /\ Where'[4] = Where[4] /\ Where'[5] = Where[5] /\ Where'[7] = Where[7]
        /\ Where'[8] = Where[8] /\ Where'[9] = Where[9] /\ Where'[10] = Where[10]
        /\ Where'[11] = Where[11]
      BY <2>1, <1>2, WhereFacts DEF Queues, walletVars, resultVars
  <2> QED BY <2>1, <2>2, <1>1, <1>3, <1>4
<1>9. CASE DiscoverOrder
  <2>1. /\ batch # <<>> /\ pc = "discover" /\ pc' = "discover" /\ UNCHANGED walletVars
        /\ Fail("discover") \/ Drop \/ (Accept /\ discovered' = discovered \cup {Order.of})
      BY <1>9 DEF DiscoverOrder, VaultInvalid, VaultQueryFails, AssetQueryFails, Discovered, Drop,
         Fail, RetryIn, discoverFrame
  <2>2. \A other \in Queues \ {"discover"} : retryQueue'[other] = retryQueue[other]
      BY <2>1 DEF Fail, RetryIn, Drop, Accept, Shape, StageShape
  <2>3. Range(passed') \subseteq Range(passed) \cup discovered'
    <3>1. CASE Accept /\ discovered' = discovered \cup {Order.of}
      <4>1. passed \in Seq(Orders) /\ Order.of \in Orders
          BY <2>1, HeadFacts DEF Shape, StageShape, Attempts
      <4>2. Range(passed') = Range(passed) \cup {Order.of} BY <3>1, <4>1, AppendFacts DEF Accept
      <4> QED BY <3>1, <4>2
    <3>2. CASE Fail("discover") \/ Drop
      <4>1. passed' = passed BY <3>2 DEF Fail, RetryIn, Drop
      <4> QED BY <4>1
    <3> QED BY <2>1, <3>1, <3>2
  <2>4. /\ Where'[4] = Where[4] /\ Where'[5] = Where[5] /\ Where'[7] \subseteq Where[7] \cup discovered'
        /\ Where'[8] = Where[8] /\ Where'[9] = Where[9] /\ Where'[10] = Where[10]
        /\ Where'[11] = Where[11]
      BY <2>1, <2>2, <2>3, <1>2, WhereFacts DEF Queues, walletVars, resultVars
  <2> QED BY <2>1, <2>4, <1>1, <1>3, <1>4
<1>10. \/ StoreStep \/ UNCHANGED vars \/ Transactions \/ ProcessNewOrdersQueue \/ DiscoverOrder
       \/ Where[6] \subseteq discovered
  <2>1. CASE Start \/ EvalStep \/ AllowanceStep \/ UnderwriteOrder \/ HandleFinished
    <3>1. pc # "discover"
        BY <2>1 DEF Start, EvalStep, EvaluateAndSkip, EvaluationFails, Evaluate, HasEnoughBalance,
           RegisterBalanceUse, AllowanceStep, ProcessNewAllowances, QueryAllowance,
           NothingToApprove, SetAllowance, ExecuteApproval, ApprovalSettled, UnderwriteOrder,
           HandleFinished, Finish
    <3> QED BY <3>1 DEF Behind
  <2>2. CASE DiscoverDone
    <3>1. Where[6] = {} BY <2>2, WhereFacts, EmptyFacts DEF DiscoverDone, OrdersOf
    <3> QED BY <3>1
  <2> QED BY <2>1, <2>2 DEF Next
<1> QED BY <1>5, <1>6, <1>7, <1>8, <1>9, <1>10

LEMMA TypeFollows == ASSUME Shape, HeldOnce, Registered, Behind PROVE TypeOK
<1>1. /\ Where[2] \subseteq heard /\ Where[3] \subseteq heard /\ Where[4] \subseteq heard
      /\ Where[5] \subseteq heard /\ Where[6] \subseteq heard /\ Where[7] \subseteq heard
    BY DEF Registered
<1>2. Where[1] \subseteq 1..saves BY DEF HeldOnce, Apart, Places
<1>3. /\ Where[8] \subseteq discovered /\ Where[9] \subseteq discovered
      /\ Where[10] \subseteq discovered /\ Where[11] \subseteq discovered
    BY DEF Behind
<1>4. Range(channel) \subseteq 1..saves /\ Range(newOrders) \cup Range(passed) \subseteq heard
    BY <1>1, <1>2, WhereFacts
<1>5. Range(batch) \subseteq Attempted
  <2>1. Range(batch) \subseteq Attempts BY QueueFacts DEF Shape, StageShape
  <2>2. ASSUME NEW r \in Range(batch) PROVE r.of \in heard BY <1>1, WhereFacts DEF OrdersOf
  <2> QED BY <2>1, <2>2 DEF Attempts, Attempted
<1>6. ASSUME NEW queue \in Queues PROVE Range(retryQueue[queue]) \subseteq Attempted
  <2>1. Range(retryQueue[queue]) \subseteq Retries BY QueueFacts DEF Shape, StageShape
  <2>2. OrdersOf(Range(retryQueue[queue])) \subseteq heard BY <1>1, WhereFacts DEF Queues
  <2>3. ASSUME NEW r \in Range(retryQueue[queue]) PROVE r.of \in heard BY <2>2 DEF OrdersOf
  <2>4. Retries \subseteq Attempts BY UnderwriterAssumption DEF Retries, Attempts
  <2> QED BY <2>1, <2>3, <2>4 DEF Attempts, Attempted
<1>7. pending \subseteq [of : discovered, tries : 1..MaxTries, executed : BOOLEAN]
  <2>1. ASSUME NEW p \in pending PROVE p.of \in discovered BY <1>3, WhereFacts DEF OrdersOf
  <2> QED BY <2>1 DEF Shape, WalletShape, Sent
<1>8. Results \subseteq discovered BY <1>3, WhereFacts DEF Results
<1>9. discovered \subseteq heard BY DEF Registered
<1> QED BY <1>4, <1>5, <1>6, <1>7, <1>8, <1>9
       DEF TypeOK, Shape, StoreShape, AllowanceShape, BalanceShape, ChainShape, Behind

\* Type correctness, and what goes with it: orders anywhere in the pipeline were heard of, those
\* sent to the wallet were discovered, and no order was tried more than maxTries times.
THEOREM TypeCorrect == Spec => []TypeOK
<1>1. Init => Registered /\ Behind BY InitRegistered, InitBehind
<1>2. Shape /\ HeldOnce /\ Registered /\ [Next]_vars => Registered' BY RegisteredNext
<1>3. Shape /\ HeldOnce /\ Behind /\ [Next]_vars => Behind' BY BehindNext
<1>4. Shape /\ HeldOnce /\ Registered /\ Behind => TypeOK BY TypeFollows
<1> QED BY <1>1, <1>2, <1>3, <1>4, HeldInvariant, PTL DEF Spec
=============================================================================
