-------------------------- MODULE WalletWorker_proofs --------------------------
(***************************************************************************)
(* Proofs about WalletWorker, for every number of requests, capacity and   *)
(* number of tries, and for every kind and number of faults.               *)
(***************************************************************************)
EXTENDS WalletWorker, SequenceTheorems, FiniteSetTheorems, WellFoundedInduction, TLAPS

-----------------------------------------------------------------------------
(* Numbers.                                                                *)

LEMMA LessIsWellFounded ==
    \E R : IsWellFoundedOn(R, Nat) /\ \A x, y \in Nat : x < y => <<x, y>> \in R
<1>1. \A x, y \in Nat : x < y => <<x, y>> \in OpToRel(<, Nat)
    BY DEF OpToRel
<1> QED BY <1>1, NatLessThanWellFounded

LEMMA LeastNatural ==
    ASSUME NEW T, T \subseteq Nat, T # {}
    PROVE  \E n \in T : \A m \in T : n <= m
<1>1. PICK R : IsWellFoundedOn(R, Nat) /\ \A x, y \in Nat : x < y => <<x, y>> \in R
    BY LessIsWellFounded
<1>2. IsWellFoundedOn(R, Nat)
    BY <1>1
<1>3. \E n \in T : \A m \in T : ~ (<<m, n>> \in R)
    BY ONLY <1>2, WFMin, T \subseteq Nat, T # {}
<1>4. PICK n \in T : \A m \in T : <<m, n>> \notin R
    BY <1>3
<1>5. \A m \in T : ~(m < n)
    BY <1>1, <1>4
<1>6. \A m \in T : n <= m
    BY <1>5
<1> QED BY <1>6

-----------------------------------------------------------------------------
(* Queues of orders.                                                       *)

Errors == {"none", "nonce", "other", "timeout"}
Orders == [req : Requests, requeue : Nat, tries : Nat, nonce : Nat,
           replaced : BOOLEAN, error : Errors]

OrdersIn(q) == {q[i] : i \in DOMAIN q}

\* No request is in q twice.
Distinct(q) == \A i, j \in DOMAIN q : q[i].req = q[j].req => i = j

\* The orders of P are for earlier requests than those of R, requeued ones aside.
Before(P, R) == \A o \in P, p \in R : o.requeue = 0 /\ p.requeue = 0 => o.req < p.req
Ascending(q) == \A i, j \in DOMAIN q :
    i < j /\ q[i].requeue = 0 /\ q[j].requeue = 0 => q[i].req < q[j].req

LEMMA QueueFacts ==
    ASSUME NEW q \in Seq(Orders)
    PROVE  /\ Len(q) \in Nat /\ DOMAIN q = 1..Len(q)
           /\ \A i \in 1..Len(q) : q[i] \in Orders /\ q[i] \in OrdersIn(q) /\ q[i].req \in ReqsOf(q)
           /\ OrdersIn(q) \subseteq Orders /\ ReqsOf(q) \subseteq Requests
           /\ ReqsOf(q) = {o.req : o \in OrdersIn(q)}
           /\ \A o \in OrdersIn(q) : \E i \in 1..Len(q) : o = q[i]
           /\ q # <<>> => Len(q) > 0 /\ q[1] \in Orders
<1>1. Len(q) \in Nat /\ DOMAIN q = 1..Len(q) /\ \A i \in 1..Len(q) : q[i] \in Orders
    BY LenProperties, ElementOfSeq
<1>2. q # <<>> => Len(q) > 0
    BY <1>1, EmptySeq
<1>3. \A o \in Orders : o.req \in Requests
    BY DEF Orders
<1> HIDE DEF Orders
<1> QED BY <1>1, <1>2, <1>3 DEF OrdersIn, ReqsOf

LEMMA EmptyFacts ==
    /\ <<>> \in Seq(Orders) /\ Len(<<>>) = 0
    /\ OrdersIn(<<>>) = {} /\ ReqsOf(<<>>) = {} /\ Distinct(<<>>) /\ Ascending(<<>>)
<1>1. <<>> \in Seq(Orders) /\ Len(<<>>) = 0 /\ DOMAIN <<>> = {}
    BY EmptySeq, LenProperties
<1> QED BY <1>1 DEF OrdersIn, ReqsOf, Distinct, Ascending

LEMMA SingleFacts ==
    ASSUME NEW o \in Orders
    PROVE  /\ <<o>> \in Seq(Orders) /\ Len(<<o>>) = 1 /\ <<o>>[1] = o /\ <<o>> # <<>>
           /\ OrdersIn(<<o>>) = {o} /\ ReqsOf(<<o>>) = {o.req}
           /\ Distinct(<<o>>) /\ Ascending(<<o>>)
<1>1. <<o>> \in Seq(Orders) /\ Len(<<o>>) = 1 /\ <<o>>[1] = o /\ DOMAIN <<o>> = {1}
    OBVIOUS
<1> HIDE DEF Orders
<1> QED BY <1>1 DEF OrdersIn, ReqsOf, Distinct, Ascending

\* A queue with room for one order.
LEMMA ShortFacts ==
    ASSUME NEW q \in Seq(Orders), Len(q) <= 1, q # <<>>
    PROVE  /\ Len(q) = 1 /\ q[1] \in Orders /\ OrdersIn(q) = {q[1]} /\ ReqsOf(q) = {q[1].req}
<1>1. Len(q) \in Nat /\ Len(q) > 0 /\ q[1] \in Orders /\ DOMAIN q = 1..Len(q)
    BY QueueFacts
<1>2. Len(q) = 1 /\ DOMAIN q = {1}
    BY <1>1
<1> HIDE DEF Orders
<1> QED BY <1>1, <1>2 DEF OrdersIn, ReqsOf

LEMMA AppendFacts ==
    ASSUME NEW q \in Seq(Orders), NEW o \in Orders
    PROVE  /\ Append(q, o) \in Seq(Orders) /\ Len(Append(q, o)) = Len(q) + 1
           /\ OrdersIn(Append(q, o)) = OrdersIn(q) \cup {o}
           /\ ReqsOf(Append(q, o)) = ReqsOf(q) \cup {o.req}
           /\ Distinct(q) /\ o.req \notin ReqsOf(q) => Distinct(Append(q, o))
           /\ Ascending(q) /\ Before(OrdersIn(q), {o}) => Ascending(Append(q, o))
<1> DEFINE s == Append(q, o)
<1>1. /\ s \in Seq(Orders) /\ Len(s) = Len(q) + 1 /\ Len(q) \in Nat
      /\ DOMAIN q = 1..Len(q) /\ DOMAIN s = 1..(Len(q) + 1)
      /\ \A i \in 1..Len(q) : s[i] = q[i]
      /\ s[Len(q) + 1] = o
    BY AppendProperties, LenProperties
<1> HIDE DEF s, Orders
<1>2. OrdersIn(s) = OrdersIn(q) \cup {o} /\ ReqsOf(s) = ReqsOf(q) \cup {o.req}
    BY <1>1 DEF OrdersIn, ReqsOf
<1>3. ASSUME Distinct(q), o.req \notin ReqsOf(q) PROVE Distinct(s)
    BY <1>1, <1>3 DEF Distinct, ReqsOf
<1>4. ASSUME Ascending(q), Before(OrdersIn(q), {o}) PROVE Ascending(s)
    BY <1>1, <1>4 DEF Ascending, Before, OrdersIn
<1> QED BY <1>1, <1>2, <1>3, <1>4 DEF s

LEMMA TailFacts ==
    ASSUME NEW q \in Seq(Orders), q # <<>>
    PROVE  /\ Head(q) = q[1] /\ q[1] \in Orders
           /\ Tail(q) \in Seq(Orders) /\ Len(Tail(q)) = Len(q) - 1
           /\ OrdersIn(q) = {q[1]} \cup OrdersIn(Tail(q))
           /\ ReqsOf(q) = {q[1].req} \cup ReqsOf(Tail(q))
           /\ Distinct(q) => Distinct(Tail(q)) /\ q[1].req \notin ReqsOf(Tail(q))
           /\ Ascending(q) => Ascending(Tail(q)) /\ Before({q[1]}, OrdersIn(Tail(q)))
<1> DEFINE s == Tail(q)
<1>1. /\ Head(q) = q[1] /\ q[1] \in Orders
      /\ s \in Seq(Orders) /\ Len(s) = Len(q) - 1 /\ Len(q) \in Nat /\ Len(q) > 0
      /\ DOMAIN q = 1..Len(q) /\ DOMAIN s = 1..(Len(q) - 1)
      /\ \A i \in 1..(Len(q) - 1) : s[i] = q[i + 1]
    BY HeadTailProperties, LenProperties, QueueFacts
<1> HIDE DEF s, Orders
<1>2. ASSUME NEW i \in 1..Len(q) PROVE i = 1 \/ (i - 1 \in 1..(Len(q) - 1) /\ s[i - 1] = q[i])
    BY <1>1
<1>3. ASSUME NEW i \in 1..(Len(q) - 1) PROVE i + 1 \in 1..Len(q) /\ s[i] = q[i + 1] /\ 1 \in 1..Len(q)
    BY <1>1
<1>4. OrdersIn(q) = {q[1]} \cup OrdersIn(s)
  <2>1. \A i \in DOMAIN q : q[i] \in {q[1]} \cup OrdersIn(s)
      BY <1>1, <1>2 DEF OrdersIn
  <2>2. \A i \in DOMAIN s : s[i] \in OrdersIn(q)
      BY <1>1, <1>3 DEF OrdersIn
  <2>3. q[1] \in OrdersIn(q)
      BY <1>1 DEF OrdersIn
  <2> QED BY <2>1, <2>2, <2>3 DEF OrdersIn
<1>5. ReqsOf(q) = {q[1].req} \cup ReqsOf(s)
    BY <1>1, <1>4, QueueFacts
<1>6. ASSUME Distinct(q) PROVE Distinct(s) /\ q[1].req \notin ReqsOf(s)
  <2>1. ASSUME NEW i \in DOMAIN s, NEW j \in DOMAIN s, s[i].req = s[j].req PROVE i = j
    <3>1. i + 1 = j + 1 BY <1>1, <1>3, <1>6, <2>1 DEF Distinct
    <3> QED BY <3>1, <1>1
  <2>2. ASSUME NEW i \in DOMAIN s, s[i].req = q[1].req PROVE FALSE
    <3>1. i + 1 = 1 BY <1>1, <1>3, <1>6, <2>2 DEF Distinct
    <3> QED BY <3>1, <1>1
  <2> QED BY <2>1, <2>2 DEF Distinct, ReqsOf
<1>7. ASSUME Ascending(q) PROVE Ascending(s) /\ Before({q[1]}, OrdersIn(s))
  <2>1. ASSUME NEW i \in DOMAIN s, NEW j \in DOMAIN s, i < j, s[i].requeue = 0, s[j].requeue = 0
        PROVE  s[i].req < s[j].req
    <3>1. i + 1 < j + 1 BY <1>1, <2>1
    <3>2. i + 1 \in DOMAIN q /\ j + 1 \in DOMAIN q /\ s[i] = q[i + 1] /\ s[j] = q[j + 1]
        BY <1>1, <1>3
    <3> QED BY <3>1, <3>2, <1>7, <2>1 DEF Ascending
  <2>2. ASSUME NEW i \in DOMAIN s, s[i].requeue = 0, q[1].requeue = 0 PROVE q[1].req < s[i].req
    <3>1. 1 < i + 1 BY <1>1
    <3> QED BY <3>1, <1>1, <1>3, <1>7, <2>2 DEF Ascending
  <2> QED BY <2>1, <2>2 DEF Ascending, Before, OrdersIn
<1> QED BY <1>1, <1>4, <1>5, <1>6, <1>7 DEF s

LEMMA ConcatFacts ==
    ASSUME NEW q \in Seq(Orders), NEW s \in Seq(Orders)
    PROVE  /\ q \o s \in Seq(Orders) /\ Len(q \o s) = Len(q) + Len(s)
           /\ OrdersIn(q \o s) = OrdersIn(q) \cup OrdersIn(s)
           /\ ReqsOf(q \o s) = ReqsOf(q) \cup ReqsOf(s)
           /\ Distinct(q) /\ Distinct(s) /\ ReqsOf(q) \cap ReqsOf(s) = {} => Distinct(q \o s)
           /\ Ascending(q) /\ Ascending(s) /\ Before(OrdersIn(q), OrdersIn(s))
                => Ascending(q \o s)
<1> DEFINE c == q \o s
<1>1. /\ c \in Seq(Orders) /\ Len(c) = Len(q) + Len(s) /\ Len(q) \in Nat /\ Len(s) \in Nat
      /\ DOMAIN q = 1..Len(q) /\ DOMAIN s = 1..Len(s) /\ DOMAIN c = 1..(Len(q) + Len(s))
      /\ \A i \in 1..(Len(q) + Len(s)) : c[i] = IF i <= Len(q) THEN q[i] ELSE s[i - Len(q)]
    BY ConcatProperties, LenProperties
<1> HIDE DEF c, Orders
<1>2. ASSUME NEW i \in 1..Len(q) PROVE i \in DOMAIN c /\ c[i] = q[i]
    BY <1>1
<1>3. ASSUME NEW i \in 1..Len(s) PROVE Len(q) + i \in DOMAIN c /\ c[Len(q) + i] = s[i]
  <2>1. /\ Len(q) + i \in 1..(Len(q) + Len(s)) /\ ~(Len(q) + i <= Len(q))
        /\ (Len(q) + i) - Len(q) = i
      BY <1>1
  <2> QED BY <2>1, <1>1
<1>4. ASSUME NEW i \in DOMAIN c
      PROVE  \/ i \in 1..Len(q) /\ c[i] = q[i]
             \/ i > Len(q) /\ i - Len(q) \in 1..Len(s) /\ c[i] = s[i - Len(q)]
  <2>1. CASE i <= Len(q)
      BY <2>1, <1>1
  <2>2. CASE ~(i <= Len(q))
    <3>1. i \in 1..(Len(q) + Len(s)) BY <1>1
    <3>2. i > Len(q) /\ i - Len(q) \in 1..Len(s) BY <2>2, <3>1, <1>1
    <3>3. c[i] = s[i - Len(q)] BY <2>2, <3>1, <1>1
    <3> QED BY <3>2, <3>3
  <2> QED BY <2>1, <2>2
<1>5. OrdersIn(c) = OrdersIn(q) \cup OrdersIn(s)
  <2>1. \A i \in DOMAIN c : c[i] \in OrdersIn(q) \cup OrdersIn(s)
      BY <1>1, <1>4 DEF OrdersIn
  <2>2. \A i \in DOMAIN q : q[i] \in OrdersIn(c)
      BY <1>1, <1>2 DEF OrdersIn
  <2>3. \A i \in DOMAIN s : s[i] \in OrdersIn(c)
      BY <1>1, <1>3 DEF OrdersIn
  <2> QED BY <2>1, <2>2, <2>3 DEF OrdersIn
<1>6. ReqsOf(c) = ReqsOf(q) \cup ReqsOf(s)
    BY <1>1, <1>5, QueueFacts
<1>7. ASSUME Distinct(q), Distinct(s), ReqsOf(q) \cap ReqsOf(s) = {} PROVE Distinct(c)
  <2> SUFFICES ASSUME NEW i \in DOMAIN c, NEW j \in DOMAIN c, c[i].req = c[j].req PROVE i = j
      BY DEF Distinct
  <2>1. \A k \in 1..Len(q) : q[k].req \in ReqsOf(q)
      BY <1>1 DEF ReqsOf
  <2>2. \A k \in 1..Len(s) : s[k].req \in ReqsOf(s)
      BY <1>1 DEF ReqsOf
  <2>3. CASE i \in 1..Len(q) /\ c[i] = q[i]
      BY <2>1, <2>2, <2>3, <1>1, <1>4, <1>7 DEF Distinct
  <2>4. CASE i > Len(q) /\ i - Len(q) \in 1..Len(s) /\ c[i] = s[i - Len(q)]
    <3>1. j > Len(q) /\ j - Len(q) \in 1..Len(s) /\ c[j] = s[j - Len(q)]
        BY <2>1, <2>2, <2>4, <1>4, <1>7
    <3>2. i - Len(q) = j - Len(q)
        BY <3>1, <2>4, <1>1, <1>7 DEF Distinct
    <3> QED BY <3>2, <1>1
  <2> QED BY <2>3, <2>4, <1>4
<1>8. ASSUME Ascending(q), Ascending(s), Before(OrdersIn(q), OrdersIn(s)) PROVE Ascending(c)
  <2> SUFFICES ASSUME NEW i \in DOMAIN c, NEW j \in DOMAIN c, i < j,
                      c[i].requeue = 0, c[j].requeue = 0
               PROVE  c[i].req < c[j].req
      BY DEF Ascending
  <2>1. \A k \in 1..Len(q) : q[k] \in OrdersIn(q)
      BY <1>1 DEF OrdersIn
  <2>2. \A k \in 1..Len(s) : s[k] \in OrdersIn(s)
      BY <1>1 DEF OrdersIn
  <2>3. CASE i \in 1..Len(q) /\ c[i] = q[i]
    <3>1. CASE j \in 1..Len(q) /\ c[j] = q[j]
        BY <2>3, <3>1, <1>1, <1>8 DEF Ascending
    <3>2. CASE j > Len(q) /\ j - Len(q) \in 1..Len(s) /\ c[j] = s[j - Len(q)]
        BY <2>1, <2>2, <2>3, <3>2, <1>8 DEF Before
    <3> QED BY <3>1, <3>2, <1>4
  <2>4. CASE i > Len(q) /\ i - Len(q) \in 1..Len(s) /\ c[i] = s[i - Len(q)]
    <3>1. j > Len(q) /\ j - Len(q) \in 1..Len(s) /\ c[j] = s[j - Len(q)]
        BY <2>4, <1>1, <1>4
    <3>2. i - Len(q) < j - Len(q)
        BY <1>1
    <3> QED BY <3>1, <3>2, <2>4, <1>1, <1>8 DEF Ascending
  <2> QED BY <2>3, <2>4, <1>4
<1> QED BY <1>1, <1>5, <1>6, <1>7, <1>8 DEF c

\* A length is the cut or leaves room behind it.
LEMMA NextOrEqual == \A m, k \in Nat : k <= m => m = k \/ k + 1 <= m
    OBVIOUS

\* Cutting a queue in two.
LEMMA SplitFacts ==
    ASSUME NEW q \in Seq(Orders), NEW n \in 0..Len(q)
    PROVE  LET a == SubSeq(q, 1, n)
               b == SubSeq(q, n + 1, Len(q))
           IN  /\ a \in Seq(Orders) /\ Len(a) = n
               /\ b \in Seq(Orders) /\ Len(b) = Len(q) - n
               /\ OrdersIn(q) = OrdersIn(a) \cup OrdersIn(b)
               /\ ReqsOf(q) = ReqsOf(a) \cup ReqsOf(b)
               /\ Distinct(q) => Distinct(a) /\ Distinct(b) /\ ReqsOf(a) \cap ReqsOf(b) = {}
               /\ Ascending(q) => /\ Ascending(a) /\ Ascending(b)
                                  /\ Before(OrdersIn(a), OrdersIn(b))
<1> DEFINE a == SubSeq(q, 1, n)  b == SubSeq(q, n + 1, Len(q))
<1>1. Len(q) \in Nat /\ DOMAIN q = 1..Len(q) /\ n \in Nat /\ n <= Len(q)
    BY QueueFacts
<1>2. \A i \in 1..n : q[i] \in Orders
    BY <1>1, QueueFacts
<1>3. \A i \in (n + 1)..Len(q) : q[i] \in Orders
    BY <1>1, QueueFacts
<1>4. /\ a \in Seq(Orders) /\ Len(a) = n /\ \A i \in 1..n : a[i] = q[i]
  <2>1. n - 1 + 1 = n /\ \A i \in 1..n : 1 + i - 1 = i BY <1>1
  <2>2. /\ a \in Seq(Orders) /\ Len(a) = (IF 1 <= n THEN n - 1 + 1 ELSE 0)
        /\ \A i \in 1..(n - 1 + 1) : a[i] = q[1 + i - 1]
      BY <1>1, <1>2, SubSeqProperties
  <2> HIDE DEF a
  <2> QED BY <2>1, <2>2, <1>1
<1>5. /\ b \in Seq(Orders) /\ Len(b) = Len(q) - n
      /\ \A i \in 1..(Len(q) - n) : b[i] = q[n + i]
  <2>1. Len(q) - (n + 1) + 1 = Len(q) - n /\ \A i \in 1..(Len(q) - n) : n + 1 + i - 1 = n + i BY <1>1
  <2>2. /\ b \in Seq(Orders)
        /\ Len(b) = (IF n + 1 <= Len(q) THEN Len(q) - (n + 1) + 1 ELSE 0)
        /\ \A i \in 1..(Len(q) - (n + 1) + 1) : b[i] = q[n + 1 + i - 1]
      BY <1>1, <1>3, SubSeqProperties
  <2> HIDE DEF b
  <2>3. Len(b) = Len(q) - n
    <3>1. CASE n + 1 <= Len(q)
        BY <2>1, <2>2, <3>1
    <3>2. CASE Len(q) = n
      <4>1. ~(n + 1 <= Len(q)) /\ Len(q) - n = 0 BY <3>2, <1>1
      <4>2. Len(b) = 0 BY <2>2, <4>1
      <4> QED BY <4>1, <4>2
    <3>3. Len(q) = n \/ n + 1 <= Len(q)
        BY <1>1, NextOrEqual
    <3> QED BY <3>1, <3>2, <3>3
  <2>4. \A i \in 1..(Len(q) - n) : b[i] = q[n + i]
      BY <2>1, <2>2
  <2> QED BY <2>2, <2>3, <2>4
<1>6. DOMAIN a = 1..n /\ DOMAIN b = 1..(Len(q) - n)
    BY <1>4, <1>5, LenProperties
<1> HIDE DEF a, b, Orders
<1>7. ASSUME NEW i \in 1..Len(q)
      PROVE  \/ i \in 1..n
             \/ i - n \in 1..(Len(q) - n) /\ n + (i - n) = i
    BY <1>1
<1>8. ASSUME NEW i \in 1..n PROVE i \in 1..Len(q)
    BY <1>1
<1>9. ASSUME NEW i \in 1..(Len(q) - n) PROVE n + i \in 1..Len(q) /\ n + i > n /\ n + i \notin 1..n
    BY <1>1
<1>10. OrdersIn(q) = OrdersIn(a) \cup OrdersIn(b)
  <2>1. ASSUME NEW i \in DOMAIN q PROVE q[i] \in OrdersIn(a) \cup OrdersIn(b)
    <3>1. CASE i \in 1..n
        BY <3>1, <1>4, <1>6 DEF OrdersIn
    <3>2. CASE i - n \in 1..(Len(q) - n) /\ n + (i - n) = i
      <4>1. b[i - n] = q[i] BY <3>2, <1>5
      <4> QED BY <3>2, <4>1, <1>6 DEF OrdersIn
    <3> QED BY <3>1, <3>2, <1>1, <1>7
  <2>2. \A i \in DOMAIN a : a[i] \in OrdersIn(q)
      BY <1>1, <1>4, <1>6, <1>8 DEF OrdersIn
  <2>3. \A i \in DOMAIN b : b[i] \in OrdersIn(q)
      BY <1>1, <1>5, <1>6, <1>9 DEF OrdersIn
  <2> QED BY <2>1, <2>2, <2>3 DEF OrdersIn
<1>11. ReqsOf(q) = ReqsOf(a) \cup ReqsOf(b)
    BY <1>4, <1>5, <1>10, QueueFacts
<1>12. ASSUME Distinct(q) PROVE Distinct(a) /\ Distinct(b) /\ ReqsOf(a) \cap ReqsOf(b) = {}
  <2>1. Distinct(a)
      BY <1>1, <1>4, <1>6, <1>8, <1>12 DEF Distinct
  <2>2. ASSUME NEW i \in DOMAIN b, NEW j \in DOMAIN b, b[i].req = b[j].req PROVE i = j
    <3>1. n + i = n + j BY <1>1, <1>5, <1>6, <1>9, <1>12, <2>2 DEF Distinct
    <3> QED BY <3>1, <1>1, <1>6
  <2>3. ASSUME NEW i \in DOMAIN a, NEW j \in DOMAIN b, a[i].req = b[j].req PROVE FALSE
    <3>1. i \in 1..Len(q) /\ n + j \in 1..Len(q) /\ n + j \notin 1..n /\ i \in 1..n
        BY <1>6, <1>8, <1>9
    <3>2. q[i].req = q[n + j].req
        BY <1>4, <1>5, <1>6, <2>3
    <3> QED BY <3>1, <3>2, <1>1, <1>12 DEF Distinct
  <2> QED BY <2>1, <2>2, <2>3 DEF Distinct, ReqsOf
<1>13. ASSUME Ascending(q) PROVE Ascending(a) /\ Ascending(b) /\ Before(OrdersIn(a), OrdersIn(b))
  <2>1. Ascending(a)
      BY <1>1, <1>4, <1>6, <1>8, <1>13 DEF Ascending
  <2>2. ASSUME NEW i \in DOMAIN b, NEW j \in DOMAIN b, i < j,
               b[i].requeue = 0, b[j].requeue = 0
        PROVE  b[i].req < b[j].req
    <3>1. n + i < n + j BY <1>1, <1>6, <2>2
    <3> QED BY <3>1, <1>1, <1>5, <1>6, <1>9, <1>13, <2>2 DEF Ascending
  <2>3. ASSUME NEW i \in DOMAIN a, NEW j \in DOMAIN b, a[i].requeue = 0, b[j].requeue = 0
        PROVE  a[i].req < b[j].req
    <3>1. i < n + j BY <1>1, <1>6
    <3>2. i \in 1..Len(q) /\ n + j \in 1..Len(q)
        BY <1>6, <1>8, <1>9
    <3>3. a[i] = q[i] /\ b[j] = q[n + j]
        BY <1>4, <1>5, <1>6
    <3> QED BY <3>1, <3>2, <3>3, <1>1, <1>13, <2>3 DEF Ascending
  <2> QED BY <2>1, <2>2, <2>3 DEF Ascending, Before, OrdersIn
<1> QED BY <1>4, <1>5, <1>10, <1>11, <1>12, <1>13 DEF a, b

-----------------------------------------------------------------------------
(* The orders that are put back.                                           *)

\* One turn of the loop, and the results of its first n turns.
Turn(done, o) == IF ShouldRequeue(o) THEN Append(done, NewOrder(o.req, o.requeue + 1)) ELSE done
IsLoop(F, q, n) == F = [i \in 0..n |-> IF i = 0 THEN <<>> ELSE Turn(F[i - 1], q[i])]

LEMMA LoopExists ==
    ASSUME NEW q, NEW n \in Nat
    PROVE  \E F : IsLoop(F, q, n)
<1> DEFINE T == {m \in Nat : ~\E F : IsLoop(F, q, m)}
<1> SUFFICES ASSUME T # {} PROVE FALSE
    OBVIOUS
<1>1. PICK m \in T : \A k \in T : m <= k
    BY LeastNatural
<1>2. CASE m = 0
  <2> DEFINE F == [i \in 0..0 |-> <<>>]
  <2>1. F = [i \in 0..0 |-> IF i = 0 THEN <<>> ELSE Turn(F[i - 1], q[i])]
      OBVIOUS
  <2> QED BY <2>1, <1>2 DEF IsLoop
<1>3. CASE m # 0
  <2>1. m - 1 \in Nat /\ m - 1 \notin T
      BY <1>1, <1>3
  <2>2. PICK F : IsLoop(F, q, m - 1)
      BY <2>1
  <2> DEFINE G == [i \in 0..m |-> IF i = m THEN Turn(F[m - 1], q[m]) ELSE F[i]]
  <2>3. ASSUME NEW i \in 0..m PROVE G[i] = IF i = 0 THEN <<>> ELSE Turn(G[i - 1], q[i])
    <3>1. CASE i = 0
      <4>1. 0 \in 0..(m - 1) BY <2>1
      <4> QED BY <3>1, <4>1, <1>3, <2>2 DEF IsLoop
    <3>2. CASE i # 0 /\ i # m
      <4>1. i \in 0..(m - 1) /\ i - 1 \in 0..m /\ i - 1 # m BY <3>2, <2>1
      <4>2. F[i] = Turn(F[i - 1], q[i]) BY <4>1, <3>2, <2>2 DEF IsLoop
      <4> QED BY <4>1, <4>2, <3>2
    <3>3. CASE i = m
      <4>1. m - 1 \in 0..m /\ m - 1 # m BY <1>1, <1>3, <2>1
      <4> QED BY <4>1, <3>3, <1>3
    <3> QED BY <3>1, <3>2, <3>3
  <2>4. IsLoop(G, q, m)
    <3>1. G = [i \in 0..m |-> G[i]] OBVIOUS
    <3> HIDE DEF G
    <3> QED BY <2>3, <3>1 DEF IsLoop
  <2> QED BY <2>4, <1>1
<1> QED BY <1>2, <1>3

LEMMA RequeuedIsLoop ==
    ASSUME NEW q \in Seq(Orders)
    PROVE  \E F : IsLoop(F, q, Len(q)) /\ Requeued(q) = F[Len(q)]
<1> DEFINE R(F) == F = [i \in 0..Len(q) |->
                           IF i = 0 THEN <<>>
                           ELSE IF ShouldRequeue(q[i])
                           THEN Append(F[i - 1], NewOrder(q[i].req, q[i].requeue + 1))
                           ELSE F[i - 1]]
           C == CHOOSE F : R(F)
<1>1. ASSUME NEW F PROVE R(F) <=> IsLoop(F, q, Len(q))
    BY DEF IsLoop, Turn
<1>2. Requeued(q) = C[Len(q)]
    BY DEF Requeued
<1>3. \E F : R(F)
  <2>1. Len(q) \in Nat BY QueueFacts
  <2>2. PICK F : IsLoop(F, q, Len(q)) BY <2>1, LoopExists
  <2> HIDE DEF R
  <2> QED BY <2>2, <1>1
<1>4. R(C)
  <2> HIDE DEF R
  <2> QED BY <1>3
<1> HIDE DEF R, C
<1> QED BY <1>1, <1>2, <1>4

LEMMA NewOrderFacts ==
    ASSUME NEW r \in Requests, NEW c \in Nat
    PROVE  /\ NewOrder(r, c) \in Orders
           /\ NewOrder(r, c).req = r /\ NewOrder(r, c).requeue = c /\ NewOrder(r, c).error = "none"
    BY DEF NewOrder, Orders, Errors

LEMMA OrderFields ==
    ASSUME NEW o \in Orders
    PROVE  /\ o.req \in Requests /\ o.requeue \in Nat /\ o.tries \in Nat /\ o.nonce \in Nat
           /\ o.replaced \in BOOLEAN /\ o.error \in Errors
    BY DEF Orders

LEMMA RequeuedFacts ==
    ASSUME NEW q \in Seq(Orders)
    PROVE  /\ Requeued(q) \in Seq(Orders) /\ Len(Requeued(q)) <= Len(q)
           /\ \A o \in OrdersIn(Requeued(q)) : o.requeue > 0
           /\ ReqsOf(Requeued(q)) = {q[j].req : j \in {k \in DOMAIN q : ShouldRequeue(q[k])}}
           /\ Distinct(q) => Distinct(Requeued(q))
<1>1. PICK F : IsLoop(F, q, Len(q)) /\ Requeued(q) = F[Len(q)]
    BY RequeuedIsLoop
<1>2. Len(q) \in Nat /\ DOMAIN q = 1..Len(q) /\ \A i \in 1..Len(q) : q[i] \in Orders
    BY QueueFacts
<1> DEFINE Back(n) == {q[j].req : j \in {k \in 1..n : ShouldRequeue(q[k])}}
           Good(n) == /\ F[n] \in Seq(Orders) /\ Len(F[n]) <= n
                      /\ \A o \in OrdersIn(F[n]) : o.requeue > 0
                      /\ ReqsOf(F[n]) = Back(n)
                      /\ Distinct(q) => Distinct(F[n])
           T == {n \in 0..Len(q) : ~Good(n)}
<1>3. Good(0)
  <2>1. 0 \in 0..Len(q) BY <1>2
  <2>2. F[0] = <<>> BY <1>1, <2>1 DEF IsLoop
  <2>3. Back(0) = {} OBVIOUS
  <2> HIDE DEF Back
  <2>4. F[0] \in Seq(Orders) /\ Len(F[0]) = 0
      BY <2>2, EmptyFacts
  <2>6. OrdersIn(F[0]) = {}
      BY <2>2, EmptyFacts
  <2>7. ReqsOf(F[0]) = {}
      BY <2>2, EmptyFacts
  <2>5. Distinct(F[0])
      BY <2>2, EmptyFacts
  <2> QED BY <2>3, <2>4, <2>5, <2>6, <2>7
<1>4. ASSUME NEW n \in 1..Len(q), Good(n - 1) PROVE Good(n)
  <2>1. F[n] = Turn(F[n - 1], q[n])
    <3>1. n \in 0..Len(q) /\ n # 0 BY <1>2
    <3> QED BY <3>1, <1>1 DEF IsLoop
  <2>2. q[n] \in Orders /\ n \in Nat /\ n \in 1..n /\ \A k \in 1..n : k \in 1..(n - 1) \/ k = n
      BY <1>2
  <2>3. \A k \in 1..(n - 1) : k \in 1..n /\ k # n /\ k \in 1..Len(q) /\ n \in 1..Len(q)
      BY <1>2
  <2>4. CASE ~ShouldRequeue(q[n])
    <3>1. F[n] = F[n - 1] BY <2>1, <2>4 DEF Turn
    <3>2. Back(n) = Back(n - 1) BY <2>2, <2>3, <2>4
    <3>3. Len(F[n - 1]) \in Nat BY <1>4, QueueFacts
    <3> HIDE DEF Back
    <3> QED BY <3>1, <3>2, <3>3, <2>2, <1>4
  <2>5. CASE ShouldRequeue(q[n])
    <3> DEFINE p == NewOrder(q[n].req, q[n].requeue + 1)
    <3>1. F[n] = Append(F[n - 1], p) BY <2>1, <2>5 DEF Turn
    <3>2. Back(n) = Back(n - 1) \cup {q[n].req} BY <2>2, <2>3, <2>5
    <3>3. p \in Orders /\ p.req = q[n].req /\ p.requeue > 0
      <4>1. q[n].req \in Requests /\ q[n].requeue + 1 \in Nat /\ q[n].requeue + 1 > 0
          BY <2>2, OrderFields
      <4> QED BY <4>1, NewOrderFacts
    <3>4. Distinct(q) => q[n].req \notin Back(n - 1)
      <4> SUFFICES ASSUME Distinct(q), NEW j \in 1..(n - 1), q[j].req = q[n].req PROVE FALSE
          OBVIOUS
      <4> QED BY <2>3, <1>2 DEF Distinct
    <3>5. Len(F[n - 1]) \in Nat BY <1>4, QueueFacts
    <3>6. F[n - 1] \in Seq(Orders) BY <1>4
    <3> HIDE DEF Back, p, Orders
    <3>7. /\ F[n] \in Seq(Orders) /\ Len(F[n]) = Len(F[n - 1]) + 1
          /\ OrdersIn(F[n]) = OrdersIn(F[n - 1]) \cup {p}
          /\ ReqsOf(F[n]) = ReqsOf(F[n - 1]) \cup {p.req}
          /\ Distinct(F[n - 1]) /\ p.req \notin ReqsOf(F[n - 1]) => Distinct(F[n])
      <4>1. /\ Append(F[n - 1], p) \in Seq(Orders) /\ Len(Append(F[n - 1], p)) = Len(F[n - 1]) + 1
            /\ OrdersIn(Append(F[n - 1], p)) = OrdersIn(F[n - 1]) \cup {p}
            /\ ReqsOf(Append(F[n - 1], p)) = ReqsOf(F[n - 1]) \cup {p.req}
            /\ Distinct(F[n - 1]) /\ p.req \notin ReqsOf(F[n - 1]) => Distinct(Append(F[n - 1], p))
          BY <3>3, <3>6, AppendFacts
      <4> QED BY <3>1, <4>1
    <3> QED BY <3>2, <3>3, <3>4, <3>5, <3>7, <2>2, <1>4
  <2> QED BY <2>4, <2>5
<1>5. T = {}
  <2> SUFFICES ASSUME T # {} PROVE FALSE
      OBVIOUS
  <2> HIDE DEF Good
  <2>1. T \subseteq Nat BY <1>2
  <2>2. PICK n \in T : \A k \in T : n <= k BY <2>1, LeastNatural
  <2>3. n # 0 /\ n \in 0..Len(q) BY <2>2, <1>3
  <2>4. n \in 1..Len(q) /\ n - 1 \in 0..Len(q) /\ ~(n <= n - 1) BY <2>3, <1>2
  <2>5. Good(n - 1) BY <2>2, <2>4
  <2> QED BY <2>2, <2>4, <2>5, <1>4
<1>6. Good(Len(q))
  <2> HIDE DEF Good
  <2>1. Len(q) \in 0..Len(q) BY <1>2
  <2> QED BY <2>1, <1>5
<1> QED BY <1>1, <1>2, <1>6

\* An order that was rejected is put back or refused.
LEMMA RefusedFacts ==
    ASSUME NEW q \in Seq(Orders)
    PROVE  /\ ReqsOf(q) = ReqsOf(Requeued(q)) \cup Refused(q)
           /\ Distinct(q) => ReqsOf(Requeued(q)) \cap Refused(q) = {}
    BY RequeuedFacts DEF Refused, ReqsOf, Distinct

-----------------------------------------------------------------------------
(* Types, and what each pc says of the queues.                             *)

Answers == {"confirmed", "submissionFailed", "rejected", "cancelled", "crashed"}
Kinds == {"original", "replacement", "cancel", "foreign"}
Transactions == [nonce : Nat, req : 0..NumRequests, requeue : Nat, kind : Kinds]
MinedTxs == [tx : Transactions, ok : BOOLEAN]

ServiceShape == requested \in 0..NumRequests /\ replies \in [Requests -> Seq(Answers)]

SubmitShape ==
    /\ newRequests \in Seq(Orders)
    /\ submitNew \in Seq(Orders) /\ submitRetry \in Seq(Orders)
    /\ submitted \in Seq(Orders) /\ invalid \in Seq(Orders)
    /\ Len(submitRetry) <= 1

ConfirmShape ==
    /\ confirmNew \in Seq(Orders) /\ confirmRetry \in Seq(Orders) /\ awaited \in Seq(Orders)
    /\ confirmed \in Seq(Orders) /\ rejected \in Seq(Orders) /\ unconfirmed \in Seq(Orders)
    /\ Len(confirmRetry) + Len(awaited) <= 1

\* handleUnconfirmedTransactions blocks the loop until nothing is left to cancel.
CancelShape ==
    /\ cancelling \in Seq(Orders)
    /\ pc \in {"requests", "submitRetry", "submitNew", "confirmRetry", "confirmNew"}
          => cancelling = <<>>
    /\ pc \in {"cancelSend", "cancelWait", "stalled"} => cancelling # <<>>

\* What is in the pool can still be mined.
ChainShape ==
    /\ nonce \in Nat /\ forgotten \in BOOLEAN
    /\ pool \in SUBSET Transactions /\ IsFiniteSet(pool)
    /\ mined \in Seq(MinedTxs)
    /\ \A tx \in pool : tx.nonce >= latestNonce
    /\ \A i \in 1..latestNonce : mined[i].tx.nonce = i - 1

Shape == ServiceShape /\ SubmitShape /\ ConfirmShape /\ CancelShape /\ ChainShape

LEMMA LatestFacts ==
    ASSUME ChainShape
    PROVE  /\ latestNonce \in Nat /\ DOMAIN mined = 1..latestNonce
           /\ \A i \in 1..latestNonce : mined[i].tx \in Transactions /\ mined[i].ok \in BOOLEAN
           /\ \A n \in Nat : n < latestNonce => n + 1 \in 1..latestNonce /\ mined[n + 1].tx.nonce = n
<1>1. latestNonce \in Nat /\ DOMAIN mined = 1..latestNonce
    BY LenProperties DEF ChainShape, latestNonce
<1>2. \A i \in 1..latestNonce : mined[i] \in MinedTxs
    BY ElementOfSeq DEF ChainShape, latestNonce
<1>3. \A i \in 1..latestNonce : mined[i].tx \in Transactions /\ mined[i].ok \in BOOLEAN
  <2> HIDE DEF Transactions
  <2> QED BY <1>2 DEF MinedTxs
<1>4. ASSUME NEW n \in Nat, n < latestNonce
      PROVE  n + 1 \in 1..latestNonce /\ mined[n + 1].tx.nonce = n
  <2>1. n + 1 \in 1..latestNonce /\ (n + 1) - 1 = n BY <1>1, <1>4
  <2> QED BY <2>1 DEF ChainShape
<1> QED BY <1>1, <1>3, <1>4

\* There is always a first nonce no transaction is known for.
LEMMA PendingFacts ==
    ASSUME ChainShape
    PROVE  /\ pendingNonce \in Nat /\ pendingNonce >= latestNonce
           /\ Pooled(pendingNonce) = {}
           /\ \A m \in latestNonce..(pendingNonce - 1) : Pooled(m) # {}
<1> DEFINE l == latestNonce  k == Cardinality(pool)  N == {tx.nonce : tx \in pool}
           T == {n \in l..(l + k) : Pooled(n) = {}}
           P(n) == Pooled(n) = {} /\ \A m \in l..(n - 1) : Pooled(m) # {}
<1>1. l \in Nat /\ k \in Nat
    BY LatestFacts, FS_CardinalityType DEF ChainShape
<1>2. IsFiniteSet(N) /\ Cardinality(N) <= k
  <2>1. [tx \in pool |-> tx.nonce] \in Surjection(pool, N)
      BY DEF Surjection
  <2> QED BY <2>1, FS_Surjection DEF ChainShape
<1> HIDE DEF l, k
<1>3. T # {}
  <2> SUFFICES ASSUME T = {} PROVE FALSE
      OBVIOUS
  <2>1. \A n \in l..(l + k) : n \in N
      BY DEF Pooled
  <2> HIDE DEF N
  <2>2. l..(l + k) \in SUBSET N
      BY <2>1
  <2>3. Cardinality(l..(l + k)) <= Cardinality(N)
      BY <2>2, <1>2, FS_Subset
  <2>4. Cardinality(l..(l + k)) = k + 1
    <3>1. ~(l > l + k) /\ (l + k) - l + 1 = k + 1 BY <1>1
    <3> QED BY <3>1, <1>1, FS_Interval
  <2>5. Cardinality(N) \in Nat
      BY <1>2, FS_CardinalityType
  <2> QED BY <2>3, <2>4, <2>5, <1>1, <1>2
<1>4. PICK n \in T : \A m \in T : n <= m
  <2>1. T \subseteq Nat BY <1>1
  <2> HIDE DEF T
  <2> QED BY <2>1, <1>3, LeastNatural
<1>5. n \in l..(l + k) /\ P(n)
  <2>1. n \in l..(l + k) /\ Pooled(n) = {} BY <1>4
  <2>2. ASSUME NEW m \in l..(n - 1) PROVE Pooled(m) # {}
    <3>1. m \in l..(l + k) /\ ~(n <= m) BY <1>1, <2>1
    <3>2. m \notin T BY <1>4, <3>1
    <3> QED BY <3>1, <3>2
  <2> QED BY <2>1, <2>2
<1>6. pendingNonce = CHOOSE m \in l..(l + k) : P(m)
    BY DEF pendingNonce, l, k
<1>7. pendingNonce \in l..(l + k) /\ P(pendingNonce)
  <2> HIDE DEF P
  <2> QED BY <1>5, <1>6
<1> QED BY <1>1, <1>7 DEF l

-----------------------------------------------------------------------------
(* The steps.                                                              *)

queueVars == <<serviceVars, newRequests, submitVars, confirmVars, cancelling>>

\* An order that was cancelled, or whose nonce was used, is answered.
Finished ==
    /\ cancelling # <<>> /\ Cancelled
    /\ UNCHANGED <<requested, newRequests, submitVars, confirmVars, chainVars, nonce>>

LEMMA QueueSteps ==
    ASSUME Shape, [Next]_vars
    PROVE  \/ AddTransaction \/ ProcessNewRequestsQueue
           \/ SubmitRetry \/ SubmitNext \/ SubmitDone
           \/ ConfirmRetry \/ ConfirmNext \/ Settle \/ ConfirmDone
           \/ Finished \/ Crash
           \/ UNCHANGED queueVars
<1>1. CASE UNCHANGED vars BY <1>1 DEF vars, queueVars, cancelVars
<1>2. CASE Mine \/ Drop \/ ForeignTransaction
  BY <1>2 DEF Mine, Drop, ForeignTransaction, queueVars, cancelVars
<1>3. CASE SkipSubmitRetry \/ SkipConfirmRetry \/ LoopAgain
  BY <1>3 DEF SkipSubmitRetry, SkipConfirmRetry, LoopAgain, queueVars, cancelVars
<1>4. CASE CancelCheck
  BY <1>4 DEF CancelCheck, CancelFails, Finished, queueVars, cancelVars, serviceVars
<1>5. CASE CancelSend
  BY <1>5 DEF CancelSend, CancelFails, queueVars, cancelVars, serviceVars
<1>6. CASE CancelWait
  BY <1>6 DEF CancelWait, CancelFails, Finished, queueVars, cancelVars, serviceVars, Shape, CancelShape
<1>7. CASE StallResolved
  BY <1>7 DEF StallResolved, Finished, Shape, CancelShape
<1> QED BY <1>1, <1>2, <1>3, <1>4, <1>5, <1>6, <1>7 DEF Next, Loop

LEMMA ServiceSteps ==
    ASSUME Shape, [Next]_vars
    PROVE  \/ AddTransaction \/ SubmitDone \/ ConfirmDone \/ Finished \/ Crash
           \/ UNCHANGED serviceVars
<1>1. CASE UNCHANGED queueVars BY <1>1 DEF queueVars
<1>2. CASE ProcessNewRequestsQueue \/ SubmitRetry \/ SubmitNext
  BY <1>2 DEF ProcessNewRequestsQueue, SubmitRetry, SubmitNext
<1>3. CASE ConfirmRetry \/ ConfirmNext \/ Settle
  BY <1>3 DEF ConfirmRetry, ConfirmNext, Settle
<1> QED BY <1>1, <1>2, <1>3, QueueSteps

LEMMA SubmitSteps ==
    ASSUME Shape, [Next]_vars
    PROVE  \/ AddTransaction \/ ProcessNewRequestsQueue
           \/ SubmitRetry \/ SubmitNext \/ SubmitDone \/ ConfirmDone \/ Crash
           \/ UNCHANGED <<newRequests, submitVars>>
<1>1. CASE UNCHANGED queueVars BY <1>1 DEF queueVars
<1>2. CASE ConfirmRetry \/ ConfirmNext \/ Settle \/ Finished
  BY <1>2 DEF ConfirmRetry, ConfirmNext, Settle, Finished
<1> QED BY <1>1, <1>2, QueueSteps

LEMMA ConfirmSteps ==
    ASSUME Shape, [Next]_vars
    PROVE  \/ SubmitDone \/ ConfirmRetry \/ ConfirmNext \/ Settle \/ ConfirmDone \/ Crash
           \/ UNCHANGED confirmVars
<1>1. CASE UNCHANGED queueVars BY <1>1 DEF queueVars
<1>2. CASE AddTransaction \/ ProcessNewRequestsQueue \/ SubmitRetry \/ SubmitNext \/ Finished
  BY <1>2 DEF AddTransaction, ProcessNewRequestsQueue, SubmitRetry, SubmitNext, Finished
<1> QED BY <1>1, <1>2, QueueSteps

\* What the network holds only changes when somebody sends, or the network acts.
LEMMA ChainSteps ==
    ASSUME Shape, [Next]_vars
    PROVE  \/ SubmitRetry \/ SubmitNext \/ ConfirmRetry \/ CancelSend
           \/ Mine \/ Drop \/ ForeignTransaction \/ Crash
           \/ UNCHANGED <<chainVars, nonce>>
<1>1. CASE UNCHANGED vars BY <1>1 DEF vars
<1>2. CASE AddTransaction \/ ProcessNewRequestsQueue \/ SkipSubmitRetry \/ SubmitDone
  BY <1>2 DEF AddTransaction, ProcessNewRequestsQueue, SkipSubmitRetry, SubmitDone
<1>3. CASE SkipConfirmRetry \/ ConfirmNext \/ Settle \/ ConfirmDone
  BY <1>3 DEF SkipConfirmRetry, ConfirmNext, Settle, ConfirmDone
<1>4. CASE CancelCheck \/ CancelWait \/ StallResolved \/ LoopAgain
  BY <1>4 DEF CancelCheck, CancelWait, StallResolved, LoopAgain
<1> QED BY <1>1, <1>2, <1>3, <1>4 DEF Next, Loop

-----------------------------------------------------------------------------
(* Orders on their way through the queues.                                 *)

\* Two records of one order with one nonce.
SameOrder(o, p) == p.req = o.req /\ p.requeue = o.requeue /\ p.nonce = o.nonce

\* The order that SubmitRetry and SubmitNext submit.
Taken == IF pc = "submitRetry" THEN [submitRetry[1] EXCEPT !.tries = @ + 1] ELSE submitNew[1]

LEMMA TakenFacts ==
    ASSUME Shape, SubmitRetry \/ SubmitNext
    PROVE  /\ Taken \in Orders /\ Submit(Taken)
           /\ SubmitRetry => submitRetry[1] \in Orders /\ SameOrder(submitRetry[1], Taken)
           /\ SubmitNext => Taken = submitNew[1]
           /\ UNCHANGED <<newRequests, confirmVars, cancelling, requested, replies, mined, forgotten>>
<1>1. CASE SubmitRetry
  <2>1. submitRetry[1] \in Orders
      BY <1>1, QueueFacts DEF SubmitRetry, Shape, SubmitShape
  <2>2. /\ [submitRetry[1] EXCEPT !.tries = @ + 1] \in Orders
        /\ SameOrder(submitRetry[1], [submitRetry[1] EXCEPT !.tries = @ + 1])
      BY <2>1 DEF Orders, SameOrder
  <2> QED BY <1>1, <2>1, <2>2 DEF SubmitRetry, SubmitNext, Taken, serviceVars, cancelVars
<1>2. CASE SubmitNext
  <2>1. submitNew[1] \in Orders /\ Head(submitNew) = submitNew[1]
      BY <1>2, TailFacts DEF SubmitNext, Shape, SubmitShape
  <2> QED BY <1>2, <2>1 DEF SubmitRetry, SubmitNext, Taken, serviceVars, cancelVars
<1> QED BY <1>1, <1>2

\* Where it goes: it is submitted, it waits to be tried again, or it is given up.
LEMMA SubmitFacts ==
    ASSUME Shape, NEW o \in Orders, Submit(o)
    PROVE  LET sent == [o EXCEPT !.nonce = nonce, !.tries = 0] IN
           /\ sent \in Orders /\ sent.req = o.req /\ sent.requeue = o.requeue /\ sent.nonce = nonce
           /\ \/ /\ submitted' = Append(submitted, sent) /\ submitRetry' = <<>>
                 /\ invalid' = invalid /\ nonce' = nonce + 1 /\ Accepts(Tx(sent, "original"))
              \/ /\ submitted' = submitted /\ submitRetry' = <<o>>
                 /\ invalid' = invalid /\ nonce' = pendingNonce /\ pool' = pool
              \/ /\ submitted' = submitted /\ submitRetry' = <<>>
                 /\ invalid' = Append(invalid, o) /\ nonce' \in {nonce, pendingNonce}
                 /\ pool' = pool
              \/ /\ submitted' = submitted /\ submitRetry' = <<>>
                 /\ invalid' = Append(invalid, o) /\ nonce' = nonce
                 /\ Accepts(Tx(sent, "original"))
<1> DEFINE sent == [o EXCEPT !.nonce = nonce, !.tries = 0]
<1>1. sent \in Orders /\ sent.req = o.req /\ sent.requeue = o.requeue /\ sent.nonce = nonce
    BY DEF Orders, Shape, ChainShape
<1> HIDE DEF Orders
<1> QED BY <1>1 DEF Submit, SendFails

\* Where an order goes whose transaction is not confirmed.
LEMMA ConfirmFailsFacts ==
    ASSUME NEW o \in Orders, NEW error \in Errors, ConfirmFails(o, error)
    PROVE  \E p \in Orders :
              /\ SameOrder(o, p) /\ confirmed' = confirmed
              /\ \/ /\ unconfirmed' = Append(unconfirmed, p) /\ confirmRetry' = <<>>
                    /\ rejected' = rejected
                 \/ /\ rejected' = Append(rejected, p) /\ confirmRetry' = <<>>
                    /\ unconfirmed' = unconfirmed /\ p.error = error
                 \/ /\ confirmRetry' = <<p>>
                    /\ unconfirmed' = unconfirmed /\ rejected' = rejected
<1> DEFINE p == [o EXCEPT !.error = error]
<1>1. p \in Orders /\ SameOrder(o, p) /\ p.error = error /\ SameOrder(o, o)
    BY DEF Orders, SameOrder
<1> HIDE DEF Orders, p
<1>2. CASE o.tries >= MaxTries - 1
    BY <1>1, <1>2 DEF ConfirmFails
<1>3. CASE ~(o.tries >= MaxTries - 1) /\ o.tries = 0 /\ error # "timeout"
    BY <1>1, <1>3 DEF ConfirmFails, p
<1>4. CASE ~(o.tries >= MaxTries - 1) /\ ~(o.tries = 0 /\ error # "timeout")
    BY <1>1, <1>4 DEF ConfirmFails
<1> QED BY <1>2, <1>3, <1>4

WentThrough(o) ==
    o.nonce < latestNonce /\ mined[o.nonce + 1].ok /\ mined[o.nonce + 1].tx \in OwnTx(o)
LostNonce(o) == o.nonce < latestNonce /\ mined[o.nonce + 1].tx.req # o.req

\* p is not waited for any more: it is retried, rejected or given up.
NotConfirmed(p) ==
    /\ awaited' = <<>> /\ confirmed' = confirmed
    /\ \/ /\ unconfirmed' = Append(unconfirmed, p) /\ confirmRetry' = <<>>
          /\ rejected' = rejected
       \/ /\ rejected' = Append(rejected, p) /\ confirmRetry' = <<>>
          /\ unconfirmed' = unconfirmed /\ (p.error = "nonce" => LostNonce(p))
       \/ /\ confirmRetry' = <<p>>
          /\ unconfirmed' = unconfirmed /\ rejected' = rejected

LEMMA ConfirmRetryFacts ==
    ASSUME Shape, ConfirmRetry
    PROVE  /\ confirmRetry # <<>> /\ confirmRetry[1] \in Orders /\ awaited = <<>>
           /\ UNCHANGED <<serviceVars, newRequests, submitVars, confirmNew, nonce, cancelling,
                          mined, forgotten>>
           /\ \E p \in Orders :
                 /\ SameOrder(confirmRetry[1], p)
                 /\ pool' = pool \/ Accepts(Tx(p, "replacement"))
                 /\ \/ /\ awaited' = <<p>> /\ confirmRetry' = <<>>
                       /\ UNCHANGED <<confirmed, rejected, unconfirmed>>
                    \/ NotConfirmed(p)
<1> DEFINE q == confirmRetry[1]  o == [q EXCEPT !.tries = @ + 1]
<1>1. confirmRetry # <<>> /\ q \in Orders /\ awaited = <<>>
  <2>1. confirmRetry # <<>> BY DEF ConfirmRetry
  <2>2. /\ q \in Orders /\ Len(confirmRetry) = 1 /\ Len(awaited) \in Nat
        /\ awaited # <<>> => Len(awaited) > 0
      BY <2>1, QueueFacts, ShortFacts DEF Shape, ConfirmShape
  <2> QED BY <2>1, <2>2 DEF Shape, ConfirmShape
<1>2. o \in Orders /\ SameOrder(q, o) /\ o.tries = q.tries + 1
    BY <1>1 DEF Orders, SameOrder
<1>3. [o EXCEPT !.replaced = TRUE] \in Orders /\ SameOrder(o, [o EXCEPT !.replaced = TRUE])
    BY <1>2 DEF Orders, SameOrder
<1>4. Reprice(o) /\ UNCHANGED <<serviceVars, newRequests, submitVars, confirmNew, nonce,
                                 cancelVars, mined, forgotten>>
    BY DEF ConfirmRetry
<1> HIDE DEF o, q, Orders
<1>5. CASE /\ o.replaced \/ Accepts(Tx(o, "replacement"))
           /\ o.replaced => UNCHANGED pool
           /\ awaited' = <<[o EXCEPT !.replaced = TRUE]>>
           /\ confirmRetry' = <<>>
           /\ UNCHANGED <<confirmed, rejected, unconfirmed, faults>>
  <2> DEFINE p == [o EXCEPT !.replaced = TRUE]
  <2>1. Tx(p, "replacement") = Tx(o, "replacement") BY <1>3 DEF Tx, SameOrder
  <2>2. p \in Orders /\ SameOrder(q, p) BY <1>2, <1>3 DEF SameOrder
  <2> HIDE DEF p
  <2>3. pool' = pool \/ Accepts(Tx(p, "replacement")) BY <1>5, <2>1
  <2>4. awaited' = <<p>> BY <1>5 DEF p
  <2> QED BY <1>1, <1>4, <1>5, <2>2, <2>3, <2>4 DEF cancelVars, q
<1>6. CASE /\ \/ NonceError(o.nonce) /\ UNCHANGED <<pool, faults>>
              \/ SendFails(Tx(o, "replacement"))
           /\ ConfirmFails(o, "other")
           /\ UNCHANGED awaited
  <2>1. pool' = pool \/ Accepts(Tx(o, "replacement"))
      BY <1>6 DEF SendFails
  <2>2. PICK p \in Orders :
              /\ SameOrder(o, p) /\ confirmed' = confirmed
              /\ \/ /\ unconfirmed' = Append(unconfirmed, p) /\ confirmRetry' = <<>>
                    /\ rejected' = rejected
                 \/ /\ rejected' = Append(rejected, p) /\ confirmRetry' = <<>>
                    /\ unconfirmed' = unconfirmed /\ p.error = "other"
                 \/ /\ confirmRetry' = <<p>>
                    /\ unconfirmed' = unconfirmed /\ rejected' = rejected
      BY <1>2, <1>6, ConfirmFailsFacts DEF Errors
  <2>3. SameOrder(q, p) /\ Tx(p, "replacement") = Tx(o, "replacement")
      BY <1>2, <2>2 DEF Tx, SameOrder
  <2>4. NotConfirmed(p)
      BY <1>1, <1>6, <2>2 DEF NotConfirmed
  <2> QED BY <1>1, <1>4, <2>1, <2>3, <2>4 DEF cancelVars, q
<1> QED BY <1>4, <1>5, <1>6 DEF Reprice

LEMMA ConfirmNextFacts ==
    ASSUME Shape, ConfirmNext
    PROVE  /\ confirmNew # <<>> /\ awaited = <<>> /\ confirmRetry = <<>>
           /\ awaited' = <<confirmNew[1]>> /\ confirmNew' = Tail(confirmNew)
           /\ confirmNew[1] \in Orders
           /\ UNCHANGED <<serviceVars, newRequests, submitVars, confirmRetry, confirmed,
                          rejected, unconfirmed, nonce, cancelling, chainVars>>
<1>1. confirmNew # <<>> BY DEF ConfirmNext
<1>2. Head(confirmNew) = confirmNew[1] /\ confirmNew[1] \in Orders
    BY <1>1, TailFacts DEF Shape, ConfirmShape
<1> QED BY <1>2 DEF ConfirmNext, ConfirmRoom, cancelVars

LEMMA SettleFacts ==
    ASSUME Shape, Settle
    PROVE  /\ awaited # <<>> /\ awaited[1] \in Orders /\ confirmRetry = <<>>
           /\ UNCHANGED <<serviceVars, newRequests, submitVars, confirmNew, nonce, cancelling,
                          chainVars>>
           /\ \E p \in Orders :
                 /\ SameOrder(awaited[1], p)
                 /\ \/ /\ confirmed' = Append(confirmed, p) /\ WentThrough(p)
                       /\ awaited' = <<>> /\ confirmRetry' = <<>>
                       /\ UNCHANGED <<rejected, unconfirmed>>
                    \/ NotConfirmed(p)
<1> DEFINE o == awaited[1]
<1>1. awaited # <<>> /\ o \in Orders /\ confirmRetry = <<>>
  <2>1. awaited # <<>> BY DEF Settle
  <2>2. /\ o \in Orders /\ Len(awaited) = 1 /\ Len(confirmRetry) \in Nat
        /\ confirmRetry # <<>> => Len(confirmRetry) > 0
      BY <2>1, QueueFacts, ShortFacts DEF Shape, ConfirmShape
  <2> QED BY <2>1, <2>2 DEF Shape, ConfirmShape
<1>2. /\ awaited' = <<>>
      /\ UNCHANGED <<serviceVars, newRequests, submitVars, confirmNew, nonce, cancelling,
                          chainVars>>
    BY DEF Settle, cancelVars
<1>3. \/ /\ WentThrough(o) /\ confirmed' = Append(confirmed, o)
         /\ UNCHANGED <<confirmRetry, rejected, unconfirmed>>
      \/ ConfirmFails(o, "other") \/ ConfirmFails(o, "timeout")
      \/ LostNonce(o) /\ ConfirmFails(o, "nonce")
    BY DEF Settle, WentThrough, LostNonce
<1> HIDE DEF o, Orders
<1>4. CASE /\ WentThrough(o) /\ confirmed' = Append(confirmed, o)
           /\ UNCHANGED <<confirmRetry, rejected, unconfirmed>>
    BY <1>1, <1>2, <1>4 DEF SameOrder, o
<1>5. ASSUME NEW error \in Errors, ConfirmFails(o, error), error = "nonce" => LostNonce(o)
      PROVE  \E p \in Orders : SameOrder(o, p) /\ NotConfirmed(p)
  <2>1. PICK p \in Orders :
              /\ SameOrder(o, p) /\ confirmed' = confirmed
              /\ \/ /\ unconfirmed' = Append(unconfirmed, p) /\ confirmRetry' = <<>>
                    /\ rejected' = rejected
                 \/ /\ rejected' = Append(rejected, p) /\ confirmRetry' = <<>>
                    /\ unconfirmed' = unconfirmed /\ p.error = error
                 \/ /\ confirmRetry' = <<p>>
                    /\ unconfirmed' = unconfirmed /\ rejected' = rejected
      BY <1>1, <1>5, ConfirmFailsFacts
  <2>2. LostNonce(o) => LostNonce(p)
      BY <2>1 DEF LostNonce, SameOrder
  <2> QED BY <1>2, <1>5, <2>1, <2>2 DEF NotConfirmed
<1>6. {"other", "timeout", "nonce"} \subseteq Errors BY DEF Errors
<1>7. CASE \E p \in Orders : SameOrder(o, p) /\ NotConfirmed(p)
    BY <1>1, <1>2, <1>7 DEF o
<1>8. CASE ConfirmFails(o, "other") BY <1>5, <1>6, <1>7, <1>8
<1>9. CASE ConfirmFails(o, "timeout") BY <1>5, <1>6, <1>7, <1>9
<1>10. CASE LostNonce(o) /\ ConfirmFails(o, "nonce") BY <1>5, <1>6, <1>7, <1>10
<1> QED BY <1>3, <1>4, <1>8, <1>9, <1>10

-----------------------------------------------------------------------------
(* The shape is kept.                                                      *)

LEMMA NextServiceShape == Shape /\ [Next]_vars => ServiceShape'
<1> SUFFICES ASSUME Shape, [Next]_vars PROVE ServiceShape'
    OBVIOUS
<1>1. ASSUME NEW how \in Answers, NEW r \in Requests
      PROVE  Append(replies[r], how) \in Seq(Answers) /\ replies[r] \in Seq(Answers)
    BY AppendProperties DEF Shape, ServiceShape
<1>2. <<"crashed">> \in Seq(Answers) /\ {"confirmed", "submissionFailed", "rejected", "cancelled"}
                                        \subseteq Answers
    BY DEF Answers
<1> HIDE DEF Answers
<1>3. ASSUME NEW orders, NEW how \in Answers, SendResults(orders, how), requested' = requested
      PROVE  ServiceShape'
    BY <1>1, <1>3 DEF SendResults, Shape, ServiceShape
<1>4. CASE AddTransaction
    BY <1>4, WalletAssumption DEF AddTransaction, Shape, ServiceShape
<1>5. CASE SubmitDone
    BY <1>2, <1>3, <1>5 DEF SubmitDone
<1>6. CASE ConfirmDone
    BY <1>1, <1>2, <1>6 DEF ConfirmDone, Shape, ServiceShape
<1>7. CASE Finished
    BY <1>2, <1>3, <1>7 DEF Finished, Cancelled
<1>8. CASE Crash
    BY <1>2, <1>8 DEF Crash, Shape, ServiceShape
<1>9. CASE UNCHANGED serviceVars
    BY <1>9 DEF Shape, ServiceShape, serviceVars
<1> QED BY <1>4, <1>5, <1>6, <1>7, <1>8, <1>9, ServiceSteps

\* How much of the request queue there is room for.
LEMMA RoomFacts ==
    ASSUME Shape, ProcessNewRequestsQueue
    PROVE  \E n \in 0..Len(newRequests) :
              /\ n <= getWalletCapacity
              /\ submitNew' = submitNew \o SubSeq(newRequests, 1, n)
              /\ newRequests' = SubSeq(newRequests, n + 1, Len(newRequests))
              /\ cancelling = <<>>
              /\ UNCHANGED <<serviceVars, submitRetry, submitted, invalid, confirmVars, nonce,
                             cancelling, chainVars>>
<1>1. /\ Len(newRequests) \in Nat /\ Len(submitNew) \in Nat /\ Len(submitRetry) \in Nat
      /\ Len(submitted) \in Nat /\ Len(invalid) \in Nat
      /\ Len(confirmNew) \in Nat /\ Len(confirmRetry) \in Nat /\ Len(awaited) \in Nat
      /\ Len(confirmed) \in Nat /\ Len(rejected) \in Nat /\ Len(unconfirmed) \in Nat
    BY QueueFacts DEF Shape, SubmitShape, ConfirmShape
<1>2. getWalletCapacity \in Nat
    BY <1>1, WalletAssumption DEF getWalletCapacity, submitSize, confirmSize
<1> DEFINE n == IF Len(newRequests) < getWalletCapacity THEN Len(newRequests) ELSE getWalletCapacity
<1>3. n \in 0..Len(newRequests) /\ n <= getWalletCapacity
    BY <1>1, <1>2
<1>4. /\ submitNew' = submitNew \o SubSeq(newRequests, 1, n)
      /\ newRequests' = SubSeq(newRequests, n + 1, Len(newRequests))
      /\ UNCHANGED <<serviceVars, submitRetry, submitted, invalid, confirmVars, nonce,
                     cancelling, chainVars>>
    BY DEF ProcessNewRequestsQueue, cancelVars
<1>5. cancelling = <<>>
    BY DEF ProcessNewRequestsQueue, Shape, CancelShape
<1> HIDE DEF n
<1> QED BY <1>3, <1>4, <1>5

LEMMA NextSubmitShape == Shape /\ [Next]_vars => SubmitShape'
<1> SUFFICES ASSUME Shape, [Next]_vars PROVE SubmitShape'
    OBVIOUS
<1> USE DEF SubmitShape
<1>1. SubmitShape BY DEF Shape
<1>2. /\ <<>> \in Seq(Orders) /\ Len(<<>>) <= 1
      /\ \A o \in Orders : <<o>> \in Seq(Orders) /\ Len(<<o>>) <= 1
    BY EmptyFacts, SingleFacts
<1>3. CASE AddTransaction
  <2>1. requested + 1 \in Requests /\ 0 \in Nat
      BY <1>3, WalletAssumption DEF AddTransaction, Shape, ServiceShape, Requests
  <2>2. NewOrder(requested + 1, 0) \in Orders
      BY <2>1, NewOrderFacts
  <2> QED BY <2>2, <1>1, <1>3, AppendFacts DEF AddTransaction, submitVars
<1>4. CASE ProcessNewRequestsQueue
  <2>1. PICK n \in 0..Len(newRequests) :
              /\ submitNew' = submitNew \o SubSeq(newRequests, 1, n)
              /\ newRequests' = SubSeq(newRequests, n + 1, Len(newRequests))
              /\ UNCHANGED <<submitRetry, submitted, invalid>>
      BY <1>4, RoomFacts
  <2> DEFINE a == SubSeq(newRequests, 1, n)  b == SubSeq(newRequests, n + 1, Len(newRequests))
  <2>2. a \in Seq(Orders) /\ b \in Seq(Orders)
      BY <1>1, SplitFacts
  <2>3. submitNew' = submitNew \o a /\ newRequests' = b
      BY <2>1
  <2> HIDE DEF a, b
  <2> QED BY <1>1, <2>1, <2>2, <2>3, ConcatFacts
<1>5. CASE SubmitRetry \/ SubmitNext
  <2> DEFINE o == Taken  sent == [Taken EXCEPT !.nonce = nonce, !.tries = 0]
  <2>1. o \in Orders /\ Submit(o) /\ newRequests' = newRequests
      BY <1>5, TakenFacts
  <2>2. sent \in Orders
      BY <2>1, SubmitFacts
  <2>3. /\ submitted' \in {submitted, Append(submitted, sent)}
        /\ invalid' \in {invalid, Append(invalid, o)}
        /\ submitRetry' \in {<<>>, <<o>>}
      BY <2>1, SubmitFacts
  <2>4. submitNew' \in Seq(Orders)
    <3>1. CASE SubmitRetry BY <1>1, <3>1 DEF SubmitRetry
    <3>2. CASE SubmitNext BY <1>1, <3>2, TailFacts DEF SubmitNext
    <3> QED BY <1>5, <3>1, <3>2
  <2>5. Append(submitted, sent) \in Seq(Orders) /\ Append(invalid, o) \in Seq(Orders)
      BY <1>1, <2>1, <2>2, AppendFacts
  <2> HIDE DEF o, sent
  <2>6. submitted' \in Seq(Orders) /\ invalid' \in Seq(Orders)
      BY <1>1, <2>3, <2>5
  <2>7. submitRetry' \in Seq(Orders) /\ Len(submitRetry') <= 1
      BY <1>2, <2>1, <2>3
  <2> QED BY <1>1, <2>1, <2>4, <2>6, <2>7
<1>6. CASE SubmitDone
    BY <1>1, <1>2, <1>6 DEF SubmitDone
<1>7. CASE ConfirmDone
    BY <1>1, <1>7, RequeuedFacts, ConcatFacts DEF ConfirmDone, Shape, ConfirmShape
<1>8. CASE Crash
    BY <1>2, <1>8 DEF Crash
<1>9. CASE UNCHANGED <<newRequests, submitVars>>
    BY <1>1, <1>9 DEF submitVars
<1> QED BY <1>3, <1>4, <1>5, <1>6, <1>7, <1>8, <1>9, SubmitSteps

LEMMA NextConfirmShape == Shape /\ [Next]_vars => ConfirmShape'
<1> SUFFICES ASSUME Shape, [Next]_vars PROVE ConfirmShape'
    OBVIOUS
<1> USE DEF ConfirmShape
<1>1. ConfirmShape BY DEF Shape
<1>2. /\ <<>> \in Seq(Orders) /\ Len(<<>>) = 0
      /\ \A o \in Orders : <<o>> \in Seq(Orders) /\ Len(<<o>>) = 1
    BY EmptyFacts, SingleFacts
<1>3. ASSUME NEW p \in Orders
      PROVE  /\ Append(confirmed, p) \in Seq(Orders) /\ Append(rejected, p) \in Seq(Orders)
             /\ Append(unconfirmed, p) \in Seq(Orders)
    BY <1>1, AppendFacts
<1>4. ASSUME NEW p \in Orders, NotConfirmed(p), confirmNew' = confirmNew PROVE ConfirmShape'
  <2>1. confirmed' \in Seq(Orders) /\ rejected' \in Seq(Orders) /\ unconfirmed' \in Seq(Orders)
      BY <1>1, <1>3, <1>4 DEF NotConfirmed
  <2>2. confirmRetry' \in Seq(Orders) /\ awaited' \in Seq(Orders)
      BY <1>2, <1>4 DEF NotConfirmed
  <2>3. Len(awaited') = 0
      BY <1>2, <1>4 DEF NotConfirmed
  <2>4. Len(confirmRetry') = 0 \/ Len(confirmRetry') = 1
      BY <1>2, <1>4 DEF NotConfirmed
  <2>5. Len(confirmRetry') + Len(awaited') <= 1
    <3>1. CASE Len(confirmRetry') = 0 BY <3>1, <2>3
    <3>2. CASE Len(confirmRetry') = 1 BY <3>2, <2>3
    <3> QED BY <3>1, <3>2, <2>4
  <2> QED BY <1>1, <1>4, <2>1, <2>2, <2>5
<1>5. CASE SubmitDone
    BY <1>1, <1>5, ConcatFacts DEF SubmitDone, Shape, SubmitShape
<1>6. CASE ConfirmRetry
  <2>1. PICK p \in Orders :
            \/ /\ awaited' = <<p>> /\ confirmRetry' = <<>>
               /\ UNCHANGED <<confirmed, rejected, unconfirmed>>
            \/ NotConfirmed(p)
      BY <1>6, ConfirmRetryFacts
  <2>2. confirmNew' = confirmNew
      BY <1>6, ConfirmRetryFacts
  <2>3. CASE /\ awaited' = <<p>> /\ confirmRetry' = <<>>
             /\ UNCHANGED <<confirmed, rejected, unconfirmed>>
    <3>1. Len(confirmRetry') = 0 /\ Len(awaited') = 1
        BY <1>2, <2>3
    <3>2. confirmRetry' \in Seq(Orders) /\ awaited' \in Seq(Orders)
        BY <1>2, <2>3
    <3> QED BY <3>1, <3>2, <1>1, <2>2, <2>3
  <2> QED BY <1>4, <2>1, <2>2, <2>3
<1>7. CASE ConfirmNext
  <2>1. /\ confirmNew # <<>> /\ awaited' = <<confirmNew[1]>> /\ confirmNew' = Tail(confirmNew)
        /\ confirmNew[1] \in Orders /\ confirmRetry' = <<>>
        /\ UNCHANGED <<confirmed, rejected, unconfirmed>>
      BY <1>7, ConfirmNextFacts
  <2>2. confirmNew' \in Seq(Orders)
      BY <1>1, <2>1, TailFacts
  <2>3. Len(confirmRetry') = 0 /\ Len(awaited') = 1
      BY <1>2, <2>1
  <2>4. confirmRetry' \in Seq(Orders) /\ awaited' \in Seq(Orders)
      BY <1>2, <2>1
  <2> QED BY <1>1, <2>1, <2>2, <2>3, <2>4
<1>8. CASE Settle
  <2>1. PICK p \in Orders :
            \/ /\ confirmed' = Append(confirmed, p) /\ awaited' = <<>> /\ confirmRetry' = <<>>
               /\ UNCHANGED <<rejected, unconfirmed>>
            \/ NotConfirmed(p)
      BY <1>8, SettleFacts
  <2>2. confirmNew' = confirmNew
      BY <1>8, SettleFacts
  <2>3. CASE /\ confirmed' = Append(confirmed, p) /\ awaited' = <<>> /\ confirmRetry' = <<>>
             /\ UNCHANGED <<rejected, unconfirmed>>
    <3>1. Len(confirmRetry') = 0 /\ Len(awaited') = 0
        BY <1>2, <2>3
    <3>2. confirmRetry' \in Seq(Orders) /\ awaited' \in Seq(Orders)
        BY <1>2, <2>3
    <3> QED BY <3>1, <3>2, <1>1, <1>3, <2>2, <2>3
  <2> QED BY <1>4, <2>1, <2>2, <2>3
<1>9. CASE ConfirmDone
    BY <1>1, <1>2, <1>9 DEF ConfirmDone
<1>10. CASE Crash
    BY <1>2, <1>10 DEF Crash
<1>11. CASE UNCHANGED confirmVars
    BY <1>1, <1>11 DEF confirmVars
<1> QED BY <1>5, <1>6, <1>7, <1>8, <1>9, <1>10, <1>11, ConfirmSteps

LEMMA NextCancelShape == Shape /\ [Next]_vars => CancelShape'
<1> SUFFICES ASSUME Shape, [Next]_vars PROVE CancelShape'
    OBVIOUS
<1> USE DEF CancelShape
<1>1. CancelShape BY DEF Shape
<1>2. <<>> \in Seq(Orders) BY EmptyFacts
<1>3. CASE UNCHANGED <<pc, cancelling>> BY <1>1, <1>3
<1>4. CASE ProcessNewRequestsQueue \/ SubmitRetry \/ SkipSubmitRetry \/ SubmitNext \/ SubmitDone
  BY <1>1, <1>4 DEF ProcessNewRequestsQueue, SubmitRetry, SkipSubmitRetry, SubmitNext, SubmitDone,
                    cancelVars
<1>5. CASE ConfirmRetry \/ SkipConfirmRetry \/ ConfirmNext \/ LoopAgain
  BY <1>1, <1>5 DEF ConfirmRetry, SkipConfirmRetry, ConfirmNext, LoopAgain, cancelVars
<1>6. CASE ConfirmDone
  BY <1>6 DEF ConfirmDone, Shape, ConfirmShape
<1>7. ASSUME Cancelled, cancelling # <<>> PROVE CancelShape'
  BY <1>1, <1>7, TailFacts DEF Cancelled
<1>8. ASSUME CancelFails, cancelling # <<>> PROVE CancelShape'
  BY <1>1, <1>8 DEF CancelFails
<1>9. CASE CancelCheck
  BY <1>1, <1>7, <1>8, <1>9 DEF CancelCheck, cancelVars
<1>10. CASE CancelSend
  BY <1>1, <1>8, <1>10 DEF CancelSend, cancelVars
<1>11. CASE CancelWait \/ StallResolved
  BY <1>1, <1>7, <1>8, <1>11 DEF CancelWait, StallResolved
<1>12. CASE Crash
  BY <1>2, <1>12 DEF Crash
<1>13. CASE AddTransaction \/ Settle \/ Mine \/ Drop \/ ForeignTransaction
  BY <1>3, <1>13 DEF AddTransaction, Settle, Mine, Drop, ForeignTransaction, cancelVars
<1>14. CASE UNCHANGED vars BY <1>3, <1>14 DEF vars, cancelVars
<1> QED BY <1>4, <1>5, <1>6, <1>9, <1>10, <1>11, <1>12, <1>13, <1>14 DEF Next, Loop

\* A transaction of an order, and somebody else's.
LEMMA TxFacts ==
    ASSUME NEW o \in Orders, NEW kind \in Kinds, NEW n \in Nat
    PROVE  /\ Tx(o, kind) \in Transactions /\ Tx(o, kind).nonce = o.nonce
           /\ Tx(o, kind).req = o.req /\ Tx(o, kind).requeue = o.requeue
           /\ Tx(o, kind).kind = kind
           /\ ForeignTx(n) \in Transactions /\ ForeignTx(n).nonce = n
           /\ ForeignTx(n).kind = "foreign"
<1>1. o.req \in 1..NumRequests /\ o.nonce \in Nat /\ o.requeue \in Nat
    BY OrderFields DEF Requests
<1>2. 0 \in 0..NumRequests /\ o.req \in 0..NumRequests
    BY <1>1, WalletAssumption
<1> HIDE DEF Orders
<1> QED BY <1>1, <1>2 DEF Tx, ForeignTx, Transactions, Kinds

\* What the network takes up belongs there.
LEMMA SentShape ==
    ASSUME ChainShape, NEW tx \in Transactions, tx.nonce >= latestNonce, nonce' \in Nat,
           pool' = pool \/ pool' = pool \cup {tx},
           UNCHANGED <<mined, forgotten>>
    PROVE  ChainShape'
<1>1. IsFiniteSet(pool \cup {tx}) BY FS_AddElement DEF ChainShape
<1> HIDE DEF Transactions
<1> QED BY <1>1 DEF ChainShape, latestNonce

LEMMA NextChainShape == Shape /\ [Next]_vars => ChainShape'
<1> SUFFICES ASSUME Shape, [Next]_vars PROVE ChainShape'
    OBVIOUS
<1>1. ChainShape BY DEF Shape
<1>2. latestNonce \in Nat /\ pendingNonce \in Nat /\ nonce \in Nat
    BY <1>1, LatestFacts, PendingFacts DEF ChainShape
<1>3. ASSUME NEW o \in Orders, NEW kind \in Kinds, pool' = pool \/ Accepts(Tx(o, kind)),
             nonce' \in Nat, UNCHANGED <<mined, forgotten>>
      PROVE  ChainShape'
  <2>1. CASE pool' = pool
      BY <1>1, <1>3, <2>1 DEF ChainShape, latestNonce
  <2>2. CASE Accepts(Tx(o, kind))
    <3>1. Tx(o, kind) \in Transactions
        BY TxFacts, <1>2
    <3>2. Tx(o, kind).nonce >= latestNonce /\ pool' = pool \cup {Tx(o, kind)}
        BY <2>2 DEF Accepts
    <3> QED BY <1>1, <1>3, <3>1, <3>2, SentShape
  <2> QED BY <1>3, <2>1, <2>2
<1>4. CASE SubmitRetry \/ SubmitNext
  <2> DEFINE o == Taken  sent == [Taken EXCEPT !.nonce = nonce, !.tries = 0]
  <2>1. o \in Orders /\ Submit(o) /\ UNCHANGED <<mined, forgotten>>
      BY <1>4, TakenFacts
  <2>2. /\ sent \in Orders /\ (pool' = pool \/ Accepts(Tx(sent, "original")))
        /\ nonce' = nonce + 1 \/ nonce' = pendingNonce \/ nonce' = nonce
      BY <2>1, SubmitFacts
  <2>3. nonce' \in Nat BY <1>2, <2>2
  <2>4. "original" \in Kinds BY DEF Kinds
  <2> HIDE DEF sent
  <2> QED BY <1>3, <2>1, <2>2, <2>3, <2>4
<1>5. CASE ConfirmRetry
  <2>1. PICK p \in Orders : pool' = pool \/ Accepts(Tx(p, "replacement"))
      BY <1>5, ConfirmRetryFacts
  <2>2. UNCHANGED <<nonce, mined, forgotten>> BY <1>5, ConfirmRetryFacts
  <2>3. "replacement" \in Kinds BY DEF Kinds
  <2> QED BY <1>2, <1>3, <2>1, <2>2, <2>3
<1>6. CASE CancelSend
  <2>1. cancelling[1] \in Orders
      BY <1>6, QueueFacts DEF CancelSend, Shape, CancelShape
  <2>2. /\ pool' = pool \/ Accepts(Tx(cancelling[1], "cancel"))
        /\ UNCHANGED <<nonce, mined, forgotten>>
      BY <1>6 DEF CancelSend, SendFails
  <2>3. "cancel" \in Kinds BY DEF Kinds
  <2> QED BY <1>2, <1>3, <2>1, <2>2, <2>3
<1>7. CASE Mine
  <2>1. PICK tx \in Pooled(latestNonce), ok \in BOOLEAN : mined' = Append(mined, [tx |-> tx, ok |-> ok])
      BY <1>7 DEF Mine
  <2>2. pool' = pool \ Pooled(latestNonce) /\ UNCHANGED <<nonce, forgotten>>
      BY <1>7 DEF Mine
  <2>3. tx \in Transactions /\ tx.nonce = latestNonce
      BY <1>1 DEF Pooled, ChainShape
  <2> DEFINE m == [tx |-> tx, ok |-> ok]
  <2>4. m \in MinedTxs /\ m.tx = tx
      BY <2>3 DEF MinedTxs
  <2> HIDE DEF m, MinedTxs, Transactions
  <2>5. /\ mined' \in Seq(MinedTxs) /\ Len(mined') = latestNonce + 1
        /\ \A i \in 1..latestNonce : mined'[i] = mined[i]
        /\ mined'[latestNonce + 1] = m
      BY <1>1, <2>1, <2>4, AppendProperties DEF ChainShape, latestNonce, m
  <2>6. ASSUME NEW t \in pool' PROVE t.nonce >= latestNonce + 1
    <3>1. t \in pool /\ t.nonce # latestNonce BY <2>2 DEF Pooled
    <3>2. t.nonce \in Nat BY <3>1, <1>1 DEF ChainShape, Transactions
    <3>3. t.nonce >= latestNonce BY <3>1, <1>1 DEF ChainShape
    <3> QED BY <3>1, <3>2, <3>3, <1>2
  <2>7. ASSUME NEW i \in 1..(latestNonce + 1) PROVE mined'[i].tx.nonce = i - 1
    <3>1. CASE i \in 1..latestNonce BY <3>1, <2>5, <1>1 DEF ChainShape
    <3>2. CASE i = latestNonce + 1 BY <3>2, <2>3, <2>4, <2>5, <1>2
    <3> QED BY <3>1, <3>2, <1>2
  <2>8. IsFiniteSet(pool') /\ pool' \in SUBSET Transactions
      BY <1>1, <2>2, FS_Difference DEF ChainShape
  <2> QED BY <1>1, <2>2, <2>5, <2>6, <2>7, <2>8 DEF ChainShape, latestNonce
<1>8. CASE Drop
  <2>1. PICK tx \in pool : pool' = pool \ {tx}
      BY <1>8 DEF Drop
  <2>2. UNCHANGED <<nonce, mined>> /\ forgotten' = TRUE
      BY <1>8 DEF Drop
  <2>3. IsFiniteSet(pool') BY <1>1, <2>1, FS_RemoveElement DEF ChainShape
  <2> QED BY <1>1, <2>1, <2>2, <2>3 DEF ChainShape, latestNonce
<1>9. CASE ForeignTransaction
  <2>1. PICK n \in latestNonce..pendingNonce : pool' = pool \cup {ForeignTx(n)}
      BY <1>9 DEF ForeignTransaction
  <2>2. UNCHANGED <<nonce, mined, forgotten>>
      BY <1>9 DEF ForeignTransaction
  <2>3. n \in Nat /\ n >= latestNonce BY <1>2
  <2>4. ForeignTx(n) \in Transactions /\ ForeignTx(n).nonce = n
    <3>1. 0 \in 0..NumRequests BY WalletAssumption
    <3> QED BY <2>3, <3>1 DEF ForeignTx, Transactions, Kinds
  <2> QED BY <1>1, <1>2, <2>1, <2>2, <2>3, <2>4, SentShape
<1>10. CASE Crash
    BY <1>1, <1>2, <1>10 DEF Crash, chainVars, ChainShape, latestNonce
<1>11. CASE UNCHANGED <<chainVars, nonce>>
    BY <1>1, <1>11 DEF chainVars, ChainShape, latestNonce
<1> QED BY <1>4, <1>5, <1>6, <1>7, <1>8, <1>9, <1>10, <1>11, ChainSteps

LEMMA ShapeInvariant == Spec => []Shape
<1>1. Init => Shape
  <2> SUFFICES ASSUME Init PROVE Shape
      OBVIOUS
  <2>1. <<>> \in Seq(Orders) /\ Len(<<>>) = 0 /\ <<>> \in Seq(Answers) /\ <<>> \in Seq(MinedTxs)
      BY EmptyFacts
  <2>2. ServiceShape
      BY <2>1, WalletAssumption DEF Init, ServiceShape
  <2>3. SubmitShape
      BY <2>1 DEF Init, SubmitShape
  <2>4. ConfirmShape
      BY <2>1 DEF Init, ConfirmShape
  <2>5. CancelShape
      BY <2>1 DEF Init, CancelShape
  <2>6. ChainShape
    <3>1. IsFiniteSet({}) BY FS_EmptySet
    <3>2. /\ nonce = 0 /\ pool = {} /\ mined = <<>> /\ forgotten = FALSE
        BY DEF Init
    <3>3. Len(mined) = 0 /\ mined \in Seq(MinedTxs) BY <3>2, <2>1
    <3>4. 1..Len(mined) = {} BY <3>3
    <3> HIDE DEF MinedTxs
    <3> QED BY <3>1, <3>2, <3>3, <3>4 DEF ChainShape, latestNonce
  <2> QED BY <2>2, <2>3, <2>4, <2>5, <2>6 DEF Shape
<1>2. Shape /\ [Next]_vars => Shape'
    BY NextServiceShape, NextSubmitShape, NextConfirmShape, NextCancelShape, NextChainShape DEF Shape
<1> QED BY <1>1, <1>2, PTL DEF Spec

-----------------------------------------------------------------------------
(* The capacity.                                                           *)

LEMMA Lengths ==
    ASSUME Shape
    PROVE  /\ Len(newRequests) \in Nat /\ Len(submitNew) \in Nat /\ Len(submitRetry) \in Nat
           /\ Len(submitted) \in Nat /\ Len(invalid) \in Nat
           /\ Len(confirmNew) \in Nat /\ Len(confirmRetry) \in Nat /\ Len(awaited) \in Nat
           /\ Len(confirmed) \in Nat /\ Len(rejected) \in Nat /\ Len(unconfirmed) \in Nat
           /\ Len(cancelling) \in Nat
  BY QueueFacts DEF Shape, SubmitShape, ConfirmShape, CancelShape

\* Every step takes an order in only as another place frees, except where requests are
\* taken up, which looks at the room there is.
LEMMA NextCapacityRespected ==
    Shape /\ CapacityRespected /\ [Next]_vars => CapacityRespected'
<1> SUFFICES ASSUME Shape, CapacityRespected, [Next]_vars PROVE CapacityRespected'
    OBVIOUS
<1> USE DEF CapacityRespected, submitSize, confirmSize
<1>1. SubmitShape /\ ConfirmShape /\ CancelShape
    BY DEF Shape
<1>2. Len(<<>>) = 0 /\ \A o \in Orders : Len(<<o>>) = 1
    BY EmptyFacts, SingleFacts
<1>3. ASSUME NEW q \in Seq(Orders), NEW o \in Orders PROVE Len(Append(q, o)) = Len(q) + 1
    BY AppendFacts
<1>4. CASE AddTransaction
    BY <1>4 DEF AddTransaction, submitVars, confirmVars, cancelVars
<1>5. CASE ProcessNewRequestsQueue
  <2>1. PICK n \in 0..Len(newRequests) :
              /\ n <= getWalletCapacity
              /\ submitNew' = submitNew \o SubSeq(newRequests, 1, n)
              /\ cancelling = <<>> /\ cancelling' = cancelling
              /\ UNCHANGED <<submitRetry, submitted, invalid, confirmVars>>
      BY <1>5, RoomFacts
  <2> DEFINE a == SubSeq(newRequests, 1, n)
  <2>2. a \in Seq(Orders) /\ Len(a) = n
      BY <1>1, SplitFacts DEF SubmitShape
  <2>3. submitNew' = submitNew \o a
      BY <2>1
  <2> HIDE DEF a
  <2>4. Len(submitNew') = Len(submitNew) + n
      BY <1>1, <2>2, <2>3, ConcatFacts DEF SubmitShape
  <2>5. Len(cancelling) = 0 /\ Len(cancelling') = 0
      BY <2>1, <1>2
  <2>6. n = 0 \/ n <= MaxPending - submitSize - confirmSize
      BY <2>1, Lengths, WalletAssumption DEF getWalletCapacity
  <2>7. UNCHANGED <<submitRetry, submitted, invalid, confirmNew, confirmRetry, awaited,
                    confirmed, rejected, unconfirmed, cancelling>>
      BY <2>1 DEF confirmVars
  <2>8. submitSize' = submitSize + n /\ confirmSize' = confirmSize
      BY <2>4, <2>7, Lengths
  <2>9. submitSize \in Nat /\ confirmSize \in Nat /\ submitSize + confirmSize <= MaxPending
      BY <2>5, Lengths
  <2> HIDE DEF submitSize, confirmSize
  <2> QED BY <2>5, <2>6, <2>8, <2>9, WalletAssumption
<1>6. CASE SubmitRetry \/ SubmitNext
  <2> DEFINE o == Taken  sent == [Taken EXCEPT !.nonce = nonce, !.tries = 0]
  <2>1. /\ o \in Orders /\ Submit(o) /\ UNCHANGED <<confirmVars, cancelling>>
      BY <1>6, TakenFacts
  <2>2. sent \in Orders
      BY <2>1, SubmitFacts
  <2>3. /\ Len(submitted') + Len(invalid') + Len(submitRetry') = Len(submitted) + Len(invalid) + 1
        /\ Len(submitted') \in Nat /\ Len(invalid') \in Nat /\ Len(submitRetry') \in Nat
    <3>1. \/ submitted' = Append(submitted, sent) /\ submitRetry' = <<>> /\ invalid' = invalid
          \/ submitted' = submitted /\ submitRetry' = <<o>> /\ invalid' = invalid
          \/ submitted' = submitted /\ submitRetry' = <<>> /\ invalid' = Append(invalid, o)
        BY <2>1, SubmitFacts
    <3>2. /\ Len(Append(submitted, sent)) = Len(submitted) + 1
          /\ Len(Append(invalid, o)) = Len(invalid) + 1 /\ Len(<<o>>) = 1
        BY <1>1, <1>2, <1>3, <2>1, <2>2 DEF SubmitShape
    <3> HIDE DEF o, sent
    <3>3. /\ Len(submitted) \in Nat /\ Len(invalid) \in Nat
          /\ Len(submitRetry') = 0 \/ Len(submitRetry') = 1
        BY <3>1, <3>2, <1>2, Lengths
    <3>4. CASE submitted' = Append(submitted, sent) /\ submitRetry' = <<>> /\ invalid' = invalid
        BY <3>2, <3>3, <3>4, <1>2
    <3>5. CASE submitted' = submitted /\ submitRetry' = <<o>> /\ invalid' = invalid
        BY <3>2, <3>3, <3>5
    <3>6. CASE submitted' = submitted /\ submitRetry' = <<>> /\ invalid' = Append(invalid, o)
        BY <3>2, <3>3, <3>6, <1>2
    <3> QED BY <3>1, <3>4, <3>5, <3>6
  <2>4. /\ Len(submitNew') \in Nat
        /\ Len(submitNew') + 1 = Len(submitNew) + Len(submitRetry)
    <3>1. CASE SubmitRetry
      <4>1. Len(submitRetry) = 1 /\ submitNew' = submitNew
          BY <1>1, <3>1, ShortFacts DEF SubmitRetry, SubmitShape
      <4> QED BY <4>1, Lengths
    <3>2. CASE SubmitNext
      <4>1. Len(submitNew') = Len(submitNew) - 1 /\ Len(submitRetry) = 0
          BY <1>1, <1>2, <3>2, TailFacts DEF SubmitNext, SubmitShape
      <4>2. Len(submitNew) # 0
          BY <1>1, <3>2, QueueFacts DEF SubmitNext, SubmitShape
      <4> QED BY <4>1, <4>2, Lengths
    <3> QED BY <1>6, <3>1, <3>2
  <2> HIDE DEF o, sent
  <2>5. UNCHANGED <<confirmNew, confirmRetry, awaited, confirmed, rejected, unconfirmed, cancelling>>
      BY <2>1 DEF confirmVars
  <2>6. submitSize' = submitSize
    <3>1. /\ Len(submitNew) \in Nat /\ Len(submitRetry) \in Nat
          /\ Len(submitted) \in Nat /\ Len(invalid) \in Nat
        BY Lengths
    <3>2. (Len(submitNew') + 1) + (Len(submitted') + Len(invalid') + Len(submitRetry'))
            = (Len(submitNew) + Len(submitRetry)) + (Len(submitted) + Len(invalid) + 1)
        BY ONLY <2>3, <2>4, <3>1
    <3> QED BY ONLY <2>3, <2>4, <3>1, <3>2 DEF submitSize
  <2> QED BY <2>5, <2>6
<1>7. CASE SubmitDone
  <2>1. Len(confirmNew') = Len(confirmNew) + Len(submitted)
      BY <1>1, <1>7, ConcatFacts DEF SubmitDone, SubmitShape, ConfirmShape
  <2>2. Len(submitted') = 0 /\ Len(invalid') = 0
      BY <1>2, <1>7 DEF SubmitDone
  <2> QED BY <1>7, <2>1, <2>2, Lengths, WalletAssumption DEF SubmitDone, cancelVars
<1>8. ASSUME NEW p \in Orders, NotConfirmed(p)
      PROVE  Len(confirmRetry') + Len(awaited') + Len(confirmed') + Len(rejected') + Len(unconfirmed')
                = Len(confirmed) + Len(rejected) + Len(unconfirmed) + 1
  <2>1. /\ Len(Append(unconfirmed, p)) = Len(unconfirmed) + 1
        /\ Len(Append(rejected, p)) = Len(rejected) + 1 /\ Len(<<p>>) = 1
      BY <1>1, <1>2, <1>3 DEF ConfirmShape
  <2>2. awaited' = <<>> /\ confirmed' = confirmed
      BY <1>8 DEF NotConfirmed
  <2>3. CASE unconfirmed' = Append(unconfirmed, p) /\ confirmRetry' = <<>> /\ rejected' = rejected
      BY <2>1, <2>2, <2>3, <1>2, Lengths
  <2>4. CASE rejected' = Append(rejected, p) /\ confirmRetry' = <<>> /\ unconfirmed' = unconfirmed
      BY <2>1, <2>2, <2>4, <1>2, Lengths
  <2>5. CASE confirmRetry' = <<p>> /\ unconfirmed' = unconfirmed /\ rejected' = rejected
      BY <2>1, <2>2, <2>5, <1>2, Lengths
  <2> QED BY <1>8, <2>3, <2>4, <2>5 DEF NotConfirmed
<1>9. CASE ConfirmRetry
  <2>1. Len(confirmRetry) = 1 /\ Len(awaited) = 0
        /\ UNCHANGED <<submitVars, confirmNew, cancelling>>
      BY <1>1, <1>2, <1>9, ConfirmRetryFacts, ShortFacts, Lengths DEF ConfirmShape
  <2>2. PICK p \in Orders :
            \/ /\ awaited' = <<p>> /\ confirmRetry' = <<>>
               /\ UNCHANGED <<confirmed, rejected, unconfirmed>>
            \/ NotConfirmed(p)
      BY <1>9, ConfirmRetryFacts
  <2>3. Len(confirmRetry') + Len(awaited') + Len(confirmed') + Len(rejected') + Len(unconfirmed')
                = Len(confirmed) + Len(rejected) + Len(unconfirmed) + 1
    <3>1. CASE /\ awaited' = <<p>> /\ confirmRetry' = <<>>
               /\ UNCHANGED <<confirmed, rejected, unconfirmed>>
        BY <3>1, <1>2, Lengths
    <3> QED BY <2>2, <3>1, <1>8
  <2> QED BY <2>1, <2>3, Lengths, WalletAssumption DEF submitVars
<1>10. CASE ConfirmNext
  <2>1. /\ Len(confirmNew') = Len(confirmNew) - 1
        /\ Len(awaited) = 0 /\ Len(awaited') = 1
        /\ UNCHANGED <<submitVars, confirmRetry, confirmed, rejected, unconfirmed, cancelling>>
      BY <1>1, <1>2, <1>10, ConfirmNextFacts, TailFacts DEF ConfirmShape
  <2> QED BY <2>1, Lengths, WalletAssumption DEF submitVars
<1>11. CASE Settle
  <2>1. Len(confirmRetry) = 0 /\ Len(awaited) = 1
        /\ UNCHANGED <<submitVars, confirmNew, cancelling>>
    <3>1. Len(awaited) <= 1 BY <1>1, Lengths DEF ConfirmShape
    <3> QED BY <3>1, <1>1, <1>2, <1>11, SettleFacts, ShortFacts, Lengths DEF ConfirmShape
  <2>2. PICK p \in Orders :
            \/ /\ confirmed' = Append(confirmed, p) /\ awaited' = <<>> /\ confirmRetry' = <<>>
               /\ UNCHANGED <<rejected, unconfirmed>>
            \/ NotConfirmed(p)
      BY <1>11, SettleFacts
  <2>3. Len(confirmRetry') + Len(awaited') + Len(confirmed') + Len(rejected') + Len(unconfirmed')
                = Len(confirmed) + Len(rejected) + Len(unconfirmed) + 1
    <3>1. CASE /\ confirmed' = Append(confirmed, p) /\ awaited' = <<>> /\ confirmRetry' = <<>>
               /\ UNCHANGED <<rejected, unconfirmed>>
      <4>1. Len(Append(confirmed, p)) = Len(confirmed) + 1
          BY <1>1, <1>3 DEF ConfirmShape
      <4> QED BY <3>1, <4>1, <1>2, Lengths
    <3> QED BY <2>2, <3>1, <1>8
  <2> QED BY <2>1, <2>3, Lengths, WalletAssumption DEF submitVars
<1>12. CASE ConfirmDone
  <2>1. Len(submitNew') = Len(submitNew) + Len(Requeued(rejected))
        /\ Len(Requeued(rejected)) <= Len(rejected) /\ Len(Requeued(rejected)) \in Nat
    <3>1. Requeued(rejected) \in Seq(Orders) /\ Len(Requeued(rejected)) <= Len(rejected)
        BY <1>1, RequeuedFacts DEF ConfirmShape
    <3> QED BY <3>1, <1>1, <1>12, ConcatFacts, QueueFacts DEF ConfirmDone, SubmitShape
  <2>2. /\ Len(confirmed') = 0 /\ Len(rejected') = 0 /\ Len(unconfirmed') = 0
        /\ Len(cancelling') = Len(unconfirmed)
      BY <1>2, <1>12 DEF ConfirmDone
  <2>3. UNCHANGED <<submitRetry, submitted, invalid, confirmNew, confirmRetry, awaited>>
      BY <1>12 DEF ConfirmDone
  <2> HIDE DEF Requeued
  <2> QED BY <2>1, <2>2, <2>3, Lengths, WalletAssumption
<1>13. CASE Finished
  <2>1. Len(cancelling') = Len(cancelling) - 1
      BY <1>1, <1>13, TailFacts DEF Finished, Cancelled, CancelShape
  <2> QED BY <1>13, <2>1, Lengths, WalletAssumption DEF Finished, submitVars, confirmVars
<1>14. CASE Crash
  <2>1. /\ Len(submitNew') = 0 /\ Len(submitRetry') = 0 /\ Len(submitted') = 0 /\ Len(invalid') = 0
        /\ Len(confirmNew') = 0 /\ Len(confirmRetry') = 0 /\ Len(awaited') = 0
        /\ Len(confirmed') = 0 /\ Len(rejected') = 0 /\ Len(unconfirmed') = 0
        /\ Len(cancelling') = 0
      BY <1>2, <1>14 DEF Crash
  <2> QED BY <2>1, WalletAssumption
<1>15. CASE UNCHANGED queueVars
    BY <1>15 DEF queueVars, submitVars, confirmVars
<1> QED BY <1>4, <1>5, <1>6, <1>7, <1>9, <1>10, <1>11, <1>12, <1>13, <1>14, <1>15, QueueSteps

\* The pipeline of a wallet never holds more than maxPendingTransactions orders, those
\* put back after a rejection and those being cancelled included.
THEOREM CapacityIsRespected == Spec => []CapacityRespected
<1>1. Init => CapacityRespected
  <2> SUFFICES ASSUME Init PROVE CapacityRespected
      OBVIOUS
  <2>1. /\ Len(submitNew) = 0 /\ Len(submitRetry) = 0 /\ Len(submitted) = 0 /\ Len(invalid) = 0
        /\ Len(confirmNew) = 0 /\ Len(confirmRetry) = 0 /\ Len(awaited) = 0
        /\ Len(confirmed) = 0 /\ Len(rejected) = 0 /\ Len(unconfirmed) = 0
        /\ Len(cancelling) = 0
      BY EmptyFacts DEF Init
  <2> QED BY <2>1, WalletAssumption DEF CapacityRespected, submitSize, confirmSize
<1>2. Shape /\ CapacityRespected /\ [Next]_vars => CapacityRespected'
    BY NextCapacityRespected
<1> QED BY <1>1, <1>2, ShapeInvariant, PTL DEF Spec

-----------------------------------------------------------------------------
(* Each request is held in one place until it is answered.                 *)

Unanswered == {r \in Requests : r <= requested /\ replies[r] = <<>>}

\* The queues in the order of Held, and the requests each of them has.
Places == 1..12
Where == [p \in Places |-> ReqsOf(Held[p])]

\* The requests of U, each in one place of W.
Apart(W, U) ==
    /\ W = [p \in Places |-> W[p]]
    /\ \A p, q \in Places : p # q => W[p] \cap W[q] = {}
    /\ U = UNION {W[p] : p \in Places}

HeldOnce ==
    /\ Apart(Where, Unanswered)
    /\ \A p \in Places : Distinct(Held[p])
    /\ \A r \in Requests : r > requested => replies[r] = <<>>

LEMMA HeldFacts ==
    /\ DOMAIN Held = Places
    /\ Held[1] = newRequests /\ Held[2] = submitNew /\ Held[3] = submitRetry
    /\ Held[4] = submitted /\ Held[5] = invalid /\ Held[6] = confirmNew
    /\ Held[7] = confirmRetry /\ Held[8] = awaited /\ Held[9] = confirmed
    /\ Held[10] = rejected /\ Held[11] = unconfirmed /\ Held[12] = cancelling
  BY DEF Held, Places

LEMMA HeldNext ==
    /\ Held'[1] = newRequests' /\ Held'[2] = submitNew' /\ Held'[3] = submitRetry'
    /\ Held'[4] = submitted' /\ Held'[5] = invalid' /\ Held'[6] = confirmNew'
    /\ Held'[7] = confirmRetry' /\ Held'[8] = awaited' /\ Held'[9] = confirmed'
    /\ Held'[10] = rejected' /\ Held'[11] = unconfirmed' /\ Held'[12] = cancelling'
  BY DEF Held

LEMMA AllPlaces ==
    ASSUME NEW p \in Places
    PROVE  \/ p = 1 \/ p = 2 \/ p = 3 \/ p = 4 \/ p = 5 \/ p = 6
           \/ p = 7 \/ p = 8 \/ p = 9 \/ p = 10 \/ p = 11 \/ p = 12
  BY DEF Places

LEMMA WhereFacts ==
    /\ Where = [p \in Places |-> Where[p]]
    /\ Where[1] = ReqsOf(newRequests) /\ Where[2] = ReqsOf(submitNew)
    /\ Where[3] = ReqsOf(submitRetry) /\ Where[4] = ReqsOf(submitted)
    /\ Where[5] = ReqsOf(invalid) /\ Where[6] = ReqsOf(confirmNew)
    /\ Where[7] = ReqsOf(confirmRetry) /\ Where[8] = ReqsOf(awaited)
    /\ Where[9] = ReqsOf(confirmed) /\ Where[10] = ReqsOf(rejected)
    /\ Where[11] = ReqsOf(unconfirmed) /\ Where[12] = ReqsOf(cancelling)
<1>1. \A p \in Places : Where[p] = ReqsOf(Held[p])
    BY DEF Where
<1>2. 1 \in Places /\ 2 \in Places /\ 3 \in Places /\ 4 \in Places /\ 5 \in Places /\ 6 \in Places
      /\ 7 \in Places /\ 8 \in Places /\ 9 \in Places /\ 10 \in Places /\ 11 \in Places /\ 12 \in Places
    BY DEF Places
<1>3. Where = [p \in Places |-> Where[p]]
    BY DEF Where
<1> QED BY <1>1, <1>2, <1>3, HeldFacts

LEMMA WhereNext ==
    ASSUME NEW W, W = [p \in Places |-> W[p]],
           ReqsOf(newRequests') = W[1], ReqsOf(submitNew') = W[2], ReqsOf(submitRetry') = W[3],
           ReqsOf(submitted') = W[4], ReqsOf(invalid') = W[5], ReqsOf(confirmNew') = W[6],
           ReqsOf(confirmRetry') = W[7], ReqsOf(awaited') = W[8], ReqsOf(confirmed') = W[9],
           ReqsOf(rejected') = W[10], ReqsOf(unconfirmed') = W[11], ReqsOf(cancelling') = W[12]
    PROVE  Where' = W
<1>1. Where' = [p \in Places |-> ReqsOf(Held'[p])]
    BY DEF Where, ReqsOf
<1>2. ASSUME NEW p \in Places PROVE ReqsOf(Held'[p]) = W[p]
    BY AllPlaces, HeldNext
<1> QED BY <1>1, <1>2

\* Requests move from one place to another, arrive, and leave.
Moved(W, s, d, M) == [p \in Places |-> IF p = d THEN W[p] \cup M
                                       ELSE IF p = s THEN W[p] \ M ELSE W[p]]
Arrived(W, d, M) == [p \in Places |-> IF p = d THEN W[p] \cup M ELSE W[p]]
Gone(W, s, M) == [p \in Places |-> IF p = s THEN W[p] \ M ELSE W[p]]

LEMMA MovedFacts ==
    ASSUME NEW W, NEW U, Apart(W, U), NEW s \in Places, NEW d \in Places, NEW M, M \subseteq W[s]
    PROVE  Apart(Moved(W, s, d, M), U)
<1> DEFINE V == Moved(W, s, d, M)
<1>1. V = [p \in Places |-> V[p]]
    BY DEF Moved
<1>2. \A p \in Places : V[p] = IF p = d THEN W[p] \cup M ELSE IF p = s THEN W[p] \ M ELSE W[p]
    BY DEF Moved
<1> HIDE DEF V, Places
<1>5. /\ \A r : r \in U <=> \E p \in Places : r \in W[p]
      /\ \A p, q \in Places : \A r : p # q /\ r \in W[p] => r \notin W[q]
    BY DEF Apart
<1>3. \A p, q \in Places : p # q => V[p] \cap V[q] = {}
    BY <1>2, <1>5
<1>4. U = UNION {V[p] : p \in Places}
  <2>1. ASSUME NEW r \in U PROVE \E p \in Places : r \in V[p]
    <3>1. PICK p \in Places : r \in W[p] BY <1>5
    <3> QED BY <3>1, <1>2
  <2>2. ASSUME NEW p \in Places, NEW r \in V[p] PROVE r \in U
    BY <1>2, <1>5
  <2> QED BY <2>1, <2>2
<1> QED BY <1>1, <1>3, <1>4 DEF Apart, V

LEMMA ArrivedFacts ==
    ASSUME NEW W, NEW U, Apart(W, U), NEW d \in Places, NEW M, M \cap U = {}
    PROVE  Apart(Arrived(W, d, M), U \cup M)
<1> DEFINE V == Arrived(W, d, M)
<1>1. V = [p \in Places |-> V[p]]
    BY DEF Arrived
<1>2. \A p \in Places : V[p] = IF p = d THEN W[p] \cup M ELSE W[p]
    BY DEF Arrived
<1> HIDE DEF V, Places
<1>5. /\ \A r : r \in U <=> \E p \in Places : r \in W[p]
      /\ \A p, q \in Places : \A r : p # q /\ r \in W[p] => r \notin W[q]
    BY DEF Apart
<1>3. \A p, q \in Places : p # q => V[p] \cap V[q] = {}
    BY <1>2, <1>5
<1>4. U \cup M = UNION {V[p] : p \in Places}
  <2>1. ASSUME NEW r \in U PROVE \E p \in Places : r \in V[p]
    <3>1. PICK p \in Places : r \in W[p] BY <1>5
    <3> QED BY <3>1, <1>2
  <2>2. ASSUME NEW p \in Places, NEW r \in V[p] PROVE r \in U \cup M
    BY <1>2, <1>5
  <2>3. M \subseteq V[d] BY <1>2
  <2> QED BY <2>1, <2>2, <2>3
<1> QED BY <1>1, <1>3, <1>4 DEF Apart, V

LEMMA GoneFacts ==
    ASSUME NEW W, NEW U, Apart(W, U), NEW s \in Places, NEW M, M \subseteq W[s]
    PROVE  Apart(Gone(W, s, M), U \ M)
<1> DEFINE V == Gone(W, s, M)
<1>1. V = [p \in Places |-> V[p]]
    BY DEF Gone
<1>2. \A p \in Places : V[p] = IF p = s THEN W[p] \ M ELSE W[p]
    BY DEF Gone
<1> HIDE DEF V, Places
<1>5. /\ \A r : r \in U <=> \E p \in Places : r \in W[p]
      /\ \A p, q \in Places : \A r : p # q /\ r \in W[p] => r \notin W[q]
    BY DEF Apart
<1>3. \A p, q \in Places : p # q => V[p] \cap V[q] = {}
    BY <1>2, <1>5
<1>4. U \ M = UNION {V[p] : p \in Places}
  <2>1. ASSUME NEW r \in U \ M PROVE \E p \in Places : r \in V[p]
    <3>1. PICK p \in Places : r \in W[p] BY <1>5
    <3> QED BY <3>1, <1>2
  <2>2. ASSUME NEW p \in Places, NEW r \in V[p] PROVE r \in U \ M
    BY <1>2, <1>5
  <2> QED BY <2>1, <2>2
<1> QED BY <1>1, <1>3, <1>4 DEF Apart, V

\* What is in one place is in no other.
LEMMA ApartFacts ==
    ASSUME NEW W, NEW U, Apart(W, U), NEW p \in Places, NEW q \in Places, p # q
    PROVE  W[p] \cap W[q] = {} /\ W[p] \subseteq U
  BY DEF Apart

\* How answers change what is unanswered.
LEMMA UnansweredFacts ==
    ASSUME Shape
    PROVE  /\ UNCHANGED serviceVars => Unanswered' = Unanswered
           /\ Unanswered \subseteq 1..requested
<1>1. requested \in Nat
    BY WalletAssumption DEF Shape, ServiceShape
<1>2. \A r \in Requests : r \in Nat /\ r >= 1
    BY DEF Requests
<1>3. ASSUME NEW r \in Unanswered PROVE r \in 1..requested
    BY <1>1, <1>2 DEF Unanswered
<1>4. UNCHANGED serviceVars => Unanswered' = Unanswered
    BY DEF Unanswered, serviceVars
<1> QED BY <1>3, <1>4

LEMMA AnsweredFacts ==
    ASSUME Shape, HeldOnce, requested' = requested, NEW R, R \subseteq Unanswered,
           \A r \in Requests : IF r \in R THEN replies'[r] # <<>> ELSE replies'[r] = replies[r]
    PROVE  /\ Unanswered' = Unanswered \ R
           /\ \A r \in Requests : r > requested' => replies'[r] = <<>>
<1>1. requested \in Nat /\ \A r \in Requests : r \in Nat
    BY WalletAssumption DEF Shape, ServiceShape, Requests
<1>2. Unanswered' = Unanswered \ R
    BY DEF Unanswered
<1>3. ASSUME NEW r \in Requests, r > requested PROVE r \notin Unanswered
    BY <1>1, <1>3 DEF Unanswered
<1> QED BY <1>2, <1>3 DEF HeldOnce

LEMMA HeldOnceFacts ==
    ASSUME HeldOnce
    PROVE  /\ Distinct(newRequests) /\ Distinct(submitNew) /\ Distinct(submitRetry)
           /\ Distinct(submitted) /\ Distinct(invalid) /\ Distinct(confirmNew)
           /\ Distinct(confirmRetry) /\ Distinct(awaited) /\ Distinct(confirmed)
           /\ Distinct(rejected) /\ Distinct(unconfirmed) /\ Distinct(cancelling)
           /\ Apart(Where, Unanswered)
<1>1. 1 \in Places /\ 2 \in Places /\ 3 \in Places /\ 4 \in Places /\ 5 \in Places /\ 6 \in Places
      /\ 7 \in Places /\ 8 \in Places /\ 9 \in Places /\ 10 \in Places /\ 11 \in Places /\ 12 \in Places
    BY DEF Places
<1>2. \A p \in Places : Distinct(Held[p])
    BY DEF HeldOnce
<1> QED BY <1>1, <1>2, HeldFacts DEF HeldOnce

LEMMA HeldOnceNext ==
    ASSUME NEW W, Apart(W, Unanswered'),
           \A r \in Requests : r > requested' => replies'[r] = <<>>,
           ReqsOf(newRequests') = W[1] /\ Distinct(newRequests'),
           ReqsOf(submitNew') = W[2] /\ Distinct(submitNew'),
           ReqsOf(submitRetry') = W[3] /\ Distinct(submitRetry'),
           ReqsOf(submitted') = W[4] /\ Distinct(submitted'),
           ReqsOf(invalid') = W[5] /\ Distinct(invalid'),
           ReqsOf(confirmNew') = W[6] /\ Distinct(confirmNew'),
           ReqsOf(confirmRetry') = W[7] /\ Distinct(confirmRetry'),
           ReqsOf(awaited') = W[8] /\ Distinct(awaited'),
           ReqsOf(confirmed') = W[9] /\ Distinct(confirmed'),
           ReqsOf(rejected') = W[10] /\ Distinct(rejected'),
           ReqsOf(unconfirmed') = W[11] /\ Distinct(unconfirmed'),
           ReqsOf(cancelling') = W[12] /\ Distinct(cancelling')
    PROVE  HeldOnce'
<1>1. Where' = W
    BY WhereNext DEF Apart
<1>2. ASSUME NEW p \in Places PROVE Distinct(Held'[p])
    BY AllPlaces, HeldNext
<1>3. Apart(Where, Unanswered)'
    BY <1>1 DEF Apart
<1>4. (\A p \in Places : Distinct(Held[p]))'
    BY <1>2 DEF Distinct
<1> QED BY <1>3, <1>4 DEF HeldOnce

\* Moves between places, place by place.
LEMMA MovedOne ==
    ASSUME NEW W, NEW s \in Places, NEW d \in Places, NEW M
    PROVE  /\ \A p \in Places : p # s /\ p # d => Moved(W, s, d, M)[p] = W[p]
           /\ Moved(W, s, d, M)[d] = W[d] \cup M
           /\ s # d => Moved(W, s, d, M)[s] = W[s] \ M
  BY DEF Moved

LEMMA GoneOne ==
    ASSUME NEW W, NEW s \in Places, NEW M
    PROVE  /\ \A p \in Places : p # s => Gone(W, s, M)[p] = W[p]
           /\ Gone(W, s, M)[s] = W[s] \ M
  BY DEF Gone

LEMMA ArrivedOne ==
    ASSUME NEW W, NEW d \in Places, NEW M
    PROVE  /\ \A p \in Places : p # d => Arrived(W, d, M)[p] = W[p]
           /\ Arrived(W, d, M)[d] = W[d] \cup M
  BY DEF Arrived

LEMMA PlaceFacts ==
    /\ 1 \in Places /\ 2 \in Places /\ 3 \in Places /\ 4 \in Places /\ 5 \in Places
    /\ 6 \in Places /\ 7 \in Places /\ 8 \in Places /\ 9 \in Places /\ 10 \in Places
    /\ 11 \in Places /\ 12 \in Places
  BY DEF Places

LEMMA HeldWhenAdded ==
    ASSUME Shape, HeldOnce, AddTransaction
    PROVE  HeldOnce'
<1> DEFINE o == NewOrder(requested + 1, 0)  W == Arrived(Where, 1, {requested + 1})
<1>1. requested + 1 \in Requests /\ 0 \in Nat /\ requested \in Nat
    BY WalletAssumption DEF AddTransaction, Shape, ServiceShape, Requests
<1>2. o \in Orders /\ o.req = requested + 1
    BY <1>1, NewOrderFacts
<1>3. requested + 1 \notin Unanswered /\ requested + 1 > requested
    BY <1>1 DEF Unanswered
<1>4. newRequests' = Append(newRequests, o) /\ newRequests \in Seq(Orders)
    BY DEF AddTransaction, Shape, SubmitShape
<1>5. UNCHANGED <<replies, submitVars, confirmVars, cancelling>> /\ requested' = requested + 1
    BY DEF AddTransaction, cancelVars
<1> HIDE DEF o, W
<1>6. Where[1] \subseteq Unanswered /\ Where[1] = ReqsOf(newRequests)
    BY HeldOnceFacts, WhereFacts, ApartFacts, PlaceFacts
<1>7. ReqsOf(newRequests') = Where[1] \cup {requested + 1} /\ Distinct(newRequests')
  <2>1. o.req \notin ReqsOf(newRequests) /\ Distinct(newRequests)
      BY <1>2, <1>3, <1>6, HeldOnceFacts
  <2>2. /\ ReqsOf(Append(newRequests, o)) = ReqsOf(newRequests) \cup {o.req}
        /\ Distinct(Append(newRequests, o))
      BY <1>2, <1>4, <2>1, AppendFacts
  <2> QED BY <1>2, <1>4, <1>6, <2>2
<1>8. Unanswered' = Unanswered \cup {requested + 1}
  <2>1. \A r \in Requests : r <= requested + 1 <=> r <= requested \/ r = requested + 1
      BY <1>1 DEF Requests
  <2>2. replies[requested + 1] = <<>>
      BY <1>1, <1>3 DEF HeldOnce
  <2> QED BY <1>1, <1>5, <2>1, <2>2 DEF Unanswered
<1>9. Apart(W, Unanswered')
    BY <1>3, <1>8, HeldOnceFacts, PlaceFacts, ArrivedFacts DEF W
<1>10. \A r \in Requests : r > requested' => replies'[r] = <<>>
  <2>1. \A r \in Requests : r > requested + 1 => r > requested
      BY <1>1 DEF Requests
  <2> QED BY <1>5, <2>1 DEF HeldOnce
<1>11. W[1] = Where[1] \cup {requested + 1} /\ \A p \in Places : p # 1 => W[p] = Where[p]
    BY ArrivedOne, PlaceFacts DEF W
<1> QED BY <1>5, <1>7, <1>9, <1>10, <1>11, HeldOnceNext, HeldOnceFacts, WhereFacts, PlaceFacts
        DEF submitVars, confirmVars

LEMMA HeldWhenTaken ==
    ASSUME Shape, HeldOnce, ProcessNewRequestsQueue
    PROVE  HeldOnce'
<1>1. PICK n \in 0..Len(newRequests) :
              /\ submitNew' = submitNew \o SubSeq(newRequests, 1, n)
              /\ newRequests' = SubSeq(newRequests, n + 1, Len(newRequests))
              /\ UNCHANGED <<serviceVars, submitRetry, submitted, invalid, confirmVars, cancelling>>
    BY RoomFacts
<1> DEFINE a == SubSeq(newRequests, 1, n)  b == SubSeq(newRequests, n + 1, Len(newRequests))
           W == Moved(Where, 1, 2, ReqsOf(a))
<1>2. submitNew' = submitNew \o a /\ newRequests' = b /\ newRequests \in Seq(Orders)
      /\ submitNew \in Seq(Orders)
    BY <1>1 DEF Shape, SubmitShape
<1>3. /\ a \in Seq(Orders) /\ b \in Seq(Orders) /\ Distinct(a) /\ Distinct(b)
      /\ ReqsOf(newRequests) = ReqsOf(a) \cup ReqsOf(b) /\ ReqsOf(a) \cap ReqsOf(b) = {}
    BY <1>2, SplitFacts, HeldOnceFacts
<1> HIDE DEF a, b, W
<1>4. Where[1] = ReqsOf(newRequests) /\ Where[2] = ReqsOf(submitNew) /\ Where[1] \cap Where[2] = {}
    BY HeldOnceFacts, WhereFacts, ApartFacts, PlaceFacts
<1>5. ReqsOf(submitNew') = Where[2] \cup ReqsOf(a) /\ Distinct(submitNew')
  <2>1. ReqsOf(submitNew) \cap ReqsOf(a) = {} BY <1>3, <1>4
  <2> QED BY <1>2, <1>3, <1>4, <2>1, ConcatFacts, HeldOnceFacts
<1>6. ReqsOf(newRequests') = Where[1] \ ReqsOf(a) /\ Distinct(newRequests')
    BY <1>2, <1>3, <1>4
<1>7. Apart(W, Unanswered)
    BY <1>3, <1>4, HeldOnceFacts, PlaceFacts, MovedFacts DEF W
<1>8. Unanswered' = Unanswered /\ (\A r \in Requests : r > requested' => replies'[r] = <<>>)
    BY <1>1, UnansweredFacts DEF HeldOnce, serviceVars
<1>9. /\ W[1] = Where[1] \ ReqsOf(a) /\ W[2] = Where[2] \cup ReqsOf(a)
      /\ \A p \in Places : p # 1 /\ p # 2 => W[p] = Where[p]
  <2>1. 1 \in Places /\ 2 \in Places /\ 1 # 2
      BY PlaceFacts
  <2> QED BY ONLY <2>1, MovedOne DEF W
<1>10. /\ W[3] = Where[3] /\ W[4] = Where[4] /\ W[5] = Where[5] /\ W[6] = Where[6] /\ W[7] = Where[7]
       /\ W[8] = Where[8] /\ W[9] = Where[9] /\ W[10] = Where[10] /\ W[11] = Where[11]
       /\ W[12] = Where[12]
    BY <1>9, PlaceFacts
<1> QED BY <1>1, <1>5, <1>6, <1>7, <1>8, <1>9, <1>10, HeldOnceNext, HeldOnceFacts, WhereFacts
        DEF confirmVars

\* An order taken from one queue of the submit queue is put into another.
LEMMA HeldWhenSubmitted ==
    ASSUME Shape, HeldOnce, SubmitRetry \/ SubmitNext
    PROVE  HeldOnce'
<1> DEFINE o == Taken  sent == [Taken EXCEPT !.nonce = nonce, !.tries = 0]
           s == IF SubmitRetry THEN 3 ELSE 2
<1>1. /\ o \in Orders /\ Submit(o)
      /\ UNCHANGED <<newRequests, confirmVars, cancelling, requested, replies>>
    BY TakenFacts
<1>2. /\ sent \in Orders /\ sent.req = o.req
      /\ \/ submitted' = Append(submitted, sent) /\ submitRetry' = <<>> /\ invalid' = invalid
         \/ submitted' = submitted /\ submitRetry' = <<o>> /\ invalid' = invalid
         \/ submitted' = submitted /\ submitRetry' = <<>> /\ invalid' = Append(invalid, o)
    BY <1>1, SubmitFacts
<1>3. submitted \in Seq(Orders) /\ invalid \in Seq(Orders) /\ submitNew \in Seq(Orders)
      /\ submitRetry \in Seq(Orders) /\ Len(submitRetry) <= 1
    BY DEF Shape, SubmitShape
<1>4. /\ s \in {2, 3} /\ s \in Places /\ o.req \in Where[s]
      /\ ReqsOf(submitNew') = (IF s = 2 THEN Where[2] \ {o.req} ELSE Where[2])
      /\ Distinct(submitNew')
      /\ Where[3] = (IF s = 3 THEN {o.req} ELSE {})
  <2>1. CASE SubmitRetry
    <3>1. submitRetry # <<>> /\ submitNew' = submitNew /\ submitRetry[1].req = o.req
        BY <2>1, TakenFacts DEF SubmitRetry, SameOrder
    <3>2. ReqsOf(submitRetry) = {o.req}
        BY <3>1, <1>3, ShortFacts
    <3> HIDE DEF o
    <3> QED BY <2>1, <3>1, <3>2, HeldOnceFacts, WhereFacts, PlaceFacts
  <2>2. CASE SubmitNext /\ ~SubmitRetry
    <3>1. submitNew # <<>> /\ submitNew' = Tail(submitNew) /\ submitNew[1] = o /\ submitRetry = <<>>
        BY <2>2, TakenFacts DEF SubmitNext
    <3>2. ReqsOf(submitNew) = {o.req} \cup ReqsOf(Tail(submitNew)) /\ Distinct(Tail(submitNew))
          /\ o.req \notin ReqsOf(Tail(submitNew)) /\ ReqsOf(submitRetry) = {}
        BY <3>1, <1>3, TailFacts, EmptyFacts, HeldOnceFacts
    <3>3. ReqsOf(submitNew') = ReqsOf(submitNew) \ {o.req} /\ o.req \in ReqsOf(submitNew)
        BY <3>1, <3>2
    <3> HIDE DEF o
    <3> QED BY <2>2, <3>1, <3>2, <3>3, HeldOnceFacts, WhereFacts, PlaceFacts
  <2> QED BY <2>1, <2>2
<1> HIDE DEF o, sent, s
<1>5. o.req \notin ReqsOf(submitted) /\ o.req \notin ReqsOf(invalid)
  <2>1. Where[s] \cap Where[4] = {} /\ Where[s] \cap Where[5] = {}
      BY <1>4, HeldOnceFacts, ApartFacts, PlaceFacts
  <2> QED BY <2>1, <1>4, WhereFacts
<1>6. /\ ReqsOf(Append(submitted, sent)) = ReqsOf(submitted) \cup {o.req}
      /\ Distinct(Append(submitted, sent))
      /\ ReqsOf(Append(invalid, o)) = ReqsOf(invalid) \cup {o.req}
      /\ Distinct(Append(invalid, o))
      /\ ReqsOf(<<o>>) = {o.req} /\ Distinct(<<o>>)
      /\ ReqsOf(<<>>) = {} /\ Distinct(<<>>)
  <2>1. ReqsOf(<<o>>) = {o.req} /\ Distinct(<<o>>) BY <1>1, SingleFacts
  <2>2. ReqsOf(<<>>) = {} /\ Distinct(<<>>) BY EmptyFacts
  <2>3. Distinct(submitted) /\ Distinct(invalid) BY HeldOnceFacts
  <2>4. /\ ReqsOf(Append(submitted, sent)) = ReqsOf(submitted) \cup {sent.req}
        /\ sent.req \notin ReqsOf(submitted) => Distinct(Append(submitted, sent))
      BY <1>2, <1>3, <2>3, AppendFacts
  <2>5. /\ ReqsOf(Append(invalid, o)) = ReqsOf(invalid) \cup {o.req}
        /\ o.req \notin ReqsOf(invalid) => Distinct(Append(invalid, o))
      BY <1>1, <1>3, <2>3, AppendFacts
  <2> QED BY <1>2, <1>5, <2>1, <2>2, <2>4, <2>5
<1>7. Unanswered' = Unanswered /\ (\A r \in Requests : r > requested' => replies'[r] = <<>>)
    BY <1>1, UnansweredFacts DEF HeldOnce, serviceVars
<1>8. ASSUME NEW d \in Places,
             /\ ReqsOf(submitted') = (IF d = 4 THEN Where[4] \cup {o.req} ELSE Where[4])
             /\ ReqsOf(submitRetry') = (IF d = 3 THEN {o.req} ELSE {})
             /\ ReqsOf(invalid') = (IF d = 5 THEN Where[5] \cup {o.req} ELSE Where[5]),
             Distinct(submitted') /\ Distinct(submitRetry') /\ Distinct(invalid'),
             d = 3 \/ d = 4 \/ d = 5
      PROVE  HeldOnce'
  <2> DEFINE W == Moved(Where, s, d, {o.req})
  <2>1. Apart(W, Unanswered)
      BY <1>4, HeldOnceFacts, PlaceFacts, MovedFacts
  <2>2. /\ \A p \in Places : p # s /\ p # d => W[p] = Where[p]
        /\ W[d] = Where[d] \cup {o.req}
        /\ s # d => W[s] = Where[s] \ {o.req}
      BY <1>4, MovedOne
  <2> HIDE DEF W
  <2>3. /\ ReqsOf(submitNew') = W[2] /\ ReqsOf(submitRetry') = W[3] /\ ReqsOf(submitted') = W[4]
        /\ ReqsOf(invalid') = W[5]
    <3>1. CASE s = 2
      <4>1. W[2] = Where[2] \ {o.req} /\ s # d BY <3>1, <1>8, <2>2
      <4>2. d # 3 => W[3] = Where[3] BY <3>1, <2>2, PlaceFacts
      <4>3. d # 4 => W[4] = Where[4] BY <3>1, <2>2, PlaceFacts
      <4>4. d # 5 => W[5] = Where[5] BY <3>1, <2>2, PlaceFacts
      <4>5. Where[3] = {} BY <3>1, <1>4
      <4> QED BY <3>1, <1>4, <1>8, <2>2, <4>1, <4>2, <4>3, <4>4, <4>5
    <3>2. CASE s = 3
      <4>1. W[2] = Where[2] BY <3>2, <1>8, <2>2, PlaceFacts
      <4>2. d # 3 => W[3] = Where[3] \ {o.req} BY <3>2, <2>2
      <4>3. d # 4 => W[4] = Where[4] BY <3>2, <2>2, PlaceFacts
      <4>4. d # 5 => W[5] = Where[5] BY <3>2, <2>2, PlaceFacts
      <4>5. Where[3] = {o.req} BY <3>2, <1>4
      <4>6. d # 3 => W[3] = {} BY <4>2, <4>5
      <4>7. d = 3 => W[3] = {o.req} BY <2>2, <4>5
      <4>8. ReqsOf(submitRetry') = W[3] BY <1>8, <4>6, <4>7
      <4>9. ReqsOf(submitNew') = W[2] BY <3>2, <1>4, <4>1
      <4> QED BY <1>8, <2>2, <4>3, <4>4, <4>8, <4>9
    <3> QED BY <1>4, <3>1, <3>2
  <2>4. \A p \in Places : p \notin {2, 3, 4, 5} => W[p] = Where[p]
      BY <1>4, <1>8, <2>2
  <2>5. /\ W[1] = Where[1] /\ W[6] = Where[6] /\ W[7] = Where[7] /\ W[8] = Where[8]
        /\ W[9] = Where[9] /\ W[10] = Where[10] /\ W[11] = Where[11] /\ W[12] = Where[12]
      BY <2>4, PlaceFacts
  <2> QED BY <1>1, <1>4, <1>7, <1>8, <2>1, <2>3, <2>5, HeldOnceNext, HeldOnceFacts, WhereFacts
          DEF confirmVars
<1>9. CASE submitted' = Append(submitted, sent) /\ submitRetry' = <<>> /\ invalid' = invalid
    BY <1>6, <1>8, <1>9, PlaceFacts, WhereFacts, HeldOnceFacts
<1>10. CASE submitted' = submitted /\ submitRetry' = <<o>> /\ invalid' = invalid
  <2>1. 3 \in Places /\ Where[4] = ReqsOf(submitted) /\ Where[5] = ReqsOf(invalid)
        /\ Distinct(submitted) /\ Distinct(invalid)
      BY PlaceFacts, WhereFacts, HeldOnceFacts
  <2>2. /\ ReqsOf(submitted') = (IF 3 = 4 THEN Where[4] \cup {o.req} ELSE Where[4])
        /\ ReqsOf(submitRetry') = (IF 3 = 3 THEN {o.req} ELSE {})
        /\ ReqsOf(invalid') = (IF 3 = 5 THEN Where[5] \cup {o.req} ELSE Where[5])
      BY <1>6, <1>10, <2>1
  <2>3. Distinct(submitted') /\ Distinct(submitRetry') /\ Distinct(invalid')
      BY <1>6, <1>10, <2>1
  <2> QED BY <2>1, <2>2, <2>3, <1>8
<1>11. CASE submitted' = submitted /\ submitRetry' = <<>> /\ invalid' = Append(invalid, o)
    BY <1>6, <1>8, <1>11, PlaceFacts, WhereFacts, HeldOnceFacts
<1> QED BY <1>2, <1>9, <1>10, <1>11

LEMMA HeldWhenSubmitDone ==
    ASSUME Shape, HeldOnce, SubmitDone
    PROVE  HeldOnce'
<1> DEFINE V == Moved(Where, 4, 6, ReqsOf(submitted))  W == Gone(V, 5, ReqsOf(invalid))
<1>1. /\ confirmNew' = confirmNew \o submitted /\ submitted' = <<>> /\ invalid' = <<>>
      /\ SendResults(invalid, "submissionFailed")
      /\ UNCHANGED <<requested, newRequests, submitNew, submitRetry, confirmRetry, awaited,
                     confirmed, rejected, unconfirmed, cancelling>>
    BY DEF SubmitDone, cancelVars
<1>2. submitted \in Seq(Orders) /\ invalid \in Seq(Orders) /\ confirmNew \in Seq(Orders)
    BY DEF Shape, SubmitShape, ConfirmShape
<1>3. /\ Where[4] = ReqsOf(submitted) /\ Where[5] = ReqsOf(invalid) /\ Where[6] = ReqsOf(confirmNew)
      /\ Where[4] \cap Where[6] = {} /\ Where[5] \subseteq Unanswered
    BY HeldOnceFacts, WhereFacts, ApartFacts, PlaceFacts
<1>4. ReqsOf(confirmNew') = Where[6] \cup ReqsOf(submitted) /\ Distinct(confirmNew')
  <2>1. ReqsOf(confirmNew) \cap ReqsOf(submitted) = {} BY <1>3
  <2> QED BY <1>1, <1>2, <1>3, <2>1, ConcatFacts, HeldOnceFacts
<1>5. ReqsOf(submitted') = {} /\ ReqsOf(invalid') = {} /\ Distinct(submitted') /\ Distinct(invalid')
    BY <1>1, EmptyFacts
<1>6. Apart(V, Unanswered)
    BY <1>3, HeldOnceFacts, PlaceFacts, MovedFacts
<1>7. /\ V[4] = Where[4] \ ReqsOf(submitted) /\ V[6] = Where[6] \cup ReqsOf(submitted)
      /\ \A p \in Places : p # 4 /\ p # 6 => V[p] = Where[p]
  <2>1. 4 \in Places /\ 6 \in Places /\ 4 # 6
      BY PlaceFacts
  <2> QED BY ONLY <2>1, MovedOne
<1> HIDE DEF V
<1>8. V[5] = Where[5]
    BY <1>7, PlaceFacts
<1>9. Apart(W, Unanswered \ ReqsOf(invalid))
    BY <1>3, <1>6, <1>8, PlaceFacts, GoneFacts
<1>10. W[5] = V[5] \ ReqsOf(invalid) /\ \A p \in Places : p # 5 => W[p] = V[p]
    BY PlaceFacts, GoneOne
<1> HIDE DEF W
<1>11. /\ Unanswered' = Unanswered \ ReqsOf(invalid)
       /\ \A r \in Requests : r > requested' => replies'[r] = <<>>
  <2>1. \A r \in Requests : IF r \in ReqsOf(invalid) THEN replies'[r] # <<>> ELSE replies'[r] = replies[r]
    <3>1. ASSUME NEW r \in Requests PROVE Append(replies[r], "submissionFailed") # <<>>
        BY AppendProperties DEF Shape, ServiceShape, Answers
    <3> QED BY <1>1, <3>1 DEF SendResults
  <2> QED BY <1>1, <1>3, <2>1, AnsweredFacts
<1>12. /\ W[4] = {} /\ W[5] = {} /\ W[6] = Where[6] \cup ReqsOf(submitted)
    BY <1>3, <1>7, <1>8, <1>10, PlaceFacts
<1>13. /\ W[1] = Where[1] /\ W[2] = Where[2] /\ W[3] = Where[3] /\ W[7] = Where[7]
       /\ W[8] = Where[8] /\ W[9] = Where[9] /\ W[10] = Where[10] /\ W[11] = Where[11]
       /\ W[12] = Where[12]
    BY <1>7, <1>10, PlaceFacts
<1> QED BY <1>1, <1>4, <1>5, <1>9, <1>11, <1>12, <1>13, HeldOnceNext, HeldOnceFacts, WhereFacts

\* An order of the confirm queue, in place s, is waited for, confirmed, retried, rejected
\* or given up.
ConfirmedTo(s, r, d) ==
    /\ UNCHANGED <<serviceVars, newRequests, submitVars, cancelling>>
    /\ s \in {6, 7, 8} /\ d \in {7, 8, 9, 10, 11} /\ r \in Where[s]
    /\ ReqsOf(confirmNew') = (IF s = 6 THEN Where[6] \ {r} ELSE Where[6])
    /\ ReqsOf(confirmRetry') = (IF d = 7 THEN {r} ELSE {})
    /\ ReqsOf(awaited') = (IF d = 8 THEN {r} ELSE {})
    /\ ReqsOf(confirmed') = (IF d = 9 THEN Where[9] \cup {r} ELSE Where[9])
    /\ ReqsOf(rejected') = (IF d = 10 THEN Where[10] \cup {r} ELSE Where[10])
    /\ ReqsOf(unconfirmed') = (IF d = 11 THEN Where[11] \cup {r} ELSE Where[11])
    /\ Where[7] \cup Where[8] = (IF s = 6 THEN {} ELSE {r})
    /\ Distinct(confirmNew') /\ Distinct(confirmRetry') /\ Distinct(awaited')
    /\ Distinct(confirmed') /\ Distinct(rejected') /\ Distinct(unconfirmed')

LEMMA HeldWhenConfirmedTo ==
    ASSUME Shape, HeldOnce, NEW s, NEW r, NEW d, ConfirmedTo(s, r, d)
    PROVE  HeldOnce'
<1> DEFINE W == Moved(Where, s, d, {r})
<1>1. s \in Places /\ d \in Places /\ r \in Where[s] /\ Where[7] \cap Where[8] = {}
    BY HeldOnceFacts, ApartFacts, PlaceFacts DEF ConfirmedTo
<1>2. Apart(W, Unanswered)
    BY <1>1, HeldOnceFacts, MovedFacts
<1>3. /\ \A p \in Places : p # s /\ p # d => W[p] = Where[p]
      /\ W[d] = Where[d] \cup {r}
      /\ s # d => W[s] = Where[s] \ {r}
    BY <1>1, MovedOne
<1> HIDE DEF W
<1>4. /\ s # 9 /\ s # 10 /\ s # 11 /\ d # 6
      /\ s = 6 => s # d /\ s # 7 /\ s # 8
    BY DEF ConfirmedTo
<1>5. ReqsOf(confirmNew') = W[6]
    BY <1>3, <1>4, PlaceFacts DEF ConfirmedTo
<1>6. ReqsOf(confirmed') = W[9] /\ ReqsOf(rejected') = W[10] /\ ReqsOf(unconfirmed') = W[11]
    BY <1>3, <1>4, PlaceFacts DEF ConfirmedTo
<1>7. ReqsOf(confirmRetry') = W[7]
  <2>1. s # 7 => Where[7] = {}
      BY <1>1 DEF ConfirmedTo
  <2>2. s = 7 => Where[7] = {r}
      BY <1>1 DEF ConfirmedTo
  <2> QED BY <1>3, <2>1, <2>2, PlaceFacts DEF ConfirmedTo
<1>8. ReqsOf(awaited') = W[8]
  <2>1. s # 8 => Where[8] = {}
      BY <1>1 DEF ConfirmedTo
  <2>2. s = 8 => Where[8] = {r}
      BY <1>1 DEF ConfirmedTo
  <2> QED BY <1>3, <2>1, <2>2, PlaceFacts DEF ConfirmedTo
<1>9. \A p \in Places : p \notin {6, 7, 8, 9, 10, 11} => W[p] = Where[p]
    BY <1>3 DEF ConfirmedTo
<1>10. /\ W[1] = Where[1] /\ W[2] = Where[2] /\ W[3] = Where[3] /\ W[4] = Where[4]
       /\ W[5] = Where[5] /\ W[12] = Where[12]
    BY <1>9, PlaceFacts
<1>11. Unanswered' = Unanswered /\ (\A t \in Requests : t > requested' => replies'[t] = <<>>)
    BY UnansweredFacts DEF HeldOnce, serviceVars, ConfirmedTo
<1>12. /\ UNCHANGED <<newRequests, submitNew, submitRetry, submitted, invalid, cancelling>>
       /\ Distinct(confirmNew') /\ Distinct(confirmRetry') /\ Distinct(awaited')
       /\ Distinct(confirmed') /\ Distinct(rejected') /\ Distinct(unconfirmed')
    BY DEF ConfirmedTo, submitVars
<1> QED BY <1>2, <1>5, <1>6, <1>7, <1>8, <1>10, <1>11, <1>12, HeldOnceNext, HeldOnceFacts, WhereFacts

LEMMA ConfirmedPlaces ==
    ASSUME Shape, HeldOnce
    PROVE  /\ Where[6] = ReqsOf(confirmNew) /\ Where[7] = ReqsOf(confirmRetry)
           /\ Where[8] = ReqsOf(awaited) /\ Where[9] = ReqsOf(confirmed)
           /\ Where[10] = ReqsOf(rejected) /\ Where[11] = ReqsOf(unconfirmed)
           /\ \A s \in {6, 7, 8} : \A d \in {9, 10, 11} : Where[s] \cap Where[d] = {}
           /\ confirmed \in Seq(Orders) /\ rejected \in Seq(Orders) /\ unconfirmed \in Seq(Orders)
           /\ confirmNew \in Seq(Orders) /\ confirmRetry \in Seq(Orders) /\ awaited \in Seq(Orders)
           /\ Distinct(confirmed) /\ Distinct(rejected) /\ Distinct(unconfirmed)
           /\ Distinct(confirmNew) /\ Distinct(confirmRetry) /\ Distinct(awaited)
           /\ ReqsOf(<<>>) = {} /\ Distinct(<<>>)
<1>1. ASSUME NEW s \in {6, 7, 8}, NEW d \in {9, 10, 11} PROVE Where[s] \cap Where[d] = {}
  <2>1. s \in Places /\ d \in Places /\ s # d BY PlaceFacts
  <2> QED BY <2>1, HeldOnceFacts, ApartFacts
<1>2. ReqsOf(<<>>) = {} /\ Distinct(<<>>) BY EmptyFacts
<1> QED BY <1>1, <1>2, WhereFacts, HeldOnceFacts DEF Shape, ConfirmShape

\* When a queue takes in an order it does not have.
LEMMA PutIn ==
    ASSUME NEW q \in Seq(Orders), NEW p \in Orders, Distinct(q), p.req \notin ReqsOf(q)
    PROVE  ReqsOf(Append(q, p)) = ReqsOf(q) \cup {p.req} /\ Distinct(Append(q, p))
  BY AppendFacts

LEMMA NotConfirmedTo ==
    ASSUME Shape, HeldOnce, NEW p \in Orders, NotConfirmed(p),
           UNCHANGED <<serviceVars, newRequests, submitVars, confirmNew, cancelling>>,
           NEW s \in {7, 8}, p.req \in Where[s], Where[7] \cup Where[8] = {p.req}
    PROVE  \E d \in {7, 10, 11} : ConfirmedTo(s, p.req, d)
<1>1. p.req \notin ReqsOf(confirmed) /\ p.req \notin ReqsOf(rejected) /\ p.req \notin ReqsOf(unconfirmed)
    BY ConfirmedPlaces
<1>2. /\ ReqsOf(Append(rejected, p)) = Where[10] \cup {p.req} /\ Distinct(Append(rejected, p))
      /\ ReqsOf(Append(unconfirmed, p)) = Where[11] \cup {p.req} /\ Distinct(Append(unconfirmed, p))
    BY <1>1, PutIn, ConfirmedPlaces
<1>3. ReqsOf(<<p>>) = {p.req} /\ Distinct(<<p>>)
    BY SingleFacts
<1>4. awaited' = <<>> /\ confirmed' = confirmed
    BY DEF NotConfirmed
<1> HIDE DEF Orders
<1>5. CASE unconfirmed' = Append(unconfirmed, p) /\ confirmRetry' = <<>> /\ rejected' = rejected
  <2>1. ConfirmedTo(s, p.req, 11)
      BY <1>2, <1>4, <1>5, ConfirmedPlaces DEF ConfirmedTo
  <2> QED BY <2>1
<1>6. CASE rejected' = Append(rejected, p) /\ confirmRetry' = <<>> /\ unconfirmed' = unconfirmed
  <2>1. /\ ReqsOf(confirmed') = Where[9] /\ ReqsOf(rejected') = Where[10] \cup {p.req}
        /\ ReqsOf(unconfirmed') = Where[11] /\ ReqsOf(awaited') = {} /\ ReqsOf(confirmRetry') = {}
      BY <1>2, <1>4, <1>6, ConfirmedPlaces
  <2>2. ConfirmedTo(s, p.req, 10)
      BY <1>2, <1>4, <1>6, <2>1, ConfirmedPlaces DEF ConfirmedTo
  <2> QED BY <2>2
<1>7. CASE confirmRetry' = <<p>> /\ unconfirmed' = unconfirmed /\ rejected' = rejected
  <2>1. ConfirmedTo(s, p.req, 7)
    <3>1. /\ ReqsOf(confirmRetry') = {p.req} /\ ReqsOf(awaited') = {}
          /\ ReqsOf(confirmNew') = Where[6] /\ ReqsOf(confirmed') = Where[9]
          /\ ReqsOf(rejected') = Where[10] /\ ReqsOf(unconfirmed') = Where[11]
        BY <1>3, <1>4, <1>7, ConfirmedPlaces
    <3>2. /\ Distinct(confirmNew') /\ Distinct(confirmRetry') /\ Distinct(awaited')
          /\ Distinct(confirmed') /\ Distinct(rejected') /\ Distinct(unconfirmed')
        BY <1>3, <1>4, <1>7, ConfirmedPlaces
    <3>3. s # 6 /\ s \in {6, 7, 8}
        OBVIOUS
    <3> QED BY ONLY <3>1, <3>2, <3>3, p.req \in Where[s], Where[7] \cup Where[8] = {p.req},
                    UNCHANGED <<serviceVars, newRequests, submitVars, confirmNew, cancelling>>
            DEF ConfirmedTo
  <2> QED BY <2>1
<1> QED BY <1>5, <1>6, <1>7 DEF NotConfirmed

LEMMA HeldWhenConfirmRetry ==
    ASSUME Shape, HeldOnce, ConfirmRetry
    PROVE  HeldOnce'
<1>1. /\ confirmRetry # <<>> /\ confirmRetry[1] \in Orders /\ awaited = <<>>
      /\ UNCHANGED <<serviceVars, newRequests, submitVars, confirmNew, cancelling>>
    BY ConfirmRetryFacts
<1>2. PICK p \in Orders : /\ p.req = confirmRetry[1].req
                          /\ \/ /\ awaited' = <<p>> /\ confirmRetry' = <<>>
                                /\ UNCHANGED <<confirmed, rejected, unconfirmed>>
                             \/ NotConfirmed(p)
    BY ConfirmRetryFacts DEF SameOrder
<1> HIDE DEF Orders
<1>3. Where[7] = {p.req} /\ Where[8] = {}
  <2>1. Len(confirmRetry) <= 1
      BY Lengths DEF Shape, ConfirmShape
  <2>2. ReqsOf(confirmRetry) = {confirmRetry[1].req}
      BY <1>1, <2>1, ShortFacts, ConfirmedPlaces
  <2> QED BY <1>1, <1>2, <2>2, ConfirmedPlaces
<1>4. CASE /\ awaited' = <<p>> /\ confirmRetry' = <<>>
           /\ UNCHANGED <<confirmed, rejected, unconfirmed>>
  <2>1. ReqsOf(<<p>>) = {p.req} /\ Distinct(<<p>>)
      BY SingleFacts
  <2>2. ConfirmedTo(7, p.req, 8)
      BY <1>1, <1>3, <1>4, <2>1, ConfirmedPlaces DEF ConfirmedTo
  <2> QED BY <2>2, HeldWhenConfirmedTo
<1>5. CASE NotConfirmed(p)
    BY <1>1, <1>3, <1>5, NotConfirmedTo, HeldWhenConfirmedTo
<1> QED BY <1>2, <1>4, <1>5

LEMMA HeldWhenConfirmNext ==
    ASSUME Shape, HeldOnce, ConfirmNext
    PROVE  HeldOnce'
<1> DEFINE p == confirmNew[1]
<1>1. /\ confirmNew # <<>> /\ awaited = <<>> /\ confirmRetry = <<>> /\ confirmRetry' = confirmRetry
      /\ awaited' = <<p>> /\ confirmNew' = Tail(confirmNew)
      /\ p \in Orders /\ UNCHANGED <<serviceVars, newRequests, submitVars, cancelling>>
      /\ UNCHANGED <<confirmed, rejected, unconfirmed>>
    BY ConfirmNextFacts
<1>2. /\ ReqsOf(confirmNew) = {p.req} \cup ReqsOf(Tail(confirmNew))
      /\ Distinct(Tail(confirmNew)) /\ p.req \notin ReqsOf(Tail(confirmNew))
    BY <1>1, TailFacts, ConfirmedPlaces
<1> HIDE DEF p, Orders
<1>3. ReqsOf(<<p>>) = {p.req} /\ Distinct(<<p>>)
    BY <1>1, SingleFacts
<1>4. ReqsOf(confirmNew') = Where[6] \ {p.req} /\ p.req \in Where[6]
    BY <1>1, <1>2, ConfirmedPlaces
<1>5. ConfirmedTo(6, p.req, 8)
  <2>1. /\ ReqsOf(confirmRetry') = {} /\ ReqsOf(awaited') = {p.req}
        /\ ReqsOf(confirmed') = Where[9] /\ Where[7] \cup Where[8] = {}
        /\ ReqsOf(rejected') = Where[10] /\ ReqsOf(unconfirmed') = Where[11]
      BY <1>1, <1>3, ConfirmedPlaces
  <2>2. /\ Distinct(confirmNew') /\ Distinct(confirmRetry') /\ Distinct(awaited')
        /\ Distinct(confirmed') /\ Distinct(rejected') /\ Distinct(unconfirmed')
      BY <1>1, <1>2, <1>3, ConfirmedPlaces
  <2> QED BY ONLY <1>1, <1>4, <2>1, <2>2 DEF ConfirmedTo
<1> QED BY <1>5, HeldWhenConfirmedTo

LEMMA HeldWhenSettled ==
    ASSUME Shape, HeldOnce, Settle
    PROVE  HeldOnce'
<1>1. /\ awaited # <<>> /\ awaited[1] \in Orders /\ confirmRetry = <<>>
      /\ UNCHANGED <<serviceVars, newRequests, submitVars, confirmNew, cancelling>>
    BY SettleFacts
<1>2. PICK p \in Orders : /\ p.req = awaited[1].req
                          /\ \/ /\ confirmed' = Append(confirmed, p) /\ awaited' = <<>>
                                /\ confirmRetry' = <<>> /\ UNCHANGED <<rejected, unconfirmed>>
                             \/ NotConfirmed(p)
    BY SettleFacts DEF SameOrder
<1>3. Where[8] = {p.req} /\ Where[7] = {}
  <2>1. Len(awaited) <= 1
      BY Lengths DEF Shape, ConfirmShape
  <2>2. ReqsOf(awaited) = {awaited[1].req}
      BY <1>1, <2>1, ShortFacts, ConfirmedPlaces
  <2> QED BY <1>1, <1>2, <2>2, ConfirmedPlaces
<1>4. CASE /\ confirmed' = Append(confirmed, p) /\ awaited' = <<>>
           /\ confirmRetry' = <<>> /\ UNCHANGED <<rejected, unconfirmed>>
  <2>1. p.req \notin ReqsOf(confirmed) BY <1>3, ConfirmedPlaces
  <2>2. ReqsOf(Append(confirmed, p)) = Where[9] \cup {p.req} /\ Distinct(Append(confirmed, p))
      BY <2>1, PutIn, ConfirmedPlaces
  <2> HIDE DEF Orders
  <2>3. ConfirmedTo(8, p.req, 9)
      BY <1>1, <1>3, <1>4, <2>2, ConfirmedPlaces DEF ConfirmedTo
  <2> QED BY <2>3, HeldWhenConfirmedTo
<1>5. CASE NotConfirmed(p)
    BY <1>1, <1>3, <1>5, NotConfirmedTo, HeldWhenConfirmedTo
<1> QED BY <1>2, <1>4, <1>5

\* The results of ConfirmDone are for requests that are held, and those not answered are
\* put back or to be cancelled.
LEMMA HeldWhenConfirmDone ==
    ASSUME Shape, HeldOnce, ConfirmDone
    PROVE  HeldOnce'
<1> DEFINE B == ReqsOf(Requeued(rejected))
           W1 == Gone(Where, 9, ReqsOf(confirmed))
           W2 == Gone(W1, 10, Refused(rejected))
           W3 == Moved(W2, 10, 2, B)
           W4 == Moved(W3, 11, 12, ReqsOf(unconfirmed))
           U1 == Unanswered \ ReqsOf(confirmed)
           U2 == U1 \ Refused(rejected)
<1>1. /\ submitNew' = submitNew \o Requeued(rejected)
      /\ confirmed' = <<>> /\ rejected' = <<>> /\ unconfirmed' = <<>> /\ cancelling' = unconfirmed
      /\ UNCHANGED <<requested, newRequests, submitRetry, submitted, invalid, confirmNew,
                     confirmRetry, awaited>>
      /\ cancelling = <<>>
    BY DEF ConfirmDone, Shape, CancelShape
<1>2. \A r \in Requests : replies'[r] = IF r \in ReqsOf(confirmed) THEN Append(replies[r], "confirmed")
                                         ELSE IF r \in Refused(rejected) THEN Append(replies[r], "rejected")
                                         ELSE replies[r]
    BY DEF ConfirmDone
<1>3. rejected \in Seq(Orders) /\ submitNew \in Seq(Orders) /\ unconfirmed \in Seq(Orders)
    BY DEF Shape, SubmitShape, ConfirmShape
<1>4. /\ Requeued(rejected) \in Seq(Orders) /\ Distinct(Requeued(rejected))
      /\ ReqsOf(rejected) = B \cup Refused(rejected) /\ B \cap Refused(rejected) = {}
    BY <1>3, RequeuedFacts, RefusedFacts, HeldOnceFacts
<1>5. /\ Where[2] = ReqsOf(submitNew) /\ Where[9] = ReqsOf(confirmed) /\ Where[10] = ReqsOf(rejected)
      /\ Where[11] = ReqsOf(unconfirmed) /\ Where[12] = {}
      /\ Where[2] \cap Where[10] = {} /\ Where[9] \cap Where[10] = {}
      /\ Where[9] \subseteq Unanswered /\ Where[10] \subseteq Unanswered
  <2>1. Where[12] = {} BY <1>1, WhereFacts, EmptyFacts
  <2>2. /\ Where[2] \cap Where[10] = {} /\ Where[9] \cap Where[10] = {}
        /\ Where[9] \subseteq Unanswered /\ Where[10] \subseteq Unanswered
      BY HeldOnceFacts, ApartFacts, PlaceFacts
  <2> QED BY <2>1, <2>2, WhereFacts
<1>6. ReqsOf(submitNew') = Where[2] \cup B /\ Distinct(submitNew')
  <2> HIDE DEF Requeued
  <2>1. ReqsOf(submitNew) \cap B = {} BY <1>4, <1>5
  <2> QED BY <1>1, <1>3, <1>4, <1>5, <2>1, ConcatFacts, HeldOnceFacts
<1>7. /\ ReqsOf(confirmed') = {} /\ Distinct(confirmed') /\ ReqsOf(rejected') = {} /\ Distinct(rejected')
      /\ ReqsOf(unconfirmed') = {} /\ Distinct(unconfirmed')
      /\ ReqsOf(cancelling') = ReqsOf(unconfirmed) /\ Distinct(cancelling')
    BY <1>1, EmptyFacts, HeldOnceFacts
<1>8. Apart(W1, U1)
    BY <1>5, HeldOnceFacts, PlaceFacts, GoneFacts
<1>9. W1[9] = Where[9] \ ReqsOf(confirmed) /\ \A p \in Places : p # 9 => W1[p] = Where[p]
    BY PlaceFacts, GoneOne
<1> HIDE DEF W1, B
<1>10. W1[10] = Where[10] /\ W1[11] = Where[11] /\ W1[12] = Where[12] /\ W1[2] = Where[2]
    BY <1>9, PlaceFacts
<1>11. Apart(W2, U2)
    BY <1>4, <1>5, <1>8, <1>10, PlaceFacts, GoneFacts
<1>12. W2[10] = W1[10] \ Refused(rejected) /\ \A p \in Places : p # 10 => W2[p] = W1[p]
    BY PlaceFacts, GoneOne
<1> HIDE DEF W2
<1>13. Apart(W3, U2)
  <2>1. B \subseteq W2[10] BY <1>4, <1>5, <1>10, <1>12
  <2> QED BY <1>11, <2>1, PlaceFacts, MovedFacts
<1>14. /\ W3[10] = W2[10] \ B /\ W3[2] = W2[2] \cup B
       /\ \A p \in Places : p # 10 /\ p # 2 => W3[p] = W2[p]
  <2>1. 10 \in Places /\ 2 \in Places /\ 10 # 2 BY PlaceFacts
  <2> QED BY ONLY <2>1, MovedOne DEF W3
<1> HIDE DEF W3
<1>15. W3[11] = Where[11] /\ W3[12] = Where[12] /\ W3[9] = W1[9] /\ W2[2] = Where[2]
    BY <1>9, <1>12, <1>14, PlaceFacts
<1>16. Apart(W4, U2)
    BY <1>5, <1>13, <1>15, PlaceFacts, MovedFacts
<1>17. /\ W4[11] = W3[11] \ ReqsOf(unconfirmed) /\ W4[12] = W3[12] \cup ReqsOf(unconfirmed)
       /\ \A p \in Places : p # 11 /\ p # 12 => W4[p] = W3[p]
  <2>1. 11 \in Places /\ 12 \in Places /\ 11 # 12 BY PlaceFacts
  <2> QED BY ONLY <2>1, MovedOne DEF W4
<1> HIDE DEF W4
<1>18. /\ Unanswered' = Unanswered \ (ReqsOf(confirmed) \cup Refused(rejected))
       /\ \A r \in Requests : r > requested' => replies'[r] = <<>>
  <2>1. ASSUME NEW r \in Requests
        PROVE  Append(replies[r], "confirmed") # <<>> /\ Append(replies[r], "rejected") # <<>>
      BY AppendProperties DEF Shape, ServiceShape, Answers
  <2>2. (ReqsOf(confirmed) \cup Refused(rejected)) \subseteq Unanswered
      BY <1>4, <1>5
  <2> DEFINE R == ReqsOf(confirmed) \cup Refused(rejected)
  <2>3. \A r \in Requests : IF r \in R THEN replies'[r] # <<>> ELSE replies'[r] = replies[r]
      BY <1>2, <2>1
  <2> HIDE DEF R
  <2>4. Unanswered' = Unanswered \ R /\ \A r \in Requests : r > requested' => replies'[r] = <<>>
      BY <1>1, <2>2, <2>3, AnsweredFacts DEF R
  <2> QED BY <2>4 DEF R
<1>19. U2 = Unanswered'
    BY <1>18
<1> HIDE DEF U2, U1
<1>20. /\ W4[2] = Where[2] \cup B /\ W4[9] = {} /\ W4[10] = {} /\ W4[11] = {}
       /\ W4[12] = ReqsOf(unconfirmed)
  <2>1. W4[2] = W3[2] /\ W4[9] = W3[9] /\ W4[10] = W3[10]
      BY <1>17, PlaceFacts
  <2> QED BY <2>1, <1>4, <1>5, <1>9, <1>10, <1>12, <1>14, <1>15, <1>17
<1>21. \A p \in Places : p \notin {2, 9, 10, 11, 12} => W4[p] = Where[p]
    BY <1>9, <1>12, <1>14, <1>17
<1>22. /\ W4[1] = Where[1] /\ W4[3] = Where[3] /\ W4[4] = Where[4] /\ W4[5] = Where[5]
       /\ W4[6] = Where[6] /\ W4[7] = Where[7] /\ W4[8] = Where[8]
    BY <1>21, PlaceFacts
<1> QED BY <1>1, <1>6, <1>7, <1>16, <1>18, <1>19, <1>20, <1>22, HeldOnceNext, HeldOnceFacts, WhereFacts

LEMMA HeldWhenFinished ==
    ASSUME Shape, HeldOnce, Finished
    PROVE  HeldOnce'
<1> DEFINE o == cancelling[1]  W == Gone(Where, 12, {o.req})
<1>1. /\ cancelling # <<>> /\ cancelling' = Tail(cancelling) /\ SendResults(<<o>>, "cancelled")
      /\ UNCHANGED <<requested, newRequests, submitVars, confirmVars>>
    BY DEF Finished, Cancelled
<1>2. /\ o \in Orders /\ ReqsOf(cancelling) = {o.req} \cup ReqsOf(Tail(cancelling))
      /\ Distinct(Tail(cancelling)) /\ o.req \notin ReqsOf(Tail(cancelling))
    BY <1>1, TailFacts, HeldOnceFacts DEF Shape, CancelShape
<1> HIDE DEF o, W
<1>3. Where[12] = ReqsOf(cancelling) /\ Where[12] \subseteq Unanswered
    BY HeldOnceFacts, WhereFacts, ApartFacts, PlaceFacts
<1>4. ReqsOf(cancelling') = Where[12] \ {o.req} /\ Distinct(cancelling')
    BY <1>1, <1>2, <1>3
<1>5. Apart(W, Unanswered \ {o.req})
    BY <1>2, <1>3, HeldOnceFacts, PlaceFacts, GoneFacts DEF W
<1>6. W[12] = Where[12] \ {o.req} /\ \A p \in Places : p # 12 => W[p] = Where[p]
    BY PlaceFacts, GoneOne DEF W
<1>7. ReqsOf(<<o>>) = {o.req}
    BY <1>2, SingleFacts
<1>8. /\ Unanswered' = Unanswered \ {o.req}
      /\ \A r \in Requests : r > requested' => replies'[r] = <<>>
  <2>1. ASSUME NEW r \in Requests PROVE Append(replies[r], "cancelled") # <<>>
      BY AppendProperties DEF Shape, ServiceShape, Answers
  <2>2. \A r \in Requests : IF r \in {o.req} THEN replies'[r] # <<>> ELSE replies'[r] = replies[r]
      BY <1>1, <1>7, <2>1 DEF SendResults
  <2>3. {o.req} \subseteq Unanswered BY <1>2, <1>3
  <2> QED BY <1>1, <2>2, <2>3, AnsweredFacts
<1>9. /\ W[1] = Where[1] /\ W[2] = Where[2] /\ W[3] = Where[3] /\ W[4] = Where[4]
      /\ W[5] = Where[5] /\ W[6] = Where[6] /\ W[7] = Where[7] /\ W[8] = Where[8]
      /\ W[9] = Where[9] /\ W[10] = Where[10] /\ W[11] = Where[11]
    BY <1>6, PlaceFacts
<1> QED BY <1>1, <1>4, <1>5, <1>6, <1>8, <1>9, HeldOnceNext, HeldOnceFacts, WhereFacts
        DEF submitVars, confirmVars

\* Nothing is held, and nothing is unanswered.
Nowhere == [p \in Places |-> {}]

LEMMA NowhereFacts ==
    /\ Apart(Nowhere, {})
    /\ Nowhere[1] = {} /\ Nowhere[2] = {} /\ Nowhere[3] = {} /\ Nowhere[4] = {}
    /\ Nowhere[5] = {} /\ Nowhere[6] = {} /\ Nowhere[7] = {} /\ Nowhere[8] = {}
    /\ Nowhere[9] = {} /\ Nowhere[10] = {} /\ Nowhere[11] = {} /\ Nowhere[12] = {}
<1>1. \A p \in Places : Nowhere[p] = {}
    BY DEF Nowhere
<1>2. Nowhere = [p \in Places |-> Nowhere[p]]
    BY DEF Nowhere
<1> QED BY <1>1, <1>2, PlaceFacts DEF Apart

LEMMA HeldWhenCrashed ==
    ASSUME Shape, HeldOnce, Crash
    PROVE  HeldOnce'
<1>1. /\ newRequests' = <<>>
      /\ submitNew' = <<>> /\ submitRetry' = <<>> /\ submitted' = <<>> /\ invalid' = <<>>
      /\ confirmNew' = <<>> /\ confirmRetry' = <<>> /\ awaited' = <<>>
      /\ confirmed' = <<>> /\ rejected' = <<>> /\ unconfirmed' = <<>> /\ cancelling' = <<>>
    BY DEF Crash
<1>2. \A r \in Requests : replies'[r] = IF r <= requested /\ replies[r] = <<>>
                                         THEN <<"crashed">> ELSE replies[r]
    BY DEF Crash
<1>3. ReqsOf(<<>>) = {} /\ Distinct(<<>>)
    BY EmptyFacts
<1>4. requested' = requested /\ requested \in Nat /\ \A r \in Requests : r \in Nat
    BY WalletAssumption DEF Crash, Shape, ServiceShape, Requests
<1>5. <<"crashed">> # <<>>
    OBVIOUS
<1>6. Unanswered' = {}
    BY <1>2, <1>4, <1>5 DEF Unanswered
<1>7. ASSUME NEW r \in Requests, r > requested PROVE replies'[r] = <<>>
    BY <1>2, <1>4, <1>7 DEF HeldOnce
<1> QED BY <1>1, <1>3, <1>4, <1>6, <1>7, HeldOnceNext, NowhereFacts

LEMMA HeldOnceInvariant == Spec => []HeldOnce
<1>1. Init => HeldOnce
  <2> SUFFICES ASSUME Init PROVE HeldOnce
      OBVIOUS
  <2>1. /\ newRequests = <<>>
        /\ submitNew = <<>> /\ submitRetry = <<>> /\ submitted = <<>> /\ invalid = <<>>
        /\ confirmNew = <<>> /\ confirmRetry = <<>> /\ awaited = <<>>
        /\ confirmed = <<>> /\ rejected = <<>> /\ unconfirmed = <<>> /\ cancelling = <<>>
      BY DEF Init
  <2>2. ReqsOf(<<>>) = {} /\ Distinct(<<>>)
      BY EmptyFacts
  <2>3. ASSUME NEW p \in Places PROVE Where[p] = {} /\ Distinct(Held[p])
    <3>1. Held[p] = <<>> BY <2>1, AllPlaces, HeldFacts
    <3> QED BY <3>1, <2>2 DEF Where
  <2>4. Unanswered = {} /\ \A r \in Requests : r > requested => replies[r] = <<>>
      BY DEF Init, Unanswered, Requests
  <2>5. Where = Nowhere
      BY <2>3 DEF Where, Nowhere
  <2> QED BY <2>3, <2>4, <2>5, NowhereFacts DEF HeldOnce
<1>2. Shape /\ HeldOnce /\ [Next]_vars => HeldOnce'
  <2> SUFFICES ASSUME Shape, HeldOnce, [Next]_vars PROVE HeldOnce'
      OBVIOUS
  <2>1. CASE UNCHANGED queueVars
    <3>1. UNCHANGED <<requested, replies, newRequests, submitNew, submitRetry, submitted, invalid,
                      confirmNew, confirmRetry, awaited, confirmed, rejected, unconfirmed, cancelling>>
        BY <2>1 DEF queueVars, serviceVars, submitVars, confirmVars
    <3>2. Unanswered' = Unanswered
        BY <3>1 DEF Unanswered
    <3> QED BY <3>1, <3>2, HeldOnceNext, HeldOnceFacts, WhereFacts DEF HeldOnce
  <2> QED BY <2>1, QueueSteps, HeldWhenAdded, HeldWhenTaken, HeldWhenSubmitted, HeldWhenSubmitDone,
             HeldWhenConfirmRetry, HeldWhenConfirmNext, HeldWhenSettled, HeldWhenConfirmDone,
             HeldWhenFinished, HeldWhenCrashed
<1> QED BY <1>1, <1>2, ShapeInvariant, PTL DEF Spec

\* Until it is answered a request is in exactly one queue of the worker, in one position,
\* and in none afterwards.
THEOREM NothingIsLostBetweenQueues == Spec => []HeldUntilAnswered
<1>1. HeldOnce => HeldUntilAnswered
  <2> SUFFICES ASSUME HeldOnce, NEW r \in Requests
               PROVE  Cardinality({p \in UNION {{i} \X DOMAIN Held[i] : i \in DOMAIN Held} :
                                      Held[p[1]][p[2]].req = r})
                         = IF r <= requested /\ replies[r] = <<>> THEN 1 ELSE 0
      BY DEF HeldUntilAnswered
  <2> DEFINE S == {p \in UNION {{i} \X DOMAIN Held[i] : i \in DOMAIN Held} :
                      Held[p[1]][p[2]].req = r}
  <2>1. DOMAIN Held = Places
      BY HeldFacts
  <2>2. \A i \in Places : Where[i] = {Held[i][j].req : j \in DOMAIN Held[i]}
      BY DEF Where, ReqsOf
  <2>3. \A i \in Places : Distinct(Held[i])
      BY DEF HeldOnce
  <2>4. ASSUME NEW p \in S
        PROVE  /\ p[1] \in Places /\ p[2] \in DOMAIN Held[p[1]] /\ p = <<p[1], p[2]>>
               /\ Held[p[1]][p[2]].req = r /\ r \in Where[p[1]]
      BY <2>1, <2>2
  <2> HIDE DEF S, Places
  <2>5. CASE r \in Unanswered
    <3>1. PICK i \in Places : r \in Where[i]
        BY <2>5 DEF HeldOnce, Apart
    <3>2. PICK j \in DOMAIN Held[i] : Held[i][j].req = r
        BY <2>2, <3>1
    <3>3. <<i, j>> \in S
        BY <2>1, <3>2 DEF S
    <3>4. ASSUME NEW p \in S PROVE p = <<i, j>>
      <4>1. p[1] = i
          BY <2>4, <3>1 DEF HeldOnce, Apart
      <4>2. p[2] = j
          BY <2>3, <2>4, <3>2, <4>1 DEF Distinct
      <4> QED BY <2>4, <4>1, <4>2
    <3>5. S = {<<i, j>>}
        BY <3>3, <3>4
    <3>6. Cardinality({<<i, j>>}) = 1
        BY FS_Singleton
    <3>7. Cardinality(S) = 1
        BY <3>5, <3>6, Zenon
    <3> QED BY <2>5, <3>7 DEF S, Unanswered
  <2>6. CASE r \notin Unanswered
    <3>1. ASSUME NEW p \in S PROVE FALSE
        BY <2>4, <2>6 DEF HeldOnce, Apart
    <3>2. S = {}
        BY <3>1
    <3>3. Cardinality(S) = 0
        BY <3>2, FS_EmptySet, Zenon
    <3> QED BY <2>6, <3>3 DEF S, Unanswered
  <2> QED BY <2>5, <2>6
<1> QED BY <1>1, HeldOnceInvariant, PTL

-----------------------------------------------------------------------------
(* The nonces in use.                                                      *)

Known(P, n) == \E tx \in P : tx.nonce = n

LEMMA NextNoNonceGap ==
    ASSUME Shape, NoNonceGap, [Next]_vars
    PROVE  NoNonceGap'
<1>1. ChainShape BY DEF Shape
<1>2. /\ latestNonce \in Nat /\ nonce \in Nat /\ pendingNonce \in Nat
      /\ \A m \in latestNonce..(pendingNonce - 1) : Known(pool, m)
    BY <1>1, LatestFacts, PendingFacts DEF ChainShape, Pooled, Known
<1>3. NoNonceGap <=> forgotten \/ \A n \in latestNonce..(nonce - 1) : Known(pool, n)
    BY DEF NoNonceGap, Pooled, Known
<1>4. NoNonceGap' <=> forgotten' \/ \A n \in Len(mined')..(nonce' - 1) : Known(pool', n)
    BY DEF NoNonceGap, Pooled, Known, latestNonce
\* Sending takes nothing away.
<1>5. ASSUME pool \subseteq pool', UNCHANGED <<mined, forgotten>>,
             \/ nonce' = nonce
             \/ nonce' = pendingNonce
             \/ nonce' = nonce + 1 /\ Known(pool', nonce)
      PROVE  NoNonceGap'
  <2>1. ASSUME NEW n, Known(pool, n) PROVE Known(pool', n)
      BY <1>5, <2>1 DEF Known
  <2> SUFFICES ASSUME ~forgotten, NEW n \in latestNonce..(nonce' - 1) PROVE Known(pool', n)
      BY <1>4, <1>5 DEF latestNonce
  <2>2. CASE nonce' = nonce
      BY <1>3, <2>1, <2>2
  <2>3. CASE nonce' = pendingNonce
      BY <1>2, <2>1, <2>3
  <2>4. CASE nonce' = nonce + 1 /\ Known(pool', nonce)
    <3>1. n \in latestNonce..(nonce - 1) \/ n = nonce
        BY <1>2, <2>4
    <3> QED BY <1>3, <2>1, <2>4, <3>1
  <2> QED BY <1>5, <2>2, <2>3, <2>4
<1>6. CASE SubmitRetry \/ SubmitNext
  <2> DEFINE o == Taken  sent == [Taken EXCEPT !.nonce = nonce, !.tries = 0]
  <2>1. o \in Orders /\ Submit(o) /\ UNCHANGED <<mined, forgotten>>
      BY <1>6, TakenFacts
  <2>2. /\ sent \in Orders /\ sent.nonce = nonce
        /\ \/ nonce' = nonce + 1 /\ Accepts(Tx(sent, "original"))
           \/ nonce' = pendingNonce /\ pool' = pool
           \/ nonce' = nonce /\ (pool' = pool \/ Accepts(Tx(sent, "original")))
      BY <2>1, SubmitFacts
  <2>3. Tx(sent, "original").nonce = nonce
      BY <2>2 DEF Tx
  <2> HIDE DEF sent, o
  <2>4. Accepts(Tx(sent, "original")) => pool \subseteq pool' /\ Known(pool', nonce)
      BY <2>3 DEF Accepts, Known
  <2> QED BY <1>5, <2>1, <2>2, <2>4
<1>7. CASE ConfirmRetry
  <2>1. pool \subseteq pool' /\ UNCHANGED <<mined, forgotten, nonce>>
      BY <1>7, ConfirmRetryFacts DEF Accepts
  <2> QED BY <1>5, <2>1
<1>8. CASE CancelSend
  <2>1. pool \subseteq pool' /\ UNCHANGED <<mined, forgotten, nonce>>
      BY <1>8 DEF CancelSend, SendFails, Accepts
  <2> QED BY <1>5, <2>1
<1>9. CASE ForeignTransaction
  <2>1. pool \subseteq pool' /\ UNCHANGED <<mined, forgotten, nonce>>
      BY <1>9 DEF ForeignTransaction
  <2> QED BY <1>5, <2>1
<1>10. CASE Crash
  <2>1. pool \subseteq pool' /\ UNCHANGED <<mined, forgotten>> /\ nonce' = pendingNonce
      BY <1>10 DEF Crash, chainVars
  <2> QED BY <1>5, <2>1
<1>11. CASE Drop
    BY <1>4, <1>11 DEF Drop
<1>12. CASE Mine
  <2>1. PICK tx \in Pooled(latestNonce), ok \in BOOLEAN : mined' = Append(mined, [tx |-> tx, ok |-> ok])
      BY <1>12 DEF Mine
  <2>2. pool' = pool \ Pooled(latestNonce) /\ UNCHANGED <<nonce, forgotten>>
      BY <1>12 DEF Mine
  <2>3. Len(mined') = latestNonce + 1
      BY <1>1, <2>1, AppendProperties, LenProperties DEF ChainShape, latestNonce
  <2> SUFFICES ASSUME ~forgotten, NEW n \in (latestNonce + 1)..(nonce - 1) PROVE Known(pool', n)
      BY <1>4, <2>2, <2>3
  <2>4. n \in latestNonce..(nonce - 1) /\ n # latestNonce
      BY <1>2
  <2> QED BY <1>3, <2>2, <2>4 DEF Known, Pooled
<1>13. CASE UNCHANGED <<chainVars, nonce>>
    BY <1>3, <1>4, <1>13 DEF chainVars, latestNonce
<1> HIDE DEF NoNonceGap
<1> QED BY <1>6, <1>7, <1>8, <1>9, <1>10, <1>11, <1>12, <1>13, ChainSteps

\* As long as the network forgets nothing, every nonce below the one to be used next is
\* taken, whatever submissions fail and however often the nonce is resynchronised.
THEOREM NoncesHaveNoGap == Spec => []NoNonceGap
<1>1. Init => NoNonceGap
  <2> SUFFICES ASSUME Init PROVE NoNonceGap
      OBVIOUS
  <2>1. latestNonce = 0 /\ nonce = 0
      BY EmptyFacts DEF Init, latestNonce
  <2>2. latestNonce..(nonce - 1) = {}
      BY <2>1
  <2> QED BY <2>2 DEF NoNonceGap
<1>2. Shape /\ NoNonceGap /\ [Next]_vars => NoNonceGap'
    BY NextNoNonceGap
<1> QED BY <1>1, <1>2, ShapeInvariant, PTL DEF Spec

\* What the chain says of the orders that are confirmed or rejected.
ConfirmedExecuted == \A o \in OrdersIn(confirmed) : WentThrough(o)
NonceTaken == \A o \in OrdersIn(rejected) : o.error = "nonce" => LostNonce(o)

\* What is mined stays as it is.
LEMMA MinedGrows ==
    ASSUME Shape, [Next]_vars
    PROVE  /\ Len(mined') >= latestNonce /\ \A i \in 1..latestNonce : mined'[i] = mined[i]
           /\ \A o \in Orders : (WentThrough(o) => WentThrough(o)') /\ (LostNonce(o) => LostNonce(o)')
<1>1. ChainShape BY DEF Shape
<1>2. latestNonce \in Nat
    BY <1>1, LatestFacts
<1>3. Len(mined') >= latestNonce /\ Len(mined') \in Nat /\ \A i \in 1..latestNonce : mined'[i] = mined[i]
  <2>1. CASE mined' = mined
      BY <1>2, <2>1 DEF latestNonce
  <2>2. CASE Mine
    <3>1. PICK tx \in Pooled(latestNonce), ok \in BOOLEAN : mined' = Append(mined, [tx |-> tx, ok |-> ok])
        BY <2>2 DEF Mine
    <3> DEFINE m == [tx |-> tx, ok |-> ok]
    <3>2. m \in MinedTxs
        BY <1>1 DEF MinedTxs, ChainShape, Pooled
    <3> HIDE DEF m, MinedTxs
    <3>3. Len(mined') = latestNonce + 1 /\ \A i \in 1..latestNonce : mined'[i] = mined[i]
        BY <1>1, <3>1, <3>2, AppendProperties DEF ChainShape, latestNonce, m
    <3> QED BY <1>2, <3>3
  <2>3. SubmitRetry \/ SubmitNext => mined' = mined BY TakenFacts
  <2>4. ConfirmRetry => mined' = mined BY ConfirmRetryFacts
  <2>5. CancelSend \/ Drop \/ ForeignTransaction \/ Crash => mined' = mined
      BY DEF CancelSend, Drop, ForeignTransaction, Crash, chainVars
  <2>6. UNCHANGED <<chainVars, nonce>> => mined' = mined BY DEF chainVars
  <2> QED BY <2>1, <2>2, <2>3, <2>4, <2>5, <2>6, ChainSteps
<1>4. ASSUME NEW o \in Orders
      PROVE  (WentThrough(o) => WentThrough(o)') /\ (LostNonce(o) => LostNonce(o)')
  <2>1. o.nonce \in Nat BY OrderFields
  <2>2. ASSUME o.nonce < latestNonce
        PROVE  o.nonce < Len(mined') /\ mined'[o.nonce + 1] = mined[o.nonce + 1]
    <3>1. o.nonce + 1 \in 1..latestNonce BY <1>2, <2>1, <2>2
    <3> QED BY <1>2, <1>3, <2>1, <2>2, <3>1
  <2> QED BY <2>2 DEF WentThrough, LostNonce, latestNonce
<1> QED BY <1>3, <1>4

LEMMA ConfirmedExecutedInvariant == Spec => [](ConfirmedExecuted /\ NonceTaken)
<1>1. Init => ConfirmedExecuted /\ NonceTaken
    BY EmptyFacts DEF Init, ConfirmedExecuted, NonceTaken
<1>2. Shape /\ ConfirmedExecuted /\ NonceTaken /\ [Next]_vars => (ConfirmedExecuted /\ NonceTaken)'
  <2> SUFFICES ASSUME Shape, ConfirmedExecuted, NonceTaken, [Next]_vars
               PROVE  /\ \A o \in OrdersIn(confirmed') : WentThrough(o)'
                      /\ \A o \in OrdersIn(rejected') : o.error = "nonce" => LostNonce(o)'
      BY DEF ConfirmedExecuted, NonceTaken, OrdersIn
  <2>1. confirmed \in Seq(Orders) /\ rejected \in Seq(Orders)
      BY DEF Shape, ConfirmShape
  <2>2. /\ \A o \in Orders : (WentThrough(o) => WentThrough(o)') /\ (LostNonce(o) => LostNonce(o)')
        /\ OrdersIn(confirmed) \subseteq Orders /\ OrdersIn(rejected) \subseteq Orders
      BY <2>1, MinedGrows, QueueFacts
  <2>3. /\ \A o \in OrdersIn(confirmed) : WentThrough(o)'
        /\ \A o \in OrdersIn(rejected) : o.error = "nonce" => LostNonce(o)'
      BY <2>2 DEF ConfirmedExecuted, NonceTaken
  <2>4. OrdersIn(<<>>) = {}
      BY EmptyFacts
  <2>5. ASSUME NEW q \in {confirmed, rejected}, NEW p \in Orders
        PROVE  OrdersIn(Append(q, p)) = OrdersIn(q) \cup {p}
      BY <2>1, AppendFacts
  <2>6. ASSUME NEW p \in Orders, NotConfirmed(p)
        PROVE  /\ \A o \in OrdersIn(confirmed') : WentThrough(o)'
               /\ \A o \in OrdersIn(rejected') : o.error = "nonce" => LostNonce(o)'
    <3>1. confirmed' = confirmed
        BY <2>6 DEF NotConfirmed
    <3>2. CASE rejected' = rejected
        BY <2>3, <3>1, <3>2
    <3>3. CASE rejected' = Append(rejected, p) /\ (p.error = "nonce" => LostNonce(p))
      <4>1. OrdersIn(rejected') = OrdersIn(rejected) \cup {p} BY <2>5, <3>3
      <4>2. p.error = "nonce" => LostNonce(p)' BY <2>2, <3>3
      <4> HIDE DEF Orders
      <4> QED BY <2>3, <3>1, <4>1, <4>2
    <3> QED BY <2>6, <3>2, <3>3 DEF NotConfirmed
  <2>7. CASE UNCHANGED <<confirmed, rejected>>
      BY <2>3, <2>7
  <2>8. CASE ConfirmRetry
    <3>1. PICK p \in Orders : UNCHANGED <<confirmed, rejected>> \/ NotConfirmed(p)
        BY <2>8, ConfirmRetryFacts
    <3> QED BY <2>6, <2>7, <3>1
  <2>9. CASE Settle
    <3>1. PICK p \in Orders :
              \/ confirmed' = Append(confirmed, p) /\ WentThrough(p) /\ UNCHANGED rejected
              \/ NotConfirmed(p)
        BY <2>9, SettleFacts
    <3>2. CASE confirmed' = Append(confirmed, p) /\ WentThrough(p) /\ UNCHANGED rejected
      <4>1. OrdersIn(confirmed') = OrdersIn(confirmed) \cup {p} BY <2>5, <3>2
      <4> HIDE DEF Orders
      <4> QED BY <2>2, <2>3, <3>2, <4>1
    <3> QED BY <2>6, <3>1, <3>2
  <2>10. CASE ConfirmDone \/ Crash
      BY <2>4, <2>10 DEF ConfirmDone, Crash
  <2>11. CASE SubmitDone \/ ConfirmNext
      BY <2>7, <2>11 DEF SubmitDone, ConfirmNext
  <2>12. CASE UNCHANGED confirmVars
      BY <2>7, <2>12 DEF confirmVars
  <2> QED BY <2>8, <2>9, <2>10, <2>11, <2>12, ConfirmSteps
<1> QED BY <1>1, <1>2, ShapeInvariant, PTL DEF Spec

-----------------------------------------------------------------------------
(* The order in which requests are sent.                                   *)

\* Requests that were not put back wait in the order in which they were made.
WaitInOrder ==
    /\ Ascending(newRequests) /\ Ascending(submitNew)
    /\ Before(OrdersIn(submitNew), OrdersIn(newRequests))
    /\ Before(OrdersIn(submitRetry), OrdersIn(newRequests))
    /\ Before(OrdersIn(submitRetry), OrdersIn(submitNew))

LEMMA HeldRequests ==
    ASSUME Shape, HeldOnce
    PROVE  \A p \in Places : \A r \in ReqsOf(Held[p]) : r \in 1..requested
<1>1. \A p \in Places : Where[p] = ReqsOf(Held[p]) /\ Where[p] \subseteq Unanswered
    BY DEF Where, HeldOnce, Apart
<1> QED BY <1>1, UnansweredFacts

LEMMA NextWaitInOrder ==
    ASSUME Shape, HeldOnce, WaitInOrder, [Next]_vars
    PROVE  WaitInOrder'
<1>1. /\ newRequests \in Seq(Orders) /\ submitNew \in Seq(Orders) /\ submitRetry \in Seq(Orders)
      /\ Len(submitRetry) <= 1
    BY DEF Shape, SubmitShape
<1>2. SUFFICES /\ Ascending(newRequests') /\ Ascending(submitNew')
               /\ Before(OrdersIn(submitNew'), OrdersIn(newRequests'))
               /\ Before(OrdersIn(submitRetry'), OrdersIn(newRequests'))
               /\ Before(OrdersIn(submitRetry'), OrdersIn(submitNew'))
    BY DEF WaitInOrder, Ascending, Before, OrdersIn
<1>3. OrdersIn(<<>>) = {} /\ Ascending(<<>>)
    BY EmptyFacts
<1> USE DEF WaitInOrder
<1>4. CASE AddTransaction
  <2> DEFINE o == NewOrder(requested + 1, 0)
  <2>1. o \in Orders /\ o.req = requested + 1
    <3>1. requested + 1 \in Requests /\ 0 \in Nat
        BY <1>4, WalletAssumption DEF AddTransaction, Shape, ServiceShape, Requests
    <3> QED BY <3>1, NewOrderFacts
  <2>2. newRequests' = Append(newRequests, o) /\ UNCHANGED <<submitNew, submitRetry>>
      BY <1>4 DEF AddTransaction, submitVars
  <2> HIDE DEF o
  <2>3. ASSUME NEW q \in {newRequests, submitNew, submitRetry} PROVE Before(OrdersIn(q), {o})
    <3>1. q \in Seq(Orders) /\ \E p \in Places : q = Held[p]
        BY <1>1, HeldFacts, PlaceFacts
    <3>2. \A r \in ReqsOf(q) : r \in 1..requested
        BY <3>1, HeldRequests
    <3>3. \A p \in OrdersIn(q) : p.req \in ReqsOf(q)
        BY <3>1, QueueFacts
    <3>4. requested \in Nat BY WalletAssumption DEF Shape, ServiceShape
    <3> QED BY <2>1, <3>2, <3>3, <3>4 DEF Before
  <2>4. OrdersIn(newRequests') = OrdersIn(newRequests) \cup {o} /\ Ascending(newRequests')
      BY <1>1, <2>1, <2>2, <2>3, AppendFacts
  <2> QED BY <2>2, <2>3, <2>4 DEF Before
<1>5. CASE ProcessNewRequestsQueue
  <2>1. PICK n \in 0..Len(newRequests) :
              /\ submitNew' = submitNew \o SubSeq(newRequests, 1, n)
              /\ newRequests' = SubSeq(newRequests, n + 1, Len(newRequests))
              /\ submitRetry' = submitRetry
      BY <1>5, RoomFacts
  <2> DEFINE a == SubSeq(newRequests, 1, n)  b == SubSeq(newRequests, n + 1, Len(newRequests))
  <2>2. submitNew' = submitNew \o a /\ newRequests' = b
      BY <2>1
  <2>3. /\ a \in Seq(Orders) /\ b \in Seq(Orders) /\ Ascending(a) /\ Ascending(b)
        /\ OrdersIn(newRequests) = OrdersIn(a) \cup OrdersIn(b) /\ Before(OrdersIn(a), OrdersIn(b))
      BY <1>1, SplitFacts
  <2> HIDE DEF a, b
  <2>4. Before(OrdersIn(submitNew), OrdersIn(a))
      BY <2>3 DEF Before
  <2>5. OrdersIn(submitNew') = OrdersIn(submitNew) \cup OrdersIn(a) /\ Ascending(submitNew')
      BY <1>1, <2>2, <2>3, <2>4, ConcatFacts
  <2> QED BY <2>1, <2>2, <2>3, <2>5 DEF Before
<1>6. CASE SubmitRetry \/ SubmitNext
  <2> DEFINE o == Taken
  <2>1. o \in Orders /\ Submit(o) /\ newRequests' = newRequests
      BY <1>6, TakenFacts
  <2>2. submitRetry' = <<>> \/ submitRetry' = <<o>>
      BY <2>1, SubmitFacts
  <2>3. /\ Ascending(submitNew') /\ OrdersIn(submitNew') \subseteq OrdersIn(submitNew)
        /\ Before({o}, OrdersIn(submitNew')) /\ Before({o}, OrdersIn(newRequests))
    <3>1. CASE SubmitRetry
      <4>1. submitNew' = submitNew /\ submitRetry # <<>> BY <3>1 DEF SubmitRetry
      <4>2. submitRetry[1] \in OrdersIn(submitRetry)
          BY <1>1, <4>1, ShortFacts
      <4>3. o.req = submitRetry[1].req /\ o.requeue = submitRetry[1].requeue
          BY <3>1, TakenFacts DEF SameOrder
      <4> HIDE DEF o
      <4> QED BY <4>1, <4>2, <4>3 DEF Before
    <3>2. CASE SubmitNext
      <4>1. submitNew # <<>> /\ submitNew' = Tail(submitNew) BY <3>2 DEF SubmitNext
      <4>2. o = submitNew[1] BY <3>2, TakenFacts
      <4>3. /\ OrdersIn(submitNew) = {submitNew[1]} \cup OrdersIn(Tail(submitNew))
            /\ Ascending(Tail(submitNew)) /\ Before({submitNew[1]}, OrdersIn(Tail(submitNew)))
          BY <1>1, <4>1, TailFacts
      <4> HIDE DEF o
      <4> QED BY <4>1, <4>2, <4>3 DEF Before
    <3> QED BY <1>6, <3>1, <3>2
  <2>4. OrdersIn(<<o>>) = {o} BY <2>1, SingleFacts
  <2> HIDE DEF o
  <2>5. OrdersIn(submitRetry') \subseteq {o}
      BY <1>3, <2>2, <2>4
  <2> QED BY <2>1, <2>3, <2>5 DEF Before
<1>7. CASE ConfirmDone
  <2> DEFINE b == Requeued(rejected)
  <2>1. submitNew' = submitNew \o b /\ UNCHANGED <<newRequests, submitRetry>>
      BY <1>7 DEF ConfirmDone
  <2>2. b \in Seq(Orders) /\ \A o \in OrdersIn(b) : o.requeue > 0
      BY RequeuedFacts DEF Shape, ConfirmShape
  <2> HIDE DEF b
  <2>3. Before(OrdersIn(submitNew), OrdersIn(b)) /\ Before(OrdersIn(b), OrdersIn(newRequests))
        /\ Before(OrdersIn(submitRetry), OrdersIn(b))
      BY <2>2 DEF Before
  <2>4. Ascending(b)
      BY <2>2 DEF Ascending, OrdersIn
  <2>5. OrdersIn(submitNew') = OrdersIn(submitNew) \cup OrdersIn(b) /\ Ascending(submitNew')
      BY <1>1, <2>1, <2>2, <2>3, <2>4, ConcatFacts
  <2> QED BY <2>1, <2>3, <2>5 DEF Before
<1>8. CASE Crash
  <2>1. newRequests' = <<>> /\ submitNew' = <<>> /\ submitRetry' = <<>> BY <1>8 DEF Crash
  <2> QED BY <1>3, <2>1 DEF Before
<1>9. CASE SubmitDone
    BY <1>9 DEF SubmitDone
<1>10. CASE UNCHANGED <<newRequests, submitVars>>
    BY <1>10 DEF submitVars
<1> QED BY <1>4, <1>5, <1>6, <1>7, <1>8, <1>9, <1>10, SubmitSteps

-----------------------------------------------------------------------------
(* What has been sent, and what waits to be.                               *)

Waiting == OrdersIn(newRequests) \cup OrdersIn(submitNew) \cup OrdersIn(submitRetry)
Sent == OrdersIn(submitted) \cup OrdersIn(confirmNew) \cup OrdersIn(confirmRetry)
          \cup OrdersIn(awaited) \cup OrdersIn(confirmed) \cup OrdersIn(rejected)
          \cup OrdersIn(unconfirmed) \cup OrdersIn(cancelling)

\* The transactions of the network, and those of orders whose transaction it has forgotten.
Issued == KnownTxs \cup {Tx(o, "original") : o \in Sent}

\* A transaction that executes a request, and another one for the same order.
Own(t) == t.req \in Requests /\ t.kind # "cancel"
Alike(t, u) == t.req = u.req /\ t.requeue = u.requeue /\ t.nonce = u.nonce

\* The order as it is put into submitted.
TakenSent == [Taken EXCEPT !.nonce = nonce, !.tries = 0]
Submits ==
    /\ SubmitRetry \/ SubmitNext
    /\ Accepts(Tx(TakenSent, "original")) /\ submitRetry' = <<>>

LEMMA SentFacts ==
    ASSUME Shape
    PROVE  Sent \subseteq Orders /\ Waiting \subseteq Orders
  BY QueueFacts DEF Shape, SubmitShape, ConfirmShape, CancelShape, Sent, Waiting

LEMMA KnownSteps ==
    ASSUME Shape, [Next]_vars, NEW t \in KnownTxs', Own(t)
    PROVE  \/ t \in KnownTxs
           \/ ConfirmRetry /\ \E o \in OrdersIn(confirmRetry) : Alike(t, o)
           \/ Submits /\ t = Tx(TakenSent, "original")
<1>1. t \in pool' \/ \E i \in DOMAIN mined' : t = mined'[i].tx
    BY DEF KnownTxs
<1>2. ASSUME mined' = mined, t \in pool => t \in KnownTxs, t \notin KnownTxs
      PROVE  t \in pool' /\ t \notin pool
    BY <1>1, <1>2 DEF KnownTxs
<1>3. t \in pool => t \in KnownTxs
    BY DEF KnownTxs
<1>4. CASE SubmitRetry \/ SubmitNext
  <2>1. Taken \in Orders /\ Submit(Taken) /\ mined' = mined
      BY <1>4, TakenFacts
  <2>2. pool' = pool \/ (Accepts(Tx(TakenSent, "original")) /\ submitRetry' = <<>>)
      BY <2>1, SubmitFacts DEF TakenSent
  <2> QED BY <1>2, <1>3, <1>4, <2>1, <2>2 DEF Accepts, Submits
<1>5. CASE ConfirmRetry
  <2>1. PICK p \in Orders : /\ SameOrder(confirmRetry[1], p)
                            /\ pool' = pool \/ Accepts(Tx(p, "replacement"))
      BY <1>5, ConfirmRetryFacts
  <2>2. confirmRetry # <<>> /\ mined' = mined /\ confirmRetry \in Seq(Orders)
      BY <1>5, ConfirmRetryFacts DEF Shape, ConfirmShape
  <2>3. confirmRetry[1] \in OrdersIn(confirmRetry)
    <3>1. Len(confirmRetry) \in Nat /\ Len(confirmRetry) > 0 BY <2>2, QueueFacts
    <3>2. 1 \in 1..Len(confirmRetry) BY <3>1
    <3> QED BY <3>2, <2>2, QueueFacts
  <2>4. Alike(Tx(p, "replacement"), confirmRetry[1])
      BY <2>1 DEF Alike, SameOrder, Tx
  <2> QED BY <1>2, <1>3, <1>5, <2>1, <2>2, <2>3, <2>4 DEF Accepts
<1>6. CASE CancelSend
  <2>1. mined' = mined /\ (pool' = pool \/ Accepts(Tx(cancelling[1], "cancel")))
      BY <1>6 DEF CancelSend, SendFails
  <2>2. ~Own(Tx(cancelling[1], "cancel"))
      BY DEF Own, Tx
  <2> QED BY <1>2, <1>3, <2>1, <2>2 DEF Accepts
<1>7. CASE Mine
  <2>1. PICK tx \in Pooled(latestNonce), ok \in BOOLEAN : mined' = Append(mined, [tx |-> tx, ok |-> ok])
      BY <1>7 DEF Mine
  <2>2. pool' \subseteq pool /\ tx \in pool
      BY <1>7 DEF Mine, Pooled
  <2> DEFINE m == [tx |-> tx, ok |-> ok]
  <2>3. m \in MinedTxs /\ m.tx = tx /\ mined \in Seq(MinedTxs)
      BY <2>2 DEF MinedTxs, Shape, ChainShape
  <2> HIDE DEF m, MinedTxs
  <2>4. /\ Len(mined') = Len(mined) + 1 /\ DOMAIN mined' = 1..Len(mined')
        /\ DOMAIN mined = 1..Len(mined) /\ Len(mined) \in Nat
        /\ \A i \in 1..Len(mined) : mined'[i] = mined[i]
        /\ mined'[Len(mined) + 1] = m
      BY <2>1, <2>3, AppendProperties, LenProperties DEF m
  <2>5. ASSUME NEW i \in DOMAIN mined' PROVE mined'[i].tx \in KnownTxs
    <3>1. CASE i \in 1..Len(mined)
        BY <2>4, <3>1 DEF KnownTxs
    <3>2. CASE i = Len(mined) + 1
        BY <2>2, <2>3, <2>4, <3>2 DEF KnownTxs
    <3> QED BY <2>4, <3>1, <3>2
  <2> QED BY <1>1, <1>3, <2>2, <2>5
<1>8. CASE Drop
  <2>1. pool' \subseteq pool /\ mined' = mined BY <1>8 DEF Drop
  <2> QED BY <1>2, <1>3, <2>1
<1>9. CASE ForeignTransaction
  <2>1. PICK n \in latestNonce..pendingNonce : pool' = pool \cup {ForeignTx(n)}
      BY <1>9 DEF ForeignTransaction
  <2>2. mined' = mined BY <1>9 DEF ForeignTransaction
  <2>3. ~Own(ForeignTx(n)) BY DEF Own, ForeignTx, Requests
  <2> QED BY <1>2, <1>3, <2>1, <2>2, <2>3
<1>10. CASE Crash \/ UNCHANGED <<chainVars, nonce>>
  <2>1. pool' = pool /\ mined' = mined BY <1>10 DEF Crash, chainVars
  <2> QED BY <1>2, <1>3, <2>1
<1> QED BY <1>4, <1>5, <1>6, <1>7, <1>8, <1>9, <1>10, ChainSteps

LEMMA SentSteps ==
    ASSUME Shape, [Next]_vars, NEW o \in Sent'
    PROVE  \/ \E p \in Sent : SameOrder(p, o)
           \/ Submits /\ o = TakenSent
<1>1. /\ submitted \in Seq(Orders) /\ confirmNew \in Seq(Orders) /\ confirmRetry \in Seq(Orders)
      /\ awaited \in Seq(Orders) /\ confirmed \in Seq(Orders) /\ rejected \in Seq(Orders)
      /\ unconfirmed \in Seq(Orders) /\ cancelling \in Seq(Orders)
    BY DEF Shape, SubmitShape, ConfirmShape, CancelShape
<1>2. \/ o \in OrdersIn(submitted') \/ o \in OrdersIn(confirmNew') \/ o \in OrdersIn(confirmRetry')
      \/ o \in OrdersIn(awaited') \/ o \in OrdersIn(confirmed') \/ o \in OrdersIn(rejected')
      \/ o \in OrdersIn(unconfirmed') \/ o \in OrdersIn(cancelling')
    BY DEF Sent, OrdersIn
<1>3. /\ OrdersIn(submitted) \subseteq Sent /\ OrdersIn(confirmNew) \subseteq Sent
      /\ OrdersIn(confirmRetry) \subseteq Sent /\ OrdersIn(awaited) \subseteq Sent
      /\ OrdersIn(confirmed) \subseteq Sent /\ OrdersIn(rejected) \subseteq Sent
      /\ OrdersIn(unconfirmed) \subseteq Sent /\ OrdersIn(cancelling) \subseteq Sent
    BY DEF Sent
<1>4. OrdersIn(<<>>) = {} BY EmptyFacts
<1>5. o \in Sent => \E p \in Sent : SameOrder(p, o)
    BY DEF SameOrder
<1>6. ASSUME NEW q \in Seq(Orders), NEW p \in Orders
      PROVE  OrdersIn(Append(q, p)) = OrdersIn(q) \cup {p}
    BY AppendFacts
<1>7. ASSUME NEW p \in Orders PROVE OrdersIn(<<p>>) = {p}
    BY SingleFacts
<1>8. ASSUME NEW q \in Seq(Orders), q # <<>>
      PROVE  q[1] \in OrdersIn(q) /\ OrdersIn(Tail(q)) \subseteq OrdersIn(q)
  <2>1. OrdersIn(q) = {q[1]} \cup OrdersIn(Tail(q)) BY <1>8, TailFacts
  <2> QED BY <2>1
<1>9. CASE SubmitRetry \/ SubmitNext
  <2>1. Taken \in Orders /\ Submit(Taken) /\ UNCHANGED <<confirmVars, cancelling>>
      BY <1>9, TakenFacts
  <2>2. /\ TakenSent \in Orders
        /\ \/ submitted' = submitted
           \/ /\ submitted' = Append(submitted, TakenSent)
              /\ Accepts(Tx(TakenSent, "original")) /\ submitRetry' = <<>>
      BY <2>1, SubmitFacts DEF TakenSent
  <2>3. o \notin OrdersIn(submitted') => o \in Sent
      BY <1>2, <1>3, <2>1 DEF confirmVars
  <2>4. CASE submitted' = submitted
      BY <1>3, <1>5, <2>3, <2>4
  <2>5. CASE /\ submitted' = Append(submitted, TakenSent)
             /\ Accepts(Tx(TakenSent, "original")) /\ submitRetry' = <<>>
    <3>1. OrdersIn(submitted') = OrdersIn(submitted) \cup {TakenSent}
        BY <1>1, <1>6, <2>2, <2>5
    <3> QED BY <1>3, <1>5, <1>9, <2>3, <2>5, <3>1 DEF Submits
  <2> QED BY <2>2, <2>4, <2>5
<1>10. CASE SubmitDone
  <2>1. /\ confirmNew' = confirmNew \o submitted /\ submitted' = <<>>
        /\ UNCHANGED <<confirmRetry, awaited, confirmed, rejected, unconfirmed, cancelling>>
      BY <1>10 DEF SubmitDone, cancelVars
  <2>2. OrdersIn(confirmNew') = OrdersIn(confirmNew) \cup OrdersIn(submitted)
      BY <1>1, <2>1, ConcatFacts
  <2> QED BY <1>2, <1>3, <1>4, <1>5, <2>1, <2>2
<1>11. ASSUME NEW p \in Orders, NEW q \in Sent, SameOrder(q, p), NotConfirmed(p),
              UNCHANGED <<submitted, confirmNew, cancelling>>
       PROVE  \E r \in Sent : SameOrder(r, o)
  <2>1. awaited' = <<>> /\ confirmed' = confirmed
      BY <1>11 DEF NotConfirmed
  <2>2. OrdersIn(confirmRetry') \subseteq {p}
    <3>1. confirmRetry' = <<>> \/ confirmRetry' = <<p>> BY <1>11 DEF NotConfirmed
    <3>2. OrdersIn(<<p>>) = {p} BY <1>7
    <3> QED BY <1>4, <3>1, <3>2
  <2>3. OrdersIn(rejected') \subseteq OrdersIn(rejected) \cup {p}
    <3>1. rejected' = rejected \/ rejected' = Append(rejected, p) BY <1>11 DEF NotConfirmed
    <3>2. OrdersIn(Append(rejected, p)) = OrdersIn(rejected) \cup {p} BY <1>1, <1>6
    <3> QED BY <3>1, <3>2
  <2>4. OrdersIn(unconfirmed') \subseteq OrdersIn(unconfirmed) \cup {p}
    <3>1. unconfirmed' = unconfirmed \/ unconfirmed' = Append(unconfirmed, p) BY <1>11 DEF NotConfirmed
    <3>2. OrdersIn(Append(unconfirmed, p)) = OrdersIn(unconfirmed) \cup {p} BY <1>1, <1>6
    <3> QED BY <3>1, <3>2
  <2>5. o \in Sent \/ o = p
      BY <1>2, <1>3, <1>4, <1>11, <2>1, <2>2, <2>3, <2>4
  <2> QED BY <1>5, <1>11, <2>5
<1>12. CASE ConfirmRetry
  <2>1. /\ confirmRetry # <<>> /\ awaited = <<>>
        /\ UNCHANGED <<submitted, confirmNew, cancelling>>
      BY <1>12, ConfirmRetryFacts DEF submitVars
  <2>2. confirmRetry[1] \in Sent
      BY <1>1, <1>3, <1>8, <2>1
  <2>3. PICK p \in Orders :
              /\ SameOrder(confirmRetry[1], p)
              /\ \/ /\ awaited' = <<p>> /\ confirmRetry' = <<>>
                    /\ UNCHANGED <<confirmed, rejected, unconfirmed>>
                 \/ NotConfirmed(p)
      BY <1>12, ConfirmRetryFacts
  <2>4. CASE /\ awaited' = <<p>> /\ confirmRetry' = <<>>
             /\ UNCHANGED <<confirmed, rejected, unconfirmed>>
    <3>1. OrdersIn(awaited') = {p} BY <1>7, <2>4
    <3>2. o \in Sent \/ o = p BY <1>2, <1>3, <1>4, <2>1, <2>4, <3>1
    <3> QED BY <1>5, <2>2, <2>3, <3>2
  <2> QED BY <1>11, <2>1, <2>2, <2>3, <2>4
<1>13. CASE ConfirmNext
  <2>1. /\ confirmNew # <<>> /\ awaited' = <<confirmNew[1]>> /\ confirmNew' = Tail(confirmNew)
        /\ confirmNew[1] \in Orders
        /\ UNCHANGED <<submitted, confirmRetry, confirmed, rejected, unconfirmed, cancelling>>
      BY <1>13, ConfirmNextFacts DEF submitVars
  <2>2. OrdersIn(awaited') = {confirmNew[1]} BY <1>7, <2>1
  <2>3. confirmNew[1] \in OrdersIn(confirmNew) /\ OrdersIn(confirmNew') \subseteq OrdersIn(confirmNew)
      BY <1>1, <1>8, <2>1
  <2> QED BY <1>2, <1>3, <1>5, <2>1, <2>2, <2>3
<1>14. CASE Settle
  <2>1. awaited # <<>> /\ UNCHANGED <<submitted, confirmNew, cancelling>>
      BY <1>14, SettleFacts DEF submitVars
  <2>2. awaited[1] \in Sent
      BY <1>1, <1>3, <1>8, <2>1
  <2>3. PICK p \in Orders :
              /\ SameOrder(awaited[1], p)
              /\ \/ /\ confirmed' = Append(confirmed, p) /\ awaited' = <<>> /\ confirmRetry' = <<>>
                    /\ UNCHANGED <<rejected, unconfirmed>>
                 \/ NotConfirmed(p)
      BY <1>14, SettleFacts
  <2>4. CASE /\ confirmed' = Append(confirmed, p) /\ awaited' = <<>> /\ confirmRetry' = <<>>
             /\ UNCHANGED <<rejected, unconfirmed>>
    <3>1. OrdersIn(confirmed') = OrdersIn(confirmed) \cup {p} BY <1>1, <1>6, <2>4
    <3>2. o \in Sent \/ o = p BY <1>2, <1>3, <1>4, <2>1, <2>4, <3>1
    <3> QED BY <1>5, <2>2, <2>3, <3>2
  <2> QED BY <1>11, <2>1, <2>2, <2>3, <2>4
<1>15. CASE ConfirmDone
  <2>1. /\ confirmed' = <<>> /\ rejected' = <<>> /\ unconfirmed' = <<>> /\ cancelling' = unconfirmed
        /\ UNCHANGED <<submitted, confirmNew, confirmRetry, awaited>>
      BY <1>15 DEF ConfirmDone
  <2> QED BY <1>2, <1>3, <1>4, <1>5, <2>1
<1>16. CASE Finished
  <2>1. /\ cancelling # <<>> /\ cancelling' = Tail(cancelling)
        /\ UNCHANGED <<submitted, confirmNew, confirmRetry, awaited, confirmed, rejected, unconfirmed>>
      BY <1>16 DEF Finished, Cancelled, submitVars, confirmVars
  <2>2. OrdersIn(cancelling') \subseteq OrdersIn(cancelling) BY <1>1, <1>8, <2>1
  <2> QED BY <1>2, <1>3, <1>5, <2>1, <2>2
<1>17. CASE Crash
  <2>1. /\ submitted' = <<>> /\ confirmNew' = <<>> /\ confirmRetry' = <<>> /\ awaited' = <<>>
        /\ confirmed' = <<>> /\ rejected' = <<>> /\ unconfirmed' = <<>> /\ cancelling' = <<>>
      BY <1>17 DEF Crash
  <2> QED BY <1>2, <1>4, <2>1
<1>18. CASE AddTransaction \/ ProcessNewRequestsQueue \/ UNCHANGED queueVars
  <2>1. UNCHANGED <<submitted, confirmNew, confirmRetry, awaited, confirmed, rejected, unconfirmed,
                    cancelling>>
      BY <1>18 DEF AddTransaction, ProcessNewRequestsQueue, queueVars, submitVars, confirmVars, cancelVars
  <2> QED BY <1>2, <1>3, <1>5, <2>1
<1> QED BY <1>9, <1>10, <1>12, <1>13, <1>14, <1>15, <1>16, <1>17, <1>18, QueueSteps

LEMMA WaitingSteps ==
    ASSUME Shape, [Next]_vars, NEW o \in Waiting'
    PROVE  \/ \E p \in Waiting : p.req = o.req /\ p.requeue = o.requeue
           \/ AddTransaction /\ o.req = requested + 1
           \/ ConfirmDone /\ o \in OrdersIn(Requeued(rejected))
<1>1. newRequests \in Seq(Orders) /\ submitNew \in Seq(Orders) /\ submitRetry \in Seq(Orders)
    BY DEF Shape, SubmitShape
<1>2. o \in OrdersIn(newRequests') \/ o \in OrdersIn(submitNew') \/ o \in OrdersIn(submitRetry')
    BY DEF Waiting, OrdersIn
<1>3. /\ OrdersIn(newRequests) \subseteq Waiting /\ OrdersIn(submitNew) \subseteq Waiting
      /\ OrdersIn(submitRetry) \subseteq Waiting
    BY DEF Waiting
<1>4. OrdersIn(<<>>) = {} BY EmptyFacts
<1>5. CASE AddTransaction
  <2> DEFINE p == NewOrder(requested + 1, 0)
  <2>1. p \in Orders /\ p.req = requested + 1
    <3>1. requested + 1 \in Requests /\ 0 \in Nat
        BY <1>5, WalletAssumption DEF AddTransaction, Shape, ServiceShape, Requests
    <3> QED BY <3>1, NewOrderFacts
  <2>2. newRequests' = Append(newRequests, p) /\ UNCHANGED <<submitNew, submitRetry>>
      BY <1>5 DEF AddTransaction, submitVars
  <2> HIDE DEF p
  <2>3. OrdersIn(newRequests') = OrdersIn(newRequests) \cup {p}
      BY <1>1, <2>1, <2>2, AppendFacts
  <2> QED BY <1>2, <1>3, <1>5, <2>1, <2>2, <2>3
<1>6. CASE ProcessNewRequestsQueue
  <2>1. PICK n \in 0..Len(newRequests) :
              /\ submitNew' = submitNew \o SubSeq(newRequests, 1, n)
              /\ newRequests' = SubSeq(newRequests, n + 1, Len(newRequests))
              /\ submitRetry' = submitRetry
      BY <1>6, RoomFacts
  <2> DEFINE a == SubSeq(newRequests, 1, n)  b == SubSeq(newRequests, n + 1, Len(newRequests))
  <2>2. submitNew' = submitNew \o a /\ newRequests' = b
      BY <2>1
  <2>3. a \in Seq(Orders) /\ OrdersIn(newRequests) = OrdersIn(a) \cup OrdersIn(b)
      BY <1>1, SplitFacts
  <2> HIDE DEF a, b
  <2>4. OrdersIn(submitNew') = OrdersIn(submitNew) \cup OrdersIn(a)
      BY <1>1, <2>2, <2>3, ConcatFacts
  <2> QED BY <1>2, <1>3, <2>1, <2>2, <2>3, <2>4
<1>7. CASE SubmitRetry
  <2>1. /\ submitRetry # <<>> /\ submitNew' = submitNew /\ newRequests' = newRequests
        /\ Taken \in Orders /\ Submit(Taken)
        /\ Taken.req = submitRetry[1].req /\ Taken.requeue = submitRetry[1].requeue
      BY <1>7, TakenFacts DEF SubmitRetry, SameOrder
  <2>2. submitRetry' = <<>> \/ submitRetry' = <<Taken>>
      BY <2>1, SubmitFacts
  <2>3. OrdersIn(<<Taken>>) = {Taken} BY <2>1, SingleFacts
  <2>4. submitRetry[1] \in OrdersIn(submitRetry)
    <3>1. OrdersIn(submitRetry) = {submitRetry[1]} \cup OrdersIn(Tail(submitRetry))
        BY <1>1, <2>1, TailFacts
    <3> QED BY <3>1
  <2> HIDE DEF Taken
  <2>5. OrdersIn(submitRetry') \subseteq {Taken} BY <1>4, <2>2, <2>3
  <2> QED BY <1>2, <1>3, <2>1, <2>4, <2>5
<1>8. CASE SubmitNext
  <2>1. /\ submitNew # <<>> /\ submitNew' = Tail(submitNew) /\ newRequests' = newRequests
        /\ Taken \in Orders /\ Submit(Taken) /\ Taken = submitNew[1]
      BY <1>8, TakenFacts DEF SubmitNext
  <2>2. submitRetry' = <<>> \/ submitRetry' = <<Taken>>
      BY <2>1, SubmitFacts
  <2>3. OrdersIn(<<Taken>>) = {Taken} BY <2>1, SingleFacts
  <2>4. OrdersIn(submitNew) = {submitNew[1]} \cup OrdersIn(Tail(submitNew))
      BY <1>1, <2>1, TailFacts
  <2>5. OrdersIn(submitRetry') \subseteq {Taken} BY <1>4, <2>2, <2>3
  <2> HIDE DEF Taken
  <2> QED BY <1>2, <1>3, <2>1, <2>4, <2>5
<1>9. CASE ConfirmDone
  <2> DEFINE b == Requeued(rejected)
  <2>1. submitNew' = submitNew \o b /\ UNCHANGED <<newRequests, submitRetry>>
      BY <1>9 DEF ConfirmDone
  <2>2. b \in Seq(Orders) BY RequeuedFacts DEF Shape, ConfirmShape
  <2> HIDE DEF b
  <2>3. OrdersIn(submitNew') = OrdersIn(submitNew) \cup OrdersIn(b)
      BY <1>1, <2>1, <2>2, ConcatFacts
  <2> QED BY <1>2, <1>3, <1>9, <2>1, <2>3 DEF b
<1>10. CASE Crash
  <2>1. newRequests' = <<>> /\ submitNew' = <<>> /\ submitRetry' = <<>> BY <1>10 DEF Crash
  <2> QED BY <1>2, <1>4, <2>1
<1>11. CASE SubmitDone
    BY <1>2, <1>3, <1>11 DEF SubmitDone
<1>12. CASE UNCHANGED <<newRequests, submitVars>>
    BY <1>2, <1>3, <1>12 DEF submitVars
<1> QED BY <1>5, <1>6, <1>7, <1>8, <1>9, <1>10, <1>11, <1>12, SubmitSteps

\* An order that is sent comes before all that still waits, and nothing else waits for its
\* request.
LEMMA SubmitsFacts ==
    ASSUME Shape, HeldOnce, WaitInOrder, Submits
    PROVE  /\ TakenSent \in Orders /\ TakenSent.nonce = nonce
           /\ TakenSent.req = Taken.req /\ TakenSent.requeue = Taken.requeue
           /\ \E q \in Waiting : q.req = Taken.req /\ q.requeue = Taken.requeue
           /\ \A p \in Waiting' : p \in Waiting /\ p.req # Taken.req
           /\ Before({Taken}, Waiting')
           /\ requested' = requested
<1>1. /\ Taken \in Orders /\ Submit(Taken) /\ newRequests' = newRequests /\ submitRetry' = <<>>
      /\ requested' = requested
    BY TakenFacts DEF Submits
<1>2. /\ TakenSent \in Orders /\ TakenSent.nonce = nonce
      /\ TakenSent.req = Taken.req /\ TakenSent.requeue = Taken.requeue
    BY <1>1, SubmitFacts DEF TakenSent
<1>3. newRequests \in Seq(Orders) /\ submitNew \in Seq(Orders) /\ submitRetry \in Seq(Orders)
      /\ Len(submitRetry) <= 1
    BY DEF Shape, SubmitShape
<1>4. Waiting' = OrdersIn(newRequests) \cup OrdersIn(submitNew')
  <2>1. OrdersIn(submitRetry') = {} BY <1>1, EmptyFacts
  <2> QED BY <1>1, <2>1 DEF Waiting, OrdersIn
<1>5. /\ Where[1] = ReqsOf(newRequests) /\ Where[2] = ReqsOf(submitNew) /\ Where[3] = ReqsOf(submitRetry)
      /\ Where[1] \cap Where[2] = {} /\ Where[1] \cap Where[3] = {} /\ Where[2] \cap Where[3] = {}
    BY HeldOnceFacts, WhereFacts, ApartFacts, PlaceFacts
<1>6. /\ ReqsOf(newRequests) = {o.req : o \in OrdersIn(newRequests)}
      /\ ReqsOf(submitNew) = {o.req : o \in OrdersIn(submitNew)}
    BY <1>3, QueueFacts
<1>7. CASE SubmitRetry
  <2>1. submitRetry # <<>> /\ submitNew' = submitNew
        /\ Taken.req = submitRetry[1].req /\ Taken.requeue = submitRetry[1].requeue
      BY <1>7, TakenFacts DEF SubmitRetry, SameOrder
  <2>2. OrdersIn(submitRetry) = {submitRetry[1]} /\ ReqsOf(submitRetry) = {submitRetry[1].req}
      BY <1>3, <2>1, ShortFacts
  <2> HIDE DEF Taken
  <2>3. \A p \in Waiting' : p \in Waiting /\ p.req # Taken.req
      BY <1>4, <1>5, <1>6, <2>1, <2>2 DEF Waiting
  <2>4. Before({Taken}, Waiting')
      BY <1>4, <2>1, <2>2 DEF WaitInOrder, Before
  <2>5. \E q \in Waiting : q.req = Taken.req /\ q.requeue = Taken.requeue
      BY <2>1, <2>2 DEF Waiting
  <2> QED BY <1>1, <1>2, <2>3, <2>4, <2>5
<1>8. CASE SubmitNext
  <2>1. submitNew # <<>> /\ submitNew' = Tail(submitNew) /\ Taken = submitNew[1]
      BY <1>8, TakenFacts DEF SubmitNext
  <2>2. /\ OrdersIn(submitNew) = {submitNew[1]} \cup OrdersIn(Tail(submitNew))
        /\ submitNew[1].req \notin ReqsOf(Tail(submitNew))
        /\ Before({submitNew[1]}, OrdersIn(Tail(submitNew)))
        /\ Tail(submitNew) \in Seq(Orders)
      BY <1>3, <2>1, TailFacts, HeldOnceFacts DEF WaitInOrder
  <2>3. ReqsOf(Tail(submitNew)) = {o.req : o \in OrdersIn(Tail(submitNew))}
      BY <2>2, QueueFacts
  <2> HIDE DEF Taken
  <2>4. \A p \in Waiting' : p \in Waiting /\ p.req # Taken.req
      BY <1>4, <1>5, <1>6, <2>1, <2>2, <2>3 DEF Waiting
  <2>5. Before({Taken}, Waiting')
      BY <1>4, <2>1, <2>2 DEF WaitInOrder, Before
  <2>6. \E q \in Waiting : q.req = Taken.req /\ q.requeue = Taken.requeue
      BY <2>1, <2>2 DEF Waiting
  <2> QED BY <1>1, <1>2, <2>4, <2>5, <2>6
<1> QED BY <1>7, <1>8 DEF Submits

LEMMA IssuedSteps ==
    ASSUME Shape, [Next]_vars, NEW t \in Issued', Own(t)
    PROVE  \/ \E u \in Issued : Own(u) /\ Alike(t, u)
           \/ Submits /\ Alike(t, TakenSent)
<1>1. t \in KnownTxs' \/ \E o \in Sent' : t = Tx(o, "original")
    BY DEF Issued, Tx
<1>2. ASSUME NEW o \in Sent
      PROVE  /\ Tx(o, "original") \in Issued /\ Own(Tx(o, "original"))
             /\ Alike(Tx(o, "original"), o)
  <2>1. o.req \in Requests BY SentFacts, OrderFields
  <2> QED BY <2>1 DEF Issued, Own, Alike, Tx
<1>3. CASE t \in KnownTxs'
  <2>1. CASE t \in KnownTxs
      BY <2>1 DEF Issued, Alike
  <2>2. CASE ConfirmRetry /\ \E o \in OrdersIn(confirmRetry) : Alike(t, o)
    <3>1. PICK o \in Sent : Alike(t, o) BY <2>2 DEF Sent
    <3> QED BY <1>2, <3>1 DEF Alike
  <2>3. CASE Submits /\ t = Tx(TakenSent, "original")
      BY <2>3 DEF Alike, Tx
  <2> QED BY <1>3, <2>1, <2>2, <2>3, KnownSteps
<1>4. CASE t \notin KnownTxs'
  <2>1. PICK o \in Sent' : t = Tx(o, "original") BY <1>1, <1>4
  <2>2. Alike(t, o) BY <2>1 DEF Alike, Tx
  <2>3. CASE \E p \in Sent : SameOrder(p, o)
    <3>1. PICK p \in Sent : SameOrder(p, o) BY <2>3
    <3> QED BY <1>2, <2>2, <3>1 DEF Alike, SameOrder
  <2>4. CASE Submits /\ o = TakenSent
      BY <2>2, <2>4
  <2> QED BY <2>3, <2>4, SentSteps
<1> QED BY <1>3, <1>4

\* The nonce goes down only if the network has forgotten a transaction.
LEMMA NonceSteps ==
    ASSUME Shape, NoNonceGap, [Next]_vars
    PROVE  nonce \in Nat /\ nonce' \in Nat /\ (forgotten' \/ nonce' >= nonce)
<1>1. ChainShape /\ nonce \in Nat /\ nonce' \in Nat
    BY NextChainShape DEF Shape, ChainShape
<1>2. latestNonce \in Nat /\ pendingNonce \in Nat /\ pendingNonce >= latestNonce
      /\ Pooled(pendingNonce) = {}
    BY <1>1, LatestFacts, PendingFacts
<1>3. forgotten \/ pendingNonce >= nonce
  <2> SUFFICES ASSUME ~forgotten, pendingNonce < nonce PROVE FALSE
      BY <1>1, <1>2
  <2>1. pendingNonce \in latestNonce..(nonce - 1) BY <1>1, <1>2
  <2> QED BY <1>2, <2>1 DEF NoNonceGap
<1>4. ASSUME nonce' = nonce \/ nonce' = nonce + 1 \/ nonce' = pendingNonce, forgotten' = forgotten
      PROVE  forgotten' \/ nonce' >= nonce
    BY <1>1, <1>3, <1>4
<1>5. CASE SubmitRetry \/ SubmitNext
  <2>1. Taken \in Orders /\ Submit(Taken) /\ forgotten' = forgotten BY <1>5, TakenFacts
  <2>2. nonce' = nonce \/ nonce' = nonce + 1 \/ nonce' = pendingNonce BY <2>1, SubmitFacts
  <2> QED BY <1>1, <1>4, <2>1, <2>2
<1>6. CASE ConfirmRetry
  <2>1. UNCHANGED <<nonce, forgotten>> BY <1>6, ConfirmRetryFacts
  <2> QED BY <1>1, <1>4, <2>1
<1>7. CASE CancelSend \/ Mine \/ ForeignTransaction
  <2>1. UNCHANGED <<nonce, forgotten>> BY <1>7 DEF CancelSend, Mine, ForeignTransaction
  <2> QED BY <1>1, <1>4, <2>1
<1>8. CASE Drop
    BY <1>1, <1>8 DEF Drop
<1>9. CASE Crash
    BY <1>1, <1>4, <1>9 DEF Crash, chainVars
<1>10. CASE UNCHANGED <<chainVars, nonce>>
    BY <1>1, <1>4, <1>10 DEF chainVars
<1> QED BY <1>5, <1>6, <1>7, <1>8, <1>9, <1>10, ChainSteps

\* All transactions that would execute a request have one nonce, and there are none while
\* it waits to be sent.
OneNonce ==
    /\ \A t, u \in Issued : Own(t) /\ Own(u) /\ t.req = u.req => t.nonce = u.nonce
    /\ \A t \in Issued : Own(t) => t.req <= requested
    /\ \A t \in Issued, o \in Waiting : Own(t) => t.req # o.req

\* A request is put back only if none of its transactions can be mined any more.
LEMMA PutBackFacts ==
    ASSUME Shape, HeldOnce, NonceTaken, OneNonce, [Next]_vars, ConfirmDone,
           NEW o \in OrdersIn(Requeued(rejected)), NEW t \in Issued', Own(t)
    PROVE  o.requeue > 0 /\ t.req # o.req
<1>1. rejected \in Seq(Orders) /\ o.requeue > 0
    BY RequeuedFacts DEF Shape, ConfirmShape
<1>2. Requeued(rejected) \in Seq(Orders)
    BY <1>1, RequeuedFacts
<1>3. o.req \in ReqsOf(Requeued(rejected))
    BY <1>2, QueueFacts
<1>4. PICK j \in DOMAIN rejected : rejected[j].req = o.req /\ ShouldRequeue(rejected[j])
    BY <1>1, <1>3, RequeuedFacts
<1> DEFINE p == rejected[j]
<1>5. p \in OrdersIn(rejected) /\ p \in Orders /\ p.nonce \in Nat
    BY <1>1, <1>4, QueueFacts, OrderFields
<1>6. p.nonce < latestNonce /\ mined[p.nonce + 1].tx.req # p.req
    BY <1>4, <1>5 DEF ShouldRequeue, NonceTaken, LostNonce
<1> HIDE DEF p, Orders
<1> SUFFICES ASSUME t.req = p.req PROVE FALSE
    BY <1>1, <1>4 DEF p
<1>7. mined' = mined /\ pool' = pool
    BY DEF ConfirmDone, chainVars
<1>8. t \in KnownTxs \/ \E q \in Sent' : t = Tx(q, "original")
    BY <1>7 DEF Issued, Tx, KnownTxs
<1>9. CASE t \in KnownTxs
  <2>1. Tx(p, "original") \in Issued /\ Own(Tx(p, "original"))
        /\ Tx(p, "original").req = p.req /\ Tx(p, "original").nonce = p.nonce
    <3>1. p \in Sent /\ p.req \in Requests BY <1>5, OrderFields DEF Sent
    <3> QED BY <3>1 DEF Issued, Own, Tx
  <2>2. t \in Issued BY <1>9 DEF Issued
  <2>3. t.nonce = p.nonce BY <2>1, <2>2 DEF OneNonce
  <2>4. CASE t \in pool
    <3>1. t.nonce >= latestNonce /\ latestNonce \in Nat BY <2>4, LatestFacts DEF Shape, ChainShape
    <3> QED BY <1>5, <1>6, <2>3, <3>1
  <2>5. CASE \E i \in DOMAIN mined : t = mined[i].tx
    <3>1. PICK i \in DOMAIN mined : t = mined[i].tx BY <2>5
    <3>2. i \in 1..latestNonce /\ latestNonce \in Nat BY LatestFacts DEF Shape
    <3>3. t.nonce = i - 1 BY <3>1, <3>2 DEF Shape, ChainShape
    <3>4. i = p.nonce + 1 BY <1>5, <2>3, <3>2, <3>3
    <3> QED BY <1>6, <3>1, <3>4
  <2> QED BY <1>9, <2>4, <2>5 DEF KnownTxs
<1>10. CASE \E q \in Sent' : t = Tx(q, "original")
  <2>1. PICK q \in Sent' : t = Tx(q, "original") BY <1>10
  <2>2. q.req = p.req BY <2>1 DEF Tx
  <2>3. /\ confirmed' = <<>> /\ rejected' = <<>> /\ unconfirmed' = <<>> /\ cancelling' = unconfirmed
        /\ UNCHANGED <<submitted, confirmNew, confirmRetry, awaited>>
      BY DEF ConfirmDone
  <2>4. OrdersIn(<<>>) = {} BY EmptyFacts
  <2>5. PICK s \in {submitted, confirmNew, confirmRetry, awaited, unconfirmed} : q \in OrdersIn(s)
    <3>1. \/ q \in OrdersIn(submitted') \/ q \in OrdersIn(confirmNew') \/ q \in OrdersIn(confirmRetry')
          \/ q \in OrdersIn(awaited') \/ q \in OrdersIn(confirmed') \/ q \in OrdersIn(rejected')
          \/ q \in OrdersIn(unconfirmed') \/ q \in OrdersIn(cancelling')
        BY DEF Sent, OrdersIn
    <3> QED BY <2>3, <2>4, <3>1
  <2>6. /\ Where[10] = ReqsOf(rejected) /\ Where[10] \cap Where[4] = {} /\ Where[10] \cap Where[6] = {}
        /\ Where[10] \cap Where[7] = {} /\ Where[10] \cap Where[8] = {} /\ Where[10] \cap Where[11] = {}
      BY HeldOnceFacts, WhereFacts, ApartFacts, PlaceFacts
  <2>7. ReqsOf(s) \cap ReqsOf(rejected) = {}
      BY <2>6, WhereFacts
  <2>8. q.req \in ReqsOf(s)
    <3>1. s \in Seq(Orders) BY DEF Shape, SubmitShape, ConfirmShape
    <3> QED BY <2>5, <3>1, QueueFacts
  <2>9. p.req \in ReqsOf(rejected)
      BY <1>1, <1>5, QueueFacts
  <2> QED BY <2>2, <2>7, <2>8, <2>9
<1> QED BY <1>8, <1>9, <1>10

LEMMA RequestedSteps ==
    ASSUME Shape, [Next]_vars
    PROVE  /\ requested \in Nat /\ requested' = IF AddTransaction THEN requested + 1 ELSE requested
           /\ AddTransaction => ~Submits
<1>1. requested \in Nat BY WalletAssumption DEF Shape, ServiceShape
<1>2. CASE AddTransaction
  <2>1. requested' = requested + 1 BY <1>2 DEF AddTransaction
  <2>2. Submits => requested' = requested BY TakenFacts DEF Submits
  <2> QED BY <1>1, <1>2, <2>1, <2>2
<1>3. CASE SubmitDone \/ ConfirmDone \/ Finished \/ Crash
  <2>1. requested' = requested BY <1>3 DEF SubmitDone, ConfirmDone, Finished, Crash
  <2> QED BY <1>1, <2>1 DEF AddTransaction
<1>4. CASE UNCHANGED serviceVars
  <2>1. requested' = requested BY <1>4 DEF serviceVars
  <2> QED BY <1>1, <2>1 DEF AddTransaction
<1> QED BY <1>2, <1>3, <1>4, ServiceSteps

\* The requests that wait have been made.
LEMMA WaitingMade ==
    ASSUME Shape, HeldOnce
    PROVE  \A o \in Waiting : o.req \in 1..requested
<1>1. newRequests \in Seq(Orders) /\ submitNew \in Seq(Orders) /\ submitRetry \in Seq(Orders)
    BY DEF Shape, SubmitShape
<1>2. \A o \in Waiting : o.req \in ReqsOf(newRequests) \/ o.req \in ReqsOf(submitNew)
                         \/ o.req \in ReqsOf(submitRetry)
    BY <1>1, QueueFacts DEF Waiting
<1>3. 1 \in Places /\ 2 \in Places /\ 3 \in Places BY PlaceFacts
<1> QED BY <1>2, <1>3, HeldRequests, HeldFacts

LEMMA NextOneNonce ==
    ASSUME Shape, HeldOnce, NonceTaken, WaitInOrder, OneNonce, [Next]_vars
    PROVE  OneNonce'
<1>1. SUFFICES /\ \A t, u \in Issued' : Own(t) /\ Own(u) /\ t.req = u.req => t.nonce = u.nonce
               /\ \A t \in Issued' : Own(t) => t.req <= requested'
               /\ \A t \in Issued', o \in Waiting' : Own(t) => t.req # o.req
    BY DEF OneNonce, Own
<1>2. requested \in Nat /\ (requested' = requested \/ requested' = requested + 1)
    BY RequestedSteps
<1>3. \A t \in Issued' : Own(t) => t.req \in Nat
    BY DEF Own, Requests
<1>4. CASE Submits
  <2> DEFINE r == Taken.req
  <2>1. /\ TakenSent.req = r /\ TakenSent.nonce = nonce
        /\ \A p \in Waiting' : p \in Waiting /\ p.req # r
        /\ \E q \in Waiting : q.req = r
      BY <1>4, SubmitsFacts
  <2>2. r \in 1..requested BY <2>1, WaitingMade
  <2> HIDE DEF r
  <2>3. ASSUME NEW t \in Issued', Own(t)
        PROVE  \/ t.req # r /\ \E u \in Issued : Own(u) /\ t.req = u.req /\ t.nonce = u.nonce
               \/ t.req = r /\ t.nonce = nonce
    <3>1. CASE \E u \in Issued : Own(u) /\ Alike(t, u)
        BY <2>1, <3>1 DEF Alike, OneNonce
    <3>2. CASE Alike(t, TakenSent)
        BY <2>1, <3>2 DEF Alike
    <3> QED BY <2>3, <3>1, <3>2, IssuedSteps
  <2>4. \A t, u \in Issued' : Own(t) /\ Own(u) /\ t.req = u.req => t.nonce = u.nonce
      BY <2>3 DEF OneNonce
  <2>5. \A t \in Issued' : Own(t) => t.req <= requested'
      BY <1>2, <1>3, <2>2, <2>3 DEF OneNonce
  <2>6. \A t \in Issued', o \in Waiting' : Own(t) => t.req # o.req
      BY <2>1, <2>3 DEF OneNonce
  <2> QED BY <2>4, <2>5, <2>6
<1>5. CASE ~Submits
  <2>1. ASSUME NEW t \in Issued', Own(t)
        PROVE  \E u \in Issued : Own(u) /\ t.req = u.req /\ t.nonce = u.nonce
      BY <1>5, <2>1, IssuedSteps DEF Alike
  <2>2. \A t, u \in Issued' : Own(t) /\ Own(u) /\ t.req = u.req => t.nonce = u.nonce
      BY <2>1 DEF OneNonce
  <2>3. \A t \in Issued' : Own(t) => t.req <= requested
      BY <2>1 DEF OneNonce
  <2>4. ASSUME NEW t \in Issued', NEW o \in Waiting', Own(t) PROVE t.req # o.req
    <3>1. CASE \E p \in Waiting : p.req = o.req
        BY <2>1, <2>4, <3>1 DEF OneNonce
    <3>2. CASE o.req = requested + 1
      <4>1. t.req <= requested /\ t.req \in Nat BY <1>3, <2>3, <2>4
      <4> QED BY <1>2, <3>2, <4>1
    <3>3. CASE ConfirmDone /\ o \in OrdersIn(Requeued(rejected))
        BY <2>4, <3>3, PutBackFacts
    <3> QED BY <3>1, <3>2, <3>3, WaitingSteps
  <2> QED BY <1>2, <1>3, <2>2, <2>3, <2>4
<1> QED BY <1>4, <1>5

\* Requests that were not put back are sent in the order in which they were made.
FirstInOrder ==
    /\ \A t, u \in Issued : IsFirst(t) /\ IsFirst(u) /\ t.req < u.req => t.nonce <= u.nonce
    /\ \A t \in Issued : IsFirst(t) => t.nonce <= nonce
    /\ \A t \in Issued, o \in Waiting : IsFirst(t) /\ o.requeue = 0 => t.req < o.req

LEMMA NextFirstInOrder ==
    ASSUME Shape, HeldOnce, NonceTaken, WaitInOrder, OneNonce, NoNonceGap,
           FirstInOrder, [Next]_vars, ~forgotten'
    PROVE  FirstInOrder'
<1>1. SUFFICES /\ \A t, u \in Issued' : IsFirst(t) /\ IsFirst(u) /\ t.req < u.req => t.nonce <= u.nonce
               /\ \A t \in Issued' : IsFirst(t) => t.nonce <= nonce'
               /\ \A t \in Issued', o \in Waiting' : IsFirst(t) /\ o.requeue = 0 => t.req < o.req
    BY DEF FirstInOrder, IsFirst
<1>2. nonce \in Nat /\ nonce' \in Nat /\ nonce' >= nonce
    BY NonceSteps
<1>3. \A t : IsFirst(t) <=> Own(t) /\ t.requeue = 0
    BY DEF IsFirst, Own
<1>4. ASSUME NEW t, NEW u, Alike(t, u), Own(u), IsFirst(t) PROVE IsFirst(u)
    BY <1>3, <1>4 DEF Alike
<1>5. ASSUME NEW t \in Issued PROVE t.nonce \in Nat
  <2>1. CASE t \in KnownTxs
    <3>1. CASE t \in pool
      <4>1. t \in Transactions BY <3>1 DEF Shape, ChainShape
      <4> QED BY <4>1 DEF Transactions
    <3>2. CASE \E i \in DOMAIN mined : t = mined[i].tx
      <4>1. t \in Transactions BY <3>2, LatestFacts DEF Shape
      <4> QED BY <4>1 DEF Transactions
    <3> QED BY <2>1, <3>1, <3>2 DEF KnownTxs
  <2>2. CASE \E o \in Sent : t = Tx(o, "original")
    <3>1. PICK o \in Sent : t = Tx(o, "original") BY <2>2
    <3>2. o.nonce \in Nat BY SentFacts, OrderFields
    <3> QED BY <3>1, <3>2 DEF Tx
  <2> QED BY <2>1, <2>2 DEF Issued
<1>6. \A t \in Issued' : IsFirst(t) => t.req \in Nat
    BY DEF IsFirst, Requests
<1>7. CASE Submits
  <2>1. /\ TakenSent.req = Taken.req /\ TakenSent.requeue = Taken.requeue /\ TakenSent.nonce = nonce
        /\ \A p \in Waiting' : p \in Waiting /\ p.req # Taken.req
        /\ Before({Taken}, Waiting')
        /\ \E q \in Waiting : q.req = Taken.req /\ q.requeue = Taken.requeue
      BY <1>7, SubmitsFacts
  <2>2. Taken.req \in Nat BY <2>1, WaitingMade
  <2> DEFINE r == Taken.req  c == Taken.requeue
  <2>3. ASSUME NEW t \in Issued', IsFirst(t)
        PROVE  \/ \E u \in Issued : IsFirst(u) /\ t.req = u.req /\ t.nonce = u.nonce
               \/ t.req = r /\ t.nonce = nonce /\ c = 0
    <3>1. CASE \E u \in Issued : Own(u) /\ Alike(t, u)
        BY <1>4, <2>3, <3>1 DEF Alike
    <3>2. CASE Alike(t, TakenSent)
        BY <1>3, <2>1, <2>3, <3>2 DEF Alike
    <3> QED BY <1>3, <2>3, <3>1, <3>2, IssuedSteps
  <2>4. c = 0 => \A u \in Issued : IsFirst(u) => u.req < r
      BY <2>1 DEF FirstInOrder
  <2>5. c = 0 => \A p \in Waiting' : p.requeue = 0 => r < p.req
      BY <2>1 DEF Before
  <2>6. \A p \in Waiting' : p \in Waiting
      BY <2>1
  <2>7. r \in Nat BY <2>2
  <2> HIDE DEF r, c
  <2>8. ASSUME NEW t \in Issued', NEW u \in Issued', IsFirst(t), IsFirst(u), t.req < u.req
        PROVE  t.nonce <= u.nonce
    <3>1. CASE \E v \in Issued : IsFirst(v) /\ t.req = v.req /\ t.nonce = v.nonce
      <4>1. PICK v \in Issued : IsFirst(v) /\ t.req = v.req /\ t.nonce = v.nonce BY <3>1
      <4>2. CASE \E w \in Issued : IsFirst(w) /\ u.req = w.req /\ u.nonce = w.nonce
          BY <2>8, <4>1, <4>2 DEF FirstInOrder
      <4>3. CASE u.nonce = nonce
          BY <4>1, <4>3 DEF FirstInOrder
      <4> QED BY <2>3, <2>8, <4>2, <4>3
    <3>2. CASE t.req = r /\ t.nonce = nonce /\ c = 0
      <4>1. CASE \E w \in Issued : IsFirst(w) /\ u.req = w.req /\ u.nonce = w.nonce
        <5>1. u.req < r BY <2>4, <3>2, <4>1
        <5> QED BY <1>6, <2>7, <2>8, <3>2, <5>1
      <4>2. CASE u.req = r
          BY <2>7, <2>8, <3>2, <4>2
      <4> QED BY <2>3, <2>8, <4>1, <4>2
    <3> QED BY <2>3, <2>8, <3>1, <3>2
  <2>9. ASSUME NEW t \in Issued', IsFirst(t) PROVE t.nonce <= nonce'
    <3>1. CASE \E u \in Issued : IsFirst(u) /\ t.nonce = u.nonce
        BY <1>2, <1>5, <3>1 DEF FirstInOrder
    <3>2. CASE t.nonce = nonce BY <1>2, <3>2
    <3> QED BY <2>3, <2>9, <3>1, <3>2
  <2>10. ASSUME NEW t \in Issued', NEW o \in Waiting', IsFirst(t), o.requeue = 0 PROVE t.req < o.req
    <3>1. CASE \E u \in Issued : IsFirst(u) /\ t.req = u.req
        BY <2>6, <2>10, <3>1 DEF FirstInOrder
    <3>2. CASE t.req = r /\ c = 0
        BY <2>5, <2>10, <3>2
    <3> QED BY <2>3, <2>10, <3>1, <3>2
  <2> QED BY <2>8, <2>9, <2>10
<1>8. CASE ~Submits
  <2>1. ASSUME NEW t \in Issued', IsFirst(t)
        PROVE  \E u \in Issued : IsFirst(u) /\ t.req = u.req /\ t.nonce = u.nonce
      BY <1>3, <1>4, <1>8, <2>1, IssuedSteps DEF Alike
  <2>2. \A t, u \in Issued' : IsFirst(t) /\ IsFirst(u) /\ t.req < u.req => t.nonce <= u.nonce
      BY <2>1 DEF FirstInOrder
  <2>3. ASSUME NEW t \in Issued', IsFirst(t) PROVE t.nonce <= nonce'
      BY <1>2, <1>5, <2>1, <2>3 DEF FirstInOrder
  <2>4. ASSUME NEW t \in Issued', NEW o \in Waiting', IsFirst(t), o.requeue = 0 PROVE t.req < o.req
    <3>1. CASE \E p \in Waiting : p.req = o.req /\ p.requeue = o.requeue
        BY <2>1, <2>4, <3>1 DEF FirstInOrder
    <3>2. CASE o.req = requested + 1
      <4>1. PICK u \in Issued : IsFirst(u) /\ t.req = u.req BY <2>1, <2>4
      <4>2. u.req <= requested BY <1>3, <4>1 DEF OneNonce
      <4>3. t.req \in Nat /\ requested \in Nat BY <1>6, <2>4, RequestedSteps
      <4> QED BY <3>2, <4>1, <4>2, <4>3
    <3>3. CASE ConfirmDone /\ o \in OrdersIn(Requeued(rejected))
        BY <1>3, <2>4, <3>3, PutBackFacts
    <3> QED BY <3>1, <3>2, <3>3, WaitingSteps
  <2> QED BY <2>2, <2>3, <2>4
<1> QED BY <1>7, <1>8

\* Once forgotten, always forgotten.
LEMMA ForgottenStays == ASSUME Shape, [Next]_vars, forgotten PROVE forgotten'
<1>1. ChainShape BY DEF Shape
<1>2. SubmitRetry \/ SubmitNext => forgotten' = forgotten BY TakenFacts
<1>3. ConfirmRetry => forgotten' = forgotten BY ConfirmRetryFacts
<1>4. CancelSend \/ Mine \/ ForeignTransaction => forgotten' = forgotten
    BY DEF CancelSend, Mine, ForeignTransaction
<1>5. Crash \/ UNCHANGED <<chainVars, nonce>> => forgotten' = forgotten
    BY DEF Crash, chainVars
<1>6. Drop => forgotten' = TRUE BY DEF Drop
<1> QED BY <1>1, <1>2, <1>3, <1>4, <1>5, <1>6, ChainSteps, Zenon DEF ChainShape

WaitingInvariant == WaitInOrder /\ OneNonce

LEMMA WaitingInvariantHolds == Spec => []WaitingInvariant
<1>1. Init => WaitingInvariant
  <2> SUFFICES ASSUME Init PROVE WaitingInvariant
      OBVIOUS
  <2>1. OrdersIn(<<>>) = {} /\ Ascending(<<>>) BY EmptyFacts
  <2>2. WaitInOrder BY <2>1 DEF Init, WaitInOrder, Before
  <2>3. Sent = {} BY <2>1 DEF Init, Sent
  <2>4. KnownTxs = {} BY DEF Init, KnownTxs
  <2>5. Issued = {} BY <2>3, <2>4 DEF Issued
  <2> QED BY <2>2, <2>5 DEF OneNonce, WaitingInvariant
<1>2. Shape /\ HeldOnce /\ ConfirmedExecuted /\ NonceTaken /\ WaitingInvariant /\ [Next]_vars
         => WaitingInvariant'
    BY NextWaitInOrder, NextOneNonce DEF WaitingInvariant
<1> QED BY <1>1, <1>2, ShapeInvariant, HeldOnceInvariant, ConfirmedExecutedInvariant, PTL DEF Spec

\* As long as the network forgets nothing, requests that were not put back get nonces in
\* the order in which they were made, whatever is retried, repriced or cancelled and
\* however often the nonce is resynchronised.
THEOREM OrderIsMaintained == Spec => []OrderMaintained
<1> DEFINE Inv == forgotten \/ FirstInOrder
<1>1. Init => Inv
  <2> SUFFICES ASSUME Init PROVE FirstInOrder
      OBVIOUS
  <2>1. OrdersIn(<<>>) = {} BY EmptyFacts
  <2>2. Sent = {} BY <2>1 DEF Init, Sent
  <2>3. KnownTxs = {} BY DEF Init, KnownTxs
  <2>4. Issued = {} BY <2>2, <2>3 DEF Issued
  <2> QED BY <2>4 DEF FirstInOrder
<1>2. /\ Shape /\ HeldOnce /\ ConfirmedExecuted /\ NonceTaken /\ WaitingInvariant /\ NoNonceGap
      /\ Inv /\ [Next]_vars
      => Inv'
    BY NextFirstInOrder, ForgottenStays DEF WaitingInvariant
<1>3. Inv => OrderMaintained
    BY DEF OrderMaintained, FirstInOrder, Issued
<1> QED BY <1>1, <1>2, <1>3, ShapeInvariant, HeldOnceInvariant, ConfirmedExecutedInvariant,
           WaitingInvariantHolds, NoncesHaveNoGap, PTL DEF Spec

-----------------------------------------------------------------------------
(* The worker keeps its promise.                                           *)

\* A request goes through at most once: all its transactions have one nonce.
LEMMA AtMostOnce ==
    ASSUME Shape, OneNonce, NEW r \in Requests, NEW i \in Executions(r)
    PROVE  /\ i \in 1..latestNonce /\ mined[i].ok /\ Executions(r) = {i} /\ r <= requested
           /\ mined[i].tx \in Issued /\ Own(mined[i].tx) /\ mined[i].tx.req = r
<1>1. \A j \in Executions(r) : /\ j \in 1..latestNonce /\ mined[j].ok /\ mined[j].tx \in Issued
                               /\ Own(mined[j].tx) /\ mined[j].tx.req = r
    BY LatestFacts DEF Executions, Shape, Issued, KnownTxs, Own
<1>2. ASSUME NEW j \in Executions(r) PROVE j = i
  <2>1. mined[j].tx.nonce = mined[i].tx.nonce BY <1>1 DEF OneNonce
  <2>2. mined[j].tx.nonce = j - 1 /\ mined[i].tx.nonce = i - 1 BY <1>1 DEF Shape, ChainShape
  <2>3. i \in Int /\ j \in Int BY <1>1
  <2>4. j - 1 = i - 1 BY <2>1, <2>2
  <2> QED BY ONLY <2>3, <2>4
<1>3. Executions(r) = {i} BY <1>2
<1>4. r <= requested BY <1>1 DEF OneNonce
<1> QED BY <1>1, <1>3, <1>4

LEMMA MinedSteps == ASSUME Shape, [Next]_vars PROVE Mine \/ mined' = mined
<1>1. SubmitRetry \/ SubmitNext => mined' = mined BY TakenFacts
<1>2. ConfirmRetry => mined' = mined BY ConfirmRetryFacts
<1>3. CancelSend \/ Drop \/ ForeignTransaction \/ Crash \/ UNCHANGED <<chainVars, nonce>>
         => mined' = mined
    BY DEF CancelSend, Drop, ForeignTransaction, Crash, chainVars
<1> QED BY <1>1, <1>2, <1>3, ChainSteps

Counts == [r \in Requests |-> Cardinality(Executions(r))]

\* Answers to unanswered requests, as the promise has them.
LEMMA AnswersKept ==
    ASSUME Shape, HeldOnce, NEW R, R \subseteq Unanswered, NEW how \in [R -> Answers],
           \A r \in R : how[r] = "confirmed" => Counts[r] = 1,
           replies' = [r \in Requests |-> IF r \in R THEN <<how[r]>> ELSE replies[r]],
           requested' = requested, mined' = mined
    PROVE  Promise!Next
<1>1. Counts' = Counts
    BY DEF Counts, Executions
<1>2. R \in SUBSET (1..requested) /\ (\A r \in R : replies[r] = <<>>)
    BY UnansweredFacts DEF Unanswered
<1>3. Answers = Promise!Answers
    BY DEF Answers, Promise!Answers
<1>4. Promise!Answer(R)
    BY <1>1, <1>2, <1>3 DEF Promise!Answer, Counts
<1> QED BY <1>2, <1>4 DEF Promise!Next

LEMMA PromiseStep ==
    ASSUME Shape, HeldOnce, ConfirmedExecuted, OneNonce, [Next]_vars
    PROVE  [Promise!Next]_(Promise!promiseVars)
<1>1. CASE UNCHANGED <<requested, replies, mined>>
  <2>1. Counts' = Counts BY <1>1 DEF Counts, Executions
  <2> QED BY <1>1, <2>1 DEF Promise!promiseVars, Counts
<1>2. CASE AddTransaction
  <2>1. /\ requested' = requested + 1 /\ replies' = replies /\ mined' = mined
        /\ requested \in Nat /\ requested + 1 \in Requests
      BY <1>2, WalletAssumption DEF AddTransaction, chainVars, Shape, ServiceShape, Requests
  <2>2. Counts' = Counts BY <2>1 DEF Counts, Executions
  <2>3. requested + 1 \notin 1..requested /\ 1..(requested + 1) = (1..requested) \cup {requested + 1}
      BY <2>1
  <2>4. Promise!Request(requested + 1)
      BY <2>1, <2>2, <2>3 DEF Promise!Request, Counts
  <2> QED BY <2>1, <2>4 DEF Promise!Next
\* In place s the requests of q are unanswered.
<1>3. /\ ReqsOf(invalid) \subseteq Unanswered /\ ReqsOf(confirmed) \subseteq Unanswered
      /\ ReqsOf(rejected) \subseteq Unanswered /\ ReqsOf(cancelling) \subseteq Unanswered
      /\ ReqsOf(confirmed) \cap ReqsOf(rejected) = {}
  <2>1. /\ Where[5] \subseteq Unanswered /\ Where[9] \subseteq Unanswered
        /\ Where[10] \subseteq Unanswered /\ Where[12] \subseteq Unanswered
        /\ Where[9] \cap Where[10] = {}
      BY HeldOnceFacts, ApartFacts, PlaceFacts
  <2> QED BY <2>1, WhereFacts
<1>4. ASSUME NEW r \in Unanswered, NEW how PROVE Append(replies[r], how) = <<how>>
  <2>1. replies[r] = <<>> BY DEF Unanswered
  <2> QED BY <2>1
<1>5. ASSUME NEW orders, NEW result \in Answers \ {"confirmed"}, ReqsOf(orders) \subseteq Unanswered,
             SendResults(orders, result), requested' = requested, mined' = mined
      PROVE  Promise!Next
  <2> DEFINE R == ReqsOf(orders)  how == [r \in R |-> result]
  <2>1. how \in [R -> Answers] /\ \A r \in R : how[r] = result
      OBVIOUS
  <2>2. replies' = [r \in Requests |-> IF r \in R THEN <<how[r]>> ELSE replies[r]]
      BY <1>4, <1>5 DEF SendResults
  <2>3. \A r \in R : how[r] = "confirmed" => Counts[r] = 1
      BY <2>1
  <2> HIDE DEF R, how
  <2> QED BY <1>5, <2>1, <2>2, <2>3, AnswersKept DEF R
<1>6. {"submissionFailed", "rejected", "cancelled", "crashed"} \subseteq Answers \ {"confirmed"}
    BY DEF Answers
<1>7. CASE SubmitDone
    BY <1>3, <1>5, <1>6, <1>7 DEF SubmitDone, chainVars
<1>8. CASE Finished
  <2>1. /\ cancelling # <<>> /\ SendResults(<<cancelling[1]>>, "cancelled")
        /\ requested' = requested /\ mined' = mined
      BY <1>8 DEF Finished, Cancelled, chainVars
  <2>2. cancelling[1] \in Orders /\ cancelling[1].req \in ReqsOf(cancelling)
    <3>1. cancelling \in Seq(Orders) BY DEF Shape, CancelShape
    <3>2. ReqsOf(cancelling) = {cancelling[1].req} \cup ReqsOf(Tail(cancelling)) /\ cancelling[1] \in Orders
        BY <2>1, <3>1, TailFacts
    <3> QED BY <3>2
  <2>3. ReqsOf(<<cancelling[1]>>) = {cancelling[1].req} BY <2>2, SingleFacts
  <2>4. ReqsOf(<<cancelling[1]>>) \subseteq Unanswered BY <1>3, <2>2, <2>3
  <2> QED BY <1>5, <1>6, <2>1, <2>4
<1>9. CASE ConfirmDone
  <2> DEFINE R == ReqsOf(confirmed) \cup Refused(rejected)
             how == [r \in R |-> IF r \in ReqsOf(confirmed) THEN "confirmed" ELSE "rejected"]
  <2>1. requested' = requested /\ mined' = mined
      BY <1>9 DEF ConfirmDone, chainVars
  <2>2. R \subseteq Unanswered
    <3>1. Refused(rejected) \subseteq ReqsOf(rejected) BY RefusedFacts DEF Shape, ConfirmShape
    <3> QED BY <1>3, <3>1
  <2>3. how \in [R -> Answers]
      BY DEF Answers
  <2>4. replies' = [r \in Requests |-> IF r \in R THEN <<how[r]>> ELSE replies[r]]
    <3>1. \A r \in R : how[r] = IF r \in ReqsOf(confirmed) THEN "confirmed" ELSE "rejected"
        OBVIOUS
    <3>2. \A r \in ReqsOf(confirmed) : r \in R
        OBVIOUS
    <3>3. \A r \in Refused(rejected) : r \in R
        OBVIOUS
    <3>4. \A r \in R : r \in ReqsOf(confirmed) \/ r \in Refused(rejected)
        OBVIOUS
    <3>5. replies' = [r \in Requests |->
                        IF r \in ReqsOf(confirmed) THEN Append(replies[r], "confirmed")
                        ELSE IF r \in Refused(rejected) THEN Append(replies[r], "rejected")
                        ELSE replies[r]]
        BY <1>9 DEF ConfirmDone
    <3> HIDE DEF R, how
    <3>6. ASSUME NEW r \in Requests
          PROVE  (IF r \in ReqsOf(confirmed) THEN Append(replies[r], "confirmed")
                  ELSE IF r \in Refused(rejected) THEN Append(replies[r], "rejected")
                  ELSE replies[r]) = IF r \in R THEN <<how[r]>> ELSE replies[r]
      <4>1. CASE r \in ReqsOf(confirmed)
        <5>1. r \in Unanswered BY <2>2, <3>2, <4>1
        <5>2. Append(replies[r], "confirmed") = <<"confirmed">> BY <1>4, <5>1
        <5> QED BY <3>1, <3>2, <4>1, <5>2
      <4>2. CASE r \notin ReqsOf(confirmed) /\ r \in Refused(rejected)
        <5>1. r \in Unanswered BY <2>2, <3>3, <4>2
        <5>2. Append(replies[r], "rejected") = <<"rejected">> BY <1>4, <5>1
        <5> QED BY <3>1, <3>3, <4>2, <5>2
      <4>3. CASE r \notin ReqsOf(confirmed) /\ r \notin Refused(rejected)
          BY <3>4, <4>3
      <4> QED BY <4>1, <4>2, <4>3
    <3> QED BY <3>5, <3>6
  <2>5. ASSUME NEW r \in ReqsOf(confirmed) PROVE Counts[r] = 1
    <3>1. confirmed \in Seq(Orders) BY DEF Shape, ConfirmShape
    <3>2. PICK o \in OrdersIn(confirmed) : o.req = r /\ o \in Orders BY <3>1, QueueFacts
    <3>3. o.nonce < latestNonce /\ mined[o.nonce + 1].ok /\ mined[o.nonce + 1].tx \in OwnTx(o)
        BY <3>2 DEF ConfirmedExecuted, WentThrough
    <3>4. o.nonce \in Nat /\ r \in Requests BY <3>2, OrderFields
    <3>5. o.nonce + 1 \in DOMAIN mined BY <3>3, <3>4, LatestFacts DEF Shape
    <3>6. /\ mined[o.nonce + 1].tx.req = r
          /\ mined[o.nonce + 1].tx.kind \in {"original", "replacement"}
        BY <3>2, <3>3 DEF OwnTx, Tx
    <3>7. o.nonce + 1 \in Executions(r) BY <3>3, <3>5, <3>6 DEF Executions
    <3>8. Executions(r) = {o.nonce + 1} BY <3>4, <3>7, AtMostOnce
    <3>9. Cardinality({o.nonce + 1}) = 1 BY FS_Singleton
    <3>10. Cardinality(Executions(r)) = 1 BY <3>8, <3>9, Zenon
    <3> QED BY <3>4, <3>10 DEF Counts
  <2>6. \A r \in R : how[r] = "confirmed" => Counts[r] = 1
      BY <2>5
  <2> HIDE DEF R, how
  <2> QED BY <2>1, <2>2, <2>3, <2>4, <2>6, AnswersKept
<1>10. CASE Crash
  <2> DEFINE R == Unanswered  how == [r \in R |-> "crashed"]
  <2>1. requested' = requested /\ mined' = mined
      BY <1>10 DEF Crash, chainVars
  <2>2. how \in [R -> Answers] /\ \A r \in R : how[r] = "crashed"
      BY DEF Answers
  <2>3. replies' = [r \in Requests |-> IF r \in R THEN <<how[r]>> ELSE replies[r]]
      BY <1>10 DEF Crash, Unanswered
  <2>4. \A r \in R : how[r] = "confirmed" => Counts[r] = 1
      BY <2>2
  <2> HIDE DEF how
  <2> QED BY <2>1, <2>2, <2>3, <2>4, AnswersKept
<1>11. CASE Mine
  <2>1. PICK tx \in Pooled(latestNonce), ok \in BOOLEAN : mined' = Append(mined, [tx |-> tx, ok |-> ok])
      BY <1>11 DEF Mine
  <2>2. requested' = requested /\ replies' = replies
      BY <1>11 DEF Mine, serviceVars
  <2> DEFINE m == [tx |-> tx, ok |-> ok]
  <2>3. m \in MinedTxs /\ m.tx = tx /\ m.ok = ok /\ mined \in Seq(MinedTxs)
      BY DEF MinedTxs, Shape, ChainShape, Pooled
  <2> HIDE DEF m, MinedTxs
  <2>4. /\ DOMAIN mined' = 1..(latestNonce + 1) /\ DOMAIN mined = 1..latestNonce /\ latestNonce \in Nat
        /\ \A i \in 1..latestNonce : mined'[i] = mined[i]
        /\ mined'[latestNonce + 1] = m
      BY <2>1, <2>3, AppendProperties, LenProperties DEF m, latestNonce
  <2> DEFINE n == latestNonce + 1
             X == ok /\ tx.kind \in {"original", "replacement"}
  <2>5. ASSUME NEW r \in Requests
        PROVE  /\ X /\ tx.req = r => Executions(r)' = Executions(r) \cup {n}
               /\ ~(X /\ tx.req = r) => Executions(r)' = Executions(r)
    <3>1. \A i \in 1..n : i \in 1..latestNonce \/ i = n BY <2>4
    <3>2. \A i \in 1..latestNonce : i \in 1..n /\ i # n BY <2>4
    <3>3. n \in 1..n BY <2>4
    <3>4. Executions(r)' = {i \in DOMAIN mined' : /\ mined'[i].ok /\ mined'[i].tx.req = r
                                                  /\ mined'[i].tx.kind \in {"original", "replacement"}}
        BY DEF Executions
    <3>5. Executions(r) = {i \in 1..latestNonce : /\ mined[i].ok /\ mined[i].tx.req = r
                                                  /\ mined[i].tx.kind \in {"original", "replacement"}}
        BY <2>4 DEF Executions
    <3> QED BY <2>3, <2>4, <3>1, <3>2, <3>3, <3>4, <3>5
  <2>6. CASE X /\ tx.req \in Requests
    <3> DEFINE q == tx.req
    <3>1. tx \in pool /\ tx.nonce = latestNonce /\ tx \in Issued /\ Own(tx)
        BY <2>6 DEF Pooled, Issued, KnownTxs, Own
    <3>2. q \in 1..requested
      <4>1. requested \in Nat BY RequestedSteps
      <4> QED BY <2>6, <3>1, <4>1 DEF OneNonce, Requests
    <3>3. Executions(q) = {}
      <4> SUFFICES ASSUME NEW i \in Executions(q) PROVE FALSE
          OBVIOUS
      <4>1. i \in 1..latestNonce /\ mined[i].tx \in Issued /\ Own(mined[i].tx) /\ mined[i].tx.req = q
          BY <2>6, AtMostOnce
      <4>2. mined[i].tx.nonce = i - 1 BY <4>1 DEF Shape, ChainShape
      <4>3. mined[i].tx.nonce = latestNonce BY <3>1, <4>1 DEF OneNonce
      <4> QED BY <2>4, <4>1, <4>2, <4>3
    <3>4. Executions(q)' = {n}
        BY <2>5, <2>6, <3>3
    <3>5. Cardinality({}) = 0 /\ Cardinality({n}) = 1
        BY FS_EmptySet, FS_Singleton
    <3>6. Cardinality(Executions(q)) = 0 /\ Cardinality(Executions(q)') = 1
        BY <3>3, <3>4, <3>5, Zenon
    <3>7. ASSUME NEW r \in Requests, r # q
          PROVE  Cardinality(Executions(r)') = Cardinality(Executions(r))
      <4>1. Executions(r)' = Executions(r) BY <2>5, <3>7
      <4> QED BY <4>1, Zenon
    <3>8. Counts' = [r \in Requests |-> Cardinality(Executions(r)')]
        BY DEF Counts
    <3> HIDE DEF n, X
    <3>9. Counts' = [Counts EXCEPT ![q] = 1] /\ Counts[q] = 0
        BY <2>6, <3>6, <3>7, <3>8 DEF Counts
    <3>10. Promise!Execute(q)
        BY <2>2, <3>2, <3>9 DEF Promise!Execute, Counts
    <3> QED BY <2>6, <3>10 DEF Promise!Next
  <2>7. CASE ~(X /\ tx.req \in Requests)
    <3>1. ASSUME NEW r \in Requests PROVE Cardinality(Executions(r)') = Cardinality(Executions(r))
      <4>1. Executions(r)' = Executions(r) BY <2>5, <2>7
      <4> QED BY <4>1, Zenon
    <3>2. Counts' = [r \in Requests |-> Cardinality(Executions(r)')]
        BY DEF Counts
    <3>3. Counts' = Counts BY <3>1, <3>2 DEF Counts
    <3> QED BY <2>2, <3>3 DEF Promise!promiseVars, Counts
  <2> QED BY <2>6, <2>7
<1>12. CASE UNCHANGED serviceVars /\ mined' = mined
    BY <1>1, <1>12 DEF serviceVars
<1> QED BY <1>2, <1>7, <1>8, <1>9, <1>10, <1>11, <1>12, ServiceSteps, MinedSteps

\* Whatever is retried, repriced, cancelled, put back or lost in a crash, a request goes
\* through at most once, is answered at most once, and is confirmed only if it went
\* through: the worker implements WalletPromise.
THEOREM WorkerKeepsThePromise == Spec => PromiseSpec
<1>1. Init => Promise!Init
  <2> SUFFICES ASSUME Init PROVE Promise!Init
      OBVIOUS
  <2>1. requested = 0 /\ mined = <<>> /\ replies = [r \in Requests |-> <<>>] BY DEF Init
  <2>2. \A r \in Requests : Executions(r) = {} BY <2>1 DEF Executions
  <2>3. \A r \in Requests : Cardinality(Executions(r)) = 0 BY <2>2, FS_EmptySet, Zenon
  <2>4. 1..requested = {} BY <2>1
  <2> QED BY <2>1, <2>3, <2>4 DEF Promise!Init
<1>2. Shape /\ HeldOnce /\ ConfirmedExecuted /\ NonceTaken /\ WaitingInvariant /\ [Next]_vars
         => [Promise!Next]_(Promise!promiseVars)
    BY PromiseStep DEF WaitingInvariant
<1> QED BY <1>1, <1>2, ShapeInvariant, HeldOnceInvariant, ConfirmedExecutedInvariant,
           WaitingInvariantHolds, PTL DEF Spec, PromiseSpec, Promise!Spec
=============================================================================
