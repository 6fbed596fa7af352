------------------------- MODULE WalletService_proofs -------------------------
(***************************************************************************)
(* Proofs about WalletService, for every set of clients and chains and any *)
(* number of requests and exits.                                           *)
(***************************************************************************)
EXTENDS WalletService, SequenceTheorems, TLAPS

-----------------------------------------------------------------------------
(* Sequences.                                                              *)

LEMMA AppendFacts ==
    ASSUME NEW S, NEW s \in Seq(S), NEW e \in S
    PROVE  /\ Append(s, e) \in Seq(S) /\ Len(s) \in Nat
           /\ DOMAIN s = 1..Len(s) /\ DOMAIN Append(s, e) = 1..(Len(s) + 1)
           /\ \A i \in 1..Len(s) : Append(s, e)[i] = s[i]
           /\ Append(s, e)[Len(s) + 1] = e
           /\ Range(Append(s, e)) = Range(s) \cup {e}
<1>1. /\ Append(s, e) \in Seq(S) /\ Len(s) \in Nat
      /\ DOMAIN s = 1..Len(s) /\ DOMAIN Append(s, e) = 1..(Len(s) + 1)
      /\ \A i \in 1..Len(s) : Append(s, e)[i] = s[i]
      /\ Append(s, e)[Len(s) + 1] = e
    BY AppendProperties, LenProperties
<1>2. Range(Append(s, e)) = Range(s) \cup {e}
    BY <1>1 DEF Range
<1> QED BY <1>1, <1>2

LEMMA TailFacts ==
    ASSUME NEW S, NEW s \in Seq(S), s # <<>>
    PROVE  /\ Head(s) \in S /\ Tail(s) \in Seq(S)
           /\ Head(s) \in Range(s) /\ Range(s) \subseteq S
           /\ 1 \in DOMAIN s /\ Head(s) = s[1]
           /\ \A i \in DOMAIN Tail(s) : i + 1 \in DOMAIN s /\ Tail(s)[i] = s[i + 1]
           /\ DOMAIN Tail(s) \subseteq Nat \ {0}
           /\ Range(s) = Range(Tail(s)) \cup {Head(s)}
<1>1. /\ Head(s) \in S /\ Head(s) = s[1]
      /\ Tail(s) \in Seq(S) /\ Len(s) > 0 /\ Len(s) \in Nat /\ Len(Tail(s)) = Len(s) - 1
      /\ DOMAIN s = 1..Len(s) /\ DOMAIN Tail(s) = 1..(Len(s) - 1)
      /\ \A i \in 1..(Len(s) - 1) : Tail(s)[i] = s[i + 1]
      /\ \A i \in 1..Len(s) : s[i] \in S
    BY HeadTailProperties, LenProperties, EmptySeq, ElementOfSeq
<1>2. Range(Tail(s)) \subseteq Range(s) /\ Head(s) \in Range(s) /\ Range(s) \subseteq S
    BY <1>1 DEF Range
<1>3. ASSUME NEW i \in 1..Len(s) PROVE s[i] \in Range(Tail(s)) \cup {Head(s)}
  <2>1. CASE i = 1 BY <2>1, <1>1
  <2>2. CASE i # 1
    <3>1. i - 1 \in 1..(Len(s) - 1) /\ (i - 1) + 1 = i BY <2>2, <1>1
    <3> QED BY <3>1, <1>1 DEF Range
  <2> QED BY <2>1, <2>2
<1>4. Range(s) = Range(Tail(s)) \cup {Head(s)}
    BY <1>1, <1>2, <1>3 DEF Range
<1> QED BY <1>1, <1>2, <1>4

LEMMA EmptyFacts ==
    ASSUME NEW S
    PROVE  /\ <<>> \in Seq(S) /\ Range(<<>>) = {} /\ DOMAIN <<>> = {} /\ Len(<<>>) = 0
<1>1. <<>> \in Seq(S) /\ Len(<<>>) = 0
    BY EmptySeq
<1>2. DOMAIN <<>> = {}
    BY <1>1, LenProperties
<1> QED BY <1>1, <1>2 DEF Range

-----------------------------------------------------------------------------
(* The shape of the messages.                                              *)

\* A message names a request that was made, and travels to or from its chain.
Made == [chain : Chains, kind : {"tx", "fee"}]
Ids(c) == 1..Len(made[c])
RequestsOf(h) == {r \in [port : Clients, messageId : Nat] :
                     /\ r.messageId \in Ids(r.port)
                     /\ made[r.port][r.messageId].chain = h}
ResponsesTo(c) == {d \in [chain : Chains, messageId : Nat] :
                     \/ d.messageId = CrashedId
                     \/ d.messageId \in Ids(c) /\ made[c][d.messageId].chain = d.chain}

ClientShape ==
    /\ made \in [Clients -> Seq(Made)]
    /\ DOMAIN listeners = Clients /\ DOMAIN results = Clients
    /\ DOMAIN toService = Clients /\ DOMAIN toClient = Clients
    /\ \A c \in Clients : /\ listeners[c] \subseteq Ids(c)
                          /\ DOMAIN results[c] \subseteq Ids(c)
                          /\ toService[c] \in Seq(Ids(c))
                          /\ toClient[c] \in Seq(ResponsesTo(c))

WorkerShape ==
    /\ workers \in [Chains -> {"running", "exited"}]
    /\ DOMAIN toWorker = Chains /\ DOMAIN accepted = Chains
    /\ DOMAIN fromWorker = Chains /\ DOMAIN received = Chains
    /\ \A h \in Chains : /\ toWorker[h] \in Seq(RequestsOf(h))
                         /\ accepted[h] \subseteq RequestsOf(h)
                         /\ fromWorker[h] \in Seq(RequestsOf(h))
                         /\ received[h] \in Seq(RequestsOf(h))

Shape == ClientShape /\ WorkerShape


LEMMA MadeKept ==
    ASSUME UNCHANGED made
    PROVE  /\ \A c \in Clients : Ids(c)' = Ids(c) /\ ResponsesTo(c)' = ResponsesTo(c)
           /\ \A h \in Chains : RequestsOf(h)' = RequestsOf(h)
BY DEF Ids, RequestsOf, ResponsesTo

\* A client's requests are numbered in the order they are made, and stay as they are.
LEMMA RequestFacts ==
    ASSUME Shape, NEW c \in Clients, NEW h \in Chains, NEW kind \in {"tx", "fee"},
           Request(c, h, kind)
    PROVE  /\ made' \in [Clients -> Seq(Made)]
           /\ Len(made[c]) + 1 \in Ids(c)' /\ Len(made[c]) \in Nat
           /\ \A d \in Clients : /\ Ids(d) \subseteq Ids(d)'
                                 /\ \A id \in Ids(d) : made'[d][id] = made[d][id]
           /\ \A d \in Clients : ResponsesTo(d) \subseteq ResponsesTo(d)'
           /\ \A g \in Chains : RequestsOf(g) \subseteq RequestsOf(g)'
<1> DEFINE e == [chain |-> h, kind |-> kind]
<1>1. e \in Made
    BY DEF Made
<1>2. /\ made[c] \in Seq(Made) /\ Len(made[c]) \in Nat
      /\ made' = [made EXCEPT ![c] = Append(made[c], e)]
    BY LenProperties DEF Shape, ClientShape, Request
<1> HIDE DEF e
<1>3. /\ Append(made[c], e) \in Seq(Made)
      /\ Len(Append(made[c], e)) = Len(made[c]) + 1
      /\ \A i \in 1..Len(made[c]) : Append(made[c], e)[i] = made[c][i]
    BY <1>1, <1>2, AppendProperties
<1>4. /\ made' \in [Clients -> Seq(Made)]
      /\ made'[c] = Append(made[c], e)
      /\ \A d \in Clients \ {c} : made'[d] = made[d]
    BY <1>2, <1>3 DEF Shape, ClientShape
<1>5. \A d \in Clients : /\ Ids(d) \subseteq Ids(d)'
                         /\ \A id \in Ids(d) : made'[d][id] = made[d][id]
  <2>1. ASSUME NEW d \in Clients \ {c}
        PROVE  Ids(d) \subseteq Ids(d)' /\ \A id \in Ids(d) : made'[d][id] = made[d][id]
      BY <1>4 DEF Ids
  <2>2. Ids(c) \subseteq Ids(c)' /\ \A id \in Ids(c) : made'[c][id] = made[c][id]
    <3>1. Ids(c)' = 1..(Len(made[c]) + 1)
        BY <1>3, <1>4 DEF Ids
    <3> QED BY <1>2, <1>3, <1>4, <3>1 DEF Ids
  <2> QED BY <2>1, <2>2
<1>6. Len(made[c]) + 1 \in Ids(c)'
    BY <1>2, <1>3, <1>4 DEF Ids
<1>7. \A d \in Clients : ResponsesTo(d) \subseteq ResponsesTo(d)'
    BY <1>5 DEF ResponsesTo
<1>8. \A g \in Chains : RequestsOf(g) \subseteq RequestsOf(g)'
    BY <1>5 DEF RequestsOf
<1> QED BY <1>2, <1>4, <1>5, <1>6, <1>7, <1>8

LEMMA ResolveDomain ==
    ASSUME NEW c, NEW ids, NEW how
    PROVE  /\ DOMAIN Resolve(c, ids, how) = DOMAIN results[c] \cup ids
           /\ \A i \in ids : Resolve(c, ids, how)[i] = how
           /\ \A i \in DOMAIN results[c] \ ids : Resolve(c, ids, how)[i] = results[c][i]
BY DEF Resolve

\* A message resolves listeners of its client: the one it answers, or those of a chain.
Answered(c) == {id \in listeners[c] : id = Head(toClient[c]).messageId}
Crashed(c) == {id \in listeners[c] : /\ Head(toClient[c]).messageId = CrashedId
                                     /\ made[c][id].chain = Head(toClient[c]).chain}

LEMMA ReceiveFacts ==
    ASSUME Shape, NEW c \in Clients, Receive(c)
    PROVE  /\ toClient[c] # <<>> /\ toClient' = [toClient EXCEPT ![c] = Tail(toClient[c])]
           /\ Head(toClient[c]) \in ResponsesTo(c)
           /\ listeners' = [listeners EXCEPT ![c] = listeners[c] \ (Answered(c) \cup Crashed(c))]
           /\ \/ /\ Crashed(c) # {} /\ Answered(c) = {}
                 /\ results' = [results EXCEPT ![c] = Resolve(c, Crashed(c), "crashed")]
              \/ /\ Crashed(c) = {}
                 /\ results' = [results EXCEPT ![c] = Resolve(c, Answered(c), "answered")]
           /\ UNCHANGED <<made, toService, workerVars>>
<1>1. toClient[c] # <<>> /\ toClient[c] \in Seq(ResponsesTo(c))
    BY DEF Receive, Shape, ClientShape
<1>2. Head(toClient[c]) \in ResponsesTo(c)
    BY <1>1, TailFacts
<1>3. listeners[c] \subseteq Ids(c) /\ Len(made[c]) \in Nat
    BY LenProperties DEF Shape, ClientShape
<1>4. Crashed(c) # {} => Answered(c) = {}
    BY <1>3 DEF Crashed, Answered, Ids, CrashedId
<1>5. /\ listeners' = [listeners EXCEPT ![c] = listeners[c] \ (Answered(c) \cup Crashed(c))]
      /\ results' = [results EXCEPT ![c] =
                        IF Crashed(c) # {} THEN Resolve(c, Crashed(c), "crashed")
                        ELSE Resolve(c, Answered(c), "answered")]
    BY DEF Receive, Crashed, Answered
<1>6. /\ toClient' = [toClient EXCEPT ![c] = Tail(toClient[c])]
      /\ UNCHANGED <<made, toService, workerVars>>
    BY DEF Receive
<1> QED BY <1>1, <1>2, <1>4, <1>5, <1>6

\* Changing one entry of a function changes no other.
LEMMA OneEntry ==
    ASSUME NEW f, NEW c \in DOMAIN f, NEW x
    PROVE  /\ DOMAIN [f EXCEPT ![c] = x] = DOMAIN f
           /\ [f EXCEPT ![c] = x][c] = x
           /\ \A d \in DOMAIN f \ {c} : [f EXCEPT ![c] = x][d] = f[d]
OBVIOUS

\* What the service and the workers take from a queue and append to another.
LEMMA RouteRequestFacts ==
    ASSUME Shape, NEW c \in Clients, RouteRequest(c)
    PROVE  LET id == Head(toService[c])
               h == made[c][id].chain
           IN  /\ toService[c] # <<>> /\ id \in Ids(c) /\ h \in Chains
               /\ Routed(c, id) \in RequestsOf(h)
               /\ toService' = [toService EXCEPT ![c] = Tail(toService[c])]
               /\ \/ /\ workers[h] = "running"
                     /\ toWorker' = [toWorker EXCEPT ![h] = Append(toWorker[h], Routed(c, id))]
                  \/ /\ workers[h] = "exited" /\ DOMAIN toWorker' = Chains
                     /\ \A g \in Chains : toWorker'[g] = toWorker[g]
               /\ UNCHANGED <<clientVars, toClient, workers, accepted, fromWorker, received>>
<1> DEFINE id == Head(toService[c])
           h == made[c][id].chain
<1>1. toService[c] # <<>> /\ toService[c] \in Seq(Ids(c)) /\ made[c] \in Seq(Made)
    BY DEF RouteRequest, Shape, ClientShape
<1>2. id \in Ids(c)
    BY <1>1, TailFacts
<1>3. made[c][id] \in Made /\ id \in Nat
    BY <1>1, <1>2, ElementOfSeq, LenProperties DEF Ids
<1>4. h \in Chains
    BY <1>3 DEF Made
<1>5. Routed(c, id) \in RequestsOf(h)
    BY <1>2, <1>3 DEF Routed, RequestsOf
<1>6. toService' = [toService EXCEPT ![c] = Tail(toService[c])]
    BY DEF RouteRequest
<1>7. UNCHANGED <<clientVars, toClient, workers, accepted, fromWorker, received>>
    BY DEF RouteRequest
<1>8. toWorker' = [toWorker EXCEPT ![h] = IF workers[h] = "running"
                                            THEN Append(toWorker[h], Routed(c, id))
                                            ELSE toWorker[h]]
    BY DEF RouteRequest
<1>9. workers[h] \in {"running", "exited"} /\ DOMAIN toWorker = Chains
    BY <1>4 DEF Shape, WorkerShape
<1> HIDE DEF id, h
<1>10. CASE workers[h] = "running"
  <2>1. toWorker' = [toWorker EXCEPT ![h] = Append(toWorker[h], Routed(c, id))]
      BY <1>8, <1>10
  <2> QED BY <1>1, <1>2, <1>4, <1>5, <1>6, <1>7, <1>10, <2>1 DEF id, h
<1>11. CASE workers[h] = "exited"
  <2>1. toWorker' = [toWorker EXCEPT ![h] = toWorker[h]]
      BY <1>8, <1>11
  <2>2. DOMAIN toWorker' = Chains /\ \A g \in Chains : toWorker'[g] = toWorker[g]
      BY <1>9, <2>1
  <2> QED BY <1>1, <1>2, <1>4, <1>5, <1>6, <1>7, <1>11, <2>1, <2>2 DEF id, h
<1> QED BY <1>9, <1>10, <1>11

LEMMA RouteResponseFacts ==
    ASSUME Shape, NEW h \in Chains, RouteResponse(h)
    PROVE  LET r == Head(fromWorker[h])
               d == [chain |-> h, messageId |-> r.messageId]
           IN  /\ fromWorker[h] # <<>> /\ r \in RequestsOf(h) /\ r.port \in Clients
               /\ d \in ResponsesTo(r.port) /\ d.chain = h /\ d.messageId = r.messageId
               /\ r = Routed(r.port, r.messageId)
               /\ toClient' = [toClient EXCEPT ![r.port] = Append(toClient[r.port], d)]
               /\ fromWorker' = [fromWorker EXCEPT ![h] = Tail(fromWorker[h])]
               /\ UNCHANGED <<clientVars, toService, workers, toWorker, accepted, received>>
<1> DEFINE r == Head(fromWorker[h])
           d == [chain |-> h, messageId |-> r.messageId]
<1>1. fromWorker[h] # <<>> /\ fromWorker[h] \in Seq(RequestsOf(h))
    BY DEF RouteResponse, Shape, WorkerShape
<1>2. r \in RequestsOf(h)
    BY <1>1, TailFacts
<1>3. r.port \in Clients /\ d \in ResponsesTo(r.port) /\ r = Routed(r.port, r.messageId)
    BY <1>2 DEF RequestsOf, ResponsesTo, Routed
<1>4. /\ toClient' = [toClient EXCEPT ![r.port] = Append(toClient[r.port], d)]
      /\ fromWorker' = [fromWorker EXCEPT ![h] = Tail(fromWorker[h])]
    BY DEF RouteResponse
<1>5. UNCHANGED <<clientVars, toService, workers, toWorker, accepted, received>>
    BY DEF RouteResponse
<1> QED BY <1>1, <1>2, <1>3, <1>4, <1>5

LEMMA ProcessRequestFacts ==
    ASSUME Shape, NEW h \in Chains, ProcessRequest(h)
    PROVE  LET r == Head(toWorker[h])
           IN  /\ toWorker[h] # <<>> /\ r \in RequestsOf(h)
               /\ workers[h] = "running"
               /\ \/ /\ fromWorker' = [fromWorker EXCEPT ![h] = Append(fromWorker[h], r)]
                     /\ accepted' = accepted
                  \/ /\ accepted' = [accepted EXCEPT ![h] = accepted[h] \cup {r}]
                     /\ fromWorker' = fromWorker
               /\ received' = [received EXCEPT ![h] = Append(received[h], r)]
               /\ toWorker' = [toWorker EXCEPT ![h] = Tail(toWorker[h])]
               /\ UNCHANGED <<clientVars, toService, toClient, workers>>
<1>1. toWorker[h] # <<>> /\ toWorker[h] \in Seq(RequestsOf(h))
    BY DEF ProcessRequest, Shape, WorkerShape
<1>2. Head(toWorker[h]) \in RequestsOf(h)
    BY <1>1, TailFacts
<1> QED BY <1>1, <1>2 DEF ProcessRequest

LEMMA SendResultFacts ==
    ASSUME Shape, NEW h \in Chains, SendResult(h)
    PROVE  \E r \in accepted[h] :
               /\ r \in RequestsOf(h) /\ workers[h] = "running"
               /\ accepted' = [accepted EXCEPT ![h] = accepted[h] \ {r}]
               /\ fromWorker' = [fromWorker EXCEPT ![h] = Append(fromWorker[h], r)]
               /\ UNCHANGED <<clientVars, toService, toClient, workers, toWorker, received>>
BY DEF SendResult, Shape, WorkerShape

LEMMA HandleExitFacts ==
    ASSUME Shape, NEW h \in Chains, HandleExit(h)
    PROVE  LET d == [chain |-> h, messageId |-> CrashedId]
           IN  /\ \A c \in Clients : d \in ResponsesTo(c)
               /\ d.chain = h /\ d.messageId = CrashedId
               /\ toClient' = [c \in Clients |-> Append(toClient[c], d)]
               /\ workers' = [workers EXCEPT ![h] = "running"]
               /\ UNCHANGED <<clientVars, toService, toWorker, accepted, fromWorker, received>>
BY DEF HandleExit, ResponsesTo, CrashedId

-----------------------------------------------------------------------------
(* The shape is kept.                                                      *)

LEMMA ShapeInvariant == Spec => []Shape
<1>1. Init => Shape
  <2> SUFFICES ASSUME Init PROVE Shape
      OBVIOUS
  <2>1. ClientShape
    <3>1. made \in [Clients -> Seq(Made)]
        BY EmptyFacts DEF Init
    <3>2. \A c \in Clients : /\ listeners[c] \subseteq Ids(c)
                             /\ DOMAIN results[c] \subseteq Ids(c)
                             /\ toService[c] \in Seq(Ids(c))
                             /\ toClient[c] \in Seq(ResponsesTo(c))
        BY EmptyFacts DEF Init
    <3> QED BY <3>1, <3>2 DEF Init, ClientShape
  <2>2. WorkerShape
    <3>1. \A h \in Chains : /\ toWorker[h] \in Seq(RequestsOf(h))
                            /\ accepted[h] \subseteq RequestsOf(h)
                            /\ fromWorker[h] \in Seq(RequestsOf(h))
                            /\ received[h] \in Seq(RequestsOf(h))
        BY EmptyFacts DEF Init
    <3> QED BY <3>1 DEF Init, WorkerShape
  <2> QED BY <2>1, <2>2 DEF Shape
<1>2. Shape /\ [Next]_vars => Shape'
  <2> SUFFICES ASSUME Shape, [Next]_vars PROVE Shape'
      OBVIOUS
  <2>1. ASSUME NEW c \in Clients, NEW h \in Chains, NEW kind \in {"tx", "fee"},
               Request(c, h, kind)
        PROVE  Shape'
    <3> DEFINE id == Len(made[c]) + 1
    <3>1. /\ listeners' = [listeners EXCEPT ![c] = listeners[c] \cup {id}]
          /\ toService' = [toService EXCEPT ![c] = Append(toService[c], id)]
          /\ UNCHANGED <<results, toClient, workers, toWorker, accepted, fromWorker, received>>
        BY <2>1 DEF Request, workerVars
    <3>2. /\ made' \in [Clients -> Seq(Made)] /\ id \in Ids(c)'
          /\ \A d \in Clients : Ids(d) \subseteq Ids(d)'
          /\ \A d \in Clients : ResponsesTo(d) \subseteq ResponsesTo(d)'
          /\ \A g \in Chains : RequestsOf(g) \subseteq RequestsOf(g)'
        BY <2>1, RequestFacts
    <3>3. ASSUME NEW d \in Clients
          PROVE  /\ listeners'[d] \subseteq Ids(d)' /\ DOMAIN results'[d] \subseteq Ids(d)'
                 /\ toService'[d] \in Seq(Ids(d)') /\ toClient'[d] \in Seq(ResponsesTo(d)')
      <4>1. /\ listeners[d] \subseteq Ids(d) /\ DOMAIN results[d] \subseteq Ids(d)
            /\ toService[d] \in Seq(Ids(d)) /\ toClient[d] \in Seq(ResponsesTo(d))
            /\ DOMAIN listeners = Clients /\ DOMAIN toService = Clients
          BY DEF Shape, ClientShape
      <4>2. toService[d] \in Seq(Ids(d)') /\ toClient[d] \in Seq(ResponsesTo(d)')
          BY <3>2, <4>1, SeqMonotonic
      <4> HIDE DEF id
      <4>3. CASE d # c
          BY <3>1, <3>2, <4>1, <4>2, <4>3
      <4>4. CASE d = c
        <5>1. Append(toService[c], id) \in Seq(Ids(c)')
            BY <3>2, <4>2, <4>4, AppendProperties
        <5> QED BY <3>1, <3>2, <4>1, <4>2, <4>4, <5>1
      <4> QED BY <4>3, <4>4
    <3>4. ClientShape'
        BY <3>1, <3>2, <3>3 DEF Shape, ClientShape
    <3>5. WorkerShape'
      <4>1. ASSUME NEW g \in Chains
            PROVE  /\ toWorker[g] \in Seq(RequestsOf(g)') /\ accepted[g] \subseteq RequestsOf(g)'
                   /\ fromWorker[g] \in Seq(RequestsOf(g)')
                   /\ received[g] \in Seq(RequestsOf(g)')
          BY <3>2, SeqMonotonic DEF Shape, WorkerShape
      <4> QED BY <3>1, <4>1 DEF Shape, WorkerShape
    <3> QED BY <3>4, <3>5 DEF Shape
  <2>2. ASSUME NEW c \in Clients, Receive(c) PROVE Shape'
    <3> DEFINE gone == Answered(c) \cup Crashed(c)
    <3>1. /\ toClient' = [toClient EXCEPT ![c] = Tail(toClient[c])] /\ toClient[c] # <<>>
          /\ listeners' = [listeners EXCEPT ![c] = listeners[c] \ gone]
          /\ UNCHANGED <<made, toService, workerVars>>
          /\ DOMAIN listeners = Clients /\ DOMAIN results = Clients
          /\ DOMAIN toClient = Clients
        BY <2>2, ReceiveFacts DEF Shape, ClientShape
    <3>2. /\ DOMAIN results' = Clients
          /\ \A d \in Clients : DOMAIN results'[d] \subseteq Ids(d)
      <4>1. Answered(c) \subseteq Ids(c) /\ Crashed(c) \subseteq Ids(c)
            /\ \A d \in Clients : DOMAIN results[d] \subseteq Ids(d)
          BY DEF Answered, Crashed, Shape, ClientShape
      <4>2. ASSUME NEW ids \in SUBSET Ids(c), NEW how,
                   results' = [results EXCEPT ![c] = Resolve(c, ids, how)]
            PROVE  /\ DOMAIN results' = Clients
                   /\ \A d \in Clients : DOMAIN results'[d] \subseteq Ids(d)
        <5>1. DOMAIN Resolve(c, ids, how) = DOMAIN results[c] \cup ids
            BY ResolveDomain
        <5>2. /\ DOMAIN results' = Clients /\ results'[c] = Resolve(c, ids, how)
              /\ \A d \in Clients \ {c} : results'[d] = results[d]
            BY <3>1, <4>2, OneEntry
        <5>3. \A d \in Clients \ {c} : DOMAIN results'[d] \subseteq Ids(d)
            BY <4>1, <5>2
        <5>4. DOMAIN results'[c] \subseteq Ids(c)
            BY <4>1, <5>1, <5>2
        <5> QED BY <5>2, <5>3, <5>4
      <4>3. \/ results' = [results EXCEPT ![c] = Resolve(c, Crashed(c), "crashed")]
            \/ results' = [results EXCEPT ![c] = Resolve(c, Answered(c), "answered")]
          BY <2>2, ReceiveFacts
      <4>4. Answered(c) \in SUBSET Ids(c) /\ Crashed(c) \in SUBSET Ids(c)
          BY <4>1
      <4> QED BY <4>2, <4>3, <4>4
    <3>3. Tail(toClient[c]) \in Seq(ResponsesTo(c))
        BY <3>1, TailFacts DEF Shape, ClientShape
    <3>4. \A d \in Clients : /\ listeners'[d] \subseteq Ids(d)
                             /\ toClient'[d] \in Seq(ResponsesTo(d))
        BY <3>1, <3>3 DEF Shape, ClientShape
    <3>5. ClientShape'
        BY <3>1, <3>2, <3>4, MadeKept DEF Shape, ClientShape
    <3>6. WorkerShape'
        BY <3>1, MadeKept DEF Shape, WorkerShape, workerVars
    <3> QED BY <3>5, <3>6 DEF Shape
  <2>3. ASSUME NEW c \in Clients, RouteRequest(c) PROVE Shape'
    <3> DEFINE id == Head(toService[c])
               h == made[c][id].chain
    <3>1. /\ toService[c] # <<>> /\ h \in Chains /\ Routed(c, id) \in RequestsOf(h)
          /\ toService' = [toService EXCEPT ![c] = Tail(toService[c])]
          /\ \/ toWorker' = [toWorker EXCEPT ![h] = Append(toWorker[h], Routed(c, id))]
             \/ DOMAIN toWorker' = Chains /\ \A g \in Chains : toWorker'[g] = toWorker[g]
          /\ UNCHANGED <<made, listeners, results, toClient, workers, accepted, fromWorker,
                         received>>
        BY <2>3, RouteRequestFacts DEF clientVars
    <3> HIDE DEF id, h
    <3>2. Tail(toService[c]) \in Seq(Ids(c))
        BY <3>1, TailFacts DEF Shape, ClientShape
    <3>3. ClientShape'
      <4>1. DOMAIN toService' = Clients /\ \A d \in Clients : toService'[d] \in Seq(Ids(d))
          BY <3>1, <3>2 DEF Shape, ClientShape
      <4> QED BY <3>1, <4>1, MadeKept DEF Shape, ClientShape
    <3>4. DOMAIN toWorker' = Chains /\ \A g \in Chains : toWorker'[g] \in Seq(RequestsOf(g))
      <4>1. Append(toWorker[h], Routed(c, id)) \in Seq(RequestsOf(h))
          BY <3>1, AppendFacts DEF Shape, WorkerShape
      <4> QED BY <3>1, <4>1 DEF Shape, WorkerShape
    <3>5. WorkerShape'
        BY <3>1, <3>4, MadeKept DEF Shape, WorkerShape
    <3> QED BY <3>3, <3>5 DEF Shape
  <2>4. ASSUME NEW h \in Chains, RouteResponse(h) PROVE Shape'
    <3> DEFINE r == Head(fromWorker[h])
               d == [chain |-> h, messageId |-> r.messageId]
    <3>1. /\ fromWorker[h] # <<>> /\ r.port \in Clients /\ d \in ResponsesTo(r.port)
          /\ toClient' = [toClient EXCEPT ![r.port] = Append(toClient[r.port], d)]
          /\ fromWorker' = [fromWorker EXCEPT ![h] = Tail(fromWorker[h])]
          /\ UNCHANGED <<made, listeners, results, toService, workers, toWorker, accepted,
                         received>>
        BY <2>4, RouteResponseFacts DEF clientVars
    <3> HIDE DEF r, d
    <3>2. Append(toClient[r.port], d) \in Seq(ResponsesTo(r.port))
        BY <3>1, AppendFacts DEF Shape, ClientShape
    <3>3. Tail(fromWorker[h]) \in Seq(RequestsOf(h))
        BY <3>1, TailFacts DEF Shape, WorkerShape
    <3>4. ClientShape'
        BY <3>1, <3>2, MadeKept DEF Shape, ClientShape
    <3>5. WorkerShape'
        BY <3>1, <3>3, MadeKept DEF Shape, WorkerShape
    <3> QED BY <3>4, <3>5 DEF Shape
  <2>5. ASSUME NEW h \in Chains, HandleExit(h) PROVE Shape'
    <3> DEFINE d == [chain |-> h, messageId |-> CrashedId]
    <3>1. /\ \A c \in Clients : d \in ResponsesTo(c)
          /\ toClient' = [c \in Clients |-> Append(toClient[c], d)]
          /\ workers' = [workers EXCEPT ![h] = "running"]
          /\ UNCHANGED <<made, listeners, results, toService, toWorker, accepted, fromWorker,
                         received>>
        BY <2>5, HandleExitFacts DEF clientVars
    <3> HIDE DEF d
    <3>2. \A c \in Clients : Append(toClient[c], d) \in Seq(ResponsesTo(c))
        BY <3>1, AppendFacts DEF Shape, ClientShape
    <3>3. ClientShape'
        BY <3>1, <3>2, MadeKept DEF Shape, ClientShape
    <3>4. WorkerShape'
        BY <3>1, MadeKept DEF Shape, WorkerShape
    <3> QED BY <3>3, <3>4 DEF Shape
  <2>6. ASSUME NEW h \in Chains, ProcessRequest(h) PROVE Shape'
    <3> DEFINE r == Head(toWorker[h])
    <3>1. /\ toWorker[h] # <<>> /\ r \in RequestsOf(h)
          /\ \/ /\ fromWorker' = [fromWorker EXCEPT ![h] = Append(fromWorker[h], r)]
                /\ accepted' = accepted
             \/ /\ accepted' = [accepted EXCEPT ![h] = accepted[h] \cup {r}]
                /\ fromWorker' = fromWorker
          /\ received' = [received EXCEPT ![h] = Append(received[h], r)]
          /\ toWorker' = [toWorker EXCEPT ![h] = Tail(toWorker[h])]
          /\ UNCHANGED <<made, listeners, results, toService, toClient, workers>>
        BY <2>6, ProcessRequestFacts DEF clientVars
    <3> HIDE DEF r
    <3>2. /\ Append(fromWorker[h], r) \in Seq(RequestsOf(h))
          /\ Append(received[h], r) \in Seq(RequestsOf(h))
          /\ Tail(toWorker[h]) \in Seq(RequestsOf(h))
          /\ accepted[h] \cup {r} \subseteq RequestsOf(h)
        BY <3>1, AppendFacts, TailFacts DEF Shape, WorkerShape
    <3>3. ClientShape'
        BY <3>1, MadeKept DEF Shape, ClientShape
    <3>4. /\ DOMAIN fromWorker' = Chains /\ DOMAIN accepted' = Chains
          /\ \A g \in Chains : /\ fromWorker'[g] \in Seq(RequestsOf(g))
                               /\ accepted'[g] \subseteq RequestsOf(g)
        BY <3>1, <3>2 DEF Shape, WorkerShape
    <3>5. /\ DOMAIN received' = Chains /\ DOMAIN toWorker' = Chains
          /\ \A g \in Chains : /\ received'[g] \in Seq(RequestsOf(g))
                               /\ toWorker'[g] \in Seq(RequestsOf(g))
        BY <3>1, <3>2 DEF Shape, WorkerShape
    <3>6. WorkerShape'
        BY <3>1, <3>4, <3>5, MadeKept DEF Shape, WorkerShape
    <3> QED BY <3>3, <3>6 DEF Shape
  <2>7. ASSUME NEW h \in Chains, SendResult(h) PROVE Shape'
    <3> PICK r \in accepted[h] :
             /\ r \in RequestsOf(h)
             /\ accepted' = [accepted EXCEPT ![h] = accepted[h] \ {r}]
             /\ fromWorker' = [fromWorker EXCEPT ![h] = Append(fromWorker[h], r)]
             /\ UNCHANGED <<clientVars, toService, toClient, workers, toWorker, received>>
        BY <2>7, SendResultFacts
    <3>1. UNCHANGED <<made, listeners, results, toService, toClient, workers, toWorker,
                      received>>
        BY DEF clientVars
    <3>2. Append(fromWorker[h], r) \in Seq(RequestsOf(h))
        BY AppendFacts DEF Shape, WorkerShape
    <3>3. ClientShape'
        BY <3>1, MadeKept DEF Shape, ClientShape
    <3>4. WorkerShape'
        BY <3>1, <3>2, MadeKept DEF Shape, WorkerShape
    <3> QED BY <3>3, <3>4 DEF Shape
  <2>8. ASSUME NEW h \in Chains, Exit(h) PROVE Shape'
    <3>1. UNCHANGED <<made, listeners, results, toService, toClient, fromWorker, received>>
        BY <2>8 DEF Exit, clientVars
    <3>2. ClientShape'
        BY <3>1, MadeKept DEF Shape, ClientShape
    <3>3. WorkerShape'
        BY <2>8, <3>1, MadeKept, EmptyFacts DEF Exit, Shape, WorkerShape
    <3> QED BY <3>2, <3>3 DEF Shape
  <2>9. CASE UNCHANGED vars
    <3>1. ClientShape'
        BY <2>9, MadeKept DEF Shape, ClientShape, vars, clientVars
    <3>2. WorkerShape'
        BY <2>9, MadeKept DEF Shape, WorkerShape, vars, clientVars, workerVars
    <3> QED BY <3>1, <3>2 DEF Shape
  <2> QED BY <2>1, <2>2, <2>3, <2>4, <2>5, <2>6, <2>7, <2>8, <2>9 DEF Next
<1> QED BY <1>1, <1>2, PTL DEF Spec

-----------------------------------------------------------------------------
(* No promise is forgotten.                                                *)

\* What NoPromiseForgotten says of one promise.
Path(c, id) ==
    \/ id \in Range(toService[c])
    \/ \E h \in Chains : /\ h = made[c][id].chain
                         /\ \/ Routed(c, id) \in Range(toWorker[h])
                            \/ Routed(c, id) \in accepted[h]
                            \/ Routed(c, id) \in Range(fromWorker[h])
                            \/ workers[h] = "exited"
    \/ \E data \in Range(toClient[c]) :
          /\ data.chain = made[c][id].chain
          /\ data.messageId = id \/ data.messageId = CrashedId

LEMMA ChainOfRequest ==
    ASSUME Shape, NEW c \in Clients, NEW id \in Ids(c)
    PROVE  made[c][id].chain \in Chains /\ id \in Nat /\ id # CrashedId
<1>1. made[c] \in Seq(Made)
    BY DEF Shape, ClientShape
<1>2. id \in Nat /\ id # 0 /\ made[c][id] \in Made
    BY <1>1, ElementOfSeq, LenProperties DEF Ids
<1> QED BY <1>2 DEF Made, CrashedId

LEMMA PathIsReason ==
    ASSUME Shape
    PROVE  NoPromiseForgotten <=> \A c \in Clients : \A id \in listeners[c] : Path(c, id)
<1>1. ASSUME NEW c \in Clients, NEW id \in listeners[c]
      PROVE  LET h == made[c][id].chain IN
             Path(c, id) <=>
                \/ id \in Range(toService[c])
                \/ Routed(c, id) \in Range(toWorker[h]) \cup accepted[h] \cup Range(fromWorker[h])
                \/ workers[h] = "exited"
                \/ \E data \in Range(toClient[c]) :
                      data = [chain |-> h, messageId |-> id] \/
                      data = [chain |-> h, messageId |-> CrashedId]
  <2>1. id \in Ids(c) /\ toClient[c] \in Seq(ResponsesTo(c))
      BY DEF Shape, ClientShape
  <2>2. made[c][id].chain \in Chains
      BY <2>1, ChainOfRequest
  <2>3. Range(toClient[c]) \subseteq [chain : Chains, messageId : Nat]
    <3>1. \A i \in DOMAIN toClient[c] : toClient[c][i] \in ResponsesTo(c)
        BY <2>1, ElementOfSeq, LenProperties
    <3> QED BY <3>1 DEF ResponsesTo, Range
  <2> DEFINE h == made[c][id].chain
  <2>4. \A data \in Range(toClient[c]) :
            (/\ data.chain = h
             /\ data.messageId = id \/ data.messageId = CrashedId)
            <=> \/ data = [chain |-> h, messageId |-> id]
                \/ data = [chain |-> h, messageId |-> CrashedId]
      BY <2>3
  <2> QED BY <2>2, <2>4 DEF Path
<1> QED BY <1>1 DEF NoPromiseForgotten

\* Whatever the number of clients, chains, requests and exits, the promise of
\* a request that was not resolved has its request or its answer under way, or a crash
\* of its chain to be told: handleWalletPortData, the 'message' and 'exit' handlers of
\* WalletService and the worker hand every request on, or the worker's end makes up for it.
THEOREM NoPromiseIsForgotten == Spec => []NoPromiseForgotten
<1> DEFINE Inv == \A c \in Clients : \A id \in listeners[c] : Path(c, id)
<1>1. Init => Inv
  <2> SUFFICES ASSUME Init PROVE Inv
      OBVIOUS
  <2> QED BY DEF Init
<1>2. Shape /\ Inv /\ [Next]_vars => Inv'
  <2> SUFFICES ASSUME Shape, Inv, [Next]_vars, NEW d \in Clients, NEW p \in listeners'[d]
               PROVE  Path(d, p)'
      OBVIOUS
  <2> DEFINE k == made[d][p].chain
  <2>1. ASSUME NEW c \in Clients, NEW h \in Chains, NEW kind \in {"tx", "fee"},
               Request(c, h, kind)
        PROVE  Path(d, p)'
    <3> DEFINE id == Len(made[c]) + 1
    <3>1. /\ listeners' = [listeners EXCEPT ![c] = listeners[c] \cup {id}]
          /\ toService' = [toService EXCEPT ![c] = Append(toService[c], id)]
          /\ UNCHANGED <<results, toClient, workers, toWorker, accepted, fromWorker, received>>
        BY <2>1 DEF Request, workerVars
    <3>2. \A i \in Ids(d) : made'[d][i] = made[d][i]
        BY <2>1, RequestFacts
    <3>3. Range(Append(toService[c], id)) = Range(toService[c]) \cup {id}
      <4>1. toService[c] \in Seq(Nat) /\ id \in Nat
        <5>1. toService[c] \in Seq(Ids(c)) /\ Len(made[c]) \in Nat
            BY LenProperties DEF Shape, ClientShape
        <5>2. Ids(c) \subseteq Nat
            BY <5>1 DEF Ids
        <5> QED BY <5>1, <5>2, SeqMonotonic
      <4> QED BY <4>1, AppendFacts
    <3>4. DOMAIN listeners = Clients /\ DOMAIN toService = Clients
          /\ listeners[d] \subseteq Ids(d)
        BY DEF Shape, ClientShape
    <3> HIDE DEF id
    <3>5. Range(toService[d]) \subseteq Range(toService'[d])
        BY <3>1, <3>3, <3>4
    <3>6. CASE p \in listeners[d]
      <4>1. Path(d, p) /\ made'[d][p] = made[d][p]
          BY <3>2, <3>4, <3>6
      <4> QED BY <3>1, <3>5, <4>1 DEF Path
    <3>7. CASE p \notin listeners[d]
      <4>1. d = c /\ p = id
          BY <3>1, <3>4, <3>7
      <4>2. p \in Range(toService'[d])
          BY <3>1, <3>3, <3>4, <4>1
      <4> QED BY <4>2 DEF Path
    <3> QED BY <3>6, <3>7
  <2>2. ASSUME NEW c \in Clients, Receive(c) PROVE Path(d, p)'
    <3>1. /\ toClient' = [toClient EXCEPT ![c] = Tail(toClient[c])] /\ toClient[c] # <<>>
          /\ listeners' = [listeners EXCEPT ![c] = listeners[c] \ (Answered(c) \cup Crashed(c))]
          /\ UNCHANGED <<made, toService, workers, toWorker, accepted, fromWorker>>
          /\ DOMAIN listeners = Clients /\ DOMAIN toClient = Clients
        BY <2>2, ReceiveFacts DEF Shape, ClientShape, workerVars
    <3>2. p \in listeners[d] /\ Path(d, p)
        BY <3>1
    <3>3. \A data \in Range(toClient[d]) :
             \/ data \in Range(toClient'[d])
             \/ ~ /\ data.chain = made[d][p].chain
                  /\ data.messageId = p \/ data.messageId = CrashedId
      <4>1. CASE d # c
          BY <3>1, <4>1
      <4>2. CASE d = c
        <5>1. toClient[c] \in Seq(ResponsesTo(c)) /\ toClient'[c] = Tail(toClient[c])
            BY <3>1 DEF Shape, ClientShape
        <5>2. Range(toClient[c]) = Range(toClient'[c]) \cup {Head(toClient[c])}
            BY <3>1, <5>1, TailFacts
        <5>3. p \notin Answered(c) /\ p \notin Crashed(c)
            BY <3>1, <4>2
        <5>4. ~ /\ Head(toClient[c]).chain = made[d][p].chain
                /\ Head(toClient[c]).messageId = p \/ Head(toClient[c]).messageId = CrashedId
            BY <3>2, <4>2, <5>3 DEF Answered, Crashed
        <5> QED BY <4>2, <5>2, <5>4
      <4> QED BY <4>1, <4>2
    <3> QED BY <3>1, <3>2, <3>3 DEF Path
  <2>3. ASSUME NEW c \in Clients, RouteRequest(c) PROVE Path(d, p)'
    <3> DEFINE id == Head(toService[c])
               h == made[c][id].chain
    <3>1. /\ toService[c] # <<>> /\ h \in Chains /\ Routed(c, id) \in RequestsOf(h)
          /\ toService' = [toService EXCEPT ![c] = Tail(toService[c])]
          /\ \/ /\ workers[h] = "running"
                /\ toWorker' = [toWorker EXCEPT ![h] = Append(toWorker[h], Routed(c, id))]
             \/ /\ workers[h] = "exited"
                /\ DOMAIN toWorker' = Chains /\ \A g \in Chains : toWorker'[g] = toWorker[g]
          /\ UNCHANGED <<made, listeners, toClient, workers, accepted, fromWorker>>
        BY <2>3, RouteRequestFacts DEF clientVars
    <3>2. Path(d, p) /\ DOMAIN toService = Clients /\ DOMAIN toWorker = Chains
        BY <3>1 DEF Shape, ClientShape, WorkerShape
    <3> HIDE DEF id
    <3>3. Range(toService[c]) = Range(Tail(toService[c])) \cup {id}
        BY <3>1, TailFacts DEF Shape, ClientShape, id
    <3>4. Range(Append(toWorker[h], Routed(c, id))) = Range(toWorker[h]) \cup {Routed(c, id)}
        BY <3>1, AppendFacts DEF Shape, WorkerShape
    <3>5. \A g \in Chains : Range(toWorker[g]) \subseteq Range(toWorker'[g])
        BY <3>1, <3>2, <3>4
    <3>6. CASE d = c /\ p = id
      <4>1. workers[h] = "running" => Routed(c, id) \in Range(toWorker'[h])
          BY <3>1, <3>2, <3>4
      <4> QED BY <3>1, <3>6, <4>1 DEF Path
    <3>7. CASE ~(d = c /\ p = id)
      <4>1. p \in Range(toService[d]) => p \in Range(toService'[d])
          BY <3>1, <3>2, <3>3, <3>7
      <4> QED BY <3>1, <3>2, <3>5, <4>1 DEF Path
    <3> QED BY <3>6, <3>7
  <2>4. ASSUME NEW h \in Chains, RouteResponse(h) PROVE Path(d, p)'
    <3> DEFINE r == Head(fromWorker[h])
               m == [chain |-> h, messageId |-> r.messageId]
    <3>1. /\ fromWorker[h] # <<>> /\ r.port \in Clients /\ m \in ResponsesTo(r.port)
          /\ m.chain = h /\ m.messageId = r.messageId /\ r = Routed(r.port, r.messageId)
          /\ toClient' = [toClient EXCEPT ![r.port] = Append(toClient[r.port], m)]
          /\ fromWorker' = [fromWorker EXCEPT ![h] = Tail(fromWorker[h])]
          /\ UNCHANGED <<made, listeners, toService, workers, toWorker, accepted>>
        BY <2>4, RouteResponseFacts DEF clientVars
    <3>2. Path(d, p) /\ DOMAIN toClient = Clients /\ DOMAIN fromWorker = Chains
        BY <3>1 DEF Shape, ClientShape, WorkerShape
    <3>3. Range(fromWorker[h]) = Range(Tail(fromWorker[h])) \cup {r}
        BY <3>1, TailFacts DEF Shape, WorkerShape
    <3> HIDE DEF r, m
    <3>4. Range(Append(toClient[r.port], m)) = Range(toClient[r.port]) \cup {m}
        BY <3>1, AppendFacts DEF Shape, ClientShape
    <3>5. Range(toClient[d]) \subseteq Range(toClient'[d])
        BY <3>1, <3>2, <3>4
    <3>6. \A g \in Chains : Range(fromWorker[g]) \subseteq Range(fromWorker'[g]) \cup {r}
        BY <3>1, <3>2, <3>3
    <3>7. CASE Routed(d, p) = r /\ made[d][p].chain = h
      <4>1. d = r.port /\ p = r.messageId
          BY <3>7 DEF Routed
      <4>2. m \in Range(toClient'[d])
          BY <3>1, <3>2, <3>4, <4>1
      <4> QED BY <3>1, <3>7, <4>1, <4>2 DEF Path
    <3>8. CASE ~(Routed(d, p) = r /\ made[d][p].chain = h)
      <4>1. \A g \in Chains : g = made[d][p].chain /\ Routed(d, p) \in Range(fromWorker[g])
                                 => Routed(d, p) \in Range(fromWorker'[g])
          BY <3>1, <3>2, <3>6, <3>8
      <4> QED BY <3>1, <3>2, <3>5, <4>1 DEF Path
    <3> QED BY <3>7, <3>8
  <2>5. ASSUME NEW h \in Chains, HandleExit(h) PROVE Path(d, p)'
    <3> DEFINE m == [chain |-> h, messageId |-> CrashedId]
    <3>1. /\ m \in ResponsesTo(d) /\ m.chain = h /\ m.messageId = CrashedId
          /\ toClient' = [c \in Clients |-> Append(toClient[c], m)]
          /\ workers' = [workers EXCEPT ![h] = "running"]
          /\ UNCHANGED <<made, listeners, toService, toWorker, accepted, fromWorker>>
        BY <2>5, HandleExitFacts DEF clientVars
    <3>2. Path(d, p) /\ DOMAIN workers = Chains
        BY <3>1 DEF Shape, WorkerShape
    <3> HIDE DEF m
    <3>3. Range(Append(toClient[d], m)) = Range(toClient[d]) \cup {m}
        BY <3>1, AppendFacts DEF Shape, ClientShape
    <3>4. Range(toClient'[d]) = Range(toClient[d]) \cup {m}
        BY <3>1, <3>3
    <3>5. CASE made[d][p].chain = h
        BY <3>1, <3>4, <3>5 DEF Path
    <3>6. CASE made[d][p].chain # h
      <4>1. \A g \in Chains : g = made[d][p].chain => workers'[g] = workers[g]
          BY <3>1, <3>2, <3>6
      <4> QED BY <3>1, <3>2, <3>4, <4>1 DEF Path
    <3> QED BY <3>5, <3>6
  <2>6. ASSUME NEW h \in Chains, ProcessRequest(h) PROVE Path(d, p)'
    <3> DEFINE r == Head(toWorker[h])
    <3>1. /\ toWorker[h] # <<>> /\ r \in RequestsOf(h)
          /\ \/ /\ fromWorker' = [fromWorker EXCEPT ![h] = Append(fromWorker[h], r)]
                /\ accepted' = accepted
             \/ /\ accepted' = [accepted EXCEPT ![h] = accepted[h] \cup {r}]
                /\ fromWorker' = fromWorker
          /\ toWorker' = [toWorker EXCEPT ![h] = Tail(toWorker[h])]
          /\ UNCHANGED <<made, listeners, toService, toClient, workers>>
        BY <2>6, ProcessRequestFacts DEF clientVars
    <3>2. /\ Path(d, p) /\ DOMAIN toWorker = Chains /\ DOMAIN fromWorker = Chains
          /\ DOMAIN accepted = Chains
        BY <3>1 DEF Shape, WorkerShape
    <3>3. Range(toWorker[h]) = Range(Tail(toWorker[h])) \cup {r}
        BY <3>1, TailFacts DEF Shape, WorkerShape
    <3> HIDE DEF r
    <3>4. Range(Append(fromWorker[h], r)) = Range(fromWorker[h]) \cup {r}
        BY <3>1, AppendFacts DEF Shape, WorkerShape
    <3>5. \A g \in Chains : /\ accepted[g] \subseteq accepted'[g]
                            /\ Range(fromWorker[g]) \subseteq Range(fromWorker'[g])
        BY <3>1, <3>2, <3>4
    <3>6. r \in accepted'[h] \/ r \in Range(fromWorker'[h])
        BY <3>1, <3>2, <3>4
    <3>7. \A g \in Chains : \A x \in Range(toWorker[g]) :
             x \in Range(toWorker'[g]) \/ x \in accepted'[g] \/ x \in Range(fromWorker'[g])
        BY <3>1, <3>2, <3>3, <3>6
    <3> QED BY <3>1, <3>2, <3>5, <3>7 DEF Path
  <2>7. ASSUME NEW h \in Chains, SendResult(h) PROVE Path(d, p)'
    <3> PICK r \in accepted[h] :
             /\ r \in RequestsOf(h)
             /\ accepted' = [accepted EXCEPT ![h] = accepted[h] \ {r}]
             /\ fromWorker' = [fromWorker EXCEPT ![h] = Append(fromWorker[h], r)]
             /\ UNCHANGED <<clientVars, toService, toClient, workers, toWorker, received>>
        BY <2>7, SendResultFacts
    <3>1. /\ UNCHANGED <<made, listeners, toService, toClient, workers, toWorker>>
          /\ DOMAIN fromWorker = Chains /\ DOMAIN accepted = Chains
        BY DEF clientVars, Shape, WorkerShape
    <3>2. Path(d, p)
        BY <3>1
    <3>3. Range(Append(fromWorker[h], r)) = Range(fromWorker[h]) \cup {r}
        BY AppendFacts DEF Shape, WorkerShape
    <3>4. \A g \in Chains : /\ \A x \in accepted[g] :
                                  x \in accepted'[g] \/ x \in Range(fromWorker'[g])
                            /\ Range(fromWorker[g]) \subseteq Range(fromWorker'[g])
        BY <3>1, <3>3
    <3> QED BY <3>1, <3>2, <3>4 DEF Path
  <2>8. ASSUME NEW h \in Chains, Exit(h) PROVE Path(d, p)'
    <3>1. /\ UNCHANGED <<made, listeners, toService, toClient, fromWorker>>
          /\ workers' = [workers EXCEPT ![h] = "exited"]
          /\ toWorker' = [toWorker EXCEPT ![h] = <<>>]
          /\ accepted' = [accepted EXCEPT ![h] = {}]
          /\ DOMAIN workers = Chains /\ DOMAIN toWorker = Chains /\ DOMAIN accepted = Chains
        BY <2>8 DEF Exit, clientVars, Shape, WorkerShape
    <3>2. Path(d, p)
        BY <3>1
    <3>3. /\ workers'[h] = "exited"
          /\ \A g \in Chains \ {h} : /\ workers'[g] = workers[g] /\ toWorker'[g] = toWorker[g]
                                     /\ accepted'[g] = accepted[g]
        BY <3>1
    <3> QED BY <3>1, <3>2, <3>3 DEF Path
  <2>9. CASE UNCHANGED vars
    <3>1. UNCHANGED <<made, listeners, toService, toClient, workers, toWorker, accepted, fromWorker>>
        BY <2>9 DEF vars, clientVars, workerVars
    <3> QED BY <3>1 DEF Path
  <2> QED BY <2>1, <2>2, <2>3, <2>4, <2>5, <2>6, <2>7, <2>8, <2>9 DEF Next
<1>3. Shape /\ Inv => NoPromiseForgotten
    BY PathIsReason
<1> QED BY <1>1, <1>2, <1>3, ShapeInvariant, PTL DEF Spec

-----------------------------------------------------------------------------
(* Results are answers of the chain, and final.                            *)

\* A promise is not resolved while its listener is on the port.
PendingUnresolved == \A c \in Clients : listeners[c] \cap DOMAIN results[c] = {}

\* What is on its way back was received by a worker of its chain.
ReturnsWereReceived ==
    /\ \A h \in Chains : accepted[h] \cup Range(fromWorker[h]) \subseteq Range(received[h])
    /\ \A c \in Clients : \A d \in Range(toClient[c]) :
          d.messageId # CrashedId => Routed(c, d.messageId) \in Range(received[d.chain])

\* The results of a client are kept, and a new one is that of a listener taken away.
LEMMA ReceiveResults ==
    ASSUME Shape, PendingUnresolved, NEW c \in Clients, Receive(c)
    PROVE  /\ DOMAIN results' = Clients /\ DOMAIN listeners' = Clients
           /\ \A d \in Clients \ {c} : results'[d] = results[d] /\ listeners'[d] = listeners[d]
           /\ listeners'[c] \subseteq listeners[c]
           /\ \A id \in DOMAIN results[c] : /\ id \in DOMAIN results'[c]
                                            /\ results'[c][id] = results[c][id]
           /\ \A id \in DOMAIN results'[c] \ DOMAIN results[c] :
                 /\ id \in listeners[c] /\ id \notin listeners'[c]
                 /\ results'[c][id] = "answered" => id = Head(toClient[c]).messageId
<1>1. /\ listeners' = [listeners EXCEPT ![c] = listeners[c] \ (Answered(c) \cup Crashed(c))]
      /\ DOMAIN results = Clients /\ DOMAIN listeners = Clients
      /\ listeners[c] \cap DOMAIN results[c] = {}
    BY ReceiveFacts DEF Shape, ClientShape, PendingUnresolved
<1>2. Answered(c) \subseteq listeners[c] /\ Crashed(c) \subseteq listeners[c]
      /\ \A id \in Answered(c) : id = Head(toClient[c]).messageId
    BY DEF Answered, Crashed
<1>3. Answered(c) \in SUBSET listeners[c] /\ Crashed(c) \in SUBSET listeners[c]
    BY <1>2
<1>4. ASSUME NEW ids \in SUBSET listeners[c], NEW how \in {"answered", "crashed"},
             results' = [results EXCEPT ![c] = Resolve(c, ids, how)]
      PROVE  /\ DOMAIN results' = Clients
             /\ \A d \in Clients \ {c} : results'[d] = results[d]
             /\ \A id \in DOMAIN results[c] : /\ id \in DOMAIN results'[c]
                                              /\ results'[c][id] = results[c][id]
             /\ \A id \in DOMAIN results'[c] \ DOMAIN results[c] :
                   id \in ids /\ results'[c][id] = how
  <2>1. /\ DOMAIN Resolve(c, ids, how) = DOMAIN results[c] \cup ids
        /\ \A i \in ids : Resolve(c, ids, how)[i] = how
        /\ \A i \in DOMAIN results[c] \ ids : Resolve(c, ids, how)[i] = results[c][i]
      BY DEF Resolve
  <2>2. /\ DOMAIN results' = Clients /\ results'[c] = Resolve(c, ids, how)
        /\ \A d \in Clients \ {c} : results'[d] = results[d]
      BY <1>1, <1>4, OneEntry
  <2>3. ids \cap DOMAIN results[c] = {}
      BY <1>1, <1>4
  <2> QED BY <2>1, <2>2, <2>3
<1>5. \/ results' = [results EXCEPT ![c] = Resolve(c, Crashed(c), "crashed")]
      \/ results' = [results EXCEPT ![c] = Resolve(c, Answered(c), "answered")]
    BY ReceiveFacts
<1>6. /\ DOMAIN listeners' = Clients /\ listeners'[c] = listeners[c] \ (Answered(c) \cup Crashed(c))
      /\ \A d \in Clients \ {c} : listeners'[d] = listeners[d]
    BY <1>1
<1>7. CASE results' = [results EXCEPT ![c] = Resolve(c, Crashed(c), "crashed")]
  <2>1. /\ DOMAIN results' = Clients
        /\ \A d \in Clients \ {c} : results'[d] = results[d]
        /\ \A id \in DOMAIN results[c] : /\ id \in DOMAIN results'[c]
                                         /\ results'[c][id] = results[c][id]
        /\ \A id \in DOMAIN results'[c] \ DOMAIN results[c] :
              id \in Crashed(c) /\ results'[c][id] = "crashed"
      BY <1>3, <1>4, <1>7
  <2>2. \A id \in DOMAIN results'[c] \ DOMAIN results[c] :
           /\ id \in listeners[c] /\ id \notin listeners'[c]
           /\ results'[c][id] = "answered" => id = Head(toClient[c]).messageId
      BY <1>2, <1>6, <2>1
  <2> QED BY <1>6, <2>1, <2>2
<1>8. CASE results' = [results EXCEPT ![c] = Resolve(c, Answered(c), "answered")]
  <2>1. /\ DOMAIN results' = Clients
        /\ \A d \in Clients \ {c} : results'[d] = results[d]
        /\ \A id \in DOMAIN results[c] : /\ id \in DOMAIN results'[c]
                                         /\ results'[c][id] = results[c][id]
        /\ \A id \in DOMAIN results'[c] \ DOMAIN results[c] :
              id \in Answered(c) /\ results'[c][id] = "answered"
      BY <1>3, <1>4, <1>8
  <2>2. \A id \in DOMAIN results'[c] \ DOMAIN results[c] :
           /\ id \in listeners[c] /\ id \notin listeners'[c]
           /\ results'[c][id] = "answered" => id = Head(toClient[c]).messageId
      BY <1>2, <1>6, <2>1
  <2> QED BY <1>6, <2>1, <2>2
<1> QED BY <1>5, <1>7, <1>8

LEMMA PendingInvariant == Spec => []PendingUnresolved
<1>1. Init => PendingUnresolved
    BY DEF Init, PendingUnresolved
<1>2. Shape /\ PendingUnresolved /\ [Next]_vars => PendingUnresolved'
  <2> SUFFICES ASSUME Shape, PendingUnresolved, [Next]_vars PROVE PendingUnresolved'
      OBVIOUS
  <2>1. ASSUME NEW c \in Clients, NEW h \in Chains, NEW kind \in {"tx", "fee"},
               Request(c, h, kind)
        PROVE  PendingUnresolved'
    <3>1. /\ listeners' = [listeners EXCEPT ![c] = listeners[c] \cup {Len(made[c]) + 1}]
          /\ results' = results
          /\ Len(made[c]) \in Nat /\ DOMAIN results[c] \subseteq 1..Len(made[c])
          /\ DOMAIN listeners = Clients
        BY <2>1, LenProperties DEF Request, Shape, ClientShape, Ids
    <3>2. Len(made[c]) + 1 \notin DOMAIN results[c]
        BY <3>1
    <3> QED BY <3>1, <3>2 DEF PendingUnresolved
  <2>2. ASSUME NEW c \in Clients, Receive(c) PROVE PendingUnresolved'
      BY <2>2, ReceiveResults DEF PendingUnresolved
  <2>3. CASE UNCHANGED <<listeners, results>>
      BY <2>3 DEF PendingUnresolved
  <2>4. ASSUME \/ \E c \in Clients : RouteRequest(c)
               \/ \E h \in Chains : \/ RouteResponse(h) \/ HandleExit(h)
                                    \/ ProcessRequest(h) \/ SendResult(h) \/ Exit(h)
               \/ UNCHANGED vars
        PROVE  UNCHANGED <<listeners, results>>
      BY <2>4 DEF RouteRequest, RouteResponse, HandleExit, ProcessRequest, SendResult, Exit,
                  vars, clientVars
  <2> QED BY <2>1, <2>2, <2>3, <2>4 DEF Next
<1> QED BY <1>1, <1>2, ShapeInvariant, PTL DEF Spec

\* The result a promise has resolved to is never taken back or replaced: the listener of
\* WalletInterface is off the port before anything else can arrive for it.
THEOREM ResultsStay == Spec => ResultsAreFinal
<1>1. Shape /\ PendingUnresolved /\ [Next]_vars
         => [\A c \in Clients : \A id \in DOMAIN results[c] :
                id \in DOMAIN results'[c] /\ results'[c][id] = results[c][id]]_vars
  <2> SUFFICES ASSUME Shape, PendingUnresolved, Next
               PROVE  \A c \in Clients : \A id \in DOMAIN results[c] :
                         id \in DOMAIN results'[c] /\ results'[c][id] = results[c][id]
      OBVIOUS
  <2>1. ASSUME NEW c \in Clients, Receive(c)
        PROVE  \A d \in Clients : \A id \in DOMAIN results[d] :
                  id \in DOMAIN results'[d] /\ results'[d][id] = results[d][id]
      BY <2>1, ReceiveResults
  <2>2. CASE UNCHANGED results
      BY <2>2
  <2>3. ASSUME \/ \E c \in Clients, h \in Chains, kind \in {"tx", "fee"} : Request(c, h, kind)
               \/ \E c \in Clients : RouteRequest(c)
               \/ \E h \in Chains : \/ RouteResponse(h) \/ HandleExit(h)
                                    \/ ProcessRequest(h) \/ SendResult(h) \/ Exit(h)
        PROVE  UNCHANGED results
      BY <2>3 DEF Request, RouteRequest, RouteResponse, HandleExit, ProcessRequest,
                  SendResult, Exit, clientVars
  <2> QED BY <2>1, <2>2, <2>3 DEF Next
<1> QED BY <1>1, ShapeInvariant, PendingInvariant, PTL DEF Spec, ResultsAreFinal

LEMMA ReturnsInvariant == Spec => []ReturnsWereReceived
<1>1. Init => ReturnsWereReceived
    BY EmptyFacts DEF Init, ReturnsWereReceived
<1>2. Shape /\ ReturnsWereReceived /\ [Next]_vars => ReturnsWereReceived'
  <2> SUFFICES ASSUME Shape, ReturnsWereReceived, [Next]_vars PROVE ReturnsWereReceived'
      OBVIOUS
  <2>1. ASSUME NEW c \in Clients, Receive(c) PROVE ReturnsWereReceived'
    <3>1. /\ toClient' = [toClient EXCEPT ![c] = Tail(toClient[c])] /\ toClient[c] # <<>>
          /\ UNCHANGED <<accepted, fromWorker, received>> /\ DOMAIN toClient = Clients
        BY <2>1, ReceiveFacts DEF Shape, ClientShape, workerVars
    <3>2. Range(Tail(toClient[c])) \subseteq Range(toClient[c])
        BY <3>1, TailFacts DEF Shape, ClientShape
    <3>3. \A d \in Clients : Range(toClient'[d]) \subseteq Range(toClient[d])
        BY <3>1, <3>2
    <3> QED BY <3>1, <3>3 DEF ReturnsWereReceived
  <2>2. ASSUME NEW h \in Chains, RouteResponse(h) PROVE ReturnsWereReceived'
    <3> DEFINE r == Head(fromWorker[h])
               m == [chain |-> h, messageId |-> r.messageId]
    <3>1. /\ fromWorker[h] # <<>> /\ r.port \in Clients /\ m \in ResponsesTo(r.port)
          /\ m.chain = h /\ m.messageId = r.messageId /\ r = Routed(r.port, r.messageId)
          /\ toClient' = [toClient EXCEPT ![r.port] = Append(toClient[r.port], m)]
          /\ fromWorker' = [fromWorker EXCEPT ![h] = Tail(fromWorker[h])]
          /\ UNCHANGED <<accepted, received>>
        BY <2>2, RouteResponseFacts
    <3>2. DOMAIN toClient = Clients /\ DOMAIN fromWorker = Chains
        BY DEF Shape, ClientShape, WorkerShape
    <3>3. Range(fromWorker[h]) = Range(Tail(fromWorker[h])) \cup {r}
        BY <3>1, TailFacts DEF Shape, WorkerShape
    <3> HIDE DEF r, m
    <3>4. Range(Append(toClient[r.port], m)) = Range(toClient[r.port]) \cup {m}
        BY <3>1, AppendFacts DEF Shape, ClientShape
    <3>5. \A g \in Chains : Range(fromWorker'[g]) \subseteq Range(fromWorker[g])
        BY <3>1, <3>2, <3>3
    <3>6. Routed(r.port, m.messageId) \in Range(received[m.chain])
        BY <3>1, <3>3 DEF ReturnsWereReceived
    <3>7. \A c \in Clients : \A d \in Range(toClient'[c]) :
             d \in Range(toClient[c]) \/ (c = r.port /\ d = m)
        BY <3>1, <3>2, <3>4
    <3> QED BY <3>1, <3>5, <3>6, <3>7 DEF ReturnsWereReceived
  <2>3. ASSUME NEW h \in Chains, HandleExit(h) PROVE ReturnsWereReceived'
    <3> DEFINE m == [chain |-> h, messageId |-> CrashedId]
    <3>1. /\ \A c \in Clients : m \in ResponsesTo(c)
          /\ m.messageId = CrashedId
          /\ toClient' = [c \in Clients |-> Append(toClient[c], m)]
          /\ UNCHANGED <<accepted, fromWorker, received>>
        BY <2>3, HandleExitFacts
    <3> HIDE DEF m
    <3>2. \A c \in Clients : Range(toClient'[c]) = Range(toClient[c]) \cup {m}
      <4> TAKE c \in Clients
      <4>1. Range(Append(toClient[c], m)) = Range(toClient[c]) \cup {m}
          BY <3>1, AppendFacts DEF Shape, ClientShape
      <4> QED BY <3>1, <4>1
    <3>3. \A c \in Clients : \A d \in Range(toClient'[c]) :
             d \in Range(toClient[c]) \/ d.messageId = CrashedId
        BY <3>1, <3>2
    <3>4. \A g \in Chains : accepted'[g] = accepted[g] /\ fromWorker'[g] = fromWorker[g]
                           /\ received' = received
        BY <3>1
    <3> QED BY <3>3, <3>4 DEF ReturnsWereReceived
  <2>4. ASSUME NEW h \in Chains, ProcessRequest(h) PROVE ReturnsWereReceived'
    <3> DEFINE r == Head(toWorker[h])
    <3>1. /\ r \in RequestsOf(h)
          /\ \/ /\ fromWorker' = [fromWorker EXCEPT ![h] = Append(fromWorker[h], r)]
                /\ accepted' = accepted
             \/ /\ accepted' = [accepted EXCEPT ![h] = accepted[h] \cup {r}]
                /\ fromWorker' = fromWorker
          /\ received' = [received EXCEPT ![h] = Append(received[h], r)]
          /\ UNCHANGED toClient
        BY <2>4, ProcessRequestFacts
    <3>2. DOMAIN fromWorker = Chains /\ DOMAIN accepted = Chains /\ DOMAIN received = Chains
        BY DEF Shape, WorkerShape
    <3> HIDE DEF r
    <3>3. /\ Range(Append(fromWorker[h], r)) = Range(fromWorker[h]) \cup {r}
          /\ Range(Append(received[h], r)) = Range(received[h]) \cup {r}
        BY <3>1, AppendFacts DEF Shape, WorkerShape
    <3>4. /\ \A g \in Chains : Range(received[g]) \subseteq Range(received'[g])
          /\ r \in Range(received'[h])
        BY <3>1, <3>2, <3>3
    <3>5. \A g \in Chains : accepted'[g] \cup Range(fromWorker'[g])
             \subseteq accepted[g] \cup Range(fromWorker[g]) \cup (IF g = h THEN {r} ELSE {})
        BY <3>1, <3>2, <3>3
    <3>6. \A g \in Chains : accepted'[g] \cup Range(fromWorker'[g]) \subseteq Range(received'[g])
        BY <3>4, <3>5 DEF ReturnsWereReceived
    <3>7. \A c \in Clients : \A d \in Range(toClient[c]) : d.messageId = CrashedId \/ d.chain \in Chains
      <4>1. ASSUME NEW c \in Clients PROVE Range(toClient[c]) \subseteq ResponsesTo(c)
        <5>1. toClient[c] \in Seq(ResponsesTo(c))
            BY DEF Shape, ClientShape
        <5>2. \A i \in DOMAIN toClient[c] : toClient[c][i] \in ResponsesTo(c)
            BY <5>1, ElementOfSeq, LenProperties
        <5> QED BY <5>2 DEF Range
      <4> QED BY <4>1 DEF ResponsesTo
    <3> QED BY <3>1, <3>4, <3>6, <3>7 DEF ReturnsWereReceived
  <2>5. ASSUME NEW h \in Chains, SendResult(h) PROVE ReturnsWereReceived'
    <3> PICK r \in accepted[h] :
             /\ r \in RequestsOf(h)
             /\ accepted' = [accepted EXCEPT ![h] = accepted[h] \ {r}]
             /\ fromWorker' = [fromWorker EXCEPT ![h] = Append(fromWorker[h], r)]
             /\ UNCHANGED <<clientVars, toService, toClient, workers, toWorker, received>>
        BY <2>5, SendResultFacts
    <3>1. DOMAIN fromWorker = Chains /\ DOMAIN accepted = Chains
        BY DEF Shape, WorkerShape
    <3>2. Range(Append(fromWorker[h], r)) = Range(fromWorker[h]) \cup {r}
        BY AppendFacts DEF Shape, WorkerShape
    <3>3. \A g \in Chains : accepted'[g] \cup Range(fromWorker'[g])
                               \subseteq accepted[g] \cup Range(fromWorker[g])
        BY <3>1, <3>2
    <3> QED BY <3>3 DEF ReturnsWereReceived
  <2>6. ASSUME NEW h \in Chains, Exit(h) PROVE ReturnsWereReceived'
    <3>1. /\ UNCHANGED <<toClient, fromWorker, received>> /\ DOMAIN accepted = Chains
          /\ accepted' = [accepted EXCEPT ![h] = {}]
        BY <2>6 DEF Exit, Shape, WorkerShape
    <3>2. \A g \in Chains : accepted'[g] \subseteq accepted[g]
        BY <3>1
    <3> QED BY <3>1, <3>2 DEF ReturnsWereReceived
  <2>7. CASE UNCHANGED <<toClient, accepted, fromWorker, received>>
      BY <2>7 DEF ReturnsWereReceived
  <2>8. ASSUME \/ \E c \in Clients, h \in Chains, kind \in {"tx", "fee"} : Request(c, h, kind)
               \/ \E c \in Clients : RouteRequest(c)
               \/ UNCHANGED vars
        PROVE  UNCHANGED <<toClient, accepted, fromWorker, received>>
      BY <2>8 DEF Request, RouteRequest, vars, clientVars, workerVars
  <2> QED BY <2>1, <2>2, <2>3, <2>4, <2>5, <2>6, <2>7, <2>8 DEF Next
<1> QED BY <1>1, <1>2, ShapeInvariant, PTL DEF Spec

\* Whatever the interleaving of the threads and their ends, a promise that resolves to a
\* result was answered by the worker of its own chain, which had received that request of
\* that client: the routing by port and messageId of WalletService mixes up nothing.
THEOREM AnswersAreOfTheChain == Spec => []AnswersComeFromTheChain
<1>1. Init => AnswersComeFromTheChain
    BY DEF Init, AnswersComeFromTheChain
<1>2. Shape /\ PendingUnresolved /\ ReturnsWereReceived /\ AnswersComeFromTheChain /\ [Next]_vars
         => AnswersComeFromTheChain'
  <2> SUFFICES ASSUME Shape, PendingUnresolved, ReturnsWereReceived, AnswersComeFromTheChain,
                      [Next]_vars
               PROVE  AnswersComeFromTheChain'
      OBVIOUS
  <2>1. ASSUME NEW c \in Clients, NEW h \in Chains, NEW kind \in {"tx", "fee"},
               Request(c, h, kind)
        PROVE  AnswersComeFromTheChain'
    <3>1. \A d \in Clients : \A id \in Ids(d) : made'[d][id] = made[d][id]
        BY <2>1, RequestFacts
    <3>2. UNCHANGED <<results, received>>
        BY <2>1 DEF Request, workerVars
    <3> QED BY <3>1, <3>2 DEF AnswersComeFromTheChain, Shape, ClientShape
  <2>2. ASSUME NEW c \in Clients, Receive(c) PROVE AnswersComeFromTheChain'
    <3>1. UNCHANGED <<made, received>> /\ toClient[c] # <<>>
          /\ Head(toClient[c]) \in ResponsesTo(c)
        BY <2>2, ReceiveFacts DEF workerVars
    <3>2. Head(toClient[c]) \in Range(toClient[c])
        BY <3>1, TailFacts DEF Shape, ClientShape
    <3>3. ASSUME NEW id \in DOMAIN results'[c] \ DOMAIN results[c], results'[c][id] = "answered"
          PROVE  Routed(c, id) \in Range(received[made[c][id].chain])
      <4>1. id \in Ids(c) /\ id = Head(toClient[c]).messageId
          BY <2>2, <3>3, ReceiveResults DEF Shape, ClientShape
      <4>2. id # CrashedId
          BY <4>1, ChainOfRequest
      <4>3. Head(toClient[c]).chain = made[c][id].chain
          BY <3>1, <4>1, <4>2 DEF ResponsesTo
      <4> QED BY <3>2, <4>1, <4>2, <4>3 DEF ReturnsWereReceived
    <3>4. /\ \A d \in Clients \ {c} : results'[d] = results[d]
          /\ \A id \in DOMAIN results[c] : results'[c][id] = results[c][id]
        BY <2>2, ReceiveResults
    <3> QED BY <3>1, <3>3, <3>4 DEF AnswersComeFromTheChain
  <2>3. ASSUME NEW h \in Chains, ProcessRequest(h) PROVE AnswersComeFromTheChain'
    <3>1. /\ Head(toWorker[h]) \in RequestsOf(h) /\ UNCHANGED <<made, results>>
          /\ received' = [received EXCEPT ![h] = Append(received[h], Head(toWorker[h]))]
          /\ DOMAIN received = Chains
        BY <2>3, ProcessRequestFacts DEF clientVars, Shape, WorkerShape
    <3>2. Range(received[h]) \subseteq Range(Append(received[h], Head(toWorker[h])))
        BY <3>1, AppendFacts DEF Shape, WorkerShape
    <3>3. \A g \in Chains : Range(received[g]) \subseteq Range(received'[g])
        BY <3>1, <3>2
    <3>4. \A c \in Clients : \A id \in DOMAIN results[c] : made[c][id].chain \in Chains
        BY ChainOfRequest DEF Shape, ClientShape
    <3> QED BY <3>1, <3>3, <3>4 DEF AnswersComeFromTheChain
  <2>4. CASE UNCHANGED <<made, results, received>>
      BY <2>4 DEF AnswersComeFromTheChain
  <2>5. ASSUME \/ \E c \in Clients : RouteRequest(c)
               \/ \E h \in Chains : \/ RouteResponse(h) \/ HandleExit(h)
                                    \/ SendResult(h) \/ Exit(h)
               \/ UNCHANGED vars
        PROVE  UNCHANGED <<made, results, received>>
      BY <2>5 DEF RouteRequest, RouteResponse, HandleExit, SendResult, Exit, vars,
                  clientVars, workerVars
  <2> QED BY <2>1, <2>2, <2>3, <2>4, <2>5 DEF Next
<1> QED BY <1>1, <1>2, ShapeInvariant, PendingInvariant, ReturnsInvariant, PTL DEF Spec

-----------------------------------------------------------------------------
(* Requests are received in order.                                         *)

\* The requests of a client are in the order of their numbers all along the way.
Ascending(s) ==
    \A i, j \in DOMAIN s : i < j /\ s[i].port = s[j].port => s[i].messageId < s[j].messageId
Before(R, Q) == \A r \in R, q \in Q : r.port = q.port => r.messageId < q.messageId

SentInOrder(c) == \A i, j \in DOMAIN toService[c] : i < j => toService[c][i] < toService[c][j]
PassedInOrder(h) ==
    /\ Ascending(received[h]) /\ Ascending(toWorker[h])
    /\ Before(Range(received[h]), Range(toWorker[h]))
    /\ \A r \in Range(received[h]) \cup Range(toWorker[h]) :
          \A id \in Range(toService[r.port]) : r.messageId < id
PipelineInOrder == /\ \A c \in Clients : SentInOrder(c)
                   /\ \A h \in Chains : PassedInOrder(h)

LEMMA AscendingAppend ==
    ASSUME NEW S, NEW s \in Seq(S), NEW e \in S, Ascending(s), Before(Range(s), {e})
    PROVE  Ascending(Append(s, e))
<1>1. /\ Len(s) \in Nat /\ DOMAIN s = 1..Len(s) /\ DOMAIN Append(s, e) = 1..(Len(s) + 1)
      /\ \A i \in 1..Len(s) : Append(s, e)[i] = s[i]
      /\ Append(s, e)[Len(s) + 1] = e
    BY AppendFacts
<1> DEFINE t == Append(s, e)
<1>2. ASSUME NEW i \in DOMAIN t, NEW j \in DOMAIN t, i < j, t[i].port = t[j].port
      PROVE  t[i].messageId < t[j].messageId
  <2>1. i \in 1..Len(s) /\ t[i] = s[i] /\ s[i] \in Range(s)
      BY <1>1, <1>2 DEF Range
  <2>2. CASE j = Len(s) + 1
      BY <1>1, <1>2, <2>1, <2>2 DEF Before
  <2>3. CASE j # Len(s) + 1
    <3>1. j \in DOMAIN s /\ i \in DOMAIN s /\ t[j] = s[j]
        BY <1>1, <2>1, <2>3
    <3> QED BY <1>2, <2>1, <3>1 DEF Ascending
  <2> QED BY <2>2, <2>3
<1> QED BY <1>2 DEF Ascending

LEMMA AscendingTail ==
    ASSUME NEW S, NEW s \in Seq(S), s # <<>>, Ascending(s)
    PROVE  Ascending(Tail(s)) /\ Before({Head(s)}, Range(Tail(s)))
<1>1. /\ 1 \in DOMAIN s /\ Head(s) = s[1]
      /\ \A i \in DOMAIN Tail(s) : i + 1 \in DOMAIN s /\ Tail(s)[i] = s[i + 1]
      /\ DOMAIN Tail(s) \subseteq Nat \ {0}
    BY TailFacts
<1>2. Ascending(Tail(s))
  <2> SUFFICES ASSUME NEW i \in DOMAIN Tail(s), NEW j \in DOMAIN Tail(s), i < j,
                      Tail(s)[i].port = Tail(s)[j].port
               PROVE  Tail(s)[i].messageId < Tail(s)[j].messageId
      BY DEF Ascending
  <2>1. i + 1 \in DOMAIN s /\ j + 1 \in DOMAIN s /\ i + 1 < j + 1
        /\ Tail(s)[i] = s[i + 1] /\ Tail(s)[j] = s[j + 1]
      BY <1>1
  <2> QED BY <2>1 DEF Ascending
<1>3. Before({Head(s)}, Range(Tail(s)))
  <2> SUFFICES ASSUME NEW i \in DOMAIN Tail(s), Head(s).port = Tail(s)[i].port
               PROVE  Head(s).messageId < Tail(s)[i].messageId
      BY DEF Before, Range
  <2>1. i + 1 \in DOMAIN s /\ 1 < i + 1 /\ Tail(s)[i] = s[i + 1]
      BY <1>1
  <2> QED BY <1>1, <2>1 DEF Ascending
<1> QED BY <1>2, <1>3

LEMMA SentInvariant == Spec => [](\A c \in Clients : SentInOrder(c))
<1> DEFINE Inv == \A c \in Clients : SentInOrder(c)
<1>1. Init => Inv
    BY EmptyFacts DEF Init, SentInOrder
<1>2. Shape /\ Inv /\ [Next]_vars => Inv'
  <2> SUFFICES ASSUME Shape, Inv, [Next]_vars PROVE Inv'
      OBVIOUS
  <2>1. ASSUME NEW c \in Clients, NEW h \in Chains, NEW kind \in {"tx", "fee"},
               Request(c, h, kind)
        PROVE  Inv'
    <3> DEFINE id == Len(made[c]) + 1
               s == toService[c]
    <3>1. toService' = [toService EXCEPT ![c] = Append(s, id)] /\ DOMAIN toService = Clients
        BY <2>1 DEF Request, Shape, ClientShape
    <3>2. s \in Seq(Ids(c)) /\ Len(made[c]) \in Nat
        BY LenProperties DEF Shape, ClientShape
    <3>3. Ids(c) \subseteq Nat /\ \A i \in Ids(c) : i < id
        BY <3>2 DEF Ids
    <3>4. s \in Seq(Nat) /\ id \in Nat
        BY <3>2, <3>3, SeqMonotonic
    <3>5. \A i \in DOMAIN s : s[i] \in Ids(c)
        BY <3>2, ElementOfSeq, LenProperties
    <3>6. /\ Len(s) \in Nat /\ DOMAIN s = 1..Len(s) /\ DOMAIN Append(s, id) = 1..(Len(s) + 1)
          /\ \A i \in 1..Len(s) : Append(s, id)[i] = s[i]
          /\ Append(s, id)[Len(s) + 1] = id
        BY <3>4, AppendFacts
    <3> HIDE DEF id
    <3>7. \A i, j \in DOMAIN s : i < j => s[i] < s[j]
        BY DEF SentInOrder
    <3> HIDE DEF s
    <3>8. ASSUME NEW i \in 1..(Len(s) + 1), NEW j \in 1..(Len(s) + 1), i < j
          PROVE  Append(s, id)[i] < Append(s, id)[j]
      <4>1. i \in DOMAIN s /\ Append(s, id)[i] = s[i]
          BY <3>6, <3>8
      <4>2. CASE j = Len(s) + 1
          BY <3>3, <3>5, <3>6, <4>1, <4>2
      <4>3. CASE j # Len(s) + 1
        <5>1. j \in DOMAIN s /\ Append(s, id)[j] = s[j]
            BY <3>6, <4>3
        <5> QED BY <3>7, <3>8, <4>1, <5>1
      <4> QED BY <4>2, <4>3
    <3>9. toService'[c] = Append(s, id) /\ \A d \in Clients \ {c} : toService'[d] = toService[d]
        BY <3>1
    <3>10. SentInOrder(c)'
        BY <3>6, <3>8, <3>9 DEF SentInOrder
    <3> QED BY <3>9, <3>10 DEF SentInOrder
  <2>2. ASSUME NEW c \in Clients, RouteRequest(c) PROVE Inv'
    <3>1. /\ toService[c] # <<>> /\ toService[c] \in Seq(Ids(c)) /\ DOMAIN toService = Clients
          /\ toService' = [toService EXCEPT ![c] = Tail(toService[c])]
        BY <2>2 DEF RouteRequest, Shape, ClientShape
    <3>2. /\ \A i \in DOMAIN Tail(toService[c]) : /\ i + 1 \in DOMAIN toService[c]
                                                  /\ Tail(toService[c])[i] = toService[c][i + 1]
          /\ DOMAIN Tail(toService[c]) \subseteq Nat \ {0}
        BY <3>1, TailFacts
    <3>3. ASSUME NEW i \in DOMAIN Tail(toService[c]), NEW j \in DOMAIN Tail(toService[c]), i < j
          PROVE  Tail(toService[c])[i] < Tail(toService[c])[j]
      <4>1. i + 1 \in DOMAIN toService[c] /\ j + 1 \in DOMAIN toService[c] /\ i + 1 < j + 1
          BY <3>2, <3>3
      <4> QED BY <3>2, <4>1 DEF SentInOrder
    <3>4. /\ toService'[c] = Tail(toService[c])
          /\ \A d \in Clients \ {c} : toService'[d] = toService[d]
        BY <3>1
    <3>5. SentInOrder(c)'
        BY <3>3, <3>4 DEF SentInOrder
    <3> QED BY <3>4, <3>5 DEF SentInOrder
  <2>3. CASE UNCHANGED toService
      BY <2>3 DEF SentInOrder
  <2>4. ASSUME \/ \E c \in Clients : Receive(c)
               \/ \E h \in Chains : \/ RouteResponse(h) \/ HandleExit(h)
                                    \/ ProcessRequest(h) \/ SendResult(h) \/ Exit(h)
               \/ UNCHANGED vars
        PROVE  UNCHANGED toService
      BY <2>4 DEF Receive, RouteResponse, HandleExit, ProcessRequest, SendResult, Exit, vars
  <2> QED BY <2>1, <2>2, <2>3, <2>4 DEF Next
<1> QED BY <1>1, <1>2, ShapeInvariant, PTL DEF Spec

LEMMA PipelineInvariant == Spec => []PipelineInOrder
<1> DEFINE Sent == \A c \in Clients : SentInOrder(c)
           Inv == \A h \in Chains : PassedInOrder(h)
<1>1. Init => Inv
  <2>1. Ascending(<<>>) /\ Before(Range(<<>>), Range(<<>>))
      BY EmptyFacts DEF Ascending, Before
  <2> QED BY <2>1, EmptyFacts DEF Init, PassedInOrder
<1>2. Shape /\ Sent /\ Inv /\ [Next]_vars => Inv'
  <2> SUFFICES ASSUME Shape, Sent, Inv, [Next]_vars PROVE Inv'
      OBVIOUS
  <2>0. \A h \in Chains : /\ Range(received[h]) \subseteq RequestsOf(h)
                          /\ Range(toWorker[h]) \subseteq RequestsOf(h)
    <3> TAKE h \in Chains
    <3>1. /\ received[h] \in Seq(RequestsOf(h)) /\ toWorker[h] \in Seq(RequestsOf(h))
        BY DEF Shape, WorkerShape
    <3>2. /\ \A i \in DOMAIN received[h] : received[h][i] \in RequestsOf(h)
          /\ \A i \in DOMAIN toWorker[h] : toWorker[h][i] \in RequestsOf(h)
        BY <3>1, ElementOfSeq, LenProperties
    <3> QED BY <3>2 DEF Range
  <2>1. ASSUME NEW c \in Clients, NEW h \in Chains, NEW kind \in {"tx", "fee"},
               Request(c, h, kind)
        PROVE  Inv'
    <3> DEFINE id == Len(made[c]) + 1
    <3>1. /\ toService' = [toService EXCEPT ![c] = Append(toService[c], id)]
          /\ UNCHANGED <<received, toWorker>> /\ DOMAIN toService = Clients
        BY <2>1 DEF Request, workerVars, Shape, ClientShape
    <3>2. toService[c] \in Seq(Ids(c)) /\ Len(made[c]) \in Nat
        BY LenProperties DEF Shape, ClientShape
    <3>3. toService[c] \in Seq(Nat) /\ id \in Nat /\ \A i \in Ids(c) : i < id
        BY <3>2, SeqMonotonic, Ids(c) \subseteq Nat DEF Ids
    <3>4. Range(Append(toService[c], id)) = Range(toService[c]) \cup {id}
        BY <3>3, AppendFacts
    <3>5. \A g \in Chains : \A r \in RequestsOf(g) : r.port \in Clients /\ r.messageId \in Ids(r.port)
        BY DEF RequestsOf
    <3> HIDE DEF id
    <3>6. \A d \in Clients : Range(toService'[d]) = Range(toService[d]) \cup (IF d = c THEN {id} ELSE {})
        BY <3>1, <3>4
    <3>7. ASSUME NEW g \in Chains, NEW r \in Range(received[g]) \cup Range(toWorker[g]),
                 NEW i \in Range(toService'[r.port])
          PROVE  r.messageId < i
      <4>1. r.port \in Clients /\ r.messageId \in Ids(r.port)
          BY <2>0, <3>5
      <4>2. CASE i \in Range(toService[r.port])
          BY <4>2 DEF PassedInOrder
      <4>3. CASE r.port = c /\ i = id
          BY <3>3, <4>1, <4>3
      <4> QED BY <3>6, <4>1, <4>2, <4>3
    <3> QED BY <3>1, <3>7 DEF PassedInOrder
  <2>2. ASSUME NEW c \in Clients, RouteRequest(c) PROVE Inv'
    <3> DEFINE id == Head(toService[c])
               q == Routed(c, id)
    <3> PICK h \in Chains : h = made[c][id].chain
        BY <2>2, RouteRequestFacts
    <3>1. /\ toService[c] # <<>> /\ h \in Chains /\ q \in RequestsOf(h) /\ id \in Ids(c)
          /\ toService' = [toService EXCEPT ![c] = Tail(toService[c])]
          /\ \/ toWorker' = [toWorker EXCEPT ![h] = Append(toWorker[h], q)]
             \/ DOMAIN toWorker' = Chains /\ \A g \in Chains : toWorker'[g] = toWorker[g]
          /\ UNCHANGED received
        BY <2>2, RouteRequestFacts
    <3>2. /\ DOMAIN toService = Clients /\ DOMAIN toWorker = Chains
          /\ toService[c] \in Seq(Ids(c)) /\ toWorker[h] \in Seq(RequestsOf(h))
        BY <3>1 DEF Shape, ClientShape, WorkerShape
    <3>3. /\ Range(toService[c]) = Range(Tail(toService[c])) \cup {id}
          /\ 1 \in DOMAIN toService[c] /\ id = toService[c][1]
          /\ \A i \in DOMAIN Tail(toService[c]) :
                i + 1 \in DOMAIN toService[c] /\ Tail(toService[c])[i] = toService[c][i + 1]
          /\ DOMAIN Tail(toService[c]) \subseteq Nat \ {0}
        BY <3>1, <3>2, TailFacts
    <3>4. \A i \in Range(Tail(toService[c])) : id < i
      <4>1. ASSUME NEW i \in DOMAIN Tail(toService[c]) PROVE id < Tail(toService[c])[i]
        <5>1. i + 1 \in DOMAIN toService[c] /\ 1 < i + 1
            BY <3>3
        <5> QED BY <3>3, <5>1 DEF SentInOrder
      <4> QED BY <4>1 DEF Range
    <3>5. q.port = c /\ q.messageId = id
        BY DEF Routed
    <3> HIDE DEF id, q
    <3>6. \A g \in Chains : \A r \in Range(received[g]) \cup Range(toWorker[g]) :
             r.port = c => r.messageId < id
        BY <3>3 DEF PassedInOrder
    <3>7. /\ toService'[c] = Tail(toService[c])
          /\ \A d \in Clients \ {c} : toService'[d] = toService[d]
        BY <3>1, <3>2
    <3>8. \A g \in Chains : \A r \in Range(received[g]) \cup Range(toWorker[g]) :
             r.port \in Clients /\ \A i \in Range(toService'[r.port]) : r.messageId < i
      <4> TAKE g \in Chains
      <4> TAKE r \in Range(received[g]) \cup Range(toWorker[g])
      <4>1. r.port \in Clients
          BY <2>0 DEF RequestsOf
      <4>2. Range(toService'[r.port]) \subseteq Range(toService[r.port])
          BY <3>3, <3>7, <4>1
      <4> QED BY <4>1, <4>2 DEF PassedInOrder
    <3>9. ASSUME NEW g \in Chains, toWorker'[g] = toWorker[g] PROVE PassedInOrder(g)'
      <4>1. received'[g] = received[g] /\ PassedInOrder(g)
          BY <3>1
      <4>2. \A r \in Range(received'[g]) \cup Range(toWorker'[g]) :
               \A i \in Range(toService'[r.port]) : r.messageId < i
          BY <3>8, <3>9, <4>1
      <4> QED BY <3>9, <4>1, <4>2 DEF PassedInOrder
    <3>10. ASSUME toWorker'[h] = Append(toWorker[h], q) PROVE PassedInOrder(h)'
      <4>1. Range(Append(toWorker[h], q)) = Range(toWorker[h]) \cup {q}
          BY <3>1, <3>2, AppendFacts
      <4>2. Before(Range(toWorker[h]), {q}) /\ Before(Range(received[h]), {q})
          BY <3>1, <3>5, <3>6 DEF Before
      <4>3. Ascending(Append(toWorker[h], q))
          BY <3>1, <3>2, <4>2, AscendingAppend DEF PassedInOrder
      <4>4. Before(Range(received[h]), Range(toWorker[h]) \cup {q})
        <5>1. Before(Range(received[h]), Range(toWorker[h]))
            BY <3>1 DEF PassedInOrder
        <5> QED BY <4>2, <5>1 DEF Before
      <4>5. \A r \in Range(received[h]) \cup (Range(toWorker[h]) \cup {q}) :
               \A i \in Range(toService'[r.port]) : r.messageId < i
          BY <3>1, <3>4, <3>5, <3>7, <3>8
      <4>6. Ascending(received[h])
          BY <3>1 DEF PassedInOrder
      <4> QED BY <3>1, <3>10, <4>1, <4>3, <4>4, <4>5, <4>6 DEF PassedInOrder
    <3>11. \A g \in Chains : toWorker'[g] = toWorker[g]
                               \/ (g = h /\ toWorker'[g] = Append(toWorker[h], q))
        BY <3>1, <3>2
    <3> QED BY <3>9, <3>10, <3>11
  <2>3. ASSUME NEW h \in Chains, ProcessRequest(h) PROVE Inv'
    <3> DEFINE r == Head(toWorker[h])
               s == toWorker[h]
    <3>1. /\ s # <<>> /\ r \in RequestsOf(h)
          /\ received' = [received EXCEPT ![h] = Append(received[h], r)]
          /\ toWorker' = [toWorker EXCEPT ![h] = Tail(s)]
          /\ UNCHANGED toService
        BY <2>3, ProcessRequestFacts
    <3>2. /\ DOMAIN received = Chains /\ DOMAIN toWorker = Chains
          /\ received[h] \in Seq(RequestsOf(h)) /\ s \in Seq(RequestsOf(h))
        BY DEF Shape, WorkerShape
    <3>3. Range(s) = Range(Tail(s)) \cup {r}
        BY <3>1, <3>2, TailFacts
    <3>4. /\ Ascending(received[h]) /\ Ascending(s) /\ Before(Range(received[h]), Range(s))
          /\ \A x \in Range(received[h]) \cup Range(s) :
                \A id \in Range(toService[x.port]) : x.messageId < id
        BY DEF PassedInOrder
    <3>5. Ascending(Tail(s)) /\ Before({r}, Range(Tail(s)))
        BY <3>1, <3>2, <3>4, AscendingTail
    <3> HIDE DEF r, s
    <3>6. Before(Range(received[h]), {r}) /\ Before(Range(received[h]), Range(Tail(s)))
        BY <3>3, <3>4 DEF Before
    <3>7. Range(Append(received[h], r)) = Range(received[h]) \cup {r}
        BY <3>1, <3>2, AppendFacts
    <3>8. Ascending(Append(received[h], r))
        BY <3>1, <3>2, <3>4, <3>6, AscendingAppend
    <3>9. Before(Range(received[h]) \cup {r}, Range(Tail(s)))
        BY <3>5, <3>6 DEF Before
    <3>10. received'[h] = Append(received[h], r) /\ toWorker'[h] = Tail(s)
        BY <3>1, <3>2
    <3>11. PassedInOrder(h)'
      <4>1. \A x \in Range(received'[h]) \cup Range(toWorker'[h]) :
               \A id \in Range(toService[x.port]) : x.messageId < id
          BY <3>3, <3>4, <3>7, <3>10
      <4>2. /\ Ascending(received'[h]) /\ Ascending(toWorker'[h])
            /\ Before(Range(received'[h]), Range(toWorker'[h]))
          BY <3>5, <3>7, <3>8, <3>9, <3>10
      <4> QED BY <3>1, <4>1, <4>2 DEF PassedInOrder
    <3>12. \A g \in Chains \ {h} : received'[g] = received[g] /\ toWorker'[g] = toWorker[g]
        BY <3>1, <3>2
    <3> QED BY <3>1, <3>11, <3>12 DEF PassedInOrder
  <2>4. ASSUME NEW h \in Chains, Exit(h) PROVE Inv'
    <3>1. /\ UNCHANGED <<received, toService>> /\ DOMAIN toWorker = Chains
          /\ toWorker' = [toWorker EXCEPT ![h] = <<>>]
        BY <2>4 DEF Exit, Shape, WorkerShape
    <3>2. toWorker'[h] = <<>> /\ \A g \in Chains \ {h} : toWorker'[g] = toWorker[g]
        BY <3>1
    <3>3. Ascending(<<>>) /\ Before(Range(received[h]), Range(<<>>)) /\ Range(<<>>) = {}
        BY EmptyFacts DEF Ascending, Before
    <3> QED BY <3>1, <3>2, <3>3 DEF PassedInOrder
  <2>5. CASE UNCHANGED <<received, toWorker, toService>>
      BY <2>5 DEF PassedInOrder
  <2>6. ASSUME \/ \E c \in Clients : Receive(c)
               \/ \E h \in Chains : RouteResponse(h) \/ HandleExit(h) \/ SendResult(h)
               \/ UNCHANGED vars
        PROVE  UNCHANGED <<received, toWorker, toService>>
      BY <2>6 DEF Receive, RouteResponse, HandleExit, SendResult, vars, workerVars
  <2> QED BY <2>1, <2>2, <2>3, <2>4, <2>5, <2>6 DEF Next
<1>3. Sent /\ Inv => PipelineInOrder
    BY DEF PipelineInOrder
<1> QED BY <1>1, <1>2, <1>3, ShapeInvariant, SentInvariant, PTL DEF Spec

\* The workers of a chain, one after the other, receive the requests of each client in the
\* order the client made them and none of them twice, whatever exits in between.
THEOREM RequestsAreReceivedInOrder == Spec => []ReceivedInOrder
<1>1. PipelineInOrder => ReceivedInOrder
    BY DEF PipelineInOrder, PassedInOrder, Ascending, ReceivedInOrder
<1> QED BY <1>1, PipelineInvariant, PTL
=============================================================================
