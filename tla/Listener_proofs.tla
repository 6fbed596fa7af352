---------------------------- MODULE Listener_proofs ----------------------------
(***************************************************************************)
(* Proofs about Listener, for every chain, every reorganisation, every     *)
(* sequence of messages and all values of the constants.                   *)
(***************************************************************************)
EXTENDS Listener, SequenceTheorems, TLAPS

-----------------------------------------------------------------------------
(* Sequences.                                                              *)

LEMMA AppendFacts ==
    ASSUME NEW S, NEW s \in Seq(S), NEW e \in S
    PROVE  /\ Append(s, e) \in Seq(S)
           /\ Len(Append(s, e)) = Len(s) + 1
           /\ DOMAIN Append(s, e) = 1..(Len(s) + 1) /\ DOMAIN s = 1..Len(s) /\ Len(s) \in Nat
           /\ \A k \in 1..Len(s) : Append(s, e)[k] = s[k]
           /\ Append(s, e)[Len(s) + 1] = e
           /\ Range(Append(s, e)) = Range(s) \cup {e}
<1>1. /\ Append(s, e) \in Seq(S)
      /\ Len(Append(s, e)) = Len(s) + 1
      /\ DOMAIN s = 1..Len(s) /\ Len(s) \in Nat
      /\ DOMAIN Append(s, e) = 1..(Len(s) + 1)
      /\ \A k \in 1..Len(s) : Append(s, e)[k] = s[k]
      /\ Append(s, e)[Len(s) + 1] = e
    BY AppendProperties, LenProperties
<1>2. Range(Append(s, e)) = Range(s) \cup {e} BY <1>1 DEF Range
<1> QED BY <1>1, <1>2

LEMMA TailFacts ==
    ASSUME NEW S, NEW s \in Seq(S), s # <<>>
    PROVE  /\ Head(s) \in S /\ Tail(s) \in Seq(S)
           /\ Len(s) \in Nat /\ Len(s) > 0 /\ Len(Tail(s)) = Len(s) - 1
           /\ Range(Tail(s)) \subseteq Range(s)
<1>1. /\ Head(s) \in S /\ Head(s) = s[1]
      /\ Tail(s) \in Seq(S) /\ Len(s) > 0 /\ Len(s) \in Nat /\ Len(Tail(s)) = Len(s) - 1
      /\ DOMAIN s = 1..Len(s) /\ DOMAIN Tail(s) = 1..(Len(s) - 1)
      /\ \A k \in 1..(Len(s) - 1) : Tail(s)[k] = s[k + 1]
    BY HeadTailProperties, LenProperties, EmptySeq
<1>2. Range(Tail(s)) \subseteq Range(s) BY <1>1 DEF Range
<1> QED BY <1>1, <1>2

LEMMA RangeFacts ==
    ASSUME NEW S, NEW s \in Seq(S)
    PROVE  /\ Len(s) \in Nat /\ DOMAIN s = 1..Len(s)
           /\ \A k \in 1..Len(s) : s[k] \in S /\ s[k] \in Range(s)
           /\ \A e \in Range(s) : e \in S /\ \E k \in 1..Len(s) : s[k] = e
<1>1. Len(s) \in Nat /\ DOMAIN s = 1..Len(s) BY LenProperties
<1>2. \A k \in 1..Len(s) : s[k] \in S BY ElementOfSeq
<1> QED BY <1>1, <1>2 DEF Range

LEMMA LongerSeq ==
    ASSUME NEW m \in Nat, NEW n \in Nat, m <= n, NEW s \in Seq(1..m)
    PROVE  s \in Seq(1..n)
<1>1. \A k \in 1..Len(s) : s[k] \in 1..m BY ElementOfSeq
<1>2. Len(s) \in Nat /\ DOMAIN s = 1..Len(s) BY LenProperties
<1>3. \A k \in 1..Len(s) : s[k] \in 1..n BY <1>1, <1>2
<1>4. s = [k \in 1..Len(s) |-> s[k]] BY <1>2, SeqDef
<1> QED BY <1>2, <1>3, <1>4, SeqDef

\* The two ends of the queue of swap messages a round of the loop is left with.
LEMMA EmptyRest ==
    ASSUME NEW S, NEW s \in Seq(S), NEW k \in Nat \ {0}, k > Len(s)
    PROVE  SubSeq(s, k, Len(s)) = <<>>
<1>1. Len(s) \in Nat BY LenProperties
<1>2. Len(s) < k BY <1>1
<1> QED BY <1>1, <1>2, SubSeqProperties, EmptySeq

-----------------------------------------------------------------------------
(* Types, and what each pc says about the locals of the loop.              *)

LogsShape ==
    /\ DOMAIN logs = fromBlock..toBlock
    /\ at \in fromBlock..(toBlock + 1)
    /\ \A n \in DOMAIN logs : logs[n].log # "none" => logs[n].fork \in 0..MaxReorgs

Shape ==
    /\ TypeOK
    /\ pc = "query" => fromBlock <= toBlock
    /\ pc = "logs" => LogsShape
    /\ pc = "save" => i <= Len(swapQueue)

\* The parts of a state, for the steps that leave a part alone.
LEMMA ChainTypesKept == ASSUME ChainTypes, UNCHANGED chainVars PROVE ChainTypes'
BY DEF ChainTypes, chainVars

LEMMA RelayTypesKept == ASSUME RelayTypes, UNCHANGED relayVars PROVE RelayTypes'
BY DEF RelayTypes, relayVars

LEMMA ScanTypesKept ==
    ASSUME ScanTypes, UNCHANGED <<currentStatus, scanVars, blocksCache>> PROVE ScanTypes'
BY DEF ScanTypes, scanVars

LEMMA QueueTypesKept ==
    ASSUME QueueTypes, UNCHANGED <<messages, queueVars>> PROVE QueueTypes'
BY DEF QueueTypes, queueVars

LEMMA OutcomeTypesKept ==
    ASSUME OutcomeTypes, UNCHANGED <<messages, eventVars, swapVars>> PROVE OutcomeTypes'
BY DEF OutcomeTypes, eventVars, swapVars

\* The locals of the loop, for the steps of others.
LEMMA LocalsKept ==
    ASSUME Shape, UNCHANGED <<pc, scanVars, queueVars>>
    PROVE  /\ pc' = "query" => fromBlock' <= toBlock'
           /\ pc' = "logs" => LogsShape'
           /\ pc' = "save" => i' <= Len(swapQueue')
<1>1. pc' = "query" => fromBlock' <= toBlock' BY DEF Shape, scanVars
<1>2. pc' = "logs" => LogsShape' BY DEF Shape, scanVars, LogsShape
<1>3. pc' = "save" => i' <= Len(swapQueue') BY DEF Shape, queueVars
<1> QED BY <1>1, <1>2, <1>3

LEMMA InitShape == Init => Shape
<1> SUFFICES ASSUME Init PROVE Shape OBVIOUS
<1> USE ListenerAssumption
<1>1. ChainTypes BY DEF Init, ChainTypes, Block, Logs
<1>2. RelayTypes BY DEF Init, RelayTypes
<1>3. ScanTypes BY DEF Init, ScanTypes, NoLogs, NoStatus
<1>4. QueueTypes BY DEF Init, QueueTypes
<1>5. OutcomeTypes BY DEF Init, OutcomeTypes
<1> QED BY <1>1, <1>2, <1>3, <1>4, <1>5 DEF Init, Shape, TypeOK

LEMMA FaultTypes ==
    ASSUME faults \in 0..MaxFaults, NEW kind, Fault(kind)
    PROVE  faults' \in 0..MaxFaults
BY ListenerAssumption DEF Fault

LEMMA NewBlockShape == ASSUME Shape, NewBlock PROVE Shape'
<1> USE ListenerAssumption
<1>1. TypeOK /\ ChainTypes BY DEF Shape, TypeOK
<1>2. ChainTypes'
  <2>1. PICK l \in Logs :
           chain' = [n \in 0..(head + 1) |-> IF n <= head THEN chain[n] ELSE Block(reorgs, l)]
        BY DEF NewBlock
  <2>2. head' = head + 1 /\ head < MaxHead /\ reorgs' = reorgs BY DEF NewBlock
  <2>3. \A n \in 0..(head + 1) : n <= head => chain[n] \in [fork : 0..MaxReorgs, log : Logs]
        BY <1>1 DEF ChainTypes
  <2>4. Block(reorgs, l) \in [fork : 0..MaxReorgs, log : Logs] BY <1>1 DEF ChainTypes, Block
  <2>5. head' \in 0..MaxHead BY <1>1, <2>2 DEF ChainTypes
  <2> QED BY <1>1, <2>1, <2>2, <2>3, <2>4, <2>5 DEF ChainTypes
<1>3. /\ UNCHANGED <<pc, faults, currentStatus, blocksCache, messages>>
      /\ UNCHANGED <<relayVars, scanVars, queueVars, eventVars, swapVars>>
    BY DEF NewBlock, relayVars
<1>4. RelayTypes' /\ ScanTypes' /\ QueueTypes' /\ OutcomeTypes'
    BY <1>1, <1>3, RelayTypesKept, ScanTypesKept, QueueTypesKept, OutcomeTypesKept
    DEF TypeOK
<1> QED BY <1>1, <1>2, <1>3, <1>4, LocalsKept DEF Shape, TypeOK

LEMMA ReorgShape == ASSUME Shape, Reorg PROVE Shape'
<1> USE ListenerAssumption
<1>1. TypeOK /\ ChainTypes BY DEF Shape, TypeOK
<1>2. ChainTypes'
  <2>1. PICK d \in 1..Smaller(ReorgDepth, head) :
           \E newLogs \in [(head - d + 1)..head -> Logs] :
              chain' = [n \in 0..head |-> IF n <= head - d THEN chain[n]
                                          ELSE Block(reorgs + 1, newLogs[n])]
        BY DEF Reorg
  <2>2. PICK newLogs \in [(head - d + 1)..head -> Logs] :
           chain' = [n \in 0..head |-> IF n <= head - d THEN chain[n]
                                       ELSE Block(reorgs + 1, newLogs[n])]
        BY <2>1
  <2>3. head' = head /\ reorgs < MaxReorgs /\ reorgs' = reorgs + 1 BY DEF Reorg
  <2>4. head \in Nat /\ d \in Nat BY <1>1 DEF ChainTypes, Smaller
  <2>5. \A n \in 0..head : n <= head - d => chain[n] \in [fork : 0..MaxReorgs, log : Logs]
        BY <1>1 DEF ChainTypes
  <2>6. reorgs + 1 \in 0..MaxReorgs BY <1>1, <2>3 DEF ChainTypes
  <2>7. ASSUME NEW n \in 0..head, ~(n <= head - d)
        PROVE  Block(reorgs + 1, newLogs[n]) \in [fork : 0..MaxReorgs, log : Logs]
    <3>1. n \in (head - d + 1)..head BY <2>4, <2>7
    <3>2. newLogs[n] \in Logs BY <3>1
    <3> QED BY <3>2, <2>6 DEF Block
  <2> QED BY <1>1, <2>2, <2>3, <2>5, <2>6, <2>7 DEF ChainTypes
<1>3. /\ UNCHANGED <<pc, faults, currentStatus, blocksCache, messages>>
      /\ UNCHANGED <<relayVars, scanVars, queueVars, eventVars, swapVars>>
    BY DEF Reorg, relayVars
<1>4. RelayTypes' /\ ScanTypes' /\ QueueTypes' /\ OutcomeTypes'
    BY <1>1, <1>3, RelayTypesKept, ScanTypesKept, QueueTypesKept, OutcomeTypesKept
    DEF TypeOK
<1> QED BY <1>1, <1>2, <1>3, <1>4, LocalsKept DEF Shape, TypeOK

LEMMA UpdateStatusShape ==
    ASSUME Shape, NEW n \in 0..MaxHead, UpdateStatus(n) PROVE Shape'
<1>1. TypeOK BY DEF Shape
<1>2. /\ UNCHANGED <<pc, faults, blocksCache, messages, startBlock, fromBlock, toBlock, logs, at>>
      /\ UNCHANGED <<chainVars, relayVars, scanVars, queueVars, eventVars, swapVars>>
      /\ currentStatus' = n
    BY DEF UpdateStatus, relayVars, scanVars
<1>3. ScanTypes' BY <1>1, <1>2 DEF TypeOK, ScanTypes
<1>4. ChainTypes' /\ RelayTypes' /\ QueueTypes' /\ OutcomeTypes'
    BY <1>1, <1>2, ChainTypesKept, RelayTypesKept, QueueTypesKept, OutcomeTypesKept
    DEF TypeOK
<1> QED BY <1>1, <1>2, <1>3, <1>4, LocalsKept DEF Shape, TypeOK

LEMMA RelayMessageShape == ASSUME Shape, RelayMessage PROVE Shape'
<1> USE ListenerAssumption
<1>1. TypeOK BY DEF Shape
<1>2. /\ UNCHANGED <<pc, faults, currentStatus, blocksCache, swapQueue, i, currentBlock>>
      /\ UNCHANGED <<chainVars, scanVars, queueVars, eventVars, swapVars>>
    BY DEF RelayMessage, queueVars
<1>3. Len(messages) \in Nat /\ Len(messages) < MaxMessages
    BY <1>1, LenProperties DEF TypeOK, RelayTypes, RelayMessage
<1>4. /\ messages' \in Seq([block : 1..MaxHead, hash : 0..MaxReorgs])
      /\ Len(messages') = Len(messages) + 1
  <2>1. PICK n \in 1..head :
           messages' = Append(messages, [block |-> n, hash |-> chain[n].fork])
        BY DEF RelayMessage
  <2>2. n \in 1..MaxHead /\ chain[n].fork \in 0..MaxReorgs
        BY <1>1 DEF TypeOK, ChainTypes
  <2> QED BY <1>1, <2>1, <2>2, AppendFacts DEF TypeOK, RelayTypes
<1>5. Len(messages') \in Nat /\ Len(messages) <= Len(messages') BY <1>3, <1>4
<1>6. \A s \in Seq(1..Len(messages)) : s \in Seq(1..Len(messages'))
    BY <1>3, <1>5, LongerSeq
<1>7. websocket' \in Seq(1..Len(messages'))
  <2>1. websocket \in Seq(1..Len(messages')) BY <1>1, <1>6 DEF TypeOK, RelayTypes
  <2>2. Len(messages) + 1 \in 1..Len(messages') BY <1>3, <1>4
  <2> QED BY <2>1, <2>2, AppendFacts DEF RelayMessage
<1>8. RelayTypes' BY <1>3, <1>4, <1>7 DEF RelayTypes
<1>9. QueueTypes' BY <1>1, <1>2, <1>6 DEF TypeOK, QueueTypes
<1>10. OutcomeTypes'
  <2>1. 1..Len(messages) \subseteq 1..Len(messages') BY <1>3, <1>5
  <2> QED BY <1>1, <1>2, <2>1 DEF TypeOK, OutcomeTypes, eventVars, swapVars
<1>11. ChainTypes' /\ ScanTypes' BY <1>1, <1>2, ChainTypesKept, ScanTypesKept DEF TypeOK
<1> QED BY <1>1, <1>2, <1>8, <1>9, <1>10, <1>11, LocalsKept DEF Shape, TypeOK

LEMMA DisconnectShape == ASSUME Shape, Disconnect PROVE Shape'
<1>1. TypeOK BY DEF Shape
<1>2. /\ UNCHANGED <<pc, currentStatus, blocksCache, messages>>
      /\ UNCHANGED <<chainVars, scanVars, queueVars, eventVars, swapVars>>
      /\ websocket' = <<>>
    BY DEF Disconnect
<1>3. faults' \in 0..MaxFaults BY <1>1, FaultTypes DEF Disconnect, TypeOK
<1>4. RelayTypes'
  <2>1. <<>> \in Seq(1..Len(messages)) OBVIOUS
  <2> QED BY <1>1, <1>2, <2>1 DEF TypeOK, RelayTypes
<1>5. ChainTypes' /\ ScanTypes' /\ QueueTypes' /\ OutcomeTypes'
    BY <1>1, <1>2, ChainTypesKept, ScanTypesKept, QueueTypesKept, OutcomeTypesKept
    DEF TypeOK
<1> QED BY <1>1, <1>2, <1>3, <1>4, <1>5, LocalsKept DEF Shape, TypeOK

LEMMA ProcessAMBMessageShape == ASSUME Shape, ProcessAMBMessage PROVE Shape'
<1>1. TypeOK BY DEF Shape
<1>2. /\ UNCHANGED <<pc, faults, currentStatus, blocksCache, messages, i, currentBlock>>
      /\ UNCHANGED <<chainVars, scanVars, eventVars, stored, dropped, skipped>>
    BY DEF ProcessAMBMessage
<1>3. websocket \in Seq(1..Len(messages)) /\ websocket # <<>>
    BY <1>1 DEF TypeOK, RelayTypes, ProcessAMBMessage
<1>4. Head(websocket) \in 1..Len(messages) /\ Tail(websocket) \in Seq(1..Len(messages))
    BY <1>3, TailFacts
<1>5. RelayTypes' BY <1>1, <1>2, <1>4 DEF TypeOK, RelayTypes, ProcessAMBMessage
<1>6. /\ swapQueue' \in Seq(1..Len(messages)) /\ Len(swapQueue') = Len(swapQueue) + 1
      /\ Len(swapQueue) \in Nat
    BY <1>1, <1>4, AppendFacts DEF TypeOK, QueueTypes, ProcessAMBMessage
<1>7. QueueTypes' BY <1>1, <1>2, <1>6 DEF TypeOK, QueueTypes
<1>8. OutcomeTypes'
    BY <1>1, <1>2, <1>4 DEF TypeOK, OutcomeTypes, ProcessAMBMessage, eventVars
<1>9. ChainTypes' /\ ScanTypes' BY <1>1, <1>2, ChainTypesKept, ScanTypesKept DEF TypeOK
<1>10. pc' = "save" => i' <= Len(swapQueue')
    BY <1>1, <1>2, <1>6 DEF Shape, TypeOK, QueueTypes
<1>11. pc' = "query" => fromBlock' <= toBlock' BY <1>2 DEF Shape, scanVars
<1>12. pc' = "logs" => LogsShape' BY <1>2 DEF Shape, scanVars, LogsShape
<1> QED BY <1>1, <1>2, <1>5, <1>7, <1>8, <1>9, <1>10, <1>11, <1>12 DEF Shape, TypeOK

LEMMA RejectAMBMessageShape == ASSUME Shape, RejectAMBMessage PROVE Shape'
<1>1. TypeOK BY DEF Shape
<1>2. /\ UNCHANGED <<currentStatus, blocksCache, messages>>
      /\ UNCHANGED <<chainVars, relayVars, scanVars, queueVars, eventVars, swapVars>>
      /\ pc' = "exited"
    BY DEF RejectAMBMessage, relayVars
<1>3. faults' \in 0..MaxFaults BY <1>1, FaultTypes DEF RejectAMBMessage, TypeOK
<1>4. ChainTypes' /\ RelayTypes' /\ ScanTypes' /\ QueueTypes' /\ OutcomeTypes'
    BY <1>1, <1>2, ChainTypesKept, RelayTypesKept, ScanTypesKept, QueueTypesKept,
       OutcomeTypesKept DEF TypeOK
<1> QED BY <1>2, <1>3, <1>4 DEF Shape, TypeOK

\* getBlock answers with a fork of a block, or not at all, and the cache keeps its size.
LEMMA GetBlockTypes ==
    ASSUME ChainTypes, ScanTypes, NEW n \in 0..MaxHead, NEW f, GetBlock(n, f)
    PROVE  /\ f \in BlockAnswers
           /\ blocksCache' \in Seq(Event) /\ Len(blocksCache') <= CacheSize
<1> USE ListenerAssumption
<1> DEFINE cached == {entry \in Range(blocksCache) : entry.block = n}
<1>1. blocksCache \in Seq(Event) /\ Len(blocksCache) <= CacheSize BY DEF ScanTypes
<1>2. CASE (\E entry \in cached : f = entry.fork) /\ UNCHANGED blocksCache
  <2>1. PICK entry \in Range(blocksCache) : f = entry.fork BY <1>2
  <2>2. entry \in Event BY <1>1, <2>1, RangeFacts
  <2>3. f \in BlockAnswers BY <2>1, <2>2 DEF Event, BlockAnswers
  <2> QED BY <1>1, <1>2, <2>3
<1>3. CASE \E lag \in 0..MaxLag : n <= head - lag /\ f = chain[n].fork /\ CacheBlock(n, f)
  <2>1. PICK lag \in 0..MaxLag : n <= head - lag /\ f = chain[n].fork /\ CacheBlock(n, f)
        BY <1>3
  <2>2. n \in 0..head BY <2>1 DEF ChainTypes
  <2>3. f \in 0..MaxReorgs BY <2>1, <2>2 DEF ChainTypes
  <2>4. [block |-> n, fork |-> f] \in Event BY <2>3 DEF Event
  <2>5. CASE Len(blocksCache) < CacheSize
    <3>1. blocksCache' = Append(blocksCache, [block |-> n, fork |-> f])
          BY <2>1, <2>5 DEF CacheBlock
    <3>2. /\ blocksCache' \in Seq(Event) /\ Len(blocksCache') = Len(blocksCache) + 1
          /\ Len(blocksCache) \in Nat
          BY <1>1, <2>4, <3>1, AppendFacts
    <3> QED BY <2>3, <2>5, <3>2 DEF BlockAnswers
  <2>6. CASE ~(Len(blocksCache) < CacheSize)
    <3>1. blocksCache' = Append(Tail(blocksCache), [block |-> n, fork |-> f])
          BY <2>1, <2>6 DEF CacheBlock
    <3>2. Len(blocksCache) \in Nat BY <1>1, LenProperties
    <3>3. blocksCache # <<>> BY <1>1, <2>6, <3>2
    <3>4. Tail(blocksCache) \in Seq(Event) /\ Len(Tail(blocksCache)) = Len(blocksCache) - 1
          BY <1>1, <3>3, TailFacts
    <3>5. blocksCache' \in Seq(Event) /\ Len(blocksCache') = Len(Tail(blocksCache)) + 1
          BY <2>4, <3>1, <3>4, AppendFacts
    <3>6. Len(blocksCache') <= CacheSize BY <1>1, <3>2, <3>4, <3>5
    <3> QED BY <2>3, <3>5, <3>6 DEF BlockAnswers
  <2> QED BY <2>5, <2>6
<1>4. CASE f = NoBlock /\ UNCHANGED blocksCache
  BY <1>1, <1>4 DEF BlockAnswers
<1> QED BY <1>2, <1>3, <1>4 DEF GetBlock

LEMMA GetStartingBlockShape == ASSUME Shape, GetStartingBlock PROVE Shape'
<1> USE ListenerAssumption
<1>1. TypeOK BY DEF Shape
<1>2. /\ UNCHANGED <<faults, currentStatus, toBlock, logs, at, blocksCache, messages>>
      /\ UNCHANGED <<chainVars, relayVars, queueVars, eventVars, swapVars>>
    BY DEF GetStartingBlock, relayVars
<1>3. startBlock' \in Nat /\ fromBlock' \in Nat /\ pc' \in {"idle", "exited"}
    BY <1>1 DEF TypeOK, ScanTypes, GetStartingBlock, StartAt, Exit, NoStatus
<1>4. ScanTypes' BY <1>1, <1>2, <1>3 DEF TypeOK, ScanTypes
<1>5. ChainTypes' /\ RelayTypes' /\ QueueTypes' /\ OutcomeTypes'
    BY <1>1, <1>2, ChainTypesKept, RelayTypesKept, QueueTypesKept, OutcomeTypesKept
    DEF TypeOK
<1> QED BY <1>1, <1>2, <1>3, <1>4, <1>5 DEF Shape, TypeOK

LEMMA BeginScanShape == ASSUME Shape, BeginScan PROVE Shape'
<1> USE ListenerAssumption
<1>1. TypeOK BY DEF Shape
<1>2. /\ UNCHANGED <<faults, currentStatus, startBlock, fromBlock, logs, at, blocksCache,
                     messages>>
      /\ UNCHANGED <<chainVars, relayVars, queueVars, eventVars, swapVars>>
      /\ pc' = "query"
    BY DEF BeginScan, ScanNewBlocks, relayVars
<1>3. toBlock' \in 0..MaxHead /\ fromBlock' <= toBlock'
  <2>1. /\ currentStatus \in 0..MaxHead /\ fromBlock \in Nat /\ fromBlock <= currentStatus
        BY <1>1 DEF TypeOK, ScanTypes, BeginScan, NoStatus
  <2>2. toBlock' = Smaller(currentStatus, fromBlock + MaxBlocks) /\ fromBlock' = fromBlock
        BY DEF BeginScan, ScanNewBlocks
  <2> QED BY <2>1, <2>2 DEF Smaller
<1>4. ScanTypes' BY <1>1, <1>2, <1>3 DEF TypeOK, ScanTypes
<1>5. ChainTypes' /\ RelayTypes' /\ QueueTypes' /\ OutcomeTypes'
    BY <1>1, <1>2, ChainTypesKept, RelayTypesKept, QueueTypesKept, OutcomeTypesKept
    DEF TypeOK
<1> QED BY <1>1, <1>2, <1>3, <1>4, <1>5 DEF Shape, TypeOK

LEMMA QueryLogsShape == ASSUME Shape, QueryLogs PROVE Shape'
<1> USE ListenerAssumption
<1>1. TypeOK BY DEF Shape
<1>2. /\ UNCHANGED <<faults, currentStatus, startBlock, fromBlock, toBlock, blocksCache,
                     messages>>
      /\ UNCHANGED <<chainVars, relayVars, queueVars, eventVars, swapVars>>
      /\ pc' = "logs" /\ at' = fromBlock
    BY DEF QueryLogs, relayVars
<1>3. fromBlock \in Nat /\ toBlock \in 0..MaxHead /\ fromBlock <= toBlock
    BY <1>1 DEF Shape, TypeOK, ScanTypes, QueryLogs
<1>4. PICK lag \in 0..MaxLag :
         logs' = [n \in fromBlock..toBlock |->
                     IF n <= head - lag THEN chain[n] ELSE Block(NoBlock, "none")]
    BY DEF QueryLogs
<1>5. ASSUME NEW n \in fromBlock..toBlock
      PROVE  /\ logs'[n] \in [fork : BlockAnswers, log : Logs]
             /\ logs'[n].log # "none" => logs'[n].fork \in 0..MaxReorgs
  <2>1. CASE n <= head - lag
    <3>1. n \in 0..head BY <1>1, <1>3, <2>1 DEF TypeOK, ChainTypes
    <3>2. logs'[n] \in [fork : 0..MaxReorgs, log : Logs]
          BY <1>1, <1>4, <2>1, <3>1 DEF TypeOK, ChainTypes
    <3> QED BY <3>2 DEF BlockAnswers
  <2>2. CASE ~(n <= head - lag)
    <3>1. logs'[n] = [fork |-> NoBlock, log |-> "none"] BY <1>4, <2>2 DEF Block
    <3> QED BY <3>1 DEF BlockAnswers, Logs
  <2> QED BY <2>1, <2>2
<1>6. DOMAIN logs' = fromBlock..toBlock BY <1>4
<1>7. fromBlock..toBlock \subseteq 0..MaxHead BY <1>3
<1>8. ScanTypes' BY <1>1, <1>2, <1>3, <1>5, <1>6, <1>7 DEF TypeOK, ScanTypes
<1>9. LogsShape'
  <2>1. at' \in fromBlock'..(toBlock' + 1) BY <1>2, <1>3
  <2> QED BY <1>2, <1>5, <1>6, <2>1 DEF LogsShape
<1>10. ChainTypes' /\ RelayTypes' /\ QueueTypes' /\ OutcomeTypes'
    BY <1>1, <1>2, ChainTypesKept, RelayTypesKept, QueueTypesKept, OutcomeTypesKept
    DEF TypeOK
<1> QED BY <1>1, <1>2, <1>8, <1>9, <1>10 DEF Shape, TypeOK

\* What handleInterfaceEvent does to the outcomes and the cache.
LEMMA HandleInterfaceEventEffect ==
    ASSUME HandleInterfaceEvent
    PROVE  LET event == [block |-> at, fork |-> logs[at].fork] IN
           /\ logs[at].log = "none" =>
                 UNCHANGED <<saved, failed, faults, blocksCache>>
           /\ \/ UNCHANGED <<saved, failed, faults>>
              \/ logs[at].log # "none" /\ SaveEvent(event)
           /\ \/ UNCHANGED blocksCache
              \/ \E f \in BlockAnswers : GetBlock(at, f)
BY DEF HandleInterfaceEvent, eventVars

LEMMA HandleInterfaceEventShape == ASSUME Shape, HandleInterfaceEvent PROVE Shape'
<1> USE ListenerAssumption
<1>1. TypeOK /\ pc = "logs" /\ at <= toBlock /\ LogsShape
    BY DEF Shape, HandleInterfaceEvent
<1>2. /\ UNCHANGED <<currentStatus, startBlock, fromBlock, toBlock, logs, messages>>
      /\ UNCHANGED <<received, stored, dropped, skipped>>
      /\ UNCHANGED <<chainVars, relayVars, queueVars>>
      /\ pc' = pc /\ at' = at + 1
    BY DEF HandleInterfaceEvent, relayVars, swapVars
<1>3. /\ fromBlock \in Nat /\ toBlock \in 0..MaxHead /\ at \in Nat
      /\ at \in fromBlock..toBlock /\ at \in 0..MaxHead
    BY <1>1 DEF TypeOK, ScanTypes, LogsShape
<1>4. blocksCache' \in Seq(Event) /\ Len(blocksCache') <= CacheSize
  <2>1. blocksCache \in Seq(Event) /\ Len(blocksCache) <= CacheSize
        BY <1>1 DEF TypeOK, ScanTypes
  <2>2. CASE UNCHANGED blocksCache BY <2>1, <2>2
  <2>3. CASE \E f \in BlockAnswers : GetBlock(at, f)
        BY <1>1, <1>3, <2>3, GetBlockTypes DEF TypeOK
  <2> QED BY <2>2, <2>3, HandleInterfaceEventEffect
<1>5. at' \in Nat /\ at' \in fromBlock..(toBlock + 1) BY <1>2, <1>3
<1>6. ScanTypes' BY <1>1, <1>2, <1>4, <1>5 DEF TypeOK, ScanTypes
<1>7. LogsShape' BY <1>1, <1>2, <1>5 DEF LogsShape
<1>8. faults' \in 0..MaxFaults /\ saved' \in Seq(Event) /\ failed' \subseteq Event
  <2>1. faults \in 0..MaxFaults /\ saved \in Seq(Event) /\ failed \subseteq Event
        BY <1>1 DEF TypeOK, OutcomeTypes
  <2>2. CASE UNCHANGED <<saved, failed, faults>> BY <2>1, <2>2
  <2>3. CASE logs[at].log # "none" /\ SaveEvent([block |-> at, fork |-> logs[at].fork])
    <3>1. [block |-> at, fork |-> logs[at].fork] \in Event
          BY <1>1, <1>3, <2>3 DEF LogsShape, Event
    <3>2. CASE saved' = Append(saved, [block |-> at, fork |-> logs[at].fork])
               /\ UNCHANGED <<failed, faults>>
          BY <2>1, <3>1, <3>2, AppendFacts
    <3>3. CASE /\ Fault("store") /\ UNCHANGED saved
               /\ failed' = failed \cup {[block |-> at, fork |-> logs[at].fork]}
          BY <2>1, <3>1, <3>3, FaultTypes
    <3> QED BY <2>3, <3>2, <3>3 DEF SaveEvent
  <2> QED BY <2>2, <2>3, HandleInterfaceEventEffect
<1>9. OutcomeTypes' BY <1>1, <1>2, <1>8 DEF TypeOK, OutcomeTypes
<1>10. ChainTypes' /\ RelayTypes' /\ QueueTypes'
    BY <1>1, <1>2, ChainTypesKept, RelayTypesKept, QueueTypesKept DEF TypeOK
<1> QED BY <1>1, <1>2, <1>6, <1>7, <1>8, <1>9, <1>10 DEF Shape, TypeOK

LEMMA EventsProcessedShape == ASSUME Shape, EventsProcessed PROVE Shape'
<1> USE ListenerAssumption
<1>1. TypeOK BY DEF Shape
<1>2. /\ UNCHANGED <<faults, currentStatus, startBlock, blocksCache, messages, swapQueue>>
      /\ UNCHANGED <<chainVars, relayVars, eventVars, swapVars>>
      /\ pc' = "swaps" /\ fromBlock' = toBlock + 1 /\ toBlock' = 0 /\ at' = 0
      /\ logs' = NoLogs /\ i' = 1 /\ currentBlock' = currentStatus
    BY DEF EventsProcessed, ResumeAt, relayVars
<1>3. ScanTypes' BY <1>1, <1>2 DEF TypeOK, ScanTypes, NoLogs
<1>4. QueueTypes' BY <1>1, <1>2 DEF TypeOK, QueueTypes, ScanTypes
<1>5. ChainTypes' /\ RelayTypes' /\ OutcomeTypes'
    BY <1>1, <1>2, ChainTypesKept, RelayTypesKept, OutcomeTypesKept DEF TypeOK
<1> QED BY <1>1, <1>2, <1>3, <1>4, <1>5 DEF Shape, TypeOK

\* The message at the index of the loop is one that was relayed.
LEMMA NextSwapTypes ==
    ASSUME TypeOK, i <= Len(swapQueue)
    PROVE  /\ NextSwap \in 1..Len(messages) /\ NextSwap \in Messages
           /\ messages[NextSwap].block \in 1..MaxHead
           /\ messages[NextSwap].hash \in 0..MaxReorgs
<1> USE ListenerAssumption
<1>1. /\ swapQueue \in Seq(1..Len(messages)) /\ i \in Nat \ {0}
      /\ messages \in Seq([block : 1..MaxHead, hash : 0..MaxReorgs])
      /\ Len(messages) <= MaxMessages
    BY DEF TypeOK, QueueTypes, RelayTypes
<1>2. Len(swapQueue) \in Nat /\ Len(messages) \in Nat BY <1>1, LenProperties
<1>3. i \in 1..Len(swapQueue) BY <1>1, <1>2
<1>4. NextSwap \in 1..Len(messages) BY <1>1, <1>3, RangeFacts DEF NextSwap
<1>5. messages[NextSwap] \in [block : 1..MaxHead, hash : 0..MaxReorgs]
    BY <1>1, <1>4, RangeFacts
<1>6. NextSwap \in Messages
  <2> HIDE DEF NextSwap
  <2>1. MaxMessages \in Nat BY DEF ListenerAssumption
  <2> QED BY <1>1, <1>2, <1>4, <2>1 DEF Messages
<1> QED BY <1>4, <1>5, <1>6

LEMMA VerifySwapShape == ASSUME Shape, VerifySwap PROVE Shape'
<1> USE ListenerAssumption
<1>1. TypeOK /\ pc = "swaps" /\ i <= Len(swapQueue) BY DEF Shape, VerifySwap, HasSwap
<1>2. /\ UNCHANGED <<faults, currentStatus, messages, swapQueue, currentBlock, received, stored>>
      /\ UNCHANGED <<chainVars, relayVars, scanVars, eventVars>>
    BY DEF VerifySwap, CheckSwap, relayVars
<1>3. NextSwap \in 1..Len(messages) /\ messages[NextSwap].block \in 0..MaxHead
    BY <1>1, NextSwapTypes
<1>4. PICK f \in BlockAnswers : GetBlock(messages[NextSwap].block, f)
    BY DEF VerifySwap, CheckSwap
<1>5. blocksCache' \in Seq(Event) /\ Len(blocksCache') <= CacheSize
    BY <1>1, <1>3, <1>4, GetBlockTypes DEF TypeOK
<1>6. ScanTypes' BY <1>1, <1>2, <1>5 DEF TypeOK, ScanTypes, scanVars
<1>7. /\ i' = i \/ i' = i + 1
      /\ dropped' = dropped \/ dropped' = dropped \cup {NextSwap}
      /\ skipped' = skipped \/ skipped' = skipped \cup {NextSwap}
      /\ (pc' = "save" /\ i' = i) \/ pc' = pc
    BY DEF VerifySwap, CheckSwap
<1>8. i' \in Nat \ {0} BY <1>1, <1>7 DEF TypeOK, QueueTypes
<1>9. QueueTypes' BY <1>1, <1>2, <1>8 DEF TypeOK, QueueTypes
<1>10. OutcomeTypes' BY <1>1, <1>2, <1>3, <1>7 DEF TypeOK, OutcomeTypes, eventVars
<1>11. ChainTypes' /\ RelayTypes'
    BY <1>1, <1>2, ChainTypesKept, RelayTypesKept DEF TypeOK
<1>12. pc' \in {"swaps", "save"} /\ (pc' = "save" => i' <= Len(swapQueue'))
    BY <1>1, <1>2, <1>7
<1> QED BY <1>1, <1>2, <1>6, <1>9, <1>10, <1>11, <1>12 DEF Shape, TypeOK

LEMMA SaveSwapShape == ASSUME Shape, SaveSwap PROVE Shape'
<1> USE ListenerAssumption
<1>1. TypeOK /\ i <= Len(swapQueue) BY DEF Shape, SaveSwap
<1>2. /\ UNCHANGED <<currentStatus, messages, swapQueue, currentBlock, blocksCache>>
      /\ UNCHANGED <<received, dropped, skipped>>
      /\ UNCHANGED <<chainVars, relayVars, scanVars, eventVars>>
    BY DEF SaveSwap, relayVars
<1>3. NextSwap \in Messages BY <1>1, NextSwapTypes
<1>4. /\ stored' = [stored EXCEPT ![NextSwap] = Smaller(2, @ + 1)] \/ stored' = stored
      /\ i' = i \/ i' = i + 1
      /\ pc' \in {"swaps", "exited"}
    BY DEF SaveSwap, Exit
<1>5. stored' \in [Messages -> 0..2]
    BY <1>1, <1>3, <1>4 DEF TypeOK, OutcomeTypes, Smaller
<1>6. faults' \in 0..MaxFaults BY <1>1, FaultTypes DEF SaveSwap, TypeOK
<1>7. i' \in Nat \ {0} BY <1>1, <1>4 DEF TypeOK, QueueTypes
<1>8. QueueTypes' BY <1>1, <1>2, <1>7 DEF TypeOK, QueueTypes
<1>9. OutcomeTypes' BY <1>1, <1>2, <1>5 DEF TypeOK, OutcomeTypes, eventVars
<1>10. ChainTypes' /\ RelayTypes' /\ ScanTypes'
    BY <1>1, <1>2, ChainTypesKept, RelayTypesKept, ScanTypesKept DEF TypeOK
<1> QED BY <1>1, <1>2, <1>4, <1>6, <1>8, <1>9, <1>10 DEF Shape, TypeOK

LEMMA LeaveEarlySwapShape == ASSUME Shape, LeaveEarlySwap PROVE Shape'
<1>1. TypeOK BY DEF Shape
<1>2. /\ UNCHANGED <<faults, currentStatus, blocksCache, messages>>
      /\ UNCHANGED <<chainVars, relayVars, scanVars, queueVars, eventVars, swapVars>>
      /\ pc' = "idle"
    BY DEF LeaveEarlySwap, relayVars
<1>3. ChainTypes' /\ RelayTypes' /\ ScanTypes' /\ QueueTypes' /\ OutcomeTypes'
    BY <1>1, <1>2, ChainTypesKept, RelayTypesKept, ScanTypesKept, QueueTypesKept,
       OutcomeTypesKept DEF TypeOK
<1> QED BY <1>1, <1>2, <1>3 DEF Shape, TypeOK

LEMMA SwapsProcessedShape == ASSUME Shape, SwapsProcessed PROVE Shape'
<1>1. TypeOK BY DEF Shape
<1>2. /\ UNCHANGED <<faults, currentStatus, blocksCache, messages, i, currentBlock>>
      /\ UNCHANGED <<chainVars, relayVars, scanVars, eventVars, swapVars>>
      /\ pc' = "idle"
    BY DEF SwapsProcessed, relayVars
<1>3. swapQueue \in Seq(1..Len(messages)) /\ i \in Nat \ {0} /\ i > Len(swapQueue)
    BY <1>1 DEF TypeOK, QueueTypes, SwapsProcessed
<1>4. swapQueue' = <<>> BY <1>3, EmptyRest DEF SwapsProcessed
<1>5. QueueTypes'
  <2>1. <<>> \in Seq(1..Len(messages)) OBVIOUS
  <2> QED BY <1>1, <1>2, <1>4, <2>1 DEF TypeOK, QueueTypes
<1>6. ChainTypes' /\ RelayTypes' /\ ScanTypes' /\ OutcomeTypes'
    BY <1>1, <1>2, ChainTypesKept, RelayTypesKept, ScanTypesKept, OutcomeTypesKept
    DEF TypeOK
<1> QED BY <1>1, <1>2, <1>5, <1>6 DEF Shape, TypeOK

LEMMA StutterShape == ASSUME Shape, UNCHANGED vars PROVE Shape'
<1>1. TypeOK BY DEF Shape
<1>2. /\ UNCHANGED <<pc, faults, currentStatus, blocksCache, messages>>
      /\ UNCHANGED <<chainVars, relayVars, scanVars, queueVars, eventVars, swapVars>>
    BY DEF vars, relayVars
<1>3. ChainTypes' /\ RelayTypes' /\ ScanTypes' /\ QueueTypes' /\ OutcomeTypes'
    BY <1>1, <1>2, ChainTypesKept, RelayTypesKept, ScanTypesKept, QueueTypesKept,
       OutcomeTypesKept DEF TypeOK
<1> QED BY <1>1, <1>2, <1>3, LocalsKept DEF Shape, TypeOK

LEMMA NextShape == ASSUME Shape, [Next]_vars PROVE Shape'
<1>1. CASE Loop
  BY <1>1, GetStartingBlockShape, BeginScanShape, QueryLogsShape, HandleInterfaceEventShape,
     EventsProcessedShape, VerifySwapShape, SaveSwapShape, LeaveEarlySwapShape,
     SwapsProcessedShape DEF Loop
<1>2. CASE \E n \in 0..MaxHead : UpdateStatus(n) BY <1>2, UpdateStatusShape
<1>3. CASE UNCHANGED vars BY <1>3, StutterShape
<1> QED BY <1>1, <1>2, <1>3, NewBlockShape, ReorgShape, RelayMessageShape, DisconnectShape,
           ProcessAMBMessageShape, RejectAMBMessageShape DEF Next

LEMMA ShapeHolds == Spec => []Shape
<1>1. Shape /\ [Next]_vars => Shape' BY NextShape
<1> QED BY <1>1, InitShape, PTL DEF Spec

\* Block numbers are never negative, the cache keeps within its size, and only messages that
\* were relayed are queued and decided.
THEOREM ListenerTypes == Spec => []TypeOK
<1>1. Shape => TypeOK BY DEF Shape
<1> QED BY <1>1, ShapeHolds, PTL

-----------------------------------------------------------------------------
(* The scan saves each event once, in the order of the chain.              *)

\* What was saved lies behind the block that is handled next.
SavedBehindScan ==
    /\ pc = "start" => saved = <<>>
    /\ pc # "exited" => \A k \in DOMAIN saved :
                           saved[k].block < IF pc = "logs" THEN at ELSE fromBlock
    /\ EventsSavedInOrder

\* Nothing but handleInterfaceEvent saves.
LEMMA ScanSteps ==
    ASSUME [Next]_vars
    PROVE  \/ GetStartingBlock \/ BeginScan \/ QueryLogs \/ HandleInterfaceEvent
           \/ EventsProcessed
           \/ /\ UNCHANGED <<scanVars, eventVars>>
              /\ \/ pc' = pc \/ pc' = "exited"
                 \/ pc \in {"swaps", "save"} /\ pc' \in {"idle", "swaps", "save"}
<1>1. CASE UNCHANGED vars BY <1>1 DEF vars
<1>2. CASE NewBlock \/ Reorg \/ RelayMessage \/ Disconnect
  BY <1>2 DEF NewBlock, Reorg, RelayMessage, Disconnect
<1>3. CASE ProcessAMBMessage \/ RejectAMBMessage
  BY <1>3 DEF ProcessAMBMessage, RejectAMBMessage
<1>4. CASE \E n \in 0..MaxHead : UpdateStatus(n) BY <1>4 DEF UpdateStatus
<1>5. CASE VerifySwap BY <1>5 DEF VerifySwap, CheckSwap, HasSwap
<1>6. CASE SaveSwap BY <1>6 DEF SaveSwap, Exit
<1>7. CASE LeaveEarlySwap BY <1>7 DEF LeaveEarlySwap, HasSwap
<1>8. CASE SwapsProcessed BY <1>8 DEF SwapsProcessed
<1> QED BY <1>1, <1>2, <1>3, <1>4, <1>5, <1>6, <1>7, <1>8 DEF Next, Loop

LEMMA NextSavedBehindScan ==
    ASSUME Shape, SavedBehindScan, [Next]_vars PROVE SavedBehindScan'
<1> USE ListenerAssumption
<1>1. TypeOK BY DEF Shape
<1>2. saved \in Seq(Event) /\ Len(saved) \in Nat /\ DOMAIN saved = 1..Len(saved)
    BY <1>1, LenProperties DEF TypeOK, OutcomeTypes
<1>3. CASE GetStartingBlock
  <2>1. saved = <<>> /\ saved' = saved
        BY <1>3 DEF SavedBehindScan, GetStartingBlock, eventVars
  <2>2. pc' \in {"idle", "exited"} BY <1>3 DEF GetStartingBlock, StartAt, Exit
  <2>3. DOMAIN saved' = {} BY <2>1
  <2> QED BY <2>1, <2>2, <2>3 DEF SavedBehindScan, EventsSavedInOrder
<1>4. CASE BeginScan
  <2>1. pc = "idle" /\ pc' = "query" /\ UNCHANGED <<saved, fromBlock>>
        BY <1>4 DEF BeginScan, ScanNewBlocks, eventVars
  <2> QED BY <2>1 DEF SavedBehindScan, EventsSavedInOrder
<1>5. CASE QueryLogs
  <2>1. pc = "query" /\ pc' = "logs" /\ at' = fromBlock /\ UNCHANGED saved
        BY <1>5 DEF QueryLogs, eventVars
  <2> QED BY <2>1 DEF SavedBehindScan, EventsSavedInOrder
<1>6. CASE EventsProcessed
  <2>1. /\ pc = "logs" /\ pc' = "swaps" /\ UNCHANGED saved
        /\ at > toBlock /\ fromBlock' = toBlock + 1
        BY <1>6 DEF EventsProcessed, ResumeAt, eventVars
  <2>2. at = toBlock + 1
        BY <1>1, <2>1 DEF Shape, LogsShape, TypeOK, ScanTypes
  <2> QED BY <2>1, <2>2 DEF SavedBehindScan, EventsSavedInOrder
<1>7. CASE HandleInterfaceEvent
  <2> DEFINE event == [block |-> at, fork |-> logs[at].fork]
  <2>1. pc = "logs" /\ pc' = "logs" /\ at' = at + 1 /\ at \in Nat /\ at <= toBlock
        BY <1>1, <1>7 DEF HandleInterfaceEvent, TypeOK, ScanTypes
  <2>2. \A k \in DOMAIN saved : saved[k].block \in Nat /\ saved[k].block < at
    <3>1. \A k \in DOMAIN saved : saved[k] \in Event
          BY <1>2
    <3>2. \A e \in Event : e.block \in Nat
          BY DEF Event
    <3>3. \A k \in DOMAIN saved : saved[k].block < at
          BY <2>1 DEF SavedBehindScan
    <3> QED BY <3>1, <3>2, <3>3
  <2>3. CASE saved' = saved
    <3>1. \A k \in DOMAIN saved : saved[k].block < at + 1 BY <2>1, <2>2
    <3> QED BY <2>1, <2>3, <3>1 DEF SavedBehindScan, EventsSavedInOrder
  <2>4. CASE logs[at].log # "none" /\ saved' = Append(saved, event)
    <3>1. at \in fromBlock..toBlock /\ toBlock \in 0..MaxHead /\ fromBlock \in Nat
          BY <1>1, <2>1 DEF Shape, LogsShape, TypeOK, ScanTypes
    <3>2. event \in Event BY <2>1, <2>4, <3>1 DEF Shape, LogsShape, Event
    <3>3. /\ DOMAIN saved' = 1..(Len(saved) + 1)
          /\ \A k \in 1..Len(saved) : saved'[k] = saved[k]
          /\ saved'[Len(saved) + 1] = event
          BY <1>2, <2>4, <3>2, AppendFacts
    <3>4. saved'[Len(saved) + 1].block = at BY <3>3
    <3>5. \A k \in DOMAIN saved' : k \in DOMAIN saved \/ k = Len(saved) + 1 BY <1>2, <3>3
    <3>6. \A k \in DOMAIN saved' : saved'[k].block < at + 1
          BY <1>2, <2>1, <2>2, <3>3, <3>4, <3>5
    <3>7. EventsSavedInOrder'
      <4>1. ASSUME NEW j \in DOMAIN saved', NEW k \in DOMAIN saved', j < k
            PROVE  saved'[j].block < saved'[k].block
        <5>1. j \in DOMAIN saved BY <1>2, <3>3, <4>1
        <5>2. CASE k \in DOMAIN saved
              BY <1>2, <3>3, <4>1, <5>1, <5>2 DEF SavedBehindScan, EventsSavedInOrder
        <5>3. CASE k = Len(saved) + 1 BY <1>2, <2>2, <3>3, <3>4, <5>1, <5>3
        <5> QED BY <3>5, <5>2, <5>3
      <4> QED BY <4>1 DEF EventsSavedInOrder
    <3>8. \A k \in DOMAIN saved' : saved'[k].block < at' BY <2>1, <3>6
    <3>9. \A k \in DOMAIN saved' :
             saved'[k].block < IF pc' = "logs" THEN at' ELSE fromBlock'
          BY <2>1, <3>8
    <3> QED BY <2>1, <3>7, <3>9 DEF SavedBehindScan
  <2> QED BY <1>7, <2>3, <2>4, HandleInterfaceEventEffect DEF SaveEvent
<1>8. CASE /\ UNCHANGED <<scanVars, eventVars>>
           /\ \/ pc' = pc \/ pc' = "exited"
              \/ pc \in {"swaps", "save"} /\ pc' \in {"idle", "swaps", "save"}
  <2>1. UNCHANGED <<saved, fromBlock, at>> BY <1>8 DEF scanVars, eventVars
  <2>2. EventsSavedInOrder' BY <2>1 DEF SavedBehindScan, EventsSavedInOrder
  <2>3. CASE pc' = pc BY <2>1, <2>2, <2>3 DEF SavedBehindScan
  <2>4. CASE pc' = "exited" BY <2>1, <2>2, <2>4 DEF SavedBehindScan
  <2>5. CASE pc \in {"swaps", "save"} /\ pc' \in {"idle", "swaps", "save"}
        BY <2>1, <2>2, <2>5 DEF SavedBehindScan
  <2> QED BY <1>8, <2>3, <2>4, <2>5
<1> QED BY <1>3, <1>4, <1>5, <1>6, <1>7, <1>8, ScanSteps

\* The scans neither overlap nor go back: each event is saved once, in the order of the chain.
THEOREM EventsInOrder == Spec => []EventsSavedInOrder
<1>1. Init => SavedBehindScan BY DEF Init, SavedBehindScan, EventsSavedInOrder
<1>2. Shape /\ SavedBehindScan /\ [Next]_vars => SavedBehindScan' BY NextSavedBehindScan
<1>3. SavedBehindScan => EventsSavedInOrder BY DEF SavedBehindScan
<1> QED BY <1>1, <1>2, <1>3, ShapeHolds, PTL DEF Spec

-----------------------------------------------------------------------------
(* No message is lost on its way through the queue.                        *)

\* While a round of the loop runs, what lies behind its index was dealt with.
RoundSoFar ==
    pc \in {"swaps", "save"} =>
        /\ i <= Len(swapQueue) + 1
        /\ \A j \in 1..Len(swapQueue) : j < i => Handled(swapQueue[j])

Queued == NoMessageLost /\ RoundSoFar

\* The steps that leave the queue and what became of its messages alone.
LEMMA QueueSteps ==
    ASSUME [Next]_vars
    PROVE  \/ ProcessAMBMessage \/ EventsProcessed \/ VerifySwap \/ SaveSwap \/ SwapsProcessed
           \/ /\ UNCHANGED <<queueVars, swapVars>>
              /\ pc' = pc \/ pc' \notin {"swaps", "save"}
              /\ pc = "exited" => pc' = "exited"
<1>1. CASE UNCHANGED vars BY <1>1 DEF vars
<1>2. CASE NewBlock \/ Reorg \/ RelayMessage \/ Disconnect
  BY <1>2 DEF NewBlock, Reorg, RelayMessage, Disconnect
<1>3. CASE RejectAMBMessage BY <1>3 DEF RejectAMBMessage
<1>4. CASE \E n \in 0..MaxHead : UpdateStatus(n) BY <1>4 DEF UpdateStatus
<1>5. CASE GetStartingBlock BY <1>5 DEF GetStartingBlock, StartAt, Exit
<1>6. CASE BeginScan BY <1>6 DEF BeginScan, ScanNewBlocks
<1>7. CASE QueryLogs \/ HandleInterfaceEvent BY <1>7 DEF QueryLogs, HandleInterfaceEvent
<1>8. CASE LeaveEarlySwap BY <1>8 DEF LeaveEarlySwap, HasSwap
<1> QED BY <1>1, <1>2, <1>3, <1>4, <1>5, <1>6, <1>7, <1>8 DEF Next, Loop

\* The step of the loop from one message to the next.
LEMMA RoundGoesOn ==
    ASSUME Shape, Queued, pc \in {"swaps", "save"}, pc' \in {"swaps", "save"},
           i <= Len(swapQueue), UNCHANGED <<swapQueue, received>>,
           \A m \in 1..Len(messages) : Handled(m) => Handled(m)',
           i' = i \/ i' = i + 1,
           i' # i => \A m \in 1..Len(messages) : m = NextSwap => Handled(m)'
    PROVE  Queued'
<1>1. /\ swapQueue \in Seq(1..Len(messages)) /\ i \in Nat
      /\ received \subseteq 1..Len(messages)
    BY DEF Shape, TypeOK, QueueTypes, OutcomeTypes
<1>2. Len(swapQueue) \in Nat /\ \A j \in 1..Len(swapQueue) : swapQueue[j] \in 1..Len(messages)
    BY <1>1, RangeFacts
<1>3. RoundSoFar'
  <2>1. ASSUME NEW j \in 1..Len(swapQueue), j < i' PROVE Handled(swapQueue[j])'
    <3>1. CASE j < i
      <4>1. Handled(swapQueue[j]) /\ swapQueue[j] \in 1..Len(messages)
            BY <1>2, <3>1 DEF Queued, RoundSoFar
      <4>2. PICK m \in 1..Len(messages) : m = swapQueue[j] BY <4>1
      <4>3. Handled(m)' BY <4>1, <4>2
      <4> QED BY <4>2, <4>3 DEF Handled
    <3>2. CASE j = i /\ i' # i
      <4>1. PICK m \in 1..Len(messages) : m = NextSwap BY <1>2, <3>2 DEF NextSwap
      <4>2. Handled(m)' BY <3>2, <4>1
      <4> QED BY <3>2, <4>1, <4>2 DEF Handled, NextSwap
    <3> QED BY <1>1, <1>2, <2>1, <3>1, <3>2
  <2>2. i' <= Len(swapQueue') + 1 BY <1>1, <1>2
  <2>3. \A j \in 1..Len(swapQueue') : j < i' => Handled(swapQueue[j])'
        BY <2>1 DEF Handled
  <2> QED BY <2>2, <2>3 DEF RoundSoFar, Handled
<1>4. NoMessageLost'
  <2>1. \A m \in received : m \in Range(swapQueue) \/ Handled(m)
        BY DEF Queued, NoMessageLost, Handled
  <2>2. \A m \in received' : m \in Range(swapQueue') \/ Handled(m)' BY <1>1, <2>1
  <2> QED BY <2>2 DEF NoMessageLost, Handled
<1> QED BY <1>3, <1>4 DEF Queued

LEMMA NextQueued == ASSUME Shape, Queued, [Next]_vars PROVE Queued'
<1>1. TypeOK BY DEF Shape
<1>2. /\ swapQueue \in Seq(1..Len(messages)) /\ i \in Nat \ {0} /\ Len(swapQueue) \in Nat
      /\ websocket \in Seq(1..Len(messages))
      /\ stored \in [Messages -> 0..2]
    BY <1>1, LenProperties DEF TypeOK, QueueTypes, RelayTypes, OutcomeTypes
<1>3. CASE ProcessAMBMessage
  <2>1. /\ websocket # <<>> /\ swapQueue' = Append(swapQueue, Head(websocket))
        /\ received' = received \cup {Head(websocket)}
        /\ UNCHANGED <<stored, dropped, skipped, i, pc>>
        /\ pc # "exited"
        BY <1>3 DEF ProcessAMBMessage
  <2>2. Head(websocket) \in 1..Len(messages) BY <1>2, <2>1, TailFacts
  <2>3. /\ Range(swapQueue') = Range(swapQueue) \cup {Head(websocket)}
        /\ Len(swapQueue') = Len(swapQueue) + 1
        /\ \A j \in 1..Len(swapQueue) : swapQueue'[j] = swapQueue[j]
        BY <1>2, <2>1, <2>2, AppendFacts
  <2>4. NoMessageLost' BY <2>1, <2>3 DEF Queued, NoMessageLost
  <2>5. ASSUME pc \in {"swaps", "save"} PROVE i <= Len(swapQueue) + 1
        BY <2>5 DEF Queued, RoundSoFar
  <2>6. ASSUME pc \in {"swaps", "save"}, NEW j \in 1..Len(swapQueue'), j < i
        PROVE  Handled(swapQueue[j])'
    <3>1. j \in 1..Len(swapQueue) BY <1>2, <2>3, <2>5, <2>6
    <3>2. Handled(swapQueue[j]) BY <2>6, <3>1 DEF Queued, RoundSoFar
    <3> QED BY <2>1, <2>3, <3>1, <3>2 DEF Handled
  <2>7. pc \in {"swaps", "save"} => i <= Len(swapQueue') + 1 BY <1>2, <2>3, <2>5
  <2>8. RoundSoFar' BY <2>1, <2>6, <2>7 DEF RoundSoFar
  <2> QED BY <2>4, <2>8 DEF Queued
<1>4. CASE EventsProcessed
  <2>1. i' = 1 /\ pc # "exited" /\ UNCHANGED <<swapQueue, received, stored, dropped, skipped>>
        BY <1>4 DEF EventsProcessed, ResumeAt, swapVars
  <2>2. NoMessageLost
        BY DEF Queued
  <2>3. NoMessageLost' BY <2>1, <2>2 DEF NoMessageLost
  <2>4. i' <= Len(swapQueue') + 1 /\ \A j \in 1..Len(swapQueue') : ~(j < i')
        BY <1>2, <2>1
  <2>5. RoundSoFar' BY <2>4 DEF RoundSoFar
  <2> QED BY <2>3, <2>5 DEF Queued
<1>5. CASE VerifySwap
  <2>1. /\ pc = "swaps" /\ pc' \in {"swaps", "save"} /\ i <= Len(swapQueue)
        /\ UNCHANGED <<swapQueue, received, stored>>
        /\ \/ UNCHANGED <<i, dropped, skipped>>
           \/ i' = i + 1 /\ dropped' = dropped /\ skipped' = skipped \cup {NextSwap}
           \/ i' = i + 1 /\ skipped' = skipped /\ dropped' = dropped \cup {NextSwap}
        BY <1>5 DEF VerifySwap, HasSwap, CheckSwap
  <2>2. ASSUME NEW m \in 1..Len(messages), Handled(m) PROVE Handled(m)'
    <3>1. dropped \subseteq dropped' /\ skipped \subseteq skipped' /\ stored' = stored BY <2>1
    <3> QED BY <2>2, <3>1 DEF Handled
  <2>3. i' = i \/ i' = i + 1 BY <2>1
  <2>4. i' # i => \A m \in 1..Len(messages) : m = NextSwap => Handled(m)'
    <3>1. i' # i => NextSwap \in dropped' \/ NextSwap \in skipped' BY <2>1
    <3> QED BY <3>1 DEF Handled
  <2>5. /\ pc \in {"swaps", "save"} /\ pc' \in {"swaps", "save"} /\ i <= Len(swapQueue)
        /\ UNCHANGED <<swapQueue, received>>
        BY <2>1
  <2> QED BY <2>2, <2>3, <2>4, <2>5, RoundGoesOn
<1>6. CASE SaveSwap
  <2>1. CASE pc' = "exited" BY <2>1 DEF Queued, NoMessageLost, RoundSoFar
  <2>2. CASE pc' # "exited"
    <3>1. /\ pc = "save" /\ pc' = "swaps" /\ i' = i + 1 /\ i <= Len(swapQueue)
          /\ stored' = [stored EXCEPT ![NextSwap] = Smaller(2, @ + 1)]
          /\ UNCHANGED <<swapQueue, received, dropped, skipped>>
          BY <1>6, <2>2 DEF SaveSwap, Exit, Shape
    <3>2. NextSwap \in Messages BY <1>1, <3>1, NextSwapTypes
    <3>3. Smaller(2, stored[NextSwap] + 1) \in Nat \ {0} BY <1>2, <3>2 DEF Smaller
    <3>4. \A m : m = NextSwap => stored'[m] > 0 BY <1>2, <3>1, <3>2, <3>3
    <3>6. ASSUME NEW m \in 1..Len(messages), Handled(m) PROVE Handled(m)'
      <4>1. CASE m = NextSwap BY <3>1, <3>4, <4>1 DEF Handled
      <4>2. CASE m # NextSwap BY <1>2, <3>1, <3>6, <4>2 DEF Handled
      <4> QED BY <4>1, <4>2
    <3>7. \A m \in 1..Len(messages) : m = NextSwap => Handled(m)' BY <3>4 DEF Handled
    <3> QED BY <3>1, <3>6, <3>7, RoundGoesOn
  <2> QED BY <2>1, <2>2
<1>7. CASE SwapsProcessed
  <2>1. /\ pc = "swaps" /\ pc' = "idle" /\ i > Len(swapQueue)
        /\ UNCHANGED <<received, stored, dropped, skipped>>
        BY <1>7 DEF SwapsProcessed, swapVars
  <2>2. \A m \in Range(swapQueue) : Handled(m)
        BY <1>2, <2>1, RangeFacts DEF Queued, RoundSoFar
  <2>3. \A m \in received : Handled(m)
        BY <2>1, <2>2 DEF Queued, NoMessageLost, Handled
  <2>4. NoMessageLost' BY <2>1, <2>3 DEF NoMessageLost, Handled
  <2> QED BY <2>1, <2>4 DEF Queued, RoundSoFar
<1>8. CASE /\ UNCHANGED <<queueVars, swapVars>>
           /\ pc' = pc \/ pc' \notin {"swaps", "save"}
           /\ pc = "exited" => pc' = "exited"
  <2>1. UNCHANGED <<swapQueue, i, received, stored, dropped, skipped>>
        BY <1>8 DEF queueVars, swapVars
  <2>2. NoMessageLost' BY <1>8, <2>1 DEF Queued, NoMessageLost
  <2>3. RoundSoFar' BY <1>8, <2>1 DEF Queued, RoundSoFar, Handled
  <2> QED BY <2>2, <2>3 DEF Queued
<1> QED BY <1>3, <1>4, <1>5, <1>6, <1>7, <1>8, QueueSteps

\* While the worker runs, a message it received is in the queue or was dealt with, though
\* messages arrive between any two steps of the loop.
THEOREM MessagesKept == Spec => []NoMessageLost
<1>1. Init => Queued BY DEF Init, Queued, NoMessageLost, RoundSoFar
<1>2. Shape /\ Queued /\ [Next]_vars => Queued' BY NextQueued
<1>3. Queued => NoMessageLost BY DEF Queued
<1> QED BY <1>1, <1>2, <1>3, ShapeHolds, PTL DEF Spec

-----------------------------------------------------------------------------
(***************************************************************************)
(* What blockDelay is for: when it covers the depth of reorganisations and *)
(* the lag of the node (DelaySuffices), what the listener saves, stores    *)
(* and drops agrees with the chain for ever, and no event is missed.       *)
(***************************************************************************)

-----------------------------------------------------------------------------
(* Final blocks.                                                           *)

\* The block is as deep as the monitor waits for.
Final(n) == n \in 0..(head - BlockDelay)

\* The final block n is the one of fork f.
OnChain(n, f) == Final(n) /\ chain[n].fork = f

LEMMA ChainSteps ==
    ASSUME [Next]_vars PROVE NewBlock \/ Reorg \/ UNCHANGED chainVars
<1>1. CASE UNCHANGED vars BY <1>1 DEF vars
<1>2. CASE RelayMessage \/ Disconnect \/ ProcessAMBMessage \/ RejectAMBMessage
  BY <1>2 DEF RelayMessage, Disconnect, ProcessAMBMessage, RejectAMBMessage
<1>3. CASE \E n \in 0..MaxHead : UpdateStatus(n) BY <1>3 DEF UpdateStatus
<1>4. CASE GetStartingBlock \/ BeginScan \/ QueryLogs \/ HandleInterfaceEvent \/ EventsProcessed
  BY <1>4 DEF GetStartingBlock, BeginScan, ScanNewBlocks, QueryLogs, HandleInterfaceEvent,
              EventsProcessed, ResumeAt
<1>5. CASE VerifySwap \/ SaveSwap \/ LeaveEarlySwap \/ SwapsProcessed
  BY <1>5 DEF VerifySwap, CheckSwap, SaveSwap, LeaveEarlySwap, SwapsProcessed
<1> QED BY <1>1, <1>2, <1>3, <1>4, <1>5 DEF Next, Loop

LEMMA HeadGrows ==
    ASSUME Shape, [Next]_vars
    PROVE  head \in Nat /\ head' \in Nat /\ head <= head'
<1>1. head \in 0..MaxHead BY DEF Shape, TypeOK, ChainTypes
<1>2. MaxHead \in Nat BY ListenerAssumption
<1>3. head' = head \/ head' = head + 1 BY ChainSteps DEF NewBlock, Reorg, chainVars
<1> QED BY <1>1, <1>2, <1>3

LEMMA DeeperIsFinal ==
    ASSUME NEW h \in Nat, NEW g \in Nat, h <= g, NEW n \in Int, NEW b \in Nat
    PROVE  /\ n <= h - b => n <= g - b
           /\ n <= h - b + 1 => n <= g - b + 1
           /\ n \in 0..(h - b) => n \in 0..(g - b)
OBVIOUS

\* A final block stays final and is not replaced.
LEMMA FinalStays ==
    ASSUME DelaySuffices, Shape, [Next]_vars, NEW n, Final(n)
    PROVE  /\ Final(n)'
           /\ n \in 0..head /\ n \in 0..head'
           /\ chain'[n] = chain[n]
<1>1. /\ BlockDelay \in Nat /\ ReorgDepth \in Nat /\ ReorgDepth <= BlockDelay
      /\ n \in Nat /\ n \in Int /\ n <= head - BlockDelay
    BY ListenerAssumption, HeadGrows DEF DelaySuffices, Final
<1>2. head \in Nat /\ head' \in Nat /\ head <= head' BY HeadGrows
<1>3. n \in 0..head /\ n \in 0..head' BY <1>1, <1>2
<1>4. Final(n)'
  <2>1. n \in 0..(head - BlockDelay) BY DEF Final
  <2>2. n \in 0..(head' - BlockDelay) BY <1>1, <1>2, <2>1, DeeperIsFinal
  <2> QED BY <2>2 DEF Final
<1>5. CASE NewBlock
  <2>1. PICK l \in Logs :
           chain' = [m \in 0..(head + 1) |-> IF m <= head THEN chain[m] ELSE Block(reorgs, l)]
        BY <1>5 DEF NewBlock
  <2>2. n \in 0..(head + 1) /\ n <= head BY <1>2, <1>3
  <2> QED BY <1>3, <1>4, <2>1, <2>2
<1>6. CASE Reorg
  <2>1. PICK d \in 1..Smaller(ReorgDepth, head) :
        \E newLogs \in [(head - d + 1)..head -> Logs] :
           chain' = [m \in 0..head |-> IF m <= head - d THEN chain[m]
                                       ELSE Block(reorgs + 1, newLogs[m])]
        BY <1>6 DEF Reorg
  <2>2. n <= head - d BY <1>1, <1>2, <2>1 DEF Smaller
  <2> QED BY <1>3, <1>4, <2>1, <2>2
<1>7. CASE UNCHANGED chainVars BY <1>3, <1>4, <1>7 DEF chainVars
<1> QED BY <1>5, <1>6, <1>7, ChainSteps

LEMMA OnChainStays ==
    ASSUME DelaySuffices, Shape, [Next]_vars, NEW n, NEW f, OnChain(n, f)
    PROVE  OnChain(n, f)'
BY FinalStays DEF OnChain

-----------------------------------------------------------------------------
(* How far the worker goes.                                                *)

StatusFinal == currentStatus >= 1 => currentStatus <= head - BlockDelay
CurrentBlockFinal == currentBlock >= 1 => currentBlock <= head - BlockDelay
ScanFinal == pc \in {"query", "logs"} => toBlock <= head - BlockDelay
ScannedFinal == fromBlock = startBlock \/ fromBlock <= head - BlockDelay + 1

Heights == StatusFinal /\ CurrentBlockFinal /\ ScanFinal /\ ScannedFinal

\* Only the monitor sets the status, and only the end of a scan the block of the queue.
LEMMA StatusSteps ==
    ASSUME [Next]_vars
    PROVE  /\ currentStatus' = currentStatus \/ \E n \in 0..MaxHead : UpdateStatus(n)
           /\ currentBlock' = currentBlock \/ EventsProcessed
<1>1. CASE UNCHANGED vars BY <1>1 DEF vars, queueVars
<1>2. CASE NewBlock \/ Reorg \/ RelayMessage \/ Disconnect
  BY <1>2 DEF NewBlock, Reorg, RelayMessage, Disconnect, queueVars
<1>3. CASE ProcessAMBMessage \/ RejectAMBMessage
  BY <1>3 DEF ProcessAMBMessage, RejectAMBMessage, queueVars
<1>4. CASE \E n \in 0..MaxHead : UpdateStatus(n) BY <1>4 DEF UpdateStatus, queueVars
<1>5. CASE GetStartingBlock \/ BeginScan \/ QueryLogs \/ HandleInterfaceEvent \/ EventsProcessed
  BY <1>5 DEF GetStartingBlock, BeginScan, ScanNewBlocks, QueryLogs, HandleInterfaceEvent,
              EventsProcessed, ResumeAt, queueVars
<1>6. CASE VerifySwap \/ SaveSwap \/ LeaveEarlySwap \/ SwapsProcessed
  BY <1>6 DEF VerifySwap, CheckSwap, SaveSwap, LeaveEarlySwap, SwapsProcessed, queueVars
<1> QED BY <1>1, <1>2, <1>3, <1>4, <1>5, <1>6 DEF Next, Loop

LEMMA NextHeights == ASSUME Shape, Heights, [Next]_vars PROVE Heights'
<1>1. head \in Nat /\ head' \in Nat /\ head <= head' /\ BlockDelay \in Nat
    BY HeadGrows, ListenerAssumption
<1>2. /\ currentStatus \in Int /\ currentBlock \in Int
      /\ fromBlock \in Nat /\ fromBlock \in Int /\ toBlock \in Nat /\ toBlock \in Int
  <2>1. MaxHead \in Nat BY ListenerAssumption
  <2>2. /\ currentStatus \in {NoStatus} \cup 0..MaxHead
        /\ currentBlock \in {NoStatus} \cup 0..MaxHead
        /\ startBlock \in Nat /\ fromBlock \in Nat /\ toBlock \in 0..MaxHead
        BY DEF Shape, TypeOK, ScanTypes, QueueTypes
  <2> QED BY <2>1, <2>2 DEF NoStatus
<1>3. StatusFinal'
  <2>1. CASE currentStatus' = currentStatus
    <3>1. currentStatus >= 1 => currentStatus <= head - BlockDelay BY DEF Heights, StatusFinal
    <3>2. currentStatus >= 1 => currentStatus <= head' - BlockDelay
          BY <1>1, <1>2, <3>1, DeeperIsFinal
    <3> QED BY <2>1, <3>2 DEF StatusFinal
  <2>2. CASE \E n \in 0..MaxHead : UpdateStatus(n)
    <3>1. PICK n \in 0..MaxHead : UpdateStatus(n) BY <2>2
    <3>2. currentStatus' = n /\ n <= Larger(0, head - BlockDelay) /\ n \in Int
          BY <3>1 DEF UpdateStatus
    <3>3. n >= 1 => n <= head - BlockDelay BY <1>1, <3>2 DEF Larger
    <3>4. head' = head BY <3>1 DEF UpdateStatus, chainVars
    <3> QED BY <3>2, <3>3, <3>4 DEF StatusFinal
  <2> QED BY <2>1, <2>2, StatusSteps
<1>4. CurrentBlockFinal'
  <2>1. CASE currentBlock' = currentBlock
    <3>1. currentBlock >= 1 => currentBlock <= head - BlockDelay
          BY DEF Heights, CurrentBlockFinal
    <3>2. currentBlock >= 1 => currentBlock <= head' - BlockDelay
          BY <1>1, <1>2, <3>1, DeeperIsFinal
    <3> QED BY <2>1, <3>2 DEF CurrentBlockFinal
  <2>2. CASE EventsProcessed
    <3>1. currentBlock' = currentStatus /\ head' = head
          BY <2>2 DEF EventsProcessed, ResumeAt, chainVars
    <3> QED BY <3>1 DEF Heights, StatusFinal, CurrentBlockFinal
  <2> QED BY <2>1, <2>2, StatusSteps
<1>5. ScanFinal' /\ ScannedFinal'
  <2>1. CASE GetStartingBlock
    <3>1. pc' \in {"idle", "exited"} BY <2>1 DEF GetStartingBlock, StartAt, Exit
    <3>2. fromBlock' = startBlock' \/ UNCHANGED <<fromBlock, startBlock, head>>
          BY <2>1 DEF GetStartingBlock, StartAt, chainVars
    <3>3. ScannedFinal' BY <3>2 DEF Heights, ScannedFinal
    <3> QED BY <3>1, <3>3 DEF ScanFinal
  <2>2. CASE BeginScan
    <3>1. /\ UNCHANGED <<fromBlock, startBlock, head>>
          /\ currentStatus # 0 /\ fromBlock <= currentStatus
          /\ toBlock' = Smaller(currentStatus, fromBlock + MaxBlocks)
          BY <2>2 DEF BeginScan, ScanNewBlocks, chainVars
    <3>2. MaxBlocks \in Nat BY ListenerAssumption
    <3>3. currentStatus >= 1 BY <1>2, <3>1
    <3>4. currentStatus <= head - BlockDelay BY <3>3 DEF Heights, StatusFinal
    <3>5. toBlock' <= head - BlockDelay BY <1>1, <1>2, <3>1, <3>2, <3>4 DEF Smaller
    <3> QED BY <3>1, <3>5 DEF Heights, ScanFinal, ScannedFinal
  <2>3. CASE QueryLogs
    <3>1. pc = "query" /\ UNCHANGED <<fromBlock, startBlock, toBlock, head>>
          BY <2>3 DEF QueryLogs, chainVars
    <3> QED BY <3>1 DEF Heights, ScanFinal, ScannedFinal
  <2>4. CASE HandleInterfaceEvent
    <3>1. pc = "logs" /\ UNCHANGED <<fromBlock, startBlock, toBlock, head>>
          BY <2>4 DEF HandleInterfaceEvent, chainVars
    <3> QED BY <3>1 DEF Heights, ScanFinal, ScannedFinal
  <2>5. CASE EventsProcessed
    <3>1. pc = "logs" /\ pc' = "swaps" /\ fromBlock' = toBlock + 1 /\ head' = head
          BY <2>5 DEF EventsProcessed, ResumeAt, chainVars
    <3>2. toBlock <= head - BlockDelay BY <3>1 DEF Heights, ScanFinal
    <3>3. fromBlock' <= head' - BlockDelay + 1 BY <1>1, <1>2, <3>1, <3>2
    <3> QED BY <3>1, <3>3 DEF ScanFinal, ScannedFinal
  <2>6. CASE /\ UNCHANGED <<scanVars, eventVars>>
             /\ \/ pc' = pc \/ pc' = "exited"
                \/ pc \in {"swaps", "save"} /\ pc' \in {"idle", "swaps", "save"}
    <3>1. UNCHANGED <<fromBlock, startBlock, toBlock>> BY <2>6 DEF scanVars
    <3>2. pc' \in {"query", "logs"} => pc \in {"query", "logs"} BY <2>6
    <3>3. toBlock <= head - BlockDelay => toBlock <= head' - BlockDelay
          BY <1>1, <1>2, DeeperIsFinal
    <3>4. ScanFinal' BY <3>1, <3>2, <3>3 DEF Heights, ScanFinal
    <3>5. fromBlock <= head - BlockDelay + 1 => fromBlock <= head' - BlockDelay + 1
          BY <1>1, <1>2, DeeperIsFinal
    <3>6. ScannedFinal' BY <3>1, <3>5 DEF Heights, ScannedFinal
    <3> QED BY <3>4, <3>6
  <2> QED BY <2>1, <2>2, <2>3, <2>4, <2>5, <2>6, ScanSteps
<1> QED BY <1>3, <1>4, <1>5 DEF Heights

-----------------------------------------------------------------------------
(* What the worker knows of the chain.                                     *)

CacheTrue == \A entry \in Range(blocksCache) : OnChain(entry.block, entry.fork)

LogsTrue == pc = "logs" => \A n \in DOMAIN logs : Final(n) /\ logs[n] = chain[n]

SavedTrue == \A event \in Range(saved) : OnChain(event.block, event.fork)

\* getBlock of a final block answers with that block, as the node has it and the cache is true.
LEMMA GetFinalBlock ==
    ASSUME DelaySuffices, Shape, CacheTrue, NEW n, Final(n), NEW f, GetBlock(n, f)
    PROVE  /\ f = chain[n].fork
           /\ \A entry \in Range(blocksCache') :
                 \/ entry \in Range(blocksCache)
                 \/ entry = [block |-> n, fork |-> f]
<1> DEFINE cached == {entry \in Range(blocksCache) : entry.block = n}
           new == [block |-> n, fork |-> f]
<1>1. /\ head \in 0..MaxHead /\ chain \in [0..head -> [fork : 0..MaxReorgs, log : Logs]]
      /\ blocksCache \in Seq(Event) /\ Len(blocksCache) \in Nat
    BY LenProperties DEF Shape, TypeOK, ChainTypes, ScanTypes
<1>2. /\ MaxLag \in Nat /\ BlockDelay \in Nat /\ MaxLag <= BlockDelay /\ MaxHead \in Nat
      /\ CacheSize \in Nat \ {0}
    BY ListenerAssumption DEF DelaySuffices
<1>3. n \in Nat /\ n <= head - BlockDelay BY <1>1, <1>2 DEF Final
<1>4. CASE /\ \E entry \in cached : f = entry.fork
           /\ UNCHANGED blocksCache
  BY <1>4 DEF CacheTrue, OnChain
<1>5. CASE \E lag \in 0..MaxLag : n <= head - lag /\ f = chain[n].fork /\ CacheBlock(n, f)
  <2>1. f = chain[n].fork /\ CacheBlock(n, f) BY <1>5
  <2>2. n \in 0..head /\ n \in 0..MaxHead BY <1>1, <1>2, <1>3
  <2>3. new \in Event BY <1>1, <2>1, <2>2 DEF Event
  <2>4. PICK kept : /\ kept \in Seq(Event) /\ Range(kept) \subseteq Range(blocksCache)
                    /\ blocksCache' = Append(kept, new)
    <3>1. CASE Len(blocksCache) < CacheSize BY <1>1, <2>1, <3>1 DEF CacheBlock
    <3>2. CASE ~(Len(blocksCache) < CacheSize)
      <4>1. Len(blocksCache) > 0 BY <1>1, <1>2, <3>2
      <4>2. blocksCache # <<>> BY <4>1
      <4>3. /\ Tail(blocksCache) \in Seq(Event)
            /\ Range(Tail(blocksCache)) \subseteq Range(blocksCache)
            BY <1>1, <4>2, TailFacts
      <4> QED BY <2>1, <3>2, <4>3 DEF CacheBlock
    <3> QED BY <3>1, <3>2
  <2>5. Range(blocksCache') = Range(kept) \cup {new} BY <2>3, <2>4, AppendFacts
  <2> QED BY <2>1, <2>4, <2>5
<1>6. CASE \E lag \in 0..MaxLag : n > head - lag /\ f = NoBlock /\ UNCHANGED blocksCache
  BY <1>1, <1>2, <1>3, <1>6
<1> QED BY <1>4, <1>5, <1>6 DEF GetBlock

\* Only the handlers of events and of swaps look up blocks.
LEMMA CacheSteps ==
    ASSUME [Next]_vars
    PROVE  HandleInterfaceEvent \/ VerifySwap \/ UNCHANGED blocksCache
<1>1. CASE UNCHANGED vars BY <1>1 DEF vars
<1>2. CASE NewBlock \/ Reorg \/ RelayMessage \/ Disconnect
  BY <1>2 DEF NewBlock, Reorg, RelayMessage, Disconnect
<1>3. CASE ProcessAMBMessage \/ RejectAMBMessage
  BY <1>3 DEF ProcessAMBMessage, RejectAMBMessage
<1>4. CASE \E n \in 0..MaxHead : UpdateStatus(n) BY <1>4 DEF UpdateStatus
<1>5. CASE GetStartingBlock \/ BeginScan \/ QueryLogs \/ EventsProcessed
  BY <1>5 DEF GetStartingBlock, BeginScan, ScanNewBlocks, QueryLogs, EventsProcessed, ResumeAt
<1>6. CASE SaveSwap \/ LeaveEarlySwap \/ SwapsProcessed
  BY <1>6 DEF SaveSwap, LeaveEarlySwap, SwapsProcessed
<1> QED BY <1>1, <1>2, <1>3, <1>4, <1>5, <1>6 DEF Next, Loop

\* The blocks that are looked up are final.
LEMMA LookedUpIsFinal ==
    ASSUME Shape, Heights
    PROVE  /\ HandleInterfaceEvent => Final(at)
           /\ VerifySwap => Final(messages[NextSwap].block)
<1>1. head \in Int /\ BlockDelay \in Nat
    BY ListenerAssumption DEF Shape, TypeOK, ChainTypes
<1>2. ASSUME HandleInterfaceEvent PROVE Final(at)
  <2>1. pc = "logs" /\ at <= toBlock BY <1>2 DEF HandleInterfaceEvent
  <2>2. at \in Nat /\ toBlock \in Int BY DEF Shape, TypeOK, ScanTypes
  <2>3. toBlock <= head - BlockDelay BY <2>1 DEF Heights, ScanFinal
  <2>4. at \in Int /\ at <= head - BlockDelay /\ at >= 0 BY <1>1, <2>1, <2>2, <2>3
  <2> QED BY <1>1, <2>4 DEF Final
<1>3. ASSUME VerifySwap PROVE Final(messages[NextSwap].block)
  <2> DEFINE b == messages[NextSwap].block
  <2>1. i <= Len(swapQueue) /\ b <= currentBlock BY <1>3 DEF VerifySwap, HasSwap
  <2>2. b \in 1..MaxHead BY <2>1, NextSwapTypes DEF Shape
  <2>3. currentBlock \in Int BY DEF Shape, TypeOK, QueueTypes, NoStatus
  <2> HIDE DEF b
  <2>4. MaxHead \in Nat BY ListenerAssumption
  <2>5. currentBlock >= 1 BY <2>1, <2>2, <2>3, <2>4
  <2>6. currentBlock <= head - BlockDelay BY <2>5 DEF Heights, CurrentBlockFinal
  <2>7. b \in Int /\ b <= head - BlockDelay /\ b >= 0
        BY <1>1, <2>1, <2>2, <2>3, <2>4, <2>6
  <2>8. b \in 0..(head - BlockDelay) BY <1>1, <2>7
  <2> QED BY <2>8 DEF Final, b
<1> QED BY <1>2, <1>3

LEMMA NextCacheTrue ==
    ASSUME DelaySuffices, Shape, Heights, CacheTrue, [Next]_vars PROVE CacheTrue'
<1>1. \A entry \in Range(blocksCache) : OnChain(entry.block, entry.fork)'
    BY OnChainStays DEF CacheTrue
<1>2. ASSUME NEW n, Final(n), NEW f, GetBlock(n, f) PROVE CacheTrue'
  <2>1. /\ f = chain[n].fork
        /\ \A entry \in Range(blocksCache') :
              entry \in Range(blocksCache) \/ entry = [block |-> n, fork |-> f]
        BY <1>2, GetFinalBlock
  <2>2. OnChain(n, f)' BY <1>2, <2>1, OnChainStays DEF OnChain
  <2> QED BY <1>1, <2>1, <2>2 DEF CacheTrue
<1>3. CASE HandleInterfaceEvent
  <2>1. UNCHANGED blocksCache \/ \E f \in BlockAnswers : GetBlock(at, f)
        BY <1>3, HandleInterfaceEventEffect
  <2>2. CASE UNCHANGED blocksCache BY <1>1, <2>2 DEF CacheTrue
  <2>3. CASE \E f \in BlockAnswers : GetBlock(at, f)
    <3>1. PICK n : n = at OBVIOUS
    <3> QED BY <1>2, <1>3, <2>3, <3>1, LookedUpIsFinal
  <2> QED BY <2>1, <2>2, <2>3
<1>4. CASE VerifySwap
  <2>1. \E f \in BlockAnswers : GetBlock(messages[NextSwap].block, f)
        BY <1>4 DEF VerifySwap, CheckSwap
  <2> QED BY <1>2, <1>4, <2>1, LookedUpIsFinal
<1>5. CASE UNCHANGED blocksCache BY <1>1, <1>5 DEF CacheTrue
<1> QED BY <1>3, <1>4, <1>5, CacheSteps

\* A scan of final blocks sees them all, as they are.
LEMMA QueryLogsTrue ==
    ASSUME DelaySuffices, Shape, Heights, QueryLogs PROVE LogsTrue'
<1>1. /\ head \in Nat /\ MaxLag \in Nat /\ BlockDelay \in Nat /\ MaxLag <= BlockDelay
      /\ fromBlock \in Nat /\ toBlock \in Nat
    BY ListenerAssumption DEF DelaySuffices, Shape, TypeOK, ChainTypes, ScanTypes
<1>2. PICK lag \in 0..MaxLag :
         logs' = [n \in fromBlock..toBlock |->
                     IF n <= head - lag THEN chain[n] ELSE Block(NoBlock, "none")]
    BY DEF QueryLogs
<1>3. pc = "query" /\ UNCHANGED <<head, chain>> BY DEF QueryLogs, chainVars
<1>4. toBlock <= head - BlockDelay BY <1>3 DEF Heights, ScanFinal
<1>5. ASSUME NEW n \in fromBlock..toBlock PROVE Final(n) /\ logs'[n] = chain[n]
  <2>1. n <= head - lag /\ n <= head - BlockDelay /\ n >= 0 /\ n \in Int
        BY <1>1, <1>2, <1>4, <1>5
  <2>2. Final(n) BY <1>1, <2>1 DEF Final
  <2> QED BY <1>2, <1>5, <2>1, <2>2
<1>6. DOMAIN logs' = fromBlock..toBlock BY <1>2
<1> QED BY <1>3, <1>5, <1>6 DEF LogsTrue, Final

LEMMA NextLogsTrue ==
    ASSUME DelaySuffices, Shape, Heights, LogsTrue, [Next]_vars PROVE LogsTrue'
<1>1. CASE QueryLogs BY <1>1, QueryLogsTrue
<1>2. CASE pc' # "logs" BY <1>2 DEF LogsTrue
<1>3. CASE pc = "logs" /\ logs' = logs BY <1>3, FinalStays DEF LogsTrue
<1>4. CASE HandleInterfaceEvent
  <2>1. pc = "logs" /\ logs' = logs BY <1>4 DEF HandleInterfaceEvent
  <2> QED BY <2>1, <1>3
<1>5. CASE GetStartingBlock \/ BeginScan \/ EventsProcessed
  <2>1. pc' # "logs"
        BY <1>5 DEF GetStartingBlock, StartAt, Exit, BeginScan, ScanNewBlocks, EventsProcessed,
                    ResumeAt
  <2> QED BY <2>1, <1>2
<1>6. CASE /\ UNCHANGED <<scanVars, eventVars>>
           /\ \/ pc' = pc \/ pc' = "exited"
              \/ pc \in {"swaps", "save"} /\ pc' \in {"idle", "swaps", "save"}
  <2>1. logs' = logs BY <1>6 DEF scanVars
  <2>2. pc' = "logs" => pc = "logs" BY <1>6
  <2> QED BY <2>1, <2>2, <1>2, <1>3
<1> QED BY <1>1, <1>4, <1>5, <1>6, ScanSteps

-----------------------------------------------------------------------------
(* The events.                                                             *)

LEMMA EventOfBlock ==
    ASSUME Shape, Heights, HandleInterfaceEvent
    PROVE  at \in 0..head /\ [block |-> at, fork |-> chain[at].fork] \in Event
<1>1. /\ head \in 0..MaxHead /\ MaxHead \in Nat /\ BlockDelay \in Nat
      /\ chain \in [0..head -> [fork : 0..MaxReorgs, log : Logs]]
    BY ListenerAssumption DEF Shape, TypeOK, ChainTypes
<1>2. Final(at) BY LookedUpIsFinal
<1>3. at \in 0..head /\ at \in 0..MaxHead BY <1>1, <1>2 DEF Final
<1>4. chain[at].fork \in 0..MaxReorgs BY <1>1, <1>3
<1> QED BY <1>3, <1>4 DEF Event

\* handleInterfaceEvent sees the block as it is, and does not drop its event for want of a
\* timestamp.
LEMMA EventHandled ==
    ASSUME DelaySuffices, Shape, Heights, CacheTrue, LogsTrue, HandleInterfaceEvent
    PROVE  LET event == [block |-> at, fork |-> chain[at].fork] IN
           /\ OnChain(at, chain[at].fork)
           /\ \/ chain[at].log = "none" /\ UNCHANGED <<saved, failed>>
              \/ saved' = Append(saved, event) /\ failed' = failed
              \/ saved' = saved /\ failed' = failed \cup {event}
<1>1. pc = "logs" /\ at <= toBlock BY DEF HandleInterfaceEvent
<1>2. /\ at \in Nat /\ at \in fromBlock..(toBlock + 1) /\ DOMAIN logs = fromBlock..toBlock
      /\ fromBlock \in Nat /\ toBlock \in Nat
    BY <1>1, ListenerAssumption DEF Shape, LogsShape, TypeOK, ScanTypes
<1>3. at \in DOMAIN logs BY <1>1, <1>2
<1>4. Final(at) /\ logs[at] = chain[at] BY <1>1, <1>3 DEF LogsTrue
<1>5. at \in 0..head BY EventOfBlock
<1>6. chain[at].fork # NoBlock
  <2>1. chain[at].fork \in 0..MaxReorgs BY <1>5 DEF Shape, TypeOK, ChainTypes
  <2>2. MaxReorgs \in Nat BY ListenerAssumption
  <2> QED BY <2>1, <2>2 DEF NoBlock
<1> DEFINE event == [block |-> at, fork |-> chain[at].fork]
<1>7. ASSUME SaveEvent(event)
      PROVE  \/ saved' = Append(saved, event) /\ failed' = failed
             \/ saved' = saved /\ failed' = failed \cup {event}
    BY <1>7 DEF SaveEvent
<1>8. \A f : GetBlock(at, f) => f # NoBlock BY <1>4, <1>6, GetFinalBlock
<1>9. \/ chain[at].log = "none" /\ UNCHANGED <<saved, failed>>
      \/ SaveEvent(event)
  <2> HIDE DEF event
  <2>1. event = [block |-> at, fork |-> logs[at].fork] BY <1>4 DEF event
  <2> QED BY <1>4, <1>8, <2>1 DEF HandleInterfaceEvent, eventVars
<1> QED BY <1>4, <1>7, <1>9 DEF OnChain

LEMMA NextSavedTrue ==
    ASSUME DelaySuffices, Shape, Heights, CacheTrue, LogsTrue, SavedTrue, [Next]_vars
    PROVE  SavedTrue'
<1>1. \A event \in Range(saved) : OnChain(event.block, event.fork)'
    BY OnChainStays DEF SavedTrue
<1>2. CASE saved' = saved BY <1>1, <1>2 DEF SavedTrue
<1>3. CASE HandleInterfaceEvent
  <2> DEFINE event == [block |-> at, fork |-> chain[at].fork]
  <2>1. PICK new : new = event OBVIOUS
  <2>2. OnChain(new.block, new.fork) /\ (saved' = saved \/ saved' = Append(saved, new))
        BY <1>3, <2>1, EventHandled
  <2>3. OnChain(new.block, new.fork)' BY <2>2, OnChainStays
  <2>4. CASE saved' = Append(saved, new)
    <3>1. saved \in Seq(Event) BY DEF Shape, TypeOK, OutcomeTypes
    <3>2. new \in Event BY <1>3, <2>1, EventOfBlock
    <3>3. Range(saved') = Range(saved) \cup {new} BY <2>4, <3>1, <3>2, AppendFacts
    <3> QED BY <1>1, <2>3, <3>3 DEF SavedTrue
  <2> QED BY <1>2, <2>2, <2>4
<1>4. CASE GetStartingBlock \/ BeginScan \/ QueryLogs \/ EventsProcessed
  <2>1. saved' = saved
        BY <1>4 DEF GetStartingBlock, BeginScan, ScanNewBlocks, QueryLogs, EventsProcessed,
                    ResumeAt, eventVars
  <2> QED BY <1>2, <2>1
<1>5. CASE UNCHANGED <<scanVars, eventVars>>
  <2>1. saved' = saved BY <1>5 DEF eventVars
  <2> QED BY <1>2, <2>1
<1> QED BY <1>3, <1>4, <1>5, ScanSteps

\* The block up to which events were handled.
Behind == IF pc = "logs" THEN at ELSE fromBlock

AllSaved ==
    \A n \in Nat :
        startBlock <= n /\ n < Behind /\ chain[n].log # "none"
            => [block |-> n, fork |-> chain[n].fork] \in Range(saved) \cup failed

LEMMA BehindTypes ==
    ASSUME Shape
    PROVE  /\ startBlock \in Nat /\ fromBlock \in Nat /\ toBlock \in Nat /\ Behind \in Nat
           /\ fromBlock <= Behind
           /\ pc = "logs" => at \in Nat /\ at <= toBlock + 1
<1>1. /\ startBlock \in Nat /\ fromBlock \in Nat /\ toBlock \in Nat /\ at \in Nat
    BY ListenerAssumption DEF Shape, TypeOK, ScanTypes
<1>2. pc = "logs" => at \in fromBlock..(toBlock + 1) BY DEF Shape, LogsShape
<1> QED BY <1>1, <1>2 DEF Behind

\* What was scanned is final.
LEMMA ScannedIsFinal ==
    ASSUME Shape, Heights, NEW n \in Nat, startBlock <= n, n < Behind PROVE Final(n)
<1>1. head \in Nat /\ BlockDelay \in Nat
    BY ListenerAssumption DEF Shape, TypeOK, ChainTypes
<1>2. n \in Int /\ n >= 0 OBVIOUS
<1>3. CASE pc = "logs"
  <2>1. toBlock <= head - BlockDelay BY <1>3 DEF Heights, ScanFinal
  <2>2. n < at BY <1>3 DEF Behind
  <2>3. n <= head - BlockDelay BY <1>1, <1>3, <2>1, <2>2, BehindTypes
  <2> QED BY <1>1, <2>3 DEF Final
<1>4. CASE pc # "logs"
  <2>1. n < fromBlock BY <1>4 DEF Behind
  <2>2. fromBlock # startBlock BY <2>1, BehindTypes
  <2>3. fromBlock <= head - BlockDelay + 1 BY <2>2 DEF Heights, ScannedFinal
  <2>4. n <= head - BlockDelay BY <1>1, <2>1, <2>3, BehindTypes
  <2> QED BY <1>1, <2>4 DEF Final
<1> QED BY <1>3, <1>4

LEMMA AllSavedKept ==
    ASSUME DelaySuffices, Shape, Heights, AllSaved, [Next]_vars,
           startBlock' = startBlock, Behind' \in Nat, Behind' <= Behind,
           Range(saved) \subseteq Range(saved'), failed \subseteq failed'
    PROVE  AllSaved'
<1>1. ASSUME NEW n \in Nat, startBlock' <= n, n < Behind', chain'[n].log # "none"
      PROVE  [block |-> n, fork |-> chain'[n].fork] \in Range(saved') \cup failed'
  <2>1. startBlock <= n /\ n < Behind BY <1>1, BehindTypes
  <2>2. chain'[n] = chain[n] BY <2>1, ScannedIsFinal, FinalStays
  <2>3. [block |-> n, fork |-> chain[n].fork] \in Range(saved) \cup failed
        BY <1>1, <2>1, <2>2 DEF AllSaved
  <2> QED BY <2>2, <2>3
<1> QED BY <1>1 DEF AllSaved

LEMMA NextAllSaved ==
    ASSUME DelaySuffices, Shape, Heights, CacheTrue, LogsTrue, AllSaved, [Next]_vars
    PROVE  AllSaved'
<1>1. startBlock' = startBlock /\ Behind' = Behind /\ UNCHANGED <<saved, failed>> => AllSaved'
    BY AllSavedKept, BehindTypes
<1>2. CASE GetStartingBlock
  <2>1. /\ pc = "start" /\ pc' \in {"idle", "exited"}
        /\ UNCHANGED <<saved, failed>>
        /\ startBlock' = fromBlock' \/ UNCHANGED <<startBlock, fromBlock>>
        BY <1>2 DEF GetStartingBlock, StartAt, Exit, eventVars
  <2>2. CASE UNCHANGED <<startBlock, fromBlock>> BY <1>1, <2>1, <2>2 DEF Behind
  <2>3. CASE startBlock' = fromBlock'
    <3>1. Shape' BY NextShape
    <3>2. fromBlock' \in Nat BY <3>1, ListenerAssumption DEF Shape, TypeOK, ScanTypes
    <3>3. \A n \in Nat : ~(startBlock' <= n /\ n < Behind') BY <2>1, <2>3, <3>2 DEF Behind
    <3> QED BY <3>3 DEF AllSaved
  <2> QED BY <2>1, <2>2, <2>3
<1>3. CASE BeginScan
  <2>1. pc = "idle" /\ pc' = "query" /\ UNCHANGED <<startBlock, fromBlock, saved, failed>>
        BY <1>3 DEF BeginScan, ScanNewBlocks, eventVars
  <2> QED BY <1>1, <2>1 DEF Behind
<1>4. CASE QueryLogs
  <2>1. /\ pc = "query" /\ pc' = "logs" /\ at' = fromBlock
        /\ UNCHANGED <<startBlock, saved, failed>>
        BY <1>4 DEF QueryLogs, eventVars
  <2> QED BY <1>1, <2>1 DEF Behind
<1>5. CASE EventsProcessed
  <2>1. /\ pc = "logs" /\ pc' = "swaps" /\ fromBlock' = toBlock + 1 /\ at > toBlock
        /\ UNCHANGED <<startBlock, saved, failed>>
        BY <1>5 DEF EventsProcessed, ResumeAt, eventVars
  <2>2. at = toBlock + 1 BY <2>1, BehindTypes
  <2> QED BY <1>1, <2>1, <2>2 DEF Behind
<1>6. CASE HandleInterfaceEvent
  <2> DEFINE event == [block |-> at, fork |-> chain[at].fork]
  <2>1. pc = "logs" /\ pc' = "logs" /\ at' = at + 1 /\ startBlock' = startBlock
        BY <1>6 DEF HandleInterfaceEvent
  <2>2. /\ at \in 0..head /\ event \in Event /\ at \in Nat
        BY <1>6, <2>1, EventOfBlock, BehindTypes
  <2>3. saved \in Seq(Event) BY DEF Shape, TypeOK, OutcomeTypes
  <2>4. Range(Append(saved, event)) = Range(saved) \cup {event} BY <2>2, <2>3, AppendFacts
  <2>5. /\ Range(saved) \subseteq Range(saved') /\ failed \subseteq failed'
        /\ chain[at].log # "none" => event \in Range(saved') \cup failed'
        BY <1>6, <2>4, EventHandled
  <2>6. ASSUME NEW n \in Nat, startBlock' <= n, n < Behind', chain'[n].log # "none"
        PROVE  [block |-> n, fork |-> chain'[n].fork] \in Range(saved') \cup failed'
    <3>1. n < at + 1 BY <2>1, <2>6 DEF Behind
    <3>2. n < at \/ n = at BY <2>2, <3>1
    <3>3. chain' = chain BY <1>6 DEF HandleInterfaceEvent, chainVars
    <3>4. CASE n < at
      <4>1. n < Behind /\ startBlock <= n BY <2>1, <2>6, <3>4 DEF Behind
      <4>2. [block |-> n, fork |-> chain[n].fork] \in Range(saved) \cup failed
            BY <2>6, <3>3, <4>1 DEF AllSaved
      <4> QED BY <2>5, <3>3, <4>2
    <3>5. CASE n = at BY <2>5, <2>6, <3>3, <3>5
    <3> QED BY <3>2, <3>4, <3>5
  <2> QED BY <2>6 DEF AllSaved
<1>7. CASE /\ UNCHANGED <<scanVars, eventVars>>
           /\ \/ pc' = pc \/ pc' = "exited"
              \/ pc \in {"swaps", "save"} /\ pc' \in {"idle", "swaps", "save"}
  <2>1. UNCHANGED <<startBlock, fromBlock, at, saved, failed>>
        BY <1>7 DEF scanVars, eventVars
  <2>2. Behind' = Behind \/ Behind' = fromBlock BY <1>7, <2>1 DEF Behind
  <2>3. CASE Behind' = fromBlock BY <2>1, <2>3, AllSavedKept, BehindTypes
  <2> QED BY <1>1, <2>1, <2>2, <2>3
<1> QED BY <1>2, <1>3, <1>4, <1>5, <1>6, <1>7, ScanSteps

-----------------------------------------------------------------------------
(* The swaps.                                                              *)

\* The block of message m is final, and is the one m names, or another.
Confirmed(m) == OnChain(messages[m].block, messages[m].hash)
Refuted(m) == Final(messages[m].block) /\ chain[messages[m].block].fork # messages[m].hash

VerifiedTrue == pc = "save" => Confirmed(NextSwap)

StoredTrue == \A m \in Messages : stored[m] > 0 => m \in 1..Len(messages) /\ Confirmed(m)

DroppedTrue == \A m \in dropped : Refuted(m)

SwapsTrue == VerifiedTrue /\ StoredTrue /\ DroppedTrue

\* Messages are only added.
LEMMA MessagesStay ==
    ASSUME Shape, [Next]_vars, NEW m \in 1..Len(messages)
    PROVE  m \in 1..Len(messages') /\ messages'[m] = messages[m]
<1>1. RelayMessage \/ messages' = messages
  <2>1. CASE UNCHANGED vars BY <2>1 DEF vars, relayVars
  <2>2. CASE NewBlock \/ Reorg \/ Disconnect
    BY <2>2 DEF NewBlock, Reorg, Disconnect, relayVars
  <2>3. CASE ProcessAMBMessage \/ RejectAMBMessage
    BY <2>3 DEF ProcessAMBMessage, RejectAMBMessage, relayVars
  <2>4. CASE \E n \in 0..MaxHead : UpdateStatus(n) BY <2>4 DEF UpdateStatus, relayVars
  <2>5. CASE GetStartingBlock \/ BeginScan \/ QueryLogs \/ HandleInterfaceEvent
             \/ EventsProcessed
    BY <2>5 DEF GetStartingBlock, BeginScan, ScanNewBlocks, QueryLogs, HandleInterfaceEvent,
                EventsProcessed, ResumeAt, relayVars
  <2>6. CASE VerifySwap \/ SaveSwap \/ LeaveEarlySwap \/ SwapsProcessed
    BY <2>6 DEF VerifySwap, CheckSwap, SaveSwap, LeaveEarlySwap, SwapsProcessed, relayVars
  <2> QED BY <2>1, <2>2, <2>3, <2>4, <2>5, <2>6 DEF Next, Loop
<1>2. CASE RelayMessage
  <2>1. PICK n \in 1..head :
           messages' = Append(messages, [block |-> n, hash |-> chain[n].fork])
        BY <1>2 DEF RelayMessage
  <2> DEFINE S == [block : 1..MaxHead, hash : 0..MaxReorgs]
  <2>2. messages \in Seq(S) BY DEF Shape, TypeOK, RelayTypes
  <2>3. [block |-> n, hash |-> chain[n].fork] \in S
    <3>1. /\ head \in 0..MaxHead /\ MaxHead \in Nat
          /\ chain \in [0..head -> [fork : 0..MaxReorgs, log : Logs]]
          BY ListenerAssumption DEF Shape, TypeOK, ChainTypes
    <3>2. n \in 0..head /\ n \in 1..MaxHead BY <2>1, <3>1
    <3> QED BY <3>1, <3>2
  <2> HIDE DEF S
  <2>4. /\ Len(messages') = Len(messages) + 1 /\ Len(messages) \in Nat
        /\ \A k \in 1..Len(messages) : messages'[k] = messages[k]
        BY <2>1, <2>2, <2>3, AppendFacts
  <2> QED BY <2>4
<1>3. CASE messages' = messages BY <1>3
<1> QED BY <1>1, <1>2, <1>3

LEMMA VerdictsStay ==
    ASSUME DelaySuffices, Shape, [Next]_vars, NEW m \in 1..Len(messages)
    PROVE  (Confirmed(m) => Confirmed(m)') /\ (Refuted(m) => Refuted(m)')
<1>1. messages'[m] = messages[m] BY MessagesStay
<1>2. PICK b : b = messages[m].block OBVIOUS
<1>3. Final(b) => Final(b)' /\ chain'[b] = chain[b] BY FinalStays
<1>4. ASSUME Confirmed(m) PROVE Confirmed(m)'
    BY <1>1, <1>2, <1>3, <1>4 DEF Confirmed, OnChain, Final
<1>5. ASSUME Refuted(m) PROVE Refuted(m)'
    BY <1>1, <1>2, <1>3, <1>5 DEF Refuted, Final
<1> QED BY <1>4, <1>5

\* The steps that decide about a swap, or may take the loop to another.
LEMMA SwapSteps ==
    ASSUME [Next]_vars
    PROVE  \/ VerifySwap \/ SaveSwap \/ ProcessAMBMessage
           \/ /\ UNCHANGED <<stored, dropped>>
              /\ pc' = "save" => pc = "save" /\ UNCHANGED <<swapQueue, i>>
<1>1. CASE UNCHANGED vars BY <1>1 DEF vars, queueVars, swapVars
<1>2. CASE NewBlock \/ Reorg \/ RelayMessage \/ Disconnect
  BY <1>2 DEF NewBlock, Reorg, RelayMessage, Disconnect, queueVars, swapVars
<1>3. CASE RejectAMBMessage BY <1>3 DEF RejectAMBMessage, swapVars
<1>4. CASE \E n \in 0..MaxHead : UpdateStatus(n)
  BY <1>4 DEF UpdateStatus, queueVars, swapVars
<1>5. CASE GetStartingBlock BY <1>5 DEF GetStartingBlock, StartAt, Exit, swapVars
<1>6. CASE BeginScan \/ QueryLogs BY <1>6 DEF BeginScan, ScanNewBlocks, QueryLogs, swapVars
<1>7. CASE HandleInterfaceEvent BY <1>7 DEF HandleInterfaceEvent, queueVars, swapVars
<1>8. CASE EventsProcessed BY <1>8 DEF EventsProcessed, ResumeAt, swapVars
<1>9. CASE LeaveEarlySwap \/ SwapsProcessed
  BY <1>9 DEF LeaveEarlySwap, SwapsProcessed, swapVars
<1> QED BY <1>1, <1>2, <1>3, <1>4, <1>5, <1>6, <1>7, <1>8, <1>9 DEF Next, Loop

\* The verification of a final block finds it as it is.
LEMMA SwapVerified ==
    ASSUME DelaySuffices, Shape, Heights, CacheTrue, VerifySwap
    PROVE  /\ NextSwap \in 1..Len(messages)
           /\ UNCHANGED <<stored, swapQueue, messages, chain, head>>
           /\ \/ Confirmed(NextSwap) /\ pc' = "save" /\ UNCHANGED <<i, dropped>>
              \/ pc' = "swaps" /\ dropped' = dropped
              \/ Refuted(NextSwap) /\ pc' = "swaps" /\ dropped' = dropped \cup {NextSwap}
<1>1. pc = "swaps" /\ i <= Len(swapQueue) BY DEF VerifySwap, HasSwap
<1>2. NextSwap \in 1..Len(messages) BY <1>1, NextSwapTypes DEF Shape
<1>3. UNCHANGED <<stored, swapQueue, messages, chain, head>>
    BY DEF VerifySwap, CheckSwap, relayVars, chainVars
<1>4. PICK f \in BlockAnswers :
         /\ GetBlock(messages[NextSwap].block, f)
         /\ \/ f = messages[NextSwap].hash /\ pc' = "save" /\ UNCHANGED <<i, dropped>>
            \/ UNCHANGED <<pc, dropped>>
            \/ f # messages[NextSwap].hash /\ dropped' = dropped \cup {NextSwap} /\ pc' = pc
    BY DEF VerifySwap, CheckSwap
<1>5. Final(messages[NextSwap].block) BY LookedUpIsFinal
<1>6. f = chain[messages[NextSwap].block].fork BY <1>4, <1>5, GetFinalBlock
<1> QED BY <1>1, <1>2, <1>3, <1>4, <1>5, <1>6 DEF Confirmed, Refuted, OnChain

LEMMA NextSwapsTrue ==
    ASSUME DelaySuffices, Shape, Heights, CacheTrue, SwapsTrue, [Next]_vars
    PROVE  SwapsTrue'
<1>1. /\ dropped \subseteq 1..Len(messages) /\ stored \in [Messages -> 0..2]
      /\ swapQueue \in Seq(1..Len(messages)) /\ Len(swapQueue) \in Nat /\ i \in Nat \ {0}
    BY LenProperties DEF Shape, TypeOK, OutcomeTypes, QueueTypes
<1>2. ASSUME stored' = stored PROVE StoredTrue'
  <2>1. ASSUME NEW m \in Messages, stored[m] > 0
        PROVE  m \in 1..Len(messages') /\ Confirmed(m)'
    <3>1. m \in 1..Len(messages) /\ Confirmed(m) BY <2>1 DEF SwapsTrue, StoredTrue
    <3> QED BY <3>1, MessagesStay, VerdictsStay
  <2> QED BY <1>2, <2>1 DEF StoredTrue
<1>3. ASSUME dropped' = dropped PROVE DroppedTrue'
  <2>1. ASSUME NEW m \in dropped PROVE Refuted(m)'
        BY <1>1, <2>1, VerdictsStay DEF SwapsTrue, DroppedTrue
  <2> QED BY <1>3, <2>1 DEF DroppedTrue
<1>4. ASSUME pc = "save", NextSwap' = NextSwap PROVE VerifiedTrue'
  <2>1. PICK m : m = NextSwap OBVIOUS
  <2>2. m \in 1..Len(messages) /\ Confirmed(m)
        BY <1>4, <2>1, NextSwapTypes DEF Shape, SwapsTrue, VerifiedTrue
  <2>3. Confirmed(m)' BY <2>2, VerdictsStay
  <2> QED BY <1>4, <2>1, <2>3 DEF VerifiedTrue, Confirmed
<1>5. CASE VerifySwap
  <2>1. PICK m : m = NextSwap OBVIOUS
  <2>2. m \in 1..Len(messages) /\ UNCHANGED <<stored, swapQueue>>
        BY <1>5, <2>1, SwapVerified
  <2>3. CASE Confirmed(m) /\ pc' = "save" /\ UNCHANGED <<i, dropped>>
    <3>1. Confirmed(m)' BY <2>2, <2>3, VerdictsStay
    <3>2. NextSwap' = m BY <2>1, <2>2, <2>3 DEF NextSwap
    <3>3. VerifiedTrue' BY <3>1, <3>2 DEF VerifiedTrue, Confirmed
    <3> QED BY <1>2, <1>3, <2>2, <2>3, <3>3 DEF SwapsTrue
  <2>4. CASE pc' = "swaps" /\ dropped' = dropped
    <3>1. VerifiedTrue' BY <2>4 DEF VerifiedTrue
    <3> QED BY <1>2, <1>3, <2>2, <2>4, <3>1 DEF SwapsTrue
  <2>5. CASE Refuted(m) /\ pc' = "swaps" /\ dropped' = dropped \cup {m}
    <3>1. VerifiedTrue' BY <2>5 DEF VerifiedTrue
    <3>2. Refuted(m)' BY <2>2, <2>5, VerdictsStay
    <3>3. \A k \in dropped : Refuted(k)'
          BY <1>1, VerdictsStay DEF SwapsTrue, DroppedTrue
    <3>4. DroppedTrue' BY <2>5, <3>2, <3>3 DEF DroppedTrue
    <3> QED BY <1>2, <2>2, <3>1, <3>4 DEF SwapsTrue
  <2> QED BY <1>5, <2>1, <2>3, <2>4, <2>5, SwapVerified
<1>6. CASE SaveSwap
  <2>1. PICK m : m = NextSwap OBVIOUS
  <2>2. /\ pc = "save" /\ pc' # "save" /\ dropped' = dropped
        /\ \/ stored' = stored
           \/ stored' = [stored EXCEPT ![m] = Smaller(2, @ + 1)]
        BY <1>6, <2>1 DEF SaveSwap, Exit
  <2>3. m \in 1..Len(messages) /\ Confirmed(m)
        BY <2>1, <2>2, NextSwapTypes DEF Shape, SwapsTrue, VerifiedTrue
  <2>4. m \in 1..Len(messages') /\ Confirmed(m)' BY <2>3, MessagesStay, VerdictsStay
  <2>5. ASSUME NEW k \in Messages, stored'[k] > 0
        PROVE  k \in 1..Len(messages') /\ Confirmed(k)'
    <3>1. CASE k = m BY <2>4, <3>1
    <3>2. CASE k # m
      <4>1. stored[k] > 0 BY <1>1, <2>2, <2>5, <3>2
      <4>2. k \in 1..Len(messages) /\ Confirmed(k) BY <4>1 DEF SwapsTrue, StoredTrue
      <4> QED BY <4>2, MessagesStay, VerdictsStay
    <3> QED BY <3>1, <3>2
  <2>6. StoredTrue' BY <2>5 DEF StoredTrue
  <2>7. VerifiedTrue' BY <2>2 DEF VerifiedTrue
  <2> QED BY <1>3, <2>2, <2>6, <2>7 DEF SwapsTrue
<1>7. CASE ProcessAMBMessage
  <2>1. /\ swapQueue' = Append(swapQueue, Head(websocket)) /\ websocket # <<>>
        /\ UNCHANGED <<pc, i, stored, dropped>>
        BY <1>7 DEF ProcessAMBMessage
  <2>2. websocket \in Seq(1..Len(messages)) BY DEF Shape, TypeOK, RelayTypes
  <2>3. Head(websocket) \in 1..Len(messages) BY <2>1, <2>2, TailFacts
  <2>4. \A k \in 1..Len(swapQueue) : swapQueue'[k] = swapQueue[k]
        BY <1>1, <2>1, <2>3, AppendFacts
  <2>5. pc = "save" => NextSwap' = NextSwap
        BY <1>1, <2>1, <2>4 DEF NextSwap, Shape
  <2>6. VerifiedTrue' BY <1>4, <2>1, <2>5 DEF VerifiedTrue
  <2> QED BY <1>2, <1>3, <2>1, <2>6 DEF SwapsTrue
<1>8. CASE /\ UNCHANGED <<stored, dropped>>
           /\ pc' = "save" => pc = "save" /\ UNCHANGED <<swapQueue, i>>
  <2>1. pc' = "save" => NextSwap' = NextSwap BY <1>8 DEF NextSwap
  <2>2. VerifiedTrue' BY <1>4, <1>8, <2>1 DEF VerifiedTrue
  <2> QED BY <1>2, <1>3, <1>8, <2>2 DEF SwapsTrue
<1> QED BY <1>5, <1>6, <1>7, <1>8, SwapSteps

-----------------------------------------------------------------------------
(* The theorems.                                                           *)

Agrees == Heights /\ CacheTrue /\ LogsTrue /\ SavedTrue /\ AllSaved /\ SwapsTrue

LEMMA InitAgrees == Init => Agrees
<1> SUFFICES ASSUME Init PROVE Agrees OBVIOUS
<1>1. Heights
    BY DEF Init, Heights, StatusFinal, CurrentBlockFinal, ScanFinal, ScannedFinal, NoStatus
<1>2. CacheTrue /\ LogsTrue /\ SavedTrue
    BY DEF Init, CacheTrue, LogsTrue, SavedTrue, Range
<1>3. AllSaved BY DEF Init, AllSaved, Behind
<1>4. SwapsTrue
    BY DEF Init, SwapsTrue, VerifiedTrue, StoredTrue, DroppedTrue
<1> QED BY <1>1, <1>2, <1>3, <1>4 DEF Agrees

LEMMA AgreesHolds == ASSUME DelaySuffices PROVE Spec => [](Shape /\ Agrees)
<1>1. Shape /\ Agrees /\ [Next]_vars => Agrees'
    BY NextHeights, NextCacheTrue, NextLogsTrue, NextSavedTrue, NextAllSaved, NextSwapsTrue
    DEF Agrees
<1> QED BY <1>1, InitAgrees, ShapeHolds, PTL DEF Spec

\* What was saved stays true: no event that the worker saved is ever reorganised away.
THEOREM SavedEventsAreFinal == ASSUME DelaySuffices PROVE Spec => []SavedEventsStay
<1>1. Agrees => SavedEventsStay BY DEF Agrees, SavedTrue, SavedEventsStay, OnChain
<1> QED BY <1>1, AgreesHolds, PTL

\* Every event of the blocks behind the scan was saved, or refused by the store.
THEOREM NoEventIsMissed == ASSUME DelaySuffices PROVE Spec => []NoEventMissed
<1>1. ASSUME Shape, Agrees PROVE NoEventMissed
  <2>1. ASSUME NEW n \in DOMAIN chain, startBlock <= n, n < fromBlock, chain[n].log # "none"
        PROVE  [block |-> n, fork |-> chain[n].fork] \in Range(saved) \cup failed
    <3>1. n \in Nat BY <1>1, <2>1 DEF Shape, TypeOK, ChainTypes
    <3>2. n < Behind BY <2>1, <3>1, <1>1, BehindTypes
    <3> QED BY <1>1, <2>1, <3>1, <3>2 DEF Agrees, AllSaved
  <2> QED BY <2>1 DEF NoEventMissed
<1> QED BY <1>1, AgreesHolds, PTL

\* A swap given to the store is on the chain for ever, though its block may have come from the
\* cache.
THEOREM StoredSwapsAreFinal == ASSUME DelaySuffices PROVE Spec => []StoredSwapsStay
<1>1. Agrees => StoredSwapsStay
    BY DEF Agrees, SwapsTrue, StoredTrue, Confirmed, OnChain, StoredSwapsStay
<1> QED BY <1>1, AgreesHolds, PTL

\* A swap that the verification dropped is not on the chain.
THEOREM DroppedSwapsAreGone == ASSUME DelaySuffices PROVE Spec => []DroppedOnlyIfReorged
<1>1. Agrees => DroppedOnlyIfReorged
    BY DEF Agrees, SwapsTrue, DroppedTrue, Refuted, DroppedOnlyIfReorged
<1> QED BY <1>1, AgreesHolds, PTL
=============================================================================
