------------------------------- MODULE Listener -------------------------------
(***************************************************************************)
(* The listener worker of one chain (src/listener/listener.worker.ts): the *)
(* scan of the blocks for underwrite events, the queue of swap messages    *)
(* the relayer sends, and the cache of blocks that both use; with the      *)
(* monitor that tells it how far to go, the node it asks, and a chain that *)
(* reorganises its last blocks.  A step is a stretch of the worker's loop  *)
(* up to the next await.  What is done with a message or an event once it  *)
(* is given to the store is not followed here.                             *)
(***************************************************************************)
EXTENDS Integers, Sequences, Functions

CONSTANTS
    BlockDelay,      \* blockDelay of the monitor
    MaxBlocks,       \* maxBlocks
    StartIsOffset,   \* startingBlock is negative, or not given (an offset of 0) ...
    StartingBlock,   \* ... and this is how many blocks back; otherwise it is the block
    CacheSize,       \* cacheSize of BlockQuerier
    Unrouted,        \* the messages for a chain no channel to is configured
    LogKinds,        \* the events a block may hold, besides "none"
    ReorgDepth,      \* how many of the last blocks a reorganisation replaces at most
    MaxLag,          \* how many blocks the node that answers may be behind the relayer's
    FaultKinds,      \* which faults may happen ...
    MaxFaults,       \* ... and how many in all (bounds of the model, as are the next)
    MaxHead, MaxReorgs, MaxMessages

Messages == 1..MaxMessages

ASSUME ListenerAssumption ==
    /\ BlockDelay \in Nat /\ MaxBlocks \in Nat
    /\ StartIsOffset \in BOOLEAN /\ StartingBlock \in Nat
    /\ CacheSize \in Nat \ {0}
    /\ LogKinds \subseteq {"SwapUnderwritten", "FulfillUnderwrite", "ExpireUnderwrite"}
    /\ ReorgDepth \in Nat /\ MaxLag \in Nat
    /\ FaultKinds \subseteq {"store", "malformed", "disconnect"}
    /\ Unrouted \subseteq Messages
    /\ MaxFaults \in Nat /\ MaxHead \in Nat /\ MaxReorgs \in Nat /\ MaxMessages \in Nat

VARIABLES
    \* the chain and the relayer
    head,           \* the last block
    chain,          \* [0..head -> block]: its fork stands for its hash
    reorgs,         \* how many reorganisations there were
    messages,       \* the AMB messages relayed: block and hash
    websocket,      \* those on their way (indices into messages)
    faults,         \* faults so far
    \* the worker
    pc,
    currentStatus,  \* the monitor status, or NoStatus
    startBlock,     \* what getStartingBlock answered
    fromBlock, toBlock,
    logs,           \* what getLogs returned, by block
    at,             \* the block whose log is handled next
    blocksCache,    \* the cached blocks, oldest first
    swapQueue,      \* catalystSwapMessagesQueue
    i,              \* the index in it ...
    currentBlock,   \* ... and the block number the loop over it compares with
    \* what came of it
    saved,          \* the events saved, in order
    failed,         \* the events dropped because the store failed
    received,       \* the messages put into swapQueue
    stored,         \* how often each message was given to the store: 0, 1, or more (2)
    dropped,        \* those dropped by the verification of the block
    skipped         \* those skipped because no channel is known

chainVars  == <<head, chain, reorgs>>
relayVars  == <<messages, websocket>>
scanVars   == <<startBlock, fromBlock, toBlock, logs, at>>
queueVars  == <<swapQueue, i, currentBlock>>
eventVars  == <<saved, failed>>
swapVars   == <<received, stored, dropped, skipped>>
vars == <<chainVars, relayVars, faults, pc, currentStatus, scanVars, blocksCache, queueVars,
          eventVars, swapVars>>

NoStatus == -1     \* currentStatus is null
NoBlock  == -1     \* getBlock answers null

Block(f, l) == [fork |-> f, log |-> l]
Logs == LogKinds \cup {"none"}
NoLogs == [n \in {} |-> Block(0, "none")]

Smaller(a, b) == IF a < b THEN a ELSE b
Larger(a, b) == IF a < b THEN b ELSE a

Fault(kind) == kind \in FaultKinds /\ faults < MaxFaults /\ faults' = faults + 1

Init ==
    /\ head = 0 /\ chain = [n \in {0} |-> Block(0, "none")] /\ reorgs = 0
    /\ messages = <<>> /\ websocket = <<>> /\ faults = 0
    /\ pc = "start" /\ currentStatus = NoStatus
    /\ startBlock = 0 /\ fromBlock = 0 /\ toBlock = 0 /\ logs = NoLogs /\ at = 0
    /\ blocksCache = <<>>
    /\ swapQueue = <<>> /\ i = 1 /\ currentBlock = 0
    /\ saved = <<>> /\ failed = {}
    /\ received = {} /\ stored = [m \in Messages |-> 0] /\ dropped = {} /\ skipped = {}

-----------------------------------------------------------------------------
(* The chain, the monitor and the relayer.                                 *)

NewBlock ==
    /\ head < MaxHead
    /\ head' = head + 1
    /\ \E l \in Logs :
          chain' = [n \in 0..(head + 1) |-> IF n <= head THEN chain[n] ELSE Block(reorgs, l)]
    /\ UNCHANGED <<reorgs, relayVars, faults, pc, currentStatus, scanVars, blocksCache,
                   queueVars, eventVars, swapVars>>

\* The last d blocks are replaced by as many others.
Reorg ==
    /\ reorgs < MaxReorgs
    /\ reorgs' = reorgs + 1
    /\ \E d \in 1..Smaller(ReorgDepth, head) :
       \E newLogs \in [(head - d + 1)..head -> Logs] :
          chain' = [n \in 0..head |-> IF n <= head - d THEN chain[n]
                                      ELSE Block(reorgs + 1, newLogs[n])]
    /\ UNCHANGED <<head, relayVars, faults, pc, currentStatus, scanVars, blocksCache,
                   queueVars, eventVars, swapVars>>

\* Mutant: the monitor passes the relayer's block number on as it is.
UndelayedStatus(n) ==
    /\ n > currentStatus /\ n <= head
    /\ currentStatus' = n
    /\ UNCHANGED <<chainVars, relayVars, faults, pc, scanVars, blocksCache, queueVars,
                   eventVars, swapVars>>

\* handleMonitorEvent of the monitor and the listener of its port.  The relayer may lag, and
\* block numbers may be missed; those that come are ever higher.
UpdateStatus(n) ==
    /\ n > currentStatus /\ n <= Larger(0, head - BlockDelay)
    /\ currentStatus' = n
    /\ UNCHANGED <<chainVars, relayVars, faults, pc, scanVars, blocksCache, queueVars,
                   eventVars, swapVars>>

\* The relayer has seen a swap message in a block of the chain as it is now.
RelayMessage ==
    /\ Len(messages) < MaxMessages
    /\ \E n \in 1..head :
          messages' = Append(messages, [block |-> n, hash |-> chain[n].fork])
    /\ websocket' = Append(websocket, Len(messages) + 1)
    /\ UNCHANGED <<chainVars, faults, pc, currentStatus, scanVars, blocksCache, queueVars,
                   eventVars, swapVars>>

\* The connection is closed and opened again: nobody repeats what was on its way.
Disconnect ==
    /\ websocket # <<>>
    /\ Fault("disconnect")
    /\ websocket' = <<>>
    /\ UNCHANGED <<chainVars, messages, pc, currentStatus, scanVars, blocksCache, queueVars,
                   eventVars, swapVars>>

-----------------------------------------------------------------------------
(* Messages from the relayer.  Those that are for another chain, no swap,  *)
(* not from a configured endpoint or without a block have no effect and    *)
(* are left out.                                                           *)

ProcessAMBMessage ==
    /\ pc # "exited"
    /\ websocket # <<>>
    /\ swapQueue' = Append(swapQueue, Head(websocket))
    /\ received' = received \cup {Head(websocket)}
    /\ websocket' = Tail(websocket)
    /\ UNCHANGED <<chainVars, messages, faults, pc, currentStatus, scanVars, blocksCache, i,
                   currentBlock, eventVars, stored, dropped, skipped>>

\* A payload that does not parse: the promise of processAMBMessage is rejected, which the
\* `catch` around the call does not see, and an unhandled rejection ends the thread.
RejectAMBMessage ==
    /\ pc # "exited"
    /\ Fault("malformed")
    /\ pc' = "exited"
    /\ UNCHANGED <<chainVars, relayVars, currentStatus, scanVars, blocksCache, queueVars,
                   eventVars, swapVars>>

-----------------------------------------------------------------------------
(* BlockQuerier.                                                           *)

CacheBlock(n, f) ==
    LET kept == IF Len(blocksCache) < CacheSize THEN blocksCache ELSE Tail(blocksCache)
    IN  blocksCache' = Append(kept, [block |-> n, fork |-> f])

\* getBlock(n) answers with the block of fork f, or with NoBlock when the node that is asked
\* does not have it yet.  Failures are retried until there is an answer.
GetBlock(n, f) ==
    LET cached == {entry \in Range(blocksCache) : entry.block = n} IN
    \/ /\ \E entry \in cached : f = entry.fork
       /\ UNCHANGED blocksCache
    \/ /\ cached = {}
       /\ \E lag \in 0..MaxLag :
             \/ n <= head - lag /\ f = chain[n].fork /\ CacheBlock(n, f)
             \/ n > head - lag /\ f = NoBlock /\ UNCHANGED blocksCache

BlockAnswers == {NoBlock} \cup 0..MaxReorgs

-----------------------------------------------------------------------------
(* The scan.                                                               *)

Exit == pc' = "exited"

StartAt(n) ==
    /\ startBlock' = n /\ fromBlock' = n
    /\ pc' = "idle"

GetStartingBlock ==
    /\ pc = "start" /\ currentStatus # NoStatus
    /\ \/ ~StartIsOffset /\ StartAt(StartingBlock)
       \/ StartIsOffset /\ currentStatus >= StartingBlock
                        /\ StartAt(currentStatus - StartingBlock)
       \/ StartIsOffset /\ currentStatus < StartingBlock
                        /\ Exit /\ UNCHANGED <<startBlock, fromBlock>>
    /\ UNCHANGED <<chainVars, relayVars, faults, currentStatus, toBlock, logs, at, blocksCache,
                   queueVars, eventVars, swapVars>>

ScanNewBlocks ==
    /\ toBlock' = Smaller(currentStatus, fromBlock + MaxBlocks)
    /\ pc' = "query"
    /\ UNCHANGED <<chainVars, relayVars, faults, currentStatus, startBlock, fromBlock, logs, at,
                   blocksCache, queueVars, eventVars, swapVars>>

\* Mutant: a single new block is not enough to scan.
BeginLateScan ==
    /\ pc = "idle"
    /\ currentStatus # 0 /\ fromBlock < currentStatus
    /\ ScanNewBlocks

\* `!toBlock` takes a status of 0 for none.
BeginScan ==
    /\ pc = "idle"
    /\ currentStatus # 0 /\ fromBlock <= currentStatus
    /\ ScanNewBlocks

\* queryLogs: failures are retried until there is an answer; a node that is behind leaves out
\* the blocks it does not have.
QueryLogs ==
    /\ pc = "query"
    /\ \E lag \in 0..MaxLag :
          logs' = [n \in fromBlock..toBlock |->
                      IF n <= head - lag THEN chain[n] ELSE Block(NoBlock, "none")]
    /\ at' = fromBlock
    /\ pc' = "logs"
    /\ UNCHANGED <<chainVars, relayVars, faults, currentStatus, startBlock, fromBlock, toBlock,
                   blocksCache, queueVars, eventVars, swapVars>>

\* saveActiveUnderwriteState succeeds, or throws and the event is logged and dropped.
SaveEvent(event) ==
    \/ saved' = Append(saved, event) /\ UNCHANGED <<failed, faults>>
    \/ Fault("store") /\ failed' = failed \cup {event} /\ UNCHANGED saved

\* handleInterfaceEvent: SwapUnderwritten needs the timestamp of the block, and is dropped
\* without it.
HandleInterfaceEvent ==
    /\ pc = "logs"
    /\ at <= toBlock
    /\ LET log == logs[at].log
           event == [block |-> at, fork |-> logs[at].fork]
       IN  \/ /\ log = "none"
              /\ UNCHANGED <<eventVars, faults, blocksCache>>
           \/ /\ log \in {"FulfillUnderwrite", "ExpireUnderwrite"}
              /\ SaveEvent(event)
              /\ UNCHANGED blocksCache
           \/ /\ log = "SwapUnderwritten"
              /\ \E f \in BlockAnswers :
                    /\ GetBlock(at, f)
                    /\ \/ f # NoBlock /\ SaveEvent(event)
                       \/ f = NoBlock /\ UNCHANGED <<eventVars, faults>>
    /\ at' = at + 1
    /\ UNCHANGED <<chainVars, relayVars, pc, currentStatus, startBlock, fromBlock, toBlock, logs,
                   queueVars, swapVars>>

ResumeAt(n) ==
    /\ pc = "logs"
    /\ at > toBlock
    /\ fromBlock' = n
    /\ logs' = NoLogs /\ at' = 0 /\ toBlock' = 0
    /\ currentBlock' = currentStatus /\ i' = 1
    /\ pc' = "swaps"
    /\ UNCHANGED <<chainVars, relayVars, faults, currentStatus, startBlock, blocksCache,
                   swapQueue, eventVars, swapVars>>

\* Mutant: the last block of a scan is the first of the next.
ScanLastBlockAgain == ResumeAt(toBlock)

\* Mutant: the scan goes on behind the monitor's block, not behind the one it reached.
SkipToStatus == ResumeAt(currentStatus + 1)

\* The scan moves on, and processCatalystSwapMessagesQueue starts without an await between.
EventsProcessed == ResumeAt(toBlock + 1)

-----------------------------------------------------------------------------
(* The queue of swap messages.                                             *)

NextSwap == swapQueue[i]
HasSwap == pc = "swaps" /\ i <= Len(swapQueue)

\* processCatalystSwap up to its last await: drop the swap unless the block found is one of
\* the hashes given, and skip it when no channel is known.
CheckSwap(hashes) ==
    /\ \E f \in BlockAnswers :
          /\ GetBlock(messages[NextSwap].block, f)
          /\ \/ /\ f \in hashes /\ NextSwap \notin Unrouted
                /\ pc' = "save"
                /\ UNCHANGED <<i, dropped, skipped>>
             \/ /\ f \in hashes /\ NextSwap \in Unrouted
                /\ skipped' = skipped \cup {NextSwap} /\ i' = i + 1
                /\ UNCHANGED <<pc, dropped>>
             \/ /\ f \notin hashes
                /\ dropped' = dropped \cup {NextSwap} /\ i' = i + 1
                /\ UNCHANGED <<pc, skipped>>
    /\ UNCHANGED <<chainVars, relayVars, faults, currentStatus, scanVars, swapQueue,
                   currentBlock, eventVars, received, stored>>

\* Mutant: the block is looked up, and not compared.
VerifyExistence ==
    /\ HasSwap /\ messages[NextSwap].block <= currentBlock
    /\ CheckSwap(0..MaxReorgs)

\* Mutant: messages are looked at before the monitor has reached their block.
VerifyEarly ==
    /\ HasSwap
    /\ CheckSwap({messages[NextSwap].hash})

VerifySwap ==
    /\ HasSwap /\ messages[NextSwap].block <= currentBlock
    /\ CheckSwap({messages[NextSwap].hash})

\* saveSwapState stores and announces the swap, or throws out of run and ends the thread.
SaveSwap ==
    /\ pc = "save"
    /\ \/ /\ stored' = [stored EXCEPT ![NextSwap] = Smaller(2, @ + 1)]
          /\ i' = i + 1
          /\ pc' = "swaps"
          /\ UNCHANGED faults
       \/ /\ Fault("store")
          /\ Exit
          /\ UNCHANGED <<stored, i>>
    /\ UNCHANGED <<chainVars, relayVars, currentStatus, scanVars, blocksCache, swapQueue,
                   currentBlock, eventVars, received, dropped, skipped>>

\* Mutant: the queue is cut behind the swap that is too early.
CutAtEarlySwap ==
    /\ HasSwap
    /\ messages[NextSwap].block > currentBlock
    /\ swapQueue' = SubSeq(swapQueue, i + 1, Len(swapQueue))
    /\ pc' = "idle"
    /\ UNCHANGED <<chainVars, relayVars, faults, currentStatus, scanVars, blocksCache, i,
                   currentBlock, eventVars, swapVars>>

\* Mutant: a swap of the very block the monitor has reached is too early as well.
LeaveSwapOfThisBlock ==
    /\ HasSwap
    /\ messages[NextSwap].block >= currentBlock
    /\ pc' = "idle"
    /\ UNCHANGED <<chainVars, relayVars, faults, currentStatus, scanVars, blocksCache,
                   queueVars, eventVars, swapVars>>

\* The `return` of the loop: the queue stays as it is.
LeaveEarlySwap ==
    /\ HasSwap
    /\ messages[NextSwap].block > currentBlock
    /\ pc' = "idle"
    /\ UNCHANGED <<chainVars, relayVars, faults, currentStatus, scanVars, blocksCache,
                   queueVars, eventVars, swapVars>>

SwapsProcessed ==
    /\ pc = "swaps"
    /\ i > Len(swapQueue)
    /\ swapQueue' = SubSeq(swapQueue, i, Len(swapQueue))
    /\ pc' = "idle"
    /\ UNCHANGED <<chainVars, relayVars, faults, currentStatus, scanVars, blocksCache, i,
                   currentBlock, eventVars, swapVars>>

-----------------------------------------------------------------------------
Loop ==
    \/ GetStartingBlock \/ BeginScan \/ QueryLogs \/ HandleInterfaceEvent \/ EventsProcessed
    \/ VerifySwap \/ SaveSwap \/ LeaveEarlySwap \/ SwapsProcessed

Next ==
    \/ NewBlock \/ Reorg \/ RelayMessage \/ Disconnect
    \/ \E n \in 0..MaxHead : UpdateStatus(n)
    \/ ProcessAMBMessage \/ RejectAMBMessage
    \/ Loop

Spec == Init /\ [][Next]_vars

\* The loop goes on, as every wait and every retry ends; blocks are produced and the monitor
\* hears of the last of them in the end.
Fairness ==
    /\ WF_vars(Loop)
    /\ WF_vars(NewBlock)
    /\ WF_vars(UpdateStatus(Larger(0, head - BlockDelay)))

FairSpec == Spec /\ Fairness

-----------------------------------------------------------------------------
(* Properties.                                                             *)

Event == [block : 0..MaxHead, fork : 0..MaxReorgs]

ChainTypes ==
    /\ head \in 0..MaxHead /\ reorgs \in 0..MaxReorgs
    /\ chain \in [0..head -> [fork : 0..MaxReorgs, log : Logs]]

RelayTypes ==
    /\ messages \in Seq([block : 1..MaxHead, hash : 0..MaxReorgs])
    /\ Len(messages) <= MaxMessages
    /\ websocket \in Seq(1..Len(messages))

ScanTypes ==
    /\ currentStatus \in {NoStatus} \cup 0..MaxHead
    /\ startBlock \in Nat /\ fromBlock \in Nat /\ toBlock \in 0..MaxHead /\ at \in Nat
    /\ DOMAIN logs \subseteq 0..MaxHead
    /\ \A n \in DOMAIN logs : logs[n] \in [fork : BlockAnswers, log : Logs]
    /\ blocksCache \in Seq(Event) /\ Len(blocksCache) <= CacheSize

QueueTypes ==
    /\ swapQueue \in Seq(1..Len(messages)) /\ i \in Nat \ {0}
    /\ currentBlock \in {NoStatus} \cup 0..MaxHead

OutcomeTypes ==
    /\ saved \in Seq(Event) /\ failed \subseteq Event
    /\ received \subseteq 1..Len(messages) /\ stored \in [Messages -> 0..2]
    /\ dropped \subseteq 1..Len(messages) /\ skipped \subseteq 1..Len(messages)

\* Block numbers are never negative, the cache keeps within its size, and what is sent,
\* queued and decided are messages.
TypeOK ==
    /\ pc \in {"start", "idle", "query", "logs", "swaps", "save", "exited"}
    /\ faults \in 0..MaxFaults
    /\ ChainTypes /\ RelayTypes /\ ScanTypes /\ QueueTypes /\ OutcomeTypes

\* Each event is saved once, and in the order of the chain: the scans of queryAndProcessEvents
\* neither overlap nor go back, whatever the monitor says between them.
EventsSavedInOrder ==
    \A j, k \in DOMAIN saved : j < k => saved[j].block < saved[k].block

\* Every event of the chain, as it is now, in the blocks behind the scan was saved, unless the
\* store refused it: with a blockDelay that covers reorganisations and a slow node, nothing is
\* missed, although a block is asked for only once.
NoEventMissed ==
    \A n \in DOMAIN chain :
        startBlock <= n /\ n < fromBlock /\ chain[n].log # "none"
            => [block |-> n, fork |-> chain[n].fork] \in Range(saved) \cup failed

\* blockDelay is chosen to suit the chain and the nodes: what the three properties below, and
\* NoEventMissed, rest on.
DelaySuffices == ReorgDepth <= BlockDelay /\ MaxLag <= BlockDelay

\* What was saved stays true: config.example.yaml promises that blockDelay prevents
\* "handling blocks that eventually reorg".
SavedEventsStay ==
    \A event \in Range(saved) : chain[event.block].fork = event.fork

\* A swap given to the store is on the chain and stays there, although its hash is compared
\* with a cached block.
StoredSwapsStay ==
    \A m \in Messages :
        stored[m] > 0 => chain[messages[m].block].fork = messages[m].hash

\* A swap is dropped by the verification only if its block is gone: not because the node does
\* not have the block yet, and not because the cache has another.
DroppedOnlyIfReorged ==
    \A m \in dropped : chain[messages[m].block].fork # messages[m].hash

\* While the worker runs, a message it received is in the queue or was dealt with: neither
\* `return` nor `splice` loses one, though messages arrive during the awaits of the loop.
NoMessageLost ==
    pc # "exited" =>
        \A m \in received : m \in Range(swapQueue) \cup dropped \cup skipped \/ stored[m] > 0

LastStatus == Larger(0, MaxHead - BlockDelay)

\* The scan reaches every block the monitor allows, unless the worker has exited.
EveryBlockScanned == <>(fromBlock > LastStatus \/ pc = "exited")

\* Dealt with; or behind a message of a block not reached before the chain of the model ends.
Handled(m) == m \in dropped \cup skipped \/ stored[m] > 0
BehindLateMessage == \E late \in Range(swapQueue) : messages[late].block > LastStatus

\* A swap message in the queue is dealt with once there are new blocks to scan, unless the
\* worker exits.
EveryMessageHandled ==
    \A m \in Messages :
        m \in Range(swapQueue) /\ fromBlock <= LastStatus
            ~> Handled(m) \/ BehindLateMessage \/ pc = "exited"

\* README.md: "For every new swap, the underwriter" acts on it; a swap is announced to it
\* once.
SwapAnnouncedOnce == \A m \in Messages : stored[m] <= 1
=============================================================================
