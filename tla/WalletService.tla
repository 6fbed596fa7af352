---------------------------- MODULE WalletService -----------------------------
(***************************************************************************)
(* How a request reaches the wallet worker of a chain and how its result   *)
(* comes back: the WalletInterface of each client thread, its port to the  *)
(* WalletService, the channel between the service and each wallet worker,  *)
(* and what the service does when a worker exits.  Every channel is FIFO.  *)
(* What a worker does with a request is WalletWorker's business: here it   *)
(* keeps it for a while and answers.                                       *)
(***************************************************************************)
EXTENDS Integers, Sequences, FiniteSets, SequencesExt

CONSTANTS Clients,      \* the ports: one WalletInterface each
          Chains,       \* the chains with a wallet
          MaxRequests,  \* requests the clients make in all (a bound of the model)
          MaxExits      \* how often a worker exits (a bound of the model)

ASSUME ServiceAssumption ==
    /\ MaxRequests \in Nat /\ MaxExits \in Nat

VARIABLES
    made,        \* [Clients -> Seq of requests]: the i-th has messageId i
    listeners,   \* [Clients -> the messageIds whose listener is still on the port]
    results,     \* [Clients -> [messageIds resolved -> how]]
    toService,   \* [Clients -> FIFO of messageIds]
    toClient,    \* [Clients -> FIFO of responses and crash broadcasts]
    workers,     \* [Chains -> "running", or "exited" until the service handles it]
    toWorker,    \* [Chains -> FIFO of routed requests]
    accepted,    \* [Chains -> the requests the worker works on]
    fromWorker,  \* [Chains -> FIFO of routed responses]
    received,    \* history: [Chains -> Seq of the requests its workers received]
    exits        \* how many workers have exited

clientVars == <<made, listeners, results>>
workerVars == <<workers, toWorker, accepted, fromWorker, received, exits>>
vars == <<clientVars, toService, toClient, workerVars>>

\* A request routed by the service carries its port; WALLET_WORKER_CRASHED_MESSAGE_ID.
Routed(c, id) == [port |-> c, messageId |-> id]
CrashedId == 0

Resolve(c, ids, how) ==
    [i \in DOMAIN results[c] \cup ids |-> IF i \in ids THEN how ELSE results[c][i]]

Init ==
    /\ made = [c \in Clients |-> <<>>]
    /\ listeners = [c \in Clients |-> {}]
    /\ results = [c \in Clients |-> [i \in {} |-> "answered"]]
    /\ toService = [c \in Clients |-> <<>>]
    /\ toClient = [c \in Clients |-> <<>>]
    /\ workers = [h \in Chains |-> "running"]
    /\ toWorker = [h \in Chains |-> <<>>]
    /\ accepted = [h \in Chains |-> {}]
    /\ fromWorker = [h \in Chains |-> <<>>]
    /\ received = [h \in Chains |-> <<>>]
    /\ exits = 0

-----------------------------------------------------------------------------
(* WalletInterface.                                                        *)

Requested == Cardinality(UNION {{c} \X DOMAIN made[c] : c \in Clients})

\* submitTransaction ("tx") or getFeeData ("fee"): put a listener, post the request.
Request(c, h, kind) ==
    LET id == Len(made[c]) + 1 IN
    /\ Requested < MaxRequests
    /\ made' = [made EXCEPT ![c] = Append(@, [chain |-> h, kind |-> kind])]
    /\ listeners' = [listeners EXCEPT ![c] = @ \cup {id}]
    /\ toService' = [toService EXCEPT ![c] = Append(@, id)]
    /\ UNCHANGED <<results, toClient, workerVars>>

\* Mutant: a crash broadcast is taken by one listener only.
ReceiveOnce(c) ==
    /\ toClient[c] # <<>>
    /\ LET data == Head(toClient[c])
           matches == {id \in listeners[c] :
                          \/ id = data.messageId
                          \/ data.messageId = CrashedId /\ made[c][id].chain = data.chain}
       IN  \/ matches = {} /\ UNCHANGED <<listeners, results>>
           \/ \E id \in matches :
                 /\ listeners' = [listeners EXCEPT ![c] = @ \ {id}]
                 /\ results' = [results EXCEPT ![c] = Resolve(c, {id},
                                   IF data.messageId = id THEN "answered" ELSE "crashed")]
    /\ toClient' = [toClient EXCEPT ![c] = Tail(@)]
    /\ UNCHANGED <<made, toService, workerVars>>

\* Mutant: the listener of a resolved promise stays on the port.
ReceiveWithoutOff(c) ==
    /\ toClient[c] # <<>>
    /\ LET data == Head(toClient[c])
           crashed == {id \in listeners[c] : /\ data.messageId = CrashedId
                                             /\ made[c][id].chain = data.chain}
       IN  results' = [results EXCEPT ![c] =
                          IF data.messageId = CrashedId THEN Resolve(c, crashed, "crashed")
                          ELSE Resolve(c, {data.messageId}, "answered")]
    /\ toClient' = [toClient EXCEPT ![c] = Tail(@)]
    /\ UNCHANGED <<made, listeners, toService, workerVars>>

\* A message on the port reaches every listener: a response resolves the one with its
\* messageId, a crash broadcast all those of its chain.
Receive(c) ==
    /\ toClient[c] # <<>>
    /\ LET data == Head(toClient[c])
           answered == {id \in listeners[c] : id = data.messageId}
           crashed == {id \in listeners[c] : /\ data.messageId = CrashedId
                                             /\ made[c][id].chain = data.chain}
       IN  /\ listeners' = [listeners EXCEPT ![c] = @ \ (answered \cup crashed)]
           /\ results' = [results EXCEPT ![c] =
                             IF crashed # {} THEN Resolve(c, crashed, "crashed")
                             ELSE Resolve(c, answered, "answered")]
    /\ toClient' = [toClient EXCEPT ![c] = Tail(@)]
    /\ UNCHANGED <<made, toService, workerVars>>

-----------------------------------------------------------------------------
(* WalletService.                                                          *)

\* Mutant: a request for a worker that has exited is put off behind the later ones.
PutOffRequest(c) ==
    /\ toService[c] # <<>>
    /\ LET id == Head(toService[c])
           h == made[c][id].chain
       IN  IF workers[h] = "running"
           THEN /\ toWorker' = [toWorker EXCEPT ![h] = Append(@, Routed(c, id))]
                /\ toService' = [toService EXCEPT ![c] = Tail(@)]
           ELSE /\ toService' = [toService EXCEPT ![c] = Append(Tail(@), id)]
                /\ UNCHANGED toWorker
    /\ UNCHANGED <<clientVars, toClient, workers, accepted, fromWorker, received, exits>>

\* handleWalletPortData.  What is posted to a worker that has exited is lost.
RouteRequest(c) ==
    /\ toService[c] # <<>>
    /\ LET id == Head(toService[c])
           h == made[c][id].chain
       IN  toWorker' = [toWorker EXCEPT ![h] =
                           IF workers[h] = "running" THEN Append(@, Routed(c, id)) ELSE @]
    /\ toService' = [toService EXCEPT ![c] = Tail(@)]
    /\ UNCHANGED <<clientVars, toClient, workers, accepted, fromWorker, received, exits>>

\* Mutant: a response is posted to every port.
RouteToEveryPort(h) ==
    /\ fromWorker[h] # <<>>
    /\ toClient' = [c \in Clients |->
          Append(toClient[c], [chain |-> h, messageId |-> Head(fromWorker[h]).messageId])]
    /\ fromWorker' = [fromWorker EXCEPT ![h] = Tail(@)]
    /\ UNCHANGED <<clientVars, toService, workers, toWorker, accepted, received, exits>>

\* worker.on('message').
RouteResponse(h) ==
    /\ fromWorker[h] # <<>>
    /\ LET routingData == Head(fromWorker[h]) IN
       toClient' = [toClient EXCEPT ![routingData.port] =
                       Append(@, [chain |-> h, messageId |-> routingData.messageId])]
    /\ fromWorker' = [fromWorker EXCEPT ![h] = Tail(@)]
    /\ UNCHANGED <<clientVars, toService, workers, toWorker, accepted, received, exits>>

\* Mutant: a new worker is spawned but the pending requests are not aborted.
RespawnOnly(h) ==
    /\ workers[h] = "exited"
    /\ workers' = [workers EXCEPT ![h] = "running"]
    /\ UNCHANGED <<clientVars, toService, toClient, toWorker, accepted, fromWorker, received, exits>>

\* worker.on('exit'), which comes after the worker's last message: abortPendingRequests
\* tells every port, and spawnWorker starts a new worker before the next message (it
\* awaits nothing but a private key that is loaded already), so that no message is ever
\* queued and recoverQueuedMessages finds none.
HandleExit(h) ==
    /\ workers[h] = "exited"
    /\ fromWorker[h] = <<>>
    /\ toClient' = [c \in Clients |->
                       Append(toClient[c], [chain |-> h, messageId |-> CrashedId])]
    /\ workers' = [workers EXCEPT ![h] = "running"]
    /\ UNCHANGED <<clientVars, toService, toWorker, accepted, fromWorker, received, exits>>

-----------------------------------------------------------------------------
(* The worker thread.                                                      *)

\* processRequest: fee data is answered at once, a transaction goes to the queues.
ProcessRequest(h) ==
    /\ workers[h] = "running"
    /\ toWorker[h] # <<>>
    /\ LET routingData == Head(toWorker[h])
           kind == made[routingData.port][routingData.messageId].kind
       IN  /\ \/ /\ kind = "fee"
                 /\ fromWorker' = [fromWorker EXCEPT ![h] = Append(@, routingData)]
                 /\ UNCHANGED accepted
              \/ /\ kind = "tx"
                 /\ accepted' = [accepted EXCEPT ![h] = @ \cup {routingData}]
                 /\ UNCHANGED fromWorker
           /\ received' = [received EXCEPT ![h] = Append(@, routingData)]
    /\ toWorker' = [toWorker EXCEPT ![h] = Tail(@)]
    /\ UNCHANGED <<clientVars, toService, toClient, workers, exits>>

\* sendResult.
SendResult(h) ==
    /\ workers[h] = "running"
    /\ \E routingData \in accepted[h] :
          /\ accepted' = [accepted EXCEPT ![h] = @ \ {routingData}]
          /\ fromWorker' = [fromWorker EXCEPT ![h] = Append(@, routingData)]
    /\ UNCHANGED <<clientVars, toService, toClient, workers, toWorker, received, exits>>

\* The thread ends on an error nobody catches; what it held and had not read is lost.
Exit(h) ==
    /\ exits < MaxExits
    /\ workers[h] = "running"
    /\ workers' = [workers EXCEPT ![h] = "exited"]
    /\ toWorker' = [toWorker EXCEPT ![h] = <<>>]
    /\ accepted' = [accepted EXCEPT ![h] = {}]
    /\ exits' = exits + 1
    /\ UNCHANGED <<clientVars, toService, toClient, fromWorker, received>>

-----------------------------------------------------------------------------
Next ==
    \/ \E c \in Clients, h \in Chains, kind \in {"tx", "fee"} : Request(c, h, kind)
    \/ \E c \in Clients : Receive(c) \/ RouteRequest(c)
    \/ \E h \in Chains : \/ RouteResponse(h) \/ HandleExit(h)
                         \/ ProcessRequest(h) \/ SendResult(h) \/ Exit(h)

Spec == Init /\ [][Next]_vars

\* Event loops deliver messages, and a running worker answers what it accepted (which
\* WalletWorker shows, unless it is stalled for ever).
Fairness ==
    /\ \A c \in Clients : WF_vars(Receive(c)) /\ WF_vars(RouteRequest(c))
    /\ \A h \in Chains : /\ WF_vars(RouteResponse(h)) /\ WF_vars(HandleExit(h))
                         /\ WF_vars(ProcessRequest(h)) /\ WF_vars(SendResult(h))

FairSpec == Spec /\ Fairness

-----------------------------------------------------------------------------
(* Properties.                                                             *)

\* A promise that is not resolved still has a reason to be: its request or its response
\* is on the way, or the worker has it, or a crash of its chain is on its way to the
\* client.  No message is lost without the client being told.
NoPromiseForgotten ==
    \A c \in Clients : \A id \in listeners[c] :
        LET h == made[c][id].chain IN
        \/ id \in Range(toService[c])
        \/ Routed(c, id) \in Range(toWorker[h]) \cup accepted[h] \cup Range(fromWorker[h])
        \/ workers[h] = "exited"
        \/ \E data \in Range(toClient[c]) :
              data = [chain |-> h, messageId |-> id] \/
              data = [chain |-> h, messageId |-> CrashedId]

\* A promise resolves to a result only if a worker of the right chain received that very
\* request of that client: results are never taken from, or given to, another request.
AnswersComeFromTheChain ==
    \A c \in Clients : \A id \in DOMAIN results[c] :
        results[c][id] = "answered" => Routed(c, id) \in Range(received[made[c][id].chain])

\* A worker receives what a client asks of a chain in the order it was asked, and each
\* request once, also across the exit of a worker: submit-queue.ts relies on this to keep
\* the order of transactions.
ReceivedInOrder ==
    \A h \in Chains : \A i, j \in DOMAIN received[h] :
        i < j /\ received[h][i].port = received[h][j].port
            => received[h][i].messageId < received[h][j].messageId

\* A promise resolves once: the result a client has seen does not change.
ResultsAreFinal ==
    [][\A c \in Clients : \A id \in DOMAIN results[c] :
          id \in DOMAIN results'[c] /\ results'[c][id] = results[c][id]]_vars

\* Every promise resolves, although workers exit.
EveryPromiseResolves ==
    \A c \in Clients : \A id \in 1..MaxRequests :
        id \in listeners[c] ~> id \in DOMAIN results[c]
=============================================================================
