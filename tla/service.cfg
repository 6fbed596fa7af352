SPECIFICATION FairSpec
CONSTANTS
    Clients = {c1, c2}
    Chains = {h1, h2}
    MaxRequests = 2
    MaxExits = 2
INVARIANTS NoPromiseForgotten AnswersComeFromTheChain ReceivedInOrder
PROPERTIES ResultsAreFinal EveryPromiseResolves
CHECK_DEADLOCK FALSE
