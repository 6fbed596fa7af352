SPECIFICATION FairSpec
CONSTANTS
    Orders = {o1, o2, o3}
    MaxTries = 3
    MaxConcurrent = 2
    RetryInterval = 2
INVARIANTS SizeAccountsForOrders ConcurrencyRespected
           RetriesChronological
PROPERTIES LedgerSpec EveryOrderHandedBack
