SPECIFICATION FairSpec
CONSTANTS
    Types = {GetAccount, GetTransactionsToThis}
    ExtensionTypes = {GetTransactionsToThis}
    RequestCount = RequestCount
    Addresses = {nodeA, nodeB}
    NoAddress = NoAddress
    MaxRequests = 2
    MaxResets = 1
INVARIANTS
    TypeOK
    RefusedOnlyWhileOutstanding
    PoolHoldsLiveContexts
    CallsConfiguredNode
    ClearHitsOnlyNewerRequests
PROPERTIES
    AnswersInOrder
    ImplementsService
    RefusalEnds
CHECK_DEADLOCK FALSE
