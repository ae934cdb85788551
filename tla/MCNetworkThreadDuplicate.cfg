SPECIFICATION Spec
CONSTANTS
    Types = {GetAccount, GetTransactionsToThis}
    ExtensionTypes = {GetTransactionsToThis}
    RequestCount = RequestCount
    Addresses = {nodeA}
    NoAddress = NoAddress
    MaxRequests = 3
    MaxResets = 0
INVARIANT NoDuplicateOutstanding
CHECK_DEADLOCK FALSE
