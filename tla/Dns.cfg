SPECIFICATION MCSpec
CONSTANTS
    n1 = n1
    ptr = ptr
    Names = {n1, ptr}
    PtrName = ptr
    Addrs = {a1}
    Ids = {1, 2}
    AddRoute = TRUE
    Contents <- NoneOrFirst
    MaxWait = 2
    MaxAsked = 2
    MaxEdit = 2
    NDup = 1
    Labels = {a, b}
    Empty = empty
    MaxLabels = 3
    MaxDomains = 2
    Ws = "ws"
    Hash = "#"
    Dot = "."
    Letters = {"i", "h"}
    Ips <- Addresses
    MaxLen = 6
    Queried <- TwoNames
    Blocked <- OneDomain
    NRequests = 3
    NEvents = 1
INVARIANTS EveryAskAccounted ListInForce ListsAsWritten EachAnsweredOnce
PROPERTIES ListTakesEffect AskedIsAnswered
CHECK_DEADLOCK FALSE
