SPECIFICATION FairSpec
CONSTANTS
    a = a
    b = b
    r = r
    r2 = r2
    r3 = r3
    g1 = g1
    g2 = g2
    Node = {a, b, r, r2}
    Item = {i1}
    Group = {g1, g2}
    NoGroup = NoGroup
    Clients = {a, b}
    Config <- RelayConfig
    Culture <- Eager
    Neighbour <- RelayNeighbour
    Flaky <- NoneFlaky
    Lossy = FALSE
    NotifyCap = 2
    BatchItems = 2
    PushRetryCount = 1
    MaxWrites = 2
    WriteGroups = {g1, g2}
    Deletable = {}
    MaxCrashes = 0
    MaxClock <- FrozenClock
INVARIANTS
    OnlyReadersHold
PROPERTIES
    PushDelivered
    
