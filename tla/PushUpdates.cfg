SPECIFICATION Spec
CONSTANTS
    a = a
    b = b
    r = r
    r2 = r2
    r3 = r3
    g1 = g1
    g2 = g2
    Node = {a, b}
    Item = {i1}
    Group = {g1}
    NoGroup = NoGroup
    Clients = {a}
    Config <- PairConfig
    Culture <- Eager
    Neighbour <- PairNeighbour
    Flaky <- PairFlaky
    Lossy = TRUE
    NotifyCap = 1
    BatchItems = 1
    PushRetryCount = 1
    MaxWrites = 2
    WriteGroups = {g1, NoGroup}
    Deletable = {i1}
    MaxCrashes = 1
    MaxClock <- PairClock
INVARIANTS
    TypeOK
    NoInvention
    
PROPERTIES
    ImplementsGroupMemory
