SPECIFICATION SyncSpec
CONSTANTS
    a = a
    b = b
    r = r
    r2 = r2
    g1 = g1
    g2 = g2
    NoGroup = NoGroup
    Node = {a, b}
    Item = {i1}
    Group = {g1}
    Clients = {a}
    Config <- PairConfig
    Culture <- Eager
    Neighbour <- PairNeighbour
    Flaky <- Nothing
    Lossy = TRUE
    NotifyCap = 1
    BatchItems = 1
    PushRetryCount = 1
    MaxWrites = 2
    WriteGroups = {g1, NoGroup}
    Deletable = {i1}
    MaxCrashes = 0
    MaxClock <- FrozenClock
    Limit = 2
    FullSyncEvery = 1
    Syncers = {b}
    Bootstraps <- Nothing
    MaxSyncFailures = 0
INVARIANTS
    SyncTypeOK
PROPERTIES
    SyncImplementsGroupMemory
