SPECIFICATION FairSyncSpec
CONSTANTS
    a = a
    b = b
    r = r
    r2 = r2
    g1 = g1
    g2 = g2
    NoGroup = NoGroup
    Node = {a, b}
    Item = {i1, i2}
    Group = {g1}
    Clients = {a}
    Config <- PairConfig
    Culture <- Taciturn
    Neighbour <- PairNeighbour
    Flaky <- FlakyB
    Lossy = FALSE
    NotifyCap = 1
    BatchItems = 1
    PushRetryCount = 1
    MaxWrites = 2
    WriteGroups = {g1}
    Deletable = {}
    MaxCrashes = 1
    MaxClock <- FrozenClock
    Limit = 2
    FullSyncEvery = 2
    Syncers = {b}
    Bootstraps <- JoinB
    MaxSyncFailures = 1
PROPERTIES
    AllFetched
    
