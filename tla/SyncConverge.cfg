SPECIFICATION FairSyncSpec
CONSTANTS
    a = a
    b = b
    r = r
    r2 = r2
    g1 = g1
    g2 = g2
    NoGroup = NoGroup
    Node = {a, b}
    Item = {i1}
    Group = {g1}
    Clients = {a, b}
    Config <- PairConfig
    Culture <- Taciturn
    Neighbour <- PairNeighbour
    Flaky <- Nothing
    Lossy = FALSE
    NotifyCap = 1
    BatchItems = 1
    PushRetryCount = 1
    MaxWrites = 2
    WriteGroups = {g1}
    Deletable = {}
    MaxCrashes = 0
    MaxClock <- SecClock
    Limit = 2
    FullSyncEvery = 1
    Syncers = {a, b}
    Bootstraps <- Nothing
    MaxSyncFailures = 0
PROPERTIES
    Converges
