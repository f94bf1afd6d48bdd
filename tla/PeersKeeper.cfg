SPECIFICATION FairSpec
CONSTANTS
    peer1 = peer1
    peer2 = peer2
    boot = boot
    Stray = Stray
    NoAddr = NoAddr
    Peer = {peer1}
    Placeholder = {boot}
    BootAddr <- OneBoot
    HotMin = 1
    HotMax = 1
    WarmMax = 2
    ColdMax = 3
    DialPolicy = "TrustedOnly"
    Trusted = {boot}
    Relays = {}
    Inbound = {}
    FromStray = FALSE
    Answering = {peer1}
    Asked = {peer1}
    Mute = {peer1}
    EventCap = 2
    CanLag = TRUE
    MaxConns = 1
    MaxExchanges = 1
    Score <- Equal
    ChurnPerMille = 200
INVARIANTS
    PoolIsGoverned
PROPERTIES
    StaleEntriesLeave
    
    BootnodeReturns
    HotRecovers
