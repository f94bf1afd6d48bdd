SPECIFICATION Spec
CONSTANTS
    peer1 = peer1
    peer2 = peer2
    boot = boot
    Stray = Stray
    NoAddr = NoAddr
    Peer = {peer1, peer2}
    Placeholder = {boot}
    BootAddr <- OneBoot
    HotMin = 1
    HotMax = 1
    WarmMax = 2
    ColdMax = 3
    DialPolicy = "RelaysOnly"
    Trusted = {}
    Relays = {peer2}
    Inbound = {peer2}
    FromStray = FALSE
    Answering = {}
    Asked = {}
    Mute = {}
    EventCap = 1
    CanLag = FALSE
    MaxConns = 1
    MaxExchanges = 1
    Score <- Equal
    ChurnPerMille = 200
INVARIANTS
    TypeOK
    PoolFollowsGovernor
    HotBounded
PROPERTIES
    HotEarned
    ImplementsPeerTable
