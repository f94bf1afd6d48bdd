SPECIFICATION FairSpec
CONSTANTS
    a = a
    b = b
    r = r
    Node = {a, b}
    Link <- Pair
    Admin = {a}
    Culture = {"c1"}
    Oversized = {}
    Default = "seeded"
    Configured = {}
    None = None
    Retention = 5
    MaxTime = 2
    MaxCalls = 3
    MaxRestarts = 0
    Lossy = FALSE
    Spaced = TRUE
PROPERTIES
    DeletesReachAll
