SPECIFICATION FairSpec
CONSTANTS
    a = a
    b = b
    r = r
    Node = {a, b}
    Link <- Pair
    Admin = {a}
    Culture = {"c1", "big"}
    Oversized = {"big"}
    Default = "seeded"
    Configured = {}
    None = None
    Retention = 5
    MaxTime = 2
    MaxCalls = 3
    MaxRestarts = 0
    Lossy = TRUE
    Spaced = FALSE
INVARIANTS
    TypeOK
    SignedCultureIsOwners
PROPERTIES
    Announced
