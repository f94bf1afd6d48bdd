SPECIFICATION Spec
CONSTANTS
    a = a
    b = b
    r = r
    Node = {a, b}
    Link <- Pair
    Admin = {a, b}
    Culture = {"c1"}
    Oversized = {}
    Default = "seeded"
    Configured = {b}
    None = None
    Retention = 0
    MaxTime = 1
    MaxCalls = 3
    MaxRestarts = 1
    Lossy = TRUE
    Spaced = FALSE
PROPERTIES
    OwnerFixed
