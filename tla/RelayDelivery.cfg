SPECIFICATION FairSpec
CONSTANTS
    alice = alice
    bob = bob
    east = east
    west = west
    team = team
    Node <- Nodes
    Group <- Groups
    Config <- TwoEdges
    Known <- AllKnown
    Scenarios <- Delivery
INVARIANT TypeOK
 
 
PROPERTY IntersectionFollows
PROPERTY ItemsArrive
