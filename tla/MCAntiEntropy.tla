--------------------------- MODULE MCAntiEntropy ---------------------------
(* Instances of AntiEntropy for TLC.                                       *)
EXTENDS AntiEntropy, TLC

CONSTANTS a, b, r, r2, g1, g2

Member(groups) ==
    [shared |-> groups, posture |-> "none", accepted |-> {}, blocked |-> {}]
RelayNode(posture, accepted) ==
    [shared |-> {}, posture |-> posture, accepted |-> accepted, blocked |-> {}]

Eager == [g \in Group |-> "EagerPush"]
Taciturn == [g \in Group |-> "Passive"]
Nothing == {}

\* Two members of all groups, directly connected.
PairConfig == [n \in Node |-> Member(Group)]
PairNeighbour == [n \in Node |-> Node \ {n}]

\* b may leave a's pool.
FlakyB == {<<a, b>>}

\* b has just been added to the group.
JoinB == {<<b, g1>>}

\* A relay that is to handle only g1, next to a relay that takes everything.
ExplicitConfig == (r :> RelayNode("explicit", {g1}) @@ r2 :> RelayNode("transparent", {}))

FrozenClock == [day |-> 0, sec |-> 0, sub |-> 0]
SecClock == [day |-> 0, sec |-> 1, sub |-> 0]
=============================================================================
