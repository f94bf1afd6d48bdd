------------------------- MODULE MCItemReplication -------------------------
(* Instances of ItemReplication for TLC.                                   *)
EXTENDS ItemReplication, TLC

CONSTANTS a, b, r, r2, r3, g1, g2

Member(groups) ==
    [shared |-> groups, posture |-> "none", accepted |-> {}, blocked |-> {}]
RelayNode(posture, accepted, blocked) ==
    [shared |-> {}, posture |-> posture, accepted |-> accepted,
     blocked |-> blocked]

Eager == [g \in Group |-> "EagerPush"]
NoneFlaky == {}

\* Two members of one group, directly connected.
PairConfig == [n \in Node |-> Member(Group)]
PairNeighbour == [n \in Node |-> Node \ {n}]
PairFlaky == {<<a, b>>}
PairClock == [day |-> 1, sec |-> 0, sub |-> 0]

RelayNeighbour == (a :> {r, r2} @@ b :> {r} @@ r :> {a, b} @@ r2 :> {a})
FrozenClock == [day |-> 0, sec |-> 0, sub |-> 0]

\* a is in both groups, b only in g2; they meet at a transparent relay, and a
\* has a dynamic relay of its own that learned of g1 only.
RelayConfig == (a :> Member({g1, g2}) @@ b :> Member({g2})
                @@ r :> RelayNode("transparent", {}, {})
                @@ r2 :> RelayNode("dynamic", {g1}, {}))
SecClock == [day |-> 0, sec |-> 1, sub |-> 0]

\* A ring of three transparent relays; r's API is used.
RingConfig == [n \in Node |-> RelayNode("transparent", {}, {})]
=============================================================================
