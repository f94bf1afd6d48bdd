---------------------------- MODULE MCRelayGroups ----------------------------
EXTENDS RelayGroups, TLC

CONSTANTS alice, bob, east, west, team

Groups == {team}
Nodes == {alice, bob, east, west}

Personal == [posture |-> "none", allowed |-> {}, blocked |-> {}]
Edge == [Personal EXCEPT !.posture = "dynamic"]
TwoEdges ==
    (alice :> Personal) @@ (bob :> Personal) @@ (east :> Edge) @@ (west :> Edge)
AllKnown == Nodes \X {east, west}

AliceOnly == {<<alice, team>>}
BobOnly == {<<bob, team>>}

\* alice -- east -- bob: both are in the team and alice has written.
Hub ==
    [links |-> {{alice, east}, {east, bob}}, shared |-> AliceOnly \cup BobOnly,
     stored |-> AliceOnly, writers |-> {}, members |-> {},
     exchanges |-> 1, changes |-> 0, faults |-> 1]

\* alice writes and pushes.
PushHub == [Hub EXCEPT !.stored = {}, !.writers = AliceOnly]

\* The same when bob is not in the team.
Outsider == [PushHub EXCEPT !.shared = AliceOnly, !.faults = 0]

\* bob joins later, or alice leaves.
JoinHub ==
    [Hub EXCEPT !.shared = AliceOnly, !.members = AliceOnly \cup BobOnly,
                !.changes = 1]

\* alice -- east -- west -- bob.
Chain ==
    [Hub EXCEPT !.links = {{alice, east}, {east, west}, {west, bob}}, !.faults = 0]

\* alice -- east -- west: nobody around west is in the team.
Spur == [Hub EXCEPT !.links = {{alice, east}, {east, west}}, !.shared = AliceOnly]

Delivery == {PushHub, Outsider, JoinHub, Chain, Spur}
-----------------------------------------------------------------------------
\* east has dialled west, which does not know that east is a relay.
DialledByEast == AllKnown \ {<<west, east>>}
OneSpur == {Spur}

\* west blocks the team; its own API creates it.
Blocking == [TwoEdges EXCEPT ![west].blocked = {team}]
WestCreates ==
    {[Hub EXCEPT !.links = {{alice, west}}, !.members = {<<west, team>>},
                 !.changes = 1]}

\* west is a backbone relay.
Backbone == [TwoEdges EXCEPT ![west].posture = "transparent"]
EastPushes == {[PushHub EXCEPT !.links = {{alice, east}, {east, west}}, !.faults = 0]}
WestBetween == {[PushHub EXCEPT !.links = {{alice, west}, {west, bob}}, !.faults = 0]}
=============================================================================
