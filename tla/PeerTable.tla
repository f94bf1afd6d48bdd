------------------------------ MODULE PeerTable ------------------------------
(***************************************************************************)
(* What the other tasks may rely on of the peer pool, with the governor,   *)
(* the swarm and all events left out: a peer enters as warm, alone; it     *)
(* leaves at any time; and one pass over the whole table redistributes the *)
(* hot places among those already in it, as far as there are places.  When *)
(* any of this happens is open.                                            *)
(***************************************************************************)

CONSTANTS
    Peer,
    HotSets     \* the sets of peers for which there are hot places

VARIABLE role       \* per peer: its state in the pool, "none" outside it

TableInit == role = [p \in Peer |-> "none"]

\* Also a peer that is in the pool already: its disconnect was missed.
Enter(p) == role' = [role EXCEPT ![p] = "warm"]

Leave(p) == role' = [role EXCEPT ![p] = "none"]

Rebalance ==
    /\ role' \in [Peer -> {"none", "warm", "hot"}]
    /\ \A p \in Peer : role[p] = "none" => role'[p] = "none"
    /\ {p \in Peer : role'[p] = "hot"} \in HotSets

TableNext == Rebalance \/ \E p \in Peer : Enter(p) \/ Leave(p)

TableSpec == TableInit /\ [][TableNext]_role
=============================================================================
