--------------------------- MODULE MCPeerLifecycle ---------------------------
EXTENDS PeerLifecycle, TLC

CONSTANTS peer1, peer2, boot

OneBoot == (boot :> peer1)
NoBoot == <<>>
Equal == [i \in Id |-> 0]
=============================================================================
