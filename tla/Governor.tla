------------------------------ MODULE Governor ------------------------------
(***************************************************************************)
(* The peer governor of a node (crate cordelia-governor): what it knows of *)
(* each peer, and the phases of one tick as functions on that knowledge.   *)
(*                                                                         *)
(* Instants appear only in comparisons with a timeout, so a peer carries   *)
(* the outcomes: quiet (active, but silent for DEAD_TIMEOUT), cooling (demoted    *)
(* less than DEAD_TIMEOUT ago) and backoff (disconnected less than         *)
(* reconnect_backoff ago).  The iteration order of the peer map and the    *)
(* preference for peers with common groups are left open: where the code   *)
(* takes the first k, any k may be taken.  Nothing in the node calls       *)
(* ban_peer, so there are no banned peers.                                 *)
(***************************************************************************)
EXTENDS Integers, FiniteSets, FiniteSetsExt

CONSTANTS
    Peer,           \* the identities of the remote nodes
    Placeholder,    \* made-up identities of bootnodes not yet met
    Stray,          \* an address on which nobody listens
    NoAddr,         \* no address known
    Score,          \* per identity: its rank by PeerInfo::score
    HotMin, HotMax, WarmMax, ColdMax, ChurnPerMille,
    DialPolicy,     \* "All", "RelaysOnly" or "TrustedOnly"
    Trusted         \* the identities that TrustedOnly lists

Id == Peer \cup Placeholder

\* The listen address of a remote node is written as its identity.
Addr == Peer \cup {Stray, NoAddr}

ASSUME TargetAssumption ==
    /\ Peer \cap Placeholder = {}
    /\ Stray \notin Id /\ NoAddr \notin Id \cup {Stray}
    /\ Score \in [Id -> Nat]
    /\ HotMin \in Nat /\ HotMax \in Nat /\ HotMin <= HotMax
    /\ WarmMax \in Nat /\ ColdMax \in Nat
    /\ ChurnPerMille \in 0 .. 1000
    /\ DialPolicy \in {"All", "RelaysOnly", "TrustedOnly"}
    /\ Trusted \subseteq Id

PeerInfo ==
    [state : {"unknown", "cold", "warm", "hot"}, addr : Addr,
     is_relay : BOOLEAN, quiet : BOOLEAN, cooling : BOOLEAN, backoff : BOOLEAN]

Unknown ==
    [state |-> "unknown", addr |-> NoAddr, is_relay |-> FALSE,
     quiet |-> FALSE, cooling |-> FALSE, backoff |-> FALSE]

IsKnown(info) == info.state # "unknown"
IsActive(info) == info.state \in {"warm", "hot"}
In(gov, state) == {p \in Id : gov[p].state = state}
Count(gov, state) == Cardinality(In(gov, state))

\* All ways to take the first k elements of S.
Take(S, k) == kSubset(IF k < Cardinality(S) THEN k ELSE Cardinality(S), S)

SetState(gov, S, state) ==
    [p \in Id |-> IF p \in S
                  THEN [gov[p] EXCEPT !.state = state, !.quiet = @ /\ state # "cold"]
                  ELSE gov[p]]

-----------------------------------------------------------------------------
(* What the events of a connection change.                                 *)

AddPeer(gov, p, addr) ==
    [gov EXCEPT ![p] = IF IsKnown(@) THEN [@ EXCEPT !.addr = addr]
                       ELSE [Unknown EXCEPT !.state = "cold", !.addr = addr]]

MarkConnected(gov, p) ==
    IF gov[p].state = "cold"
    THEN [gov EXCEPT ![p].state = "warm"] ELSE gov

\* Fault: Only hot peers are taken back.
MarkDisconnectedHot(gov, p) ==
    IF gov[p].state = "hot"
    THEN [gov EXCEPT ![p].state = "cold", ![p].quiet = FALSE, ![p].backoff = TRUE]
    ELSE gov

MarkDisconnected(gov, p) ==
    IF IsActive(gov[p])
    THEN [gov EXCEPT ![p].state = "cold", ![p].quiet = FALSE, ![p].backoff = TRUE]
    ELSE gov

MarkDialFailed(gov, p) ==
    IF IsKnown(gov[p]) THEN [gov EXCEPT ![p].backoff = TRUE] ELSE gov

\* replace_node_id: an active `new` only takes over the relay flag, any other
\* entry of `new` is overwritten by that of `old`.
ReplaceNodeId(gov, old, new) ==
    IF ~ IsKnown(gov[old]) THEN gov
    ELSE [gov EXCEPT
            ![old] = Unknown,
            ![new] = IF IsActive(gov[new])
                     THEN [gov[new] EXCEPT !.is_relay = gov[new].is_relay \/ gov[old].is_relay]
                     ELSE gov[old]]

-----------------------------------------------------------------------------
(* The phases of Governor::tick.                                           *)

IsDialable(gov, p) ==
    \/ DialPolicy = "All"
    \/ DialPolicy = "RelaysOnly" /\ gov[p].is_relay
    \/ DialPolicy = "TrustedOnly" /\ p \in Trusted

\* Silent warm peers go to cold, and are to be disconnected; silent hot peers
\* go to warm and must cool down.
DeadWarm(gov) == {p \in In(gov, "warm") : gov[p].quiet}

ReapDead(gov) ==
    [p \in Id |->
        IF ~ gov[p].quiet THEN gov[p]
        ELSE IF gov[p].state = "hot"
             THEN [gov[p] EXCEPT !.state = "warm", !.cooling = TRUE]
        ELSE [gov[p] EXCEPT !.state = "cold", !.quiet = FALSE]]

\* promote_cold_to_warm: whom to dial.
PromoteColdToWarm(gov) ==
    LET active == Count(gov, "warm") + Count(gov, "hot")
        able == {p \in In(gov, "cold") : IsDialable(gov, p) /\ ~ gov[p].backoff}
    IN IF active >= WarmMax THEN {{}} ELSE Take(able, WarmMax - active)

\* Fault: One short of hot_min.
PromoteOneShort(gov) ==
    LET hot == In(gov, "hot")
        able == {p \in In(gov, "warm") : ~ gov[p].cooling}
    IN IF Cardinality(hot) < HotMin - 1
       THEN Take(able, HotMin - 1 - Cardinality(hot)) ELSE {{}}

\* Fault: The cooling period is not looked at.
PromoteCooling(gov) ==
    LET hot == In(gov, "hot") IN
    IF Cardinality(hot) < HotMin
    THEN Take(In(gov, "warm"), HotMin - Cardinality(hot)) ELSE {{}}

\* promote_warm_to_hot: the best warm peers up to hot_min, beyond that one that
\* is better than the worst hot peer.
PromoteWarmToHot(gov) ==
    LET hot == In(gov, "hot")
        able == {p \in In(gov, "warm") : ~ gov[p].cooling}
        better == {p \in able : /\ \A q \in able : Score[q] <= Score[p]
                                /\ \E h \in hot : Score[h] < Score[p]}
    IN IF Cardinality(hot) < HotMin
       THEN {S \in Take(able, HotMin - Cardinality(hot)) :
                \A p \in S, q \in able \ S : Score[q] <= Score[p]}
       ELSE IF Cardinality(hot) < HotMax /\ better # {}
       THEN {{p} : p \in better}
       ELSE {{}}

\* A peer that becomes hot starts counting its disconnections anew.
MakeHot(gov, S) ==
    [p \in Id |-> IF p \in S THEN [gov[p] EXCEPT !.state = "hot", !.backoff = FALSE]
                             ELSE gov[p]]

\* demote_excess_hot: the worst ones.  (Stale peers are dead peers too, and
\* those have just been reaped.)
DemoteExcessHot(gov) ==
    LET hot == In(gov, "hot") IN
    IF Cardinality(hot) <= HotMax THEN {{}}
    ELSE {S \in Take(hot, Cardinality(hot) - HotMax) :
             \A p \in S, q \in hot \ S : Score[p] <= Score[q]}

\* churn: how many, if it is due at all.
ChurnCount(gov, due) ==
    IF due /\ Count(gov, "cold") > 0
    THEN (Count(gov, "warm") * ChurnPerMille + 999) \div 1000 ELSE 0

ChurnOut(gov, k) == Take(In(gov, "warm"), k)
ChurnIn(gov, k) == Take({p \in In(gov, "cold") : IsDialable(gov, p)}, k)

EvictExcessCold(gov) ==
    LET cold == In(gov, "cold") IN
    IF Cardinality(cold) <= ColdMax THEN {{}}
    ELSE Take(cold, Cardinality(cold) - ColdMax)

Forget(gov, S) == [p \in Id |-> IF p \in S THEN Unknown ELSE gov[p]]
=============================================================================
