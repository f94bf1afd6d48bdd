---------------------------- MODULE PeerLifecycle ----------------------------
(***************************************************************************)
(* The life of a peer on one node: the governor task, the peer pool the    *)
(* other tasks read, and the swarm task that owns the connections.         *)
(*                                                                         *)
(*   governor task --commands--> swarm task --connections--> remote nodes  *)
(*   swarm task --SwarmEvent2, a bounded broadcast channel--> governor task*)
(*   spawned tasks: the group exchange after a connect, peer discovery     *)
(*                                                                         *)
(* Only the governor task changes states, in its tick and in its event     *)
(* handlers; each of these is one step here, because what the spawned      *)
(* tasks do in between commutes with it.                                   *)
(***************************************************************************)
EXTENDS Governor, Sequences

CONSTANTS
    BootAddr,   \* per placeholder: the address in the configuration
    Relays,     \* the remote nodes that others report as relays
    EventCap,   \* capacity of the event channel
    CanLag,     \* may the governor task fall behind by more than that?
    MaxConns,   \* bound: simultaneous connections with one peer
    MaxExchanges, \* bound: group exchanges with one peer at a reconnect
    Inbound,    \* the remote nodes that dial this one
    FromStray,  \* do some of them dial from another port than they listen on?
    Answering,  \* the remote nodes that answer group exchanges
    Asked,      \* the remote nodes to which requests may find no connection
    Mute        \* the remote nodes that may stop answering pings

ASSUME LifecycleAssumption ==
    /\ BootAddr \in [Placeholder -> Peer]
    /\ Relays \subseteq Peer /\ Inbound \subseteq Peer /\ Mute \subseteq Peer
    /\ Answering \subseteq Peer /\ Asked \subseteq Peer
    /\ EventCap \in Nat \ {0}
    /\ MaxConns \in Nat \ {0} /\ MaxExchanges \in Nat \ {0}
    /\ CanLag \in BOOLEAN /\ FromStray \in BOOLEAN

None == NoAddr

VARIABLES
    gov,            \* the governor's peers
    pool,           \* the peer pool
    pending_dials,  \* per listen address: the identity last dialled there
    exchange,       \* group exchanges after a connect
    discovering,    \* a peer discovery is under way
    commands,       \* what the tick asked of the swarm, disconnects first
    events,         \* the event channel, oldest first
    dialing,        \* addresses being dialled
    requesting,     \* peers being dialled because of a request to them
    open,           \* per peer: connections in use
    closing,        \* per peer: connections being closed
    lags            \* does the governor task ever fall behind? (fixed at first)

govVars == <<gov, pool, pending_dials>>
taskVars == <<exchange, discovering>>
swarmVars == <<dialing, requesting, open, closing>>
vars == <<govVars, taskVars, swarmVars, commands, events, lags>>

Handle == [state : {"none", "warm", "hot"}, addr : Addr, is_relay : BOOLEAN]
Absent == [state |-> "none", addr |-> NoAddr, is_relay |-> FALSE]
Event == [type : {"connected", "disconnected", "dial_failed"}, peer : Peer, addr : Addr]
Exchange == [peer : Peer, step : {"asked", "answered", "read"}, addr : Addr]
NoCommands == [disconnect |-> {}, dial |-> {}]

InPool(p) == pool[p].state # "none"
Established(p) == open[p] + closing[p]

\* seed_bootnode for every configured bootnode.
Init ==
    /\ gov = [p \in Id |->
                IF p \in Placeholder
                THEN [Unknown EXCEPT !.state = "cold", !.addr = BootAddr[p],
                                     !.is_relay = TRUE]
                ELSE Unknown]
    /\ pool = [p \in Peer |-> Absent]
    /\ pending_dials = [a \in Peer |-> None]
    /\ exchange = {}
    /\ discovering = FALSE
    /\ commands = NoCommands
    /\ events = <<>>
    /\ dialing = {}
    /\ requesting = {}
    /\ open = [p \in Peer |-> 0]
    /\ closing = [p \in Peer |-> 0]
    /\ lags \in {FALSE, CanLag}

-----------------------------------------------------------------------------
(* The governor task.                                                      *)

\* Fault: Peers to be disconnected are kept.
ApplyTransitionsOnly(after, moved, disconnect) ==
    [p \in Peer |-> IF InPool(p) /\ p \in moved
                    THEN [pool[p] EXCEPT !.state = after[p].state] ELSE pool[p]]

\* Fault: Only transitions to hot are copied.
ApplyPromotionsOnly(after, moved, disconnect) ==
    [p \in Peer |->
        IF p \in disconnect THEN Absent
        ELSE IF InPool(p) /\ p \in moved /\ after[p].state = "hot"
             THEN [pool[p] EXCEPT !.state = "hot"]
        ELSE pool[p]]

\* apply_governor_actions: transitions to warm and hot are copied, the peers
\* to be disconnected are removed.
ApplyGovernorActions(after, moved, disconnect) ==
    [p \in Peer |->
        IF p \in disconnect THEN Absent
        ELSE IF InPool(p) /\ p \in moved
             THEN [pool[p] EXCEPT !.state = after[p].state]
        ELSE pool[p]]

\* Fault: A peer without an address is dialled too.
DialsToAny(after, connect) == {after[p].addr : p \in connect}

\* One dial per address; pending_dials remembers an identity for each.  On a
\* stray address nobody answers, and the failure changes nothing.
DialsTo(after, connect) == {after[p].addr : p \in connect} \cap Peer

PendingAfter(after, connect) ==
    {f \in [Peer -> Id \cup {None}] :
        \A a \in Peer :
            IF a \in DialsTo(after, connect)
            THEN f[a] \in {p \in connect : after[p].addr = a}
            ELSE f[a] = pending_dials[a]}

\* Fault: No bootnode is ever missed.
NeverMissing(after) == {}

\* Resolved bootnode addresses that no pool entry has.
MissingBootnodes(after) ==
    {BootAddr[b] : b \in Placeholder} \ {after[p].addr : p \in Peer}

\* One tick.  churn: the churn interval is over; redial, discover: this is a
\* tick of the bootnode check, of the peer discovery.  A tick comes 10 s after
\* the last one, whose commands have been executed by then.
Tick(churn, redial, discover) ==
    LET reaped == ReapDead(gov) IN
    /\ commands = NoCommands
    /\ \E dial \in PromoteColdToWarm(reaped), up \in PromoteWarmToHot(reaped) :
       LET hotter == MakeHot(reaped, up) IN
       \E down \in DemoteExcessHot(hotter) :
       LET settled == SetState(hotter, down, "warm")
           k == ChurnCount(settled, churn)
       IN
       \E out \in ChurnOut(settled, k) :
       LET rotated == SetState(settled, out, "cold") IN
       \E in \in ChurnIn(rotated, k), evicted \in EvictExcessCold(rotated) :
       LET after == Forget(rotated, evicted)
           moved == {p \in In(gov, "hot") : gov[p].quiet} \cup up \cup down
           disconnect == DeadWarm(gov) \cup out
           connect == dial \cup in
       IN
       /\ gov' = after
       /\ pool' = ApplyGovernorActions(settled, moved, disconnect)
       /\ pending_dials' \in PendingAfter(after, connect)
       /\ commands' =
             [disconnect |-> {p \in disconnect \cap Peer : InPool(p)},
              dial |-> DialsTo(after, connect)
                          \cup IF redial THEN MissingBootnodes(pool') ELSE {}]
       /\ discovering' = \/ discovering
                         \/ discover /\ \E p \in Peer : pool'[p].state # "none"
                                                        /\ pool'[p].is_relay
    /\ UNCHANGED <<lags, exchange, events, swarmVars>>

\* PeerConnected: the governor learns, or recognises, the peer, it enters the
\* pool as warm, and a group exchange is started.  Every connection from a
\* stray address comes from another port, which was never dialled.
PeerConnected ==
    LET e == Head(events)
        p == e.peer
        dialled == IF e.addr \in Peer THEN pending_dials[e.addr] ELSE None
        met == IF dialled # None
               THEN IF dialled # p THEN ReplaceNodeId(gov, dialled, p) ELSE gov
               ELSE IF IsKnown(gov[p]) THEN gov ELSE AddPeer(gov, p, e.addr)
    IN
    /\ events # <<>>
    /\ e.type = "connected"
    /\ events' = Tail(events)
    /\ pending_dials' = [a \in Peer |-> IF a = e.addr THEN None ELSE pending_dials[a]]
    /\ gov' = MarkConnected(met, p)
    /\ pool' = [pool EXCEPT ![p] = [state |-> "warm", addr |-> e.addr,
                                    is_relay |-> gov'[p].is_relay]]
    /\ exchange' = exchange \cup {[peer |-> r, step |-> "asked", addr |-> NoAddr] :
                                   r \in Answering \cap {p}}
    /\ UNCHANGED <<lags, discovering, commands, swarmVars>>

\* Fault: The governor is not told.
PeerDisconnectedPoolOnly ==
    /\ events # <<>>
    /\ Head(events).type = "disconnected"
    /\ events' = Tail(events)
    /\ pool' = [pool EXCEPT ![Head(events).peer] = Absent]
    /\ UNCHANGED <<lags, gov, pending_dials, taskVars, commands, swarmVars>>

PeerDisconnected ==
    LET p == Head(events).peer IN
    /\ events # <<>>
    /\ Head(events).type = "disconnected"
    /\ events' = Tail(events)
    /\ pool' = [pool EXCEPT ![p] = Absent]
    /\ gov' = MarkDisconnected(gov, p)
    /\ UNCHANGED <<lags, pending_dials, taskVars, commands, swarmVars>>

\* DialFailure of a dial that named its peer.
DialFailureEvent ==
    /\ events # <<>>
    /\ Head(events).type = "dial_failed"
    /\ events' = Tail(events)
    /\ gov' = MarkDialFailed(gov, Head(events).peer)
    /\ UNCHANGED <<lags, pool, pending_dials, taskVars, commands, swarmVars>>

\* IdentifyReceived, after PeerConnected of the same connection: a cold entry
\* with one of the announced addresses is taken for a placeholder, and the
\* announced address replaces the one in the pool.
IdentifyReceived(p) ==
    LET same == {q \in In(gov, "cold") \ {p} : gov[q].addr = p}
        queued(type) == \E k \in DOMAIN events : events[k].type = type /\ events[k].peer = p
    IN
    /\ Established(p) > 0 \/ queued("disconnected")
    /\ ~ queued("connected")
    /\ \E met \in IF same = {} THEN {gov} ELSE {ReplaceNodeId(gov, q, p) : q \in same} :
          IF InPool(p) /\ pool[p].addr # p
          THEN /\ gov' = AddPeer(met, p, p)
               /\ pool' = [pool EXCEPT ![p].addr = p]
          ELSE /\ gov' = met
               /\ UNCHANGED pool
    /\ UNCHANGED <<lags, pending_dials, taskVars, commands, events, swarmVars>>

\* Fault: failed pings count as activity too.
RecordAnyPing(p) ==
    /\ gov[p].quiet
    /\ gov' = [gov EXCEPT ![p].quiet = FALSE]
    /\ UNCHANGED <<lags, pool, pending_dials, taskVars, commands, events, swarmVars>>

\* PingRtt
RecordActivity(p) ==
    /\ open[p] > 0
    /\ gov[p].quiet
    /\ gov' = [gov EXCEPT ![p].quiet = FALSE]
    /\ UNCHANGED <<lags, pool, pending_dials, taskVars, commands, events, swarmVars>>

-----------------------------------------------------------------------------
(* The tasks it spawns.                                                    *)

ExchangeAnswered(x) ==
    /\ x.step = "asked"
    /\ open[x.peer] > 0
    /\ exchange' = (exchange \ {x}) \cup {[x EXCEPT !.step = "answered"]}
    /\ UNCHANGED <<lags, govVars, discovering, commands, events, swarmVars>>

ExchangeFailed(x) ==
    /\ x.step = "asked"
    /\ exchange' = exchange \ {x}
    /\ UNCHANGED <<lags, govVars, discovering, commands, events, swarmVars>>

\* The addresses are read from the pool; a peer that has left it has none.
ExchangeRead(x) ==
    /\ x.step = "answered"
    /\ exchange' = (exchange \ {x})
          \cup {[x EXCEPT !.step = "read", !.addr = pool[x.peer].addr]}
    /\ UNCHANGED <<lags, govVars, discovering, commands, events, swarmVars>>

\* ... and become the governor's addresses of that peer.
ExchangeAdd(x) ==
    /\ x.step = "read"
    /\ gov' = AddPeer(gov, x.peer, x.addr)
    /\ exchange' = exchange \ {x}
    /\ UNCHANGED <<lags, pool, pending_dials, discovering, commands, events, swarmVars>>

\* discover_peers: the answers of some relays are merged.  An answer lists
\* relays, each with the address its sender's pool holds.
DiscoverPeers ==
    /\ discovering
    /\ discovering' = FALSE
    /\ \E reported \in SUBSET (Relays \X {FALSE, TRUE}) :
          gov' = [p \in Id |->
                    IF IsActive(gov[p]) \/ \A stray \in BOOLEAN : <<p, stray>> \notin reported
                    THEN gov[p]
                    ELSE LET addr == IF <<p, TRUE>> \in reported THEN Stray ELSE p
                         IN [AddPeer(gov, p, addr)[p] EXCEPT !.is_relay = TRUE]]
    /\ UNCHANGED <<lags, pool, pending_dials, exchange, commands, events, swarmVars>>

-----------------------------------------------------------------------------
(* The swarm task and the network.                                         *)

\* event_tx.send: a full channel overwrites its oldest event.
Send(type, p, addr) ==
    /\ lags \/ Len(events) < EventCap
    /\ events' = Append(IF Len(events) = EventCap THEN Tail(events) ELSE events,
                        [type |-> type, peer |-> p, addr |-> addr])

SwarmDisconnect(p) ==
    /\ p \in commands.disconnect
    /\ commands' = [commands EXCEPT !.disconnect = @ \ {p}]
    /\ open' = [open EXCEPT ![p] = 0]
    /\ closing' = [closing EXCEPT ![p] = @ + open[p]]
    /\ UNCHANGED <<lags, govVars, taskVars, events, dialing, requesting>>

SwarmDial(a) ==
    /\ commands.disconnect = {}
    /\ a \in commands.dial
    /\ commands' = [commands EXCEPT !.dial = @ \ {a}]
    /\ dialing' = dialing \cup {a}
    /\ UNCHANGED <<lags, govVars, taskVars, events, requesting, open, closing>>

\* A request to a peer without a connection makes libp2p dial it, with the
\* address that identify announced.
SwarmRequest(p) ==
    /\ p \in Asked
    /\ Established(p) = 0
    /\ InPool(p) \/ \E x \in exchange : x.peer = p /\ x.step = "asked"
    /\ requesting' = requesting \cup {p}
    /\ UNCHANGED <<lags, govVars, taskVars, commands, events, dialing, open, closing>>

\* OutgoingConnectionError.  When only an address was dialled it carries no
\* peer, and the governor ignores it.
DialFails(a) ==
    /\ a \in dialing
    /\ dialing' = dialing \ {a}
    /\ UNCHANGED <<lags, govVars, taskVars, commands, events, requesting, open, closing>>

RequestFails(p) ==
    /\ p \in requesting
    /\ requesting' = requesting \ {p}
    /\ Send("dial_failed", p, NoAddr)
    /\ exchange' = {x \in exchange : x.peer # p \/ x.step # "asked"}
    /\ UNCHANGED <<lags, govVars, discovering, commands, dialing, open, closing>>

\* Fault: The number of connections before this one is compared with 1.
ReportsSecondConnection(p, addr) ==
    /\ Established(p) < MaxConns
    /\ Cardinality({x \in exchange : x.peer = p}) < MaxExchanges
    /\ open' = [open EXCEPT ![p] = @ + 1]
    /\ IF Established(p) = 1 THEN Send("connected", p, addr) ELSE UNCHANGED events
    /\ UNCHANGED <<lags, govVars, taskVars, commands, closing>>

\* ConnectionEstablished: only the first one is reported.
ConnectionEstablished(p, addr) ==
    /\ Established(p) < MaxConns
    /\ Cardinality({x \in exchange : x.peer = p}) < MaxExchanges
    /\ open' = [open EXCEPT ![p] = @ + 1]
    /\ IF Established(p) = 0 THEN Send("connected", p, addr) ELSE UNCHANGED events
    /\ UNCHANGED <<lags, govVars, taskVars, commands, closing>>

DialSucceeds(p) ==
    /\ \/ p \in dialing /\ dialing' = dialing \ {p} /\ UNCHANGED requesting
       \/ p \in requesting /\ requesting' = requesting \ {p} /\ UNCHANGED dialing
    /\ ConnectionEstablished(p, p)

\* The remote side dials.
Accept(p) ==
    /\ p \in Inbound
    /\ \E addr \in {p} \cup (IF FromStray THEN {Stray} ELSE {}) : ConnectionEstablished(p, addr)
    /\ UNCHANGED <<lags, dialing, requesting>>

\* ConnectionClosed: only the last one is reported.
ConnectionClosed(p) ==
    /\ IF Established(p) = 1 THEN Send("disconnected", p, NoAddr) ELSE UNCHANGED events
    /\ UNCHANGED <<lags, govVars, taskVars, commands, dialing, requesting>>

\* A connection that was asked to close is closed; any other one is lost.
CloseCompletes(p) ==
    /\ closing[p] > 0
    /\ closing' = [closing EXCEPT ![p] = @ - 1]
    /\ ConnectionClosed(p)
    /\ UNCHANGED open

ConnectionLost(p) ==
    /\ open[p] > 0
    /\ open' = [open EXCEPT ![p] = @ - 1]
    /\ ConnectionClosed(p)
    /\ UNCHANGED closing

-----------------------------------------------------------------------------
(* Time: a peer has been silent, has cooled down, is out of its backoff.   *)

FallsSilent(p) ==
    /\ IsActive(gov[p]) /\ ~ gov[p].quiet
    /\ p \in Mute \/ open[p] = 0
    /\ gov' = [gov EXCEPT ![p].quiet = TRUE]
    /\ UNCHANGED <<lags, pool, pending_dials, taskVars, commands, events, swarmVars>>

CooldownOver(p) ==
    /\ gov[p].cooling
    /\ gov' = [gov EXCEPT ![p].cooling = FALSE]
    /\ UNCHANGED <<lags, pool, pending_dials, taskVars, commands, events, swarmVars>>

BackoffOver(p) ==
    /\ gov[p].backoff
    /\ gov' = [gov EXCEPT ![p].backoff = FALSE]
    /\ UNCHANGED <<lags, pool, pending_dials, taskVars, commands, events, swarmVars>>

Next ==
    \/ \E churn, redial, discover \in BOOLEAN : Tick(churn, redial, discover)
    \/ PeerConnected \/ PeerDisconnected \/ DialFailureEvent
    \/ DiscoverPeers
    \/ \E p \in Peer :
          \/ IdentifyReceived(p) \/ RecordActivity(p)
          \/ SwarmDisconnect(p) \/ SwarmDial(p) \/ DialFails(p)
          \/ SwarmRequest(p) \/ RequestFails(p)
          \/ DialSucceeds(p) \/ Accept(p)
          \/ CloseCompletes(p) \/ ConnectionLost(p)
          \/ FallsSilent(p) \/ CooldownOver(p) \/ BackoffOver(p)
    \/ \E x \in exchange : \/ ExchangeAnswered(x) \/ ExchangeFailed(x)
                           \/ ExchangeRead(x) \/ ExchangeAdd(x)

Spec == Init /\ [][Next]_vars

\* The governor task, the swarm task and the spawned tasks keep running and the
\* clock advances.  The bootnode check comes with every sixth tick; that it
\* recurs says that ticks do.
TasksRun ==
    /\ SF_vars(\E churn, discover \in BOOLEAN : Tick(churn, TRUE, discover))
    /\ WF_vars(PeerConnected \/ PeerDisconnected \/ DialFailureEvent)
    /\ \A p \in Peer :
          /\ WF_vars(SwarmDisconnect(p) \/ SwarmDial(p))
          /\ WF_vars(CloseCompletes(p))
          /\ WF_vars(FallsSilent(p)) /\ WF_vars(CooldownOver(p))
          /\ WF_vars(BackoffOver(p))
    /\ WF_vars(\E x \in exchange : \/ ExchangeAnswered(x) \/ ExchangeFailed(x)
                                   \/ ExchangeRead(x) \/ ExchangeAdd(x))

\* A dial that is tried again and again succeeds at last.
Reachable == \A p \in Peer : SF_vars(DialSucceeds(p))

FairSpec == Spec /\ TasksRun
ReachableSpec == FairSpec /\ Reachable

-----------------------------------------------------------------------------
TypeOK ==
    /\ gov \in [Id -> PeerInfo]
    /\ pool \in [Peer -> Handle]
    /\ pending_dials \in [Peer -> Id \cup {None}]
    /\ exchange \subseteq Exchange
    /\ discovering \in BOOLEAN
    /\ commands \in [disconnect : SUBSET Peer, dial : SUBSET Peer]
    /\ events \in Seq(Event) /\ Len(events) <= EventCap
    /\ dialing \subseteq Peer /\ requesting \subseteq Peer
    /\ open \in [Peer -> Nat] /\ closing \in [Peer -> Nat]
    /\ lags \in BOOLEAN

\* The pool holds exactly the governor's warm and hot peers, in the same state
\* (governor_task.rs keeps the two in step by hand, in four handlers).
PoolFollowsGovernor ==
    \A p \in Peer :
        pool[p].state = IF IsActive(gov[p]) THEN gov[p].state ELSE "none"

\* Every pool entry is a peer the governor counts as active, and the other way
\* round: otherwise no tick would ever look at it again.
PoolIsGoverned == \A p \in Peer : InPool(p) <=> IsActive(gov[p])

\* Never more than hot_max peers are hot, for the governor or in the pool, from
\* which replication picks its targets: a tick that fills a place copies to the
\* pool who lost it (apply_governor_actions), and between ticks nobody gets hot.
HotBounded ==
    /\ Count(gov, "hot") <= HotMax
    /\ Cardinality({p \in Peer : pool[p].state = "hot"}) <= HotMax

\* Whoever gets hot was warm, has been heard of and is not cooling down from an
\* earlier demotion: no connection event, exchange or discovery makes a peer hot,
\* and promote_warm_to_hot comes after reap_dead in a tick.
HotEarned ==
    [][\A p \in Id :
          gov'[p].state = "hot" /\ gov[p].state # "hot" =>
             gov[p].state = "warm" /\ ~ gov[p].cooling /\ ~ gov[p].quiet]_vars

\* The pool as the other tasks see it.
Table == INSTANCE PeerTable WITH
            role <- [p \in Peer |-> pool[p].state],
            HotSets <- {S \in SUBSET Peer : Cardinality(S) <= HotMax}

\* The pool behaves as PeerTable promises: a peer enters as warm and on its own,
\* only a tick makes peers hot, all at once and within hot_max, and no tick
\* brings back a peer that has left.
ImplementsPeerTable == Table!TableSpec

\* An entry of a peer without a connection leaves the pool, even when the event
\* that should have removed it was dropped: reap_dead finds it.
StaleEntriesLeave ==
    \A p \in Peer :
        []<>(InPool(p) => Established(p) > 0)

\* A connection that stays up is entered in the pool, as long as no events are
\* dropped.
ConnectionsRegistered ==
    \A p \in Peer :
        []<>(Established(p) > 0 => InPool(p) \/ lags)

\* A bootnode that can be reached is in the pool again and again: the governor
\* or the bootnode check re-dials it.  Dropped events may prevent it.
BootnodeReturns ==
    Reachable => \A b \in Placeholder : []<>(InPool(BootAddr[b]) \/ lags)

HotOrNothingToPromote ==
    LET ready == {p \in Peer : pool[p].state = "warm" /\ open[p] > 0}
        hot == {p \in Peer : pool[p].state = "hot"}
    IN ready = {} \/ hot # {}

\* It does not stay so that the pool holds connected warm peers and no hot
\* one: promote_warm_to_hot fills up to hot_min, and anti-entropy asks the hot
\* peers first.  This takes that no events are dropped.
HotRecovers == []<>(HotOrNothingToPromote \/ lags)

\* The same without that condition.
HotRecoversWithLag == []<>HotOrNothingToPromote

\* A known peer that can be reached gets connected (again).
Reconnects == \A p \in Peer : IsKnown(gov[p]) ~> InPool(p)

\* A peer the governor holds for cold is not in the pool.
ColdNotInPool == \A p \in Peer : gov[p].state = "cold" => ~ InPool(p)

\* The governor asks for no dial to a peer in reconnect backoff.
BackoffRespected ==
    [][\A p \in Peer :
          gov[p].state = "cold" /\ gov[p].backoff /\ gov'[p].backoff
             => commands'.dial \cap {p} \subseteq commands.dial]_vars
=============================================================================
