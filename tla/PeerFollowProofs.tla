-------------------------- MODULE PeerFollowProofs --------------------------
(***************************************************************************)
(* The pool has the governor's states.  PeerConnected enters a peer as     *)
(* warm whatever the governor says, and mark_connected leaves a hot peer   *)
(* hot: it matters that the connection events of a peer alternate.         *)
(***************************************************************************)
EXTENDS PeerLifecycleProofs

Connects(k, p) == /\ k \in 1 .. Len(events)
                  /\ events[k].type = "connected" /\ events[k].peer = p
Disconnects(k, p) == /\ k \in 1 .. Len(events)
                     /\ events[k].type = "disconnected" /\ events[k].peer = p

\* Before a peer in the pool is reported connected, it is reported
\* disconnected; and a peer without connections is going to be reported so.
Alternate ==
    \A p \in Peer :
        /\ \A k \in Nat : InPool(p) /\ Connects(k, p) => \E j \in Nat : j < k /\ Disconnects(j, p)
        /\ \A i, k \in Nat : i < k /\ Connects(i, p) /\ Connects(k, p) =>
              \E j \in Nat : i < j /\ j < k /\ Disconnects(j, p)
        /\ Established(p) = 0 /\ InPool(p) => \E j \in Nat : Disconnects(j, p)
        /\ \A i \in Nat : Established(p) = 0 /\ Connects(i, p) =>
              \E j \in Nat : i < j /\ Disconnects(j, p)

FollowInv == GovInv /\ PoolFollowsGovernor /\ Alternate /\ ~ lags

LEMMA AlternateKept ==
    ASSUME Alternate, events' = events,
           \A p \in Peer : /\ InPool(p)' => InPool(p)
                           /\ Established(p)' = 0 => Established(p) = 0
    PROVE  Alternate'
<1>1. \A k, p : (Connects(k, p)' <=> Connects(k, p)) /\ (Disconnects(k, p)' <=> Disconnects(k, p))
  BY DEF Connects, Disconnects
<1> QED
  BY <1>1 DEF Alternate

LEMMA AlternateHandled ==
    ASSUME Alternate, events \in Seq(Event), events # <<>>, events' = Tail(events),
           UNCHANGED <<open, closing>>,
           \A p \in Peer : InPool(p)' => \/ InPool(p) /\ ~ Disconnects(1, p)
                                         \/ Connects(1, p)
    PROVE  Alternate'
<1>1. ASSUME NEW k \in Nat, NEW p
      PROVE  /\ Connects(k, p)' <=> Connects(k + 1, p) /\ k > 0
             /\ Disconnects(k, p)' <=> Disconnects(k + 1, p) /\ k > 0
  BY DEF Connects, Disconnects
<1>2. ASSUME NEW j \in Nat, NEW p, Disconnects(j, p), ~ Disconnects(1, p)
      PROVE  j - 1 \in Nat /\ Disconnects(j - 1, p)'
  <2>1. j \in 1 .. Len(events) /\ j # 1
    BY <1>2 DEF Disconnects
  <2> QED
    BY <1>1, <1>2, <2>1
<1>3. ASSUME NEW j \in Nat, NEW p, Disconnects(j, p), j > 1
      PROVE  j - 1 \in Nat /\ Disconnects(j - 1, p)'
  BY <1>1, <1>3
<1>4. \A p : Established(p)' = Established(p)
  BY DEF Established
<1>5. \A p : Connects(1, p) => ~ Disconnects(1, p)
  BY DEF Connects, Disconnects
<1> SUFFICES ASSUME NEW p \in Peer
             PROVE  /\ \A k \in Nat : InPool(p)' /\ Connects(k, p)' =>
                          \E j \in Nat : j < k /\ Disconnects(j, p)'
                    /\ \A i, k \in Nat : i < k /\ Connects(i, p)' /\ Connects(k, p)' =>
                          \E j \in Nat : i < j /\ j < k /\ Disconnects(j, p)'
                    /\ Established(p)' = 0 /\ InPool(p)' => \E j \in Nat : Disconnects(j, p)'
                    /\ \A i \in Nat : Established(p)' = 0 /\ Connects(i, p)' =>
                          \E j \in Nat : i < j /\ Disconnects(j, p)'
  BY DEF Alternate
<1>6. ASSUME NEW k \in Nat, InPool(p)', Connects(k, p)'
      PROVE  \E j \in Nat : j < k /\ Disconnects(j, p)'
  <2>1. k + 1 \in Nat /\ Connects(k + 1, p) /\ k > 0
    BY <1>1, <1>6
  <2>2. CASE Connects(1, p)
    <3>1. 1 < k + 1
      BY <2>1
    <3>2. PICK j \in Nat : 1 < j /\ j < k + 1 /\ Disconnects(j, p)
      BY <2>1, <2>2, <3>1 DEF Alternate
    <3> QED
      BY <1>3, <3>2
  <2>3. CASE InPool(p) /\ ~ Disconnects(1, p)
    <3>1. PICK j \in Nat : j < k + 1 /\ Disconnects(j, p)
      BY <2>1, <2>3 DEF Alternate
    <3> QED
      BY <1>2, <2>3, <3>1
  <2> QED
    BY <1>6, <2>2, <2>3
<1>7. ASSUME NEW i \in Nat, NEW k \in Nat, i < k, Connects(i, p)', Connects(k, p)'
      PROVE  \E j \in Nat : i < j /\ j < k /\ Disconnects(j, p)'
  <2>1. Connects(i + 1, p) /\ Connects(k + 1, p) /\ i + 1 < k + 1 /\ i + 1 \in Nat /\ k + 1 \in Nat
    BY <1>1, <1>7
  <2>2. PICK j \in Nat : i + 1 < j /\ j < k + 1 /\ Disconnects(j, p)
    BY <2>1 DEF Alternate
  <2> QED
    BY <1>3, <2>2
<1>8. ASSUME Established(p)' = 0, InPool(p)' PROVE \E j \in Nat : Disconnects(j, p)'
  <2>1. Established(p) = 0
    BY <1>4, <1>8
  <2>2. CASE Connects(1, p)
    <3>1. PICK j \in Nat : 1 < j /\ Disconnects(j, p)
      BY <2>1, <2>2 DEF Alternate
    <3> QED
      BY <1>3, <3>1
  <2>3. CASE InPool(p) /\ ~ Disconnects(1, p)
    <3>1. PICK j \in Nat : Disconnects(j, p)
      BY <2>1, <2>3 DEF Alternate
    <3> QED
      BY <1>2, <2>3, <3>1
  <2> QED
    BY <1>8, <2>2, <2>3
<1>9. ASSUME NEW i \in Nat, Established(p)' = 0, Connects(i, p)'
      PROVE  \E j \in Nat : i < j /\ Disconnects(j, p)'
  <2>1. Connects(i + 1, p) /\ i + 1 \in Nat /\ Established(p) = 0
    BY <1>1, <1>4, <1>9
  <2>2. PICK j \in Nat : i + 1 < j /\ Disconnects(j, p)
    BY <2>1 DEF Alternate
  <2> QED
    BY <1>3, <2>2
<1> QED
  BY <1>6, <1>7, <1>8, <1>9

\* A report that is sent while the governor task keeps up.
LEMMA AlternateSent ==
    ASSUME Alternate, events \in Seq(Event), ~ lags, NEW p \in Peer, NEW addr \in Addr,
           NEW type \in {"connected", "disconnected", "dial_failed"}, Send(type, p, addr),
           pool' = pool,
           \A q \in Peer : q # p \/ type = "dial_failed" => Established(q)' = Established(q),
           type = "connected" => Established(p) = 0 /\ Established(p)' # 0
    PROVE  Alternate'
<1> DEFINE new == [type |-> type, peer |-> p, addr |-> addr]
           n == Len(events) + 1
<1>1. events' = Append(events, new) /\ new \in Event
  BY DEF Send, Event
<1>2. n \in Nat /\ Len(events') = n /\ events'[n] = new
      /\ \A k \in 1 .. Len(events) : k < n /\ k \in 1 .. n /\ events'[k] = events[k]
  BY <1>1
<1>3. ASSUME NEW k \in Nat, NEW q
      PROVE  /\ Connects(k, q)' <=> \/ Connects(k, q)
                                    \/ k = n /\ type = "connected" /\ q = p
             /\ Disconnects(k, q)' <=> \/ Disconnects(k, q)
                                       \/ k = n /\ type = "disconnected" /\ q = p
  <2>1. new.type = type /\ new.peer = p
    OBVIOUS
  <2>2. k \in 1 .. n <=> k \in 1 .. Len(events) \/ k = n
    BY <1>1
  <2>3. Len(events) \in Nat /\ ~ (n \in 1 .. Len(events))
    BY <1>1
  <2> HIDE DEF new, n
  <2> QED
    BY <1>2, <2>1, <2>2, <2>3 DEF Connects, Disconnects
<1>4. \A k \in Nat : \A q : Connects(k, q) \/ Disconnects(k, q) => k < n
  BY <1>2 DEF Connects, Disconnects
<1>5. \A q \in Peer : InPool(q)' <=> InPool(q)
  BY DEF InPool
<1> HIDE DEF n
<1> SUFFICES ASSUME NEW q \in Peer
             PROVE  /\ \A k \in Nat : InPool(q)' /\ Connects(k, q)' =>
                          \E j \in Nat : j < k /\ Disconnects(j, q)'
                    /\ \A i, k \in Nat : i < k /\ Connects(i, q)' /\ Connects(k, q)' =>
                          \E j \in Nat : i < j /\ j < k /\ Disconnects(j, q)'
                    /\ Established(q)' = 0 /\ InPool(q)' => \E j \in Nat : Disconnects(j, q)'
                    /\ \A i \in Nat : Established(q)' = 0 /\ Connects(i, q)' =>
                          \E j \in Nat : i < j /\ Disconnects(j, q)'
  BY DEF Alternate
<1>6. ASSUME NEW k \in Nat, InPool(q)', Connects(k, q)'
      PROVE  \E j \in Nat : j < k /\ Disconnects(j, q)'
  <2>1. CASE Connects(k, q)
    BY <1>3, <1>5, <1>6, <2>1 DEF Alternate
  <2>2. CASE k = n /\ type = "connected" /\ q = p
    <3>1. PICK j \in Nat : Disconnects(j, q)
      BY <1>5, <1>6, <2>2 DEF Alternate
    <3> QED
      BY <1>3, <1>4, <2>2, <3>1
  <2> QED
    BY <1>3, <1>6, <2>1, <2>2
<1>7. ASSUME NEW i \in Nat, NEW k \in Nat, i < k, Connects(i, q)', Connects(k, q)'
      PROVE  \E j \in Nat : i < j /\ j < k /\ Disconnects(j, q)'
  <2>1. CASE Connects(i, q) /\ Connects(k, q)
    BY <1>3, <1>7, <2>1 DEF Alternate
  <2>2. CASE Connects(i, q) /\ k = n /\ type = "connected" /\ q = p
    <3>1. PICK j \in Nat : i < j /\ Disconnects(j, q)
      BY <2>2 DEF Alternate
    <3> QED
      BY <1>3, <1>4, <2>2, <3>1
  <2>3. CASE i = n
    BY <1>2, <1>3, <1>4, <1>7, <2>3
  <2> QED
    BY <1>3, <1>7, <2>1, <2>2, <2>3
<1>8. ASSUME Established(q)' = 0, InPool(q)' PROVE \E j \in Nat : Disconnects(j, q)'
  <2>1. CASE Established(q) = 0
    BY <1>3, <1>5, <1>8, <2>1 DEF Alternate
  <2>2. CASE Established(q) # 0
    <3>1. q = p /\ type = "disconnected"
      BY <1>8, <2>2
    <3> QED
      BY <1>2, <1>3, <3>1
  <2> QED
    BY <2>1, <2>2
<1>9. ASSUME NEW i \in Nat, Established(q)' = 0, Connects(i, q)'
      PROVE  \E j \in Nat : i < j /\ Disconnects(j, q)'
  <2>1. Connects(i, q)
    BY <1>3, <1>9
  <2>2. CASE Established(q) = 0
    BY <1>3, <2>1, <2>2 DEF Alternate
  <2>3. CASE Established(q) # 0
    <3>1. q = p /\ type = "disconnected"
      BY <1>9, <2>3
    <3> QED
      BY <1>2, <1>3, <1>4, <2>1, <3>1
  <2> QED
    BY <2>2, <2>3
<1> QED
  BY <1>6, <1>7, <1>8, <1>9

\* A step after which the governor counts the same peers as before, or fewer,
\* in the states they had.
LEMMA FollowStep ==
    ASSUME FollowInv, GovInv',
           \A p \in Peer : /\ pool'[p].state \in {pool[p].state, "none"}
                           /\ IsActive(gov[p]) /\ IsActive(gov'[p]) => gov'[p].state = gov[p].state
    PROVE  PoolFollowsGovernor'
<1>1. PoolIsGoverned /\ PoolIsGoverned'
  BY DEF FollowInv, GovInv, Governed
<1>2. \A p \in Peer : pool'[p].state # "none" => pool'[p].state = pool[p].state
  OBVIOUS
<1> QED
  BY <1>1, <1>2 DEF FollowInv, PoolFollowsGovernor, PoolIsGoverned, InPool

LEMMA TickFollows ==
    ASSUME FollowInv, GovInv', NEW up \in SUBSET Id, NEW down \in SUBSET Id,
           NEW out \in SUBSET Id, NEW evicted \in SUBSET Id, NEW connect \in SUBSET Id,
           Roomy, TickDoes(up, down, out, evicted, connect)
    PROVE  PoolFollowsGovernor' /\ \A p \in Peer : InPool(p)' => InPool(p)
<1>t. gov \in [Id -> PeerInfo] /\ pool \in [Peer -> Handle]
  BY DEF FollowInv, GovInv, TypeOK
<1>1. PoolIsGoverned /\ PoolIsGoverned'
  BY DEF FollowInv, GovInv, Governed
<1>2. gov' = Rotated(up, down, out)
  <2>1. Rotated(up, down, out) \in [Id -> PeerInfo]
    BY <1>t, SettledType
  <2>2. evicted = {}
    BY NobodyEvicted DEF TickDoes
  <2> QED
    BY <2>1, <2>2 DEF TickDoes, Forget
<1> SUFFICES ASSUME NEW p \in Peer, pool'[p].state # "none"
             PROVE  pool'[p].state = gov'[p].state /\ InPool(p)
  BY <1>1 DEF PoolFollowsGovernor, PoolIsGoverned, InPool
<1>3. p \in Id
  BY DEF Id
<1>4. /\ p \notin out => gov'[p].state = Settled(up, down)[p].state
      /\ p \notin Moved(up, down) \cup DeadWarm(gov) /\ IsActive(gov[p]) =>
            Settled(up, down)[p].state = gov[p].state
  <2>1. gov[p].quiet => IsActive(gov[p])
    BY <1>3, Zenon DEF FollowInv, GovInv, Governed
  <2>2. TickEffect(up, down, out, evicted, p)
    BY <1>t, <1>3, <2>1, TickMoves
  <2> QED
    BY <1>2, <2>2, Zenon DEF TickEffect
<1>5. pool'[p] = IF p \in DeadWarm(gov) \cup out THEN Absent
                 ELSE IF InPool(p) /\ p \in Moved(up, down)
                      THEN [pool[p] EXCEPT !.state = Settled(up, down)[p].state]
                 ELSE pool[p]
  BY DEF TickDoes, ApplyGovernorActions
<1>6. p \notin DeadWarm(gov) /\ p \notin out /\ InPool(p)
  BY <1>5 DEF Absent, InPool
<1>7. pool[p].state = gov[p].state /\ IsActive(gov[p])
  BY <1>6 DEF FollowInv, PoolFollowsGovernor, InPool
<1>8. CASE p \in Moved(up, down)
  BY <1>t, <1>4, <1>5, <1>6, <1>8 DEF Handle
<1>9. CASE p \notin Moved(up, down)
  BY <1>4, <1>5, <1>6, <1>7, <1>9
<1> QED
  BY <1>6, <1>8, <1>9

\* A peer that is reported connected is not in the pool: the governor has it
\* for cold or unknown, and mark_connected makes it warm.
LEMMA ConnectedFollows ==
    ASSUME FollowInv, GovInv', PeerConnected
    PROVE  PoolFollowsGovernor'
<1> DEFINE e == Head(events)
           p == e.peer
           dialled == IF e.addr \in Peer THEN pending_dials[e.addr] ELSE None
           met == IF dialled # None
                  THEN IF dialled # p THEN ReplaceNodeId(gov, dialled, p) ELSE gov
                  ELSE IF IsKnown(gov[p]) THEN gov ELSE AddPeer(gov, p, e.addr)
<1>t. events \in Seq(Event) /\ events # <<>> /\ pool \in [Peer -> Handle]
      /\ gov \in [Id -> PeerInfo] /\ pending_dials \in [Peer -> Id \cup {None}]
  BY Zenon DEF FollowInv, GovInv, TypeOK, PeerConnected
<1>1. p \in Peer /\ p \in Id /\ e.addr \in Addr /\ e \in Event
  <2>1. e \in Event
    BY <1>t, HeadType
  <2> HIDE DEF e
  <2> QED
    BY <2>1 DEF Event, Id
<1>2. PoolIsGoverned /\ PoolIsGoverned'
  BY DEF FollowInv, GovInv, Governed
<1>3. ~ InPool(p)
  <2>1. Connects(1, p)
    <3>1. e.type = "connected"
      BY Zenon DEF PeerConnected
    <3>2. e = events[1] /\ 1 \in 1 .. Len(events)
      BY <1>t
    <3> QED
      BY <3>1, <3>2 DEF Connects
  <2>2. \A j \in Nat : ~ (j < 1 /\ Disconnects(j, p))
    BY DEF Disconnects
  <2> QED
    BY <1>1, <2>1, <2>2 DEF FollowInv, Alternate
<1>4. ~ IsActive(gov[p])
  BY <1>1, <1>2, <1>3 DEF PoolIsGoverned
<1>5. e.addr \in Peer => e.addr = p
  <2>1. 1 \in 1 .. Len(events) /\ e = events[1]
    BY <1>t
  <2>2. e.addr \in Near(p)
    BY <2>1 DEF FollowInv, GovInv, Addressed
  <2> QED
    BY <2>2, Nearest, Zenon DEF Id
<1>6. /\ \A q \in Peer \ {p} : met[q].state = gov[q].state
      /\ met[p].state # "hot"
      /\ met \in [Id -> PeerInfo]
  <2>1. CASE dialled = None
    <3>1. CASE IsKnown(gov[p])
      BY <1>t, <1>4, <2>1, <3>1, Zenon DEF IsActive
    <3>2. CASE ~ IsKnown(gov[p])
      <4>1. met = AddPeer(gov, p, e.addr)
        BY <2>1, <3>2
      <4> HIDE DEF met, e, p
      <4>2. met \in [Id -> PeerInfo]
        BY <1>t, <1>1, <4>1, AddPeerType
      <4>3. \A q \in Id : met[q].state = IF q = p /\ gov[p].state = "unknown" THEN "cold" ELSE gov[q].state
        BY <1>t, <1>1, <4>1, AddPeerAt
      <4> QED
        BY <1>1, <1>4, <4>2, <4>3 DEF IsActive, Id
    <3> QED
      BY <3>1, <3>2, ZenonT(30)
  <2>2. CASE dialled = p
    <3>1. p # None
      BY <1>1, TargetAssumption DEF None, Id
    <3> QED
      BY <1>t, <1>4, <2>2, <3>1, ZenonT(30) DEF IsActive
  <2>3. CASE dialled \notin {None, p}
    <3>1. dialled \in Placeholder /\ BootAddr[dialled] = p
      BY <1>1, <1>5, <2>3, ZenonT(30) DEF FollowInv, GovInv, Addressed
    <3>2. ~ IsActive(gov[dialled]) /\ dialled \in Id /\ dialled \notin Peer
      <4>1. ~ IsActive(gov[dialled])
        BY <3>1, Zenon DEF FollowInv, GovInv, Addressed
      <4>2. dialled \in Id /\ dialled \notin Peer
        BY <3>1, IdParts, ZenonT(30)
      <4> QED
        BY <4>1, <4>2
    <3>3. met = ReplaceNodeId(gov, dialled, p)
      BY <2>3
    <3> HIDE DEF met, dialled, e, p
    <3>4. met \in [Id -> PeerInfo]
      BY <1>t, <1>1, <3>2, <3>3, ReplaceNodeIdType, ZenonT(30)
    <3>5. \A q \in Id : q \notin {p, dialled} => met[q] = gov[q]
      BY <1>t, <3>3, ZenonT(30) DEF ReplaceNodeId
    <3>6. met[p].state # "hot"
      <4>1. met[p] = gov[p] \/ met[p] = gov[dialled]
        BY <1>t, <1>1, <1>4, <3>1, <3>2, <3>3, ZenonT(30) DEF ReplaceNodeId
      <4> QED
        BY <1>4, <3>2, <4>1 DEF IsActive
    <3> QED
      BY <3>2, <3>4, <3>5, <3>6, ZenonT(30) DEF Id
  <2> QED
    BY <2>1, <2>2, <2>3, ZenonT(30)
<1>7. /\ gov' = MarkConnected(met, p)
      /\ pool' = [pool EXCEPT ![p] = [state |-> "warm", addr |-> e.addr,
                                      is_relay |-> gov'[p].is_relay]]
  BY Zenon DEF PeerConnected
<1> HIDE DEF met, p, e, dialled
<1>8. \A q \in Id : gov'[q].state = IF q = p /\ met[p].state = "cold" THEN "warm" ELSE met[q].state
  BY <1>1, <1>6, <1>7, MarkConnectedAt, ZenonT(30)
<1>9. pool'[p].state = "warm" /\ \A q \in Peer \ {p} : pool'[q] = pool[q]
  BY <1>t, <1>1, <1>7, ZenonT(30)
<1>10. IsActive(gov'[p])
  BY <1>1, <1>2, <1>9, ZenonT(30) DEF PoolIsGoverned, InPool
<1>11. gov'[p].state = "warm"
  BY <1>1, <1>6, <1>8, <1>10, ZenonT(30) DEF IsActive
<1>12. \A q \in Peer \ {p} : gov'[q].state = gov[q].state
  BY <1>6, <1>8, ZenonT(30) DEF Id
<1> QED
  BY <1>9, <1>10, <1>11, <1>12 DEF FollowInv, PoolFollowsGovernor, IsActive

LEMMA NextFollowInv == Roomy /\ ~ CanLag /\ FollowInv /\ [Next]_vars => FollowInv'
<1> SUFFICES ASSUME Roomy, FollowInv, [Next]_vars PROVE FollowInv'
  OBVIOUS
<1> USE DEF govVars, taskVars, swarmVars
<1>g. GovInv /\ GovInv' /\ PoolFollowsGovernor /\ Alternate /\ ~ lags
  BY NextGovInv DEF FollowInv
<1>l. ~ lags'
  BY <1>g, Zenon DEF Next, vars, Tick, PeerConnected, PeerDisconnected, DialFailureEvent,
        DiscoverPeers, IdentifyReceived, RecordActivity, SwarmDisconnect, SwarmDial, DialFails,
        SwarmRequest, RequestFails, DialSucceeds, Accept, CloseCompletes, ConnectionLost,
        ConnectionEstablished, ConnectionClosed, FallsSilent, CooldownOver, BackoffOver,
        ExchangeAnswered, ExchangeFailed, ExchangeRead, ExchangeAdd
<1>t. /\ gov \in [Id -> PeerInfo] /\ pool \in [Peer -> Handle] /\ events \in Seq(Event)
      /\ Len(events) <= EventCap /\ exchange \subseteq Exchange
      /\ open \in [Peer -> Nat] /\ closing \in [Peer -> Nat] /\ gov' \in [Id -> PeerInfo]
      /\ open' \in [Peer -> Nat] /\ closing' \in [Peer -> Nat]
  BY <1>g DEF GovInv, TypeOK
<1>i. Peer \subseteq Id
  BY DEF Id
\* What leaves connections and their events alone.
<1>s. ASSUME UNCHANGED <<events, open, closing>>,
             \A p \in Peer : /\ pool'[p].state = pool[p].state
                             /\ IsActive(gov[p]) => gov'[p].state = gov[p].state
      PROVE  FollowInv'
  <2>1. PoolFollowsGovernor'
    BY <1>g, <1>s, FollowStep, ZenonT(30)
  <2>2. Alternate'
    BY <1>g, <1>s, AlternateKept DEF InPool, Established
  <2> QED
    BY <1>g, <1>l, <2>1, <2>2, ZenonT(30) DEF FollowInv
\* What leaves governor and pool alone.
<1>q. ASSUME UNCHANGED <<gov, pool>>, Alternate' PROVE FollowInv'
  BY <1>g, <1>l, <1>q DEF FollowInv, PoolFollowsGovernor
\* Reading an event.
<1>h. ASSUME events # <<>> PROVE Head(events) = events[1] /\ Len(events) \in Nat /\ Len(events) > 0
  BY <1>t, <1>h
<1>a. ASSUME NEW g \in [Id -> PeerInfo], NEW p \in Id, NEW a \in Addr, NEW q \in Id, IsActive(g[q])
      PROVE  AddPeer(g, p, a)[q].state = g[q].state
  BY <1>a, AddPeerAt DEF IsActive
<1>1. ASSUME NEW churn \in BOOLEAN, NEW redial \in BOOLEAN, NEW discover \in BOOLEAN,
             Tick(churn, redial, discover)
      PROVE  FollowInv'
  <2>1. PICK up, down, out, evicted, connect \in SUBSET Id :
                TickDoes(up, down, out, evicted, connect)
    BY <1>1, TickStep
  <2>2. UNCHANGED <<events, open, closing>>
    BY <1>1, Zenon DEF Tick
  <2>3. PoolFollowsGovernor' /\ \A p \in Peer : InPool(p)' => InPool(p)
    BY <1>g, <2>1, TickFollows, ZenonT(30)
  <2>4. Alternate'
    BY <1>g, <2>2, <2>3, AlternateKept, ZenonT(30) DEF Established
  <2> QED
    BY <1>g, <1>l, <2>3, <2>4, ZenonT(30) DEF FollowInv
<1>2. CASE PeerConnected
  <2>1. PoolFollowsGovernor'
    BY <1>2, <1>g, ConnectedFollows
  <2>e. /\ events # <<>> /\ events' = Tail(events) /\ UNCHANGED <<open, closing>>
        /\ Head(events).type = "connected"
        /\ \E h : pool' = [pool EXCEPT ![Head(events).peer] = h]
    BY <1>2, Zenon DEF PeerConnected
  <2>2. events # <<>> /\ events' = Tail(events) /\ UNCHANGED <<open, closing>>
        /\ Connects(1, Head(events).peer)
    BY <1>h, <2>e DEF Connects
  <2>3. ASSUME NEW p \in Peer, InPool(p)'
        PROVE  (InPool(p) /\ ~ Disconnects(1, p)) \/ Connects(1, p)
    <3>1. CASE p = Head(events).peer
      BY <2>2, <3>1, ZenonT(30)
    <3>2. CASE p # Head(events).peer
      <4>1. pool'[p] = pool[p]
        BY <1>t, <2>e, <3>2, ZenonT(30)
      <4> QED
        BY <1>h, <2>2, <2>3, <3>2, <4>1, ZenonT(30) DEF InPool, Disconnects
    <3> QED
      BY <3>1, <3>2
  <2>4. Alternate'
    BY <1>g, <1>t, <2>2, <2>3, AlternateHandled, ZenonT(30)
  <2> QED
    BY <1>g, <1>l, <2>1, <2>4 DEF FollowInv
<1>3. CASE PeerDisconnected
  <2> DEFINE p == Head(events).peer
  <2>1. /\ events # <<>> /\ events' = Tail(events) /\ UNCHANGED <<open, closing>>
        /\ pool' = [pool EXCEPT ![p] = Absent] /\ gov' = MarkDisconnected(gov, p)
        /\ p \in Peer
    BY <1>3, <1>t, HeadType, ZenonT(30) DEF PeerDisconnected, Event
  <2>2. \A q \in Peer : pool'[q] = IF q = p THEN Absent ELSE pool[q]
    BY <1>t, <2>1, ZenonT(30)
  <2>3. \A q \in Peer : IsActive(gov[q]) /\ IsActive(gov'[q]) => gov'[q].state = gov[q].state
    <3>1. \A q \in Id : gov'[q].state = IF q = p /\ IsActive(gov[p]) THEN "cold" ELSE gov[q].state
      BY <1>t, <1>i, <2>1, MarkDisconnectedAt, ZenonT(30)
    <3> QED
      BY <1>i, <3>1 DEF IsActive
  <2>4. PoolFollowsGovernor'
    <3>1. \A q \in Peer : pool'[q].state \in {pool[q].state, "none"}
      BY <2>2 DEF Absent
    <3> HIDE DEF p
    <3> QED
      BY <1>g, <2>3, <3>1, FollowStep, ZenonT(30)
  <2>5. Disconnects(1, p) /\ \A q \in Peer : q # p => ~ Disconnects(1, q)
    <3>1. events[1].type = "disconnected" /\ events[1].peer = p
      BY <1>3, <1>h, <2>1, Zenon DEF PeerDisconnected
    <3>2. 1 \in 1 .. Len(events)
      BY <1>h, <2>1
    <3> HIDE DEF p
    <3> QED
      BY <3>1, <3>2, Zenon DEF Disconnects
  <2>6. Alternate'
    BY <1>g, <1>t, <2>1, <2>2, <2>5, AlternateHandled, ZenonT(30) DEF InPool, Absent
  <2> QED
    BY <1>g, <1>l, <2>4, <2>6 DEF FollowInv
<1>4. CASE DialFailureEvent
  <2>1. events # <<>> /\ events' = Tail(events) /\ UNCHANGED <<open, closing, pool>>
    BY <1>4 DEF DialFailureEvent
  <2>2. \A q \in Id : gov'[q].state = gov[q].state
    BY <1>4, <1>t DEF DialFailureEvent, MarkDialFailed, PeerInfo
  <2>3. PoolFollowsGovernor'
    BY <1>g, <1>i, <2>1, <2>2, FollowStep, ZenonT(30)
  <2>4. \A q : ~ Disconnects(1, q)
    BY <1>4, <1>h, ZenonT(30) DEF DialFailureEvent, Disconnects
  <2>5. Alternate'
    BY <1>g, <1>t, <2>1, <2>4, AlternateHandled, ZenonT(30) DEF InPool
  <2> QED
    BY <1>g, <1>l, <2>3, <2>5 DEF FollowInv
<1>5. CASE DiscoverPeers
  <2>1. PICK reported \in SUBSET (Relays \X {FALSE, TRUE}) :
          gov' = [p \in Id |->
                    IF IsActive(gov[p]) \/ \A stray \in BOOLEAN : <<p, stray>> \notin reported
                    THEN gov[p]
                    ELSE LET addr == IF <<p, TRUE>> \in reported THEN Stray ELSE p
                         IN [AddPeer(gov, p, addr)[p] EXCEPT !.is_relay = TRUE]]
    BY <1>5, Zenon DEF DiscoverPeers
  <2>2. \A q \in Id : IsActive(gov[q]) => gov'[q] = gov[q]
    BY <2>1
  <2> QED
    BY <1>5, <1>s, <1>i, <2>2, Zenon DEF DiscoverPeers
<1>6. ASSUME NEW p \in Peer, IdentifyReceived(p) PROVE FollowInv'
  <2> DEFINE same == {q \in In(gov, "cold") \ {p} : gov[q].addr = p}
  <2>1. PICK met \in IF same = {} THEN {gov} ELSE {ReplaceNodeId(gov, q, p) : q \in same} :
          IF InPool(p) /\ pool[p].addr # p
          THEN gov' = AddPeer(met, p, p) /\ pool' = [pool EXCEPT ![p].addr = p]
          ELSE gov' = met /\ UNCHANGED pool
    BY <1>6, ZenonT(30) DEF IdentifyReceived
  <2>2. \A q \in same : q \in Id /\ gov[q].state = "cold" /\ q # p
    BY DEF In
  <2>3. met = gov \/ \E q \in same : met = ReplaceNodeId(gov, q, p)
    BY <2>1, ZenonT(30)
  <2>4. p \in Id /\ p \in Addr
    BY ZenonT(30) DEF Id, Addr
  <2> HIDE DEF same
  <2>5. met \in [Id -> PeerInfo] /\ \A r \in Id : IsActive(gov[r]) => met[r].state = gov[r].state
    <3>1. ASSUME NEW q \in same, met = ReplaceNodeId(gov, q, p)
          PROVE  met \in [Id -> PeerInfo] /\ \A r \in Id : IsActive(gov[r]) => met[r].state = gov[r].state
      <4>1. met \in [Id -> PeerInfo]
        BY <1>t, <2>2, <2>4, <3>1, ReplaceNodeIdType, Zenon
      <4>2. ASSUME NEW r \in Id, IsActive(gov[r]) PROVE met[r].state = gov[r].state
        <5>1. r # q
          BY <2>2, <4>2 DEF IsActive
        <5>2. r = p => met[r] = [gov[p] EXCEPT !.is_relay = gov[p].is_relay \/ gov[q].is_relay]
          BY <1>t, <2>2, <3>1, <4>2, ZenonT(30) DEF ReplaceNodeId, IsKnown
        <5>3. r # p => met[r] = gov[r]
          BY <1>t, <3>1, <5>1 DEF ReplaceNodeId
        <5>4. r = p => met[r].state = gov[r].state
          <6>1. gov[p] \in PeerInfo
            BY <1>t, <2>4
          <6> QED
            BY <5>2, <6>1 DEF PeerInfo
        <5> QED
          BY <5>3, <5>4, ZenonT(30)
      <4> QED
        BY <4>1, <4>2
    <3> QED
      BY <1>t, <2>3, <3>1, ZenonT(30)
  <2>6. \A r \in Id : IsActive(gov[r]) => gov'[r].state = gov[r].state
    <3>1. \A r \in Id : IsActive(gov[r]) => IsActive(met[r])
      BY <2>5 DEF IsActive
    <3> QED
      BY <1>a, <2>1, <2>4, <2>5, <3>1
  <2>7. \A q \in Peer : pool'[q].state = pool[q].state
    <3>1. pool' = [pool EXCEPT ![p].addr = p] \/ pool' = pool
      BY <2>1
    <3>2. \A q \in Peer : \/ pool'[q] = pool[q]
                          \/ pool'[q] = [pool[q] EXCEPT !.addr = p]
      BY <1>t, <3>1, Zenon
    <3>3. \A q \in Peer : pool[q] \in Handle
      BY <1>t
    <3> QED
      BY <3>2, <3>3, Zenon DEF Handle
  <2> QED
    BY <1>6, <1>s, <1>i, <2>6, <2>7, ZenonT(30) DEF IdentifyReceived
<1>7. ASSUME NEW p \in Peer,
             RecordActivity(p) \/ FallsSilent(p) \/ CooldownOver(p) \/ BackoffOver(p)
      PROVE  FollowInv'
  <2>1. \A q \in Id : gov'[q].state = gov[q].state
    <3>1. CASE FallsSilent(p)
      BY <1>t, <1>i, <3>1 DEF FallsSilent, PeerInfo
    <3>2. CASE RecordActivity(p)
      BY <1>t, <1>i, <3>2 DEF RecordActivity, PeerInfo
    <3>3. CASE CooldownOver(p)
      BY <1>t, <1>i, <3>3 DEF CooldownOver, PeerInfo
    <3>4. CASE BackoffOver(p)
      BY <1>t, <1>i, <3>4 DEF BackoffOver, PeerInfo
    <3> QED
      BY <1>7, <3>1, <3>2, <3>3, <3>4
  <2>2. UNCHANGED <<pool, events, open, closing>>
    BY <1>7 DEF RecordActivity, FallsSilent, CooldownOver, BackoffOver
  <2> QED
    BY <1>s, <1>i, <2>1, <2>2, ZenonT(30)
<1>8. ASSUME NEW p \in Peer, SwarmDial(p) \/ DialFails(p) \/ SwarmRequest(p) PROVE FollowInv'
  BY <1>8, <1>s DEF SwarmDial, DialFails, SwarmRequest
<1>9. ASSUME NEW p \in Peer, SwarmDisconnect(p) PROVE FollowInv'
  <2>1. UNCHANGED <<gov, pool, events>>
    BY <1>9 DEF SwarmDisconnect
  <2>2. open' = [open EXCEPT ![p] = 0] /\ closing' = [closing EXCEPT ![p] = closing[p] + open[p]]
    BY <1>9 DEF SwarmDisconnect
  <2>3. \A q \in Peer : Established(q)' = Established(q)
    BY <1>t, <2>2 DEF Established
  <2>4. Alternate'
    BY <1>g, <2>1, <2>3, AlternateKept DEF InPool
  <2> QED
    BY <1>q, <2>1, <2>4
<1>10. ASSUME NEW p \in Peer, RequestFails(p) PROVE FollowInv'
  <2>1. UNCHANGED <<gov, pool, open, closing>> /\ Send("dial_failed", p, NoAddr)
    BY <1>10 DEF RequestFails
  <2>2. Alternate'
    BY <1>g, <1>t, <2>1, AlternateSent DEF Established, Addr
  <2> QED
    BY <1>q, <2>1, <2>2
<1>11. ASSUME NEW p \in Peer, NEW addr \in Near(p), ConnectionEstablished(p, addr) PROVE FollowInv'
  <2>1. UNCHANGED <<gov, pool>> /\ open' = [open EXCEPT ![p] = open[p] + 1] /\ closing' = closing
    BY <1>11 DEF ConnectionEstablished
  <2>2. /\ \A q \in Peer : q # p => Established(q)' = Established(q)
        /\ Established(p)' # 0
    BY <1>t, <2>1 DEF Established
  <2>3. Alternate'
    <3>1. CASE Established(p) = 0
      <4>1. Send("connected", p, addr)
        BY <1>11, <3>1 DEF ConnectionEstablished
      <4> QED
        BY <1>g, <1>t, <2>1, <2>2, <3>1, <4>1, AlternateSent, ZenonT(30) DEF Near, Addr
    <3>2. CASE Established(p) # 0
      <4>1. events' = events
        BY <1>11, <3>2 DEF ConnectionEstablished
      <4> QED
        BY <1>g, <2>1, <2>2, <4>1, AlternateKept DEF InPool
    <3> QED
      BY <3>1, <3>2, ZenonT(30)
  <2> QED
    BY <1>q, <2>1, <2>3
<1>12. ASSUME NEW p \in Peer, DialSucceeds(p) \/ Accept(p) PROVE FollowInv'
  BY <1>11, <1>12 DEF DialSucceeds, Accept, Near
<1>13. ASSUME NEW p \in Peer, CloseCompletes(p) \/ ConnectionLost(p) PROVE FollowInv'
  <2>1. ConnectionClosed(p) /\ UNCHANGED <<gov, pool>>
    BY <1>13 DEF CloseCompletes, ConnectionLost, ConnectionClosed
  <2>2. /\ \A q \in Peer : q # p => Established(q)' = Established(q)
        /\ Established(p)' = Established(p) - 1 /\ Established(p) \in Nat
    <3>1. CASE CloseCompletes(p)
      BY <1>t, <3>1 DEF CloseCompletes, Established
    <3>2. CASE ConnectionLost(p)
      BY <1>t, <3>2 DEF ConnectionLost, Established
    <3> QED
      BY <1>13, <3>1, <3>2
  <2>3. Alternate'
    <3>1. CASE Established(p) = 1
      <4>1. Send("disconnected", p, NoAddr)
        BY <2>1, <3>1 DEF ConnectionClosed
      <4> QED
        BY <1>g, <1>t, <2>1, <2>2, <4>1, AlternateSent, ZenonT(30) DEF Addr
    <3>2. CASE Established(p) # 1
      <4>1. events' = events
        BY <2>1, <3>2 DEF ConnectionClosed
      <4>2. Established(p)' # 0
        BY <2>2, <3>2
      <4> QED
        BY <1>g, <2>1, <2>2, <4>1, <4>2, AlternateKept DEF InPool
    <3> QED
      BY <3>1, <3>2
  <2> QED
    BY <1>q, <2>1, <2>3
<1>14. ASSUME NEW x \in exchange, ExchangeAnswered(x) \/ ExchangeFailed(x) \/ ExchangeRead(x)
       PROVE  FollowInv'
  BY <1>14, <1>s DEF ExchangeAnswered, ExchangeFailed, ExchangeRead
<1>15. ASSUME NEW x \in exchange, ExchangeAdd(x) PROVE FollowInv'
  <2>1. x.peer \in Id /\ x.addr \in Addr
    BY <1>t, <1>i DEF Exchange
  <2>2. \A q \in Id : IsActive(gov[q]) => gov'[q].state = gov[q].state
    BY <1>15, <1>t, <1>a, <2>1, Zenon DEF ExchangeAdd
  <2> QED
    BY <1>15, <1>s, <1>i, <2>2, ZenonT(30) DEF ExchangeAdd
<1>16. CASE UNCHANGED vars
  BY <1>16, <1>s DEF vars
<1> QED
  BY <1>1, <1>2, <1>3, <1>4, <1>5, <1>6, <1>7, <1>8, <1>9, <1>10, <1>12, <1>13, <1>14, <1>15, <1>16, ZenonT(30)
     DEF Next

\* As long as the governor task keeps up with its events, and cold_max leaves
\* room for every identity, the pool also has the governor's states.
THEOREM PoolFollows == Roomy /\ ~ CanLag => (Spec => []PoolFollowsGovernor)
<1> SUFFICES ASSUME Roomy, ~ CanLag PROVE Spec => []PoolFollowsGovernor
  BY ZenonT(30)
<1>1. Init => FollowInv
  <2> SUFFICES ASSUME Init PROVE FollowInv
    OBVIOUS
  <2>1. GovInv
    BY InitGovInv
  <2>2. ~ lags
    BY ZenonT(30) DEF Init
  <2>3. \A p \in Peer : pool[p].state = "none" /\ ~ InPool(p)
    BY Zenon DEF Init, Absent, InPool
  <2>4. PoolFollowsGovernor
    BY <2>1, <2>3 DEF PoolFollowsGovernor, GovInv, Governed, PoolIsGoverned
  <2>5. \A k, p : ~ Connects(k, p)
    <3>1. Len(events) = 0
      BY Zenon DEF Init
    <3> QED
      BY <3>1 DEF Connects
  <2> QED
    BY <2>1, <2>2, <2>3, <2>4, <2>5 DEF FollowInv, Alternate
<1>2. FollowInv /\ [Next]_vars => FollowInv'
  BY NextFollowInv
<1>3. FollowInv => PoolFollowsGovernor
  BY DEF FollowInv
<1> QED
  BY <1>1, <1>2, <1>3, PTL DEF Spec
=============================================================================
