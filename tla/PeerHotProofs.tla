--------------------------- MODULE PeerHotProofs ----------------------------
(***************************************************************************)
(* How many peers are hot, who gets hot, and what the pool promises to the *)
(* tasks that read it.  Here cold entries may be evicted and events        *)
(* dropped.                                                                *)
(***************************************************************************)
EXTENDS PeerLifecycleProofs, FiniteSetTheorems

\* Roomy, under which nobody is evicted from the cold table, is what a cold_max
\* of at least the number of identities gives.
LEMMA RoomForAll == IsFiniteSet(Id) /\ Cardinality(Id) <= ColdMax => Roomy
<1> SUFFICES ASSUME IsFiniteSet(Id), Cardinality(Id) <= ColdMax, NEW S \in SUBSET Id
             PROVE  Cardinality(S) <= ColdMax
  BY Zenon DEF Roomy
<1>1. IsFiniteSet(S) /\ Cardinality(S) <= Cardinality(Id)
  BY FS_Subset
<1>2. Cardinality(S) \in Nat /\ Cardinality(Id) \in Nat
  BY <1>1, FS_CardinalityType
<1> QED
  BY <1>1, <1>2, TargetAssumption

LEMMA HotAfterDemotion ==
    ASSUME IsFiniteSet(Id), NEW g, NEW down \in DemoteExcessHot(g)
    PROVE  /\ IsFiniteSet(In(g, "hot") \ down)
           /\ Cardinality(In(g, "hot") \ down) <= HotMax
<1> DEFINE H == In(g, "hot")
<1>1. IsFiniteSet(H)
  <2>1. H \in SUBSET Id
    BY DEF In
  <2> QED
    BY <2>1, FS_Subset
<1>2. Cardinality(H) \in Nat
  BY <1>1, FS_CardinalityType
<1>3. IsFiniteSet(H \ down) /\ Cardinality(H \ down) = Cardinality(H) - Cardinality(H \cap down)
  BY <1>1, FS_Difference, Zenon
<1>4. CASE Cardinality(H) <= HotMax
  <2>1. down = {}
    BY <1>4 DEF DemoteExcessHot
  <2>2. H \ down = H
    BY <2>1
  <2> QED
    BY <1>3, <1>4, <2>2
<1>5. CASE ~ (Cardinality(H) <= HotMax)
  <2>1. down \in Take(H, Cardinality(H) - HotMax)
    BY <1>5 DEF DemoteExcessHot
  <2>2. down \subseteq H /\ Cardinality(down) = Cardinality(H) - HotMax
    BY <1>2, <1>5, <2>1, TargetAssumption DEF Take, kSubset
  <2>3. H \cap down = down
    BY <2>2
  <2>4. Cardinality(H \ down) <= HotMax
    <3> HIDE DEF H
    <3> QED
      BY <1>2, <1>3, <2>2, <2>3, TargetAssumption
  <2> QED
    BY <1>3, <2>4
<1> QED
  BY <1>4, <1>5

HotHeld ==
    /\ \A p \in Id : gov[p].quiet => IsActive(gov[p])
    /\ \A p \in Peer : pool[p].state = "hot" => gov[p].state = "hot"
    /\ Count(gov, "hot") <= HotMax

HotInv == TypeOK /\ Addressed /\ HotHeld

\* The body of HotEarned.
Earned ==
    \A p \in Id :
        gov'[p].state = "hot" /\ gov[p].state # "hot" =>
           gov[p].state = "warm" /\ ~ gov[p].cooling /\ ~ gov[p].quiet

LEMMA FewerHot ==
    ASSUME IsFiniteSet(Id), NEW S, NEW T, S \subseteq T, T \subseteq Id, Cardinality(T) <= HotMax
    PROVE  Cardinality(S) <= HotMax
<1>1. IsFiniteSet(T)
  BY FS_Subset
<1>2. IsFiniteSet(S) /\ Cardinality(S) <= Cardinality(T)
  BY <1>1, FS_Subset
<1>3. Cardinality(S) \in Nat /\ Cardinality(T) \in Nat
  BY <1>1, <1>2, FS_CardinalityType
<1> QED
  BY <1>2, <1>3, TargetAssumption

\* A step between ticks.
LEMMA HeldStep ==
    ASSUME IsFiniteSet(Id), HotInv, TypeOK', Addressed',
           \A q \in Id : /\ gov'[q].state = "hot" => gov[q].state = "hot"
                         /\ gov'[q].quiet => IsActive(gov'[q]),
           \A p \in Peer : pool'[p].state = "hot" => gov'[p].state = "hot"
    PROVE  HotInv' /\ Earned
<1>1. In(gov', "hot") \subseteq In(gov, "hot") /\ In(gov, "hot") \subseteq Id
  BY DEF In
<1>2. Count(gov', "hot") <= HotMax
  BY <1>1, FewerHot DEF HotInv, HotHeld, Count
<1> QED
  BY <1>2 DEF HotInv, HotHeld, Earned

\* What the handlers between ticks make of the table.
Touched(g) ==
    /\ g \in [Id -> PeerInfo]
    /\ \A q \in Peer : g[q].addr \in Near(q)
    /\ \A b \in Placeholder : /\ ~ IsActive(g[b])
                              /\ IsKnown(g[b]) => g[b].addr = BootAddr[b]
    /\ \A q \in Id : /\ g[q].state = "hot" <=> gov[q].state = "hot"
                     /\ g[q].quiet => IsActive(g[q])

LEMMA TouchedSame == HotInv => Touched(gov)
  BY DEF HotInv, HotHeld, TypeOK, Addressed, Touched

LEMMA TouchedAdd ==
    ASSUME NEW g, Touched(g), NEW p \in Peer, NEW a \in Near(p)
    PROVE  Touched(AddPeer(g, p, a))
<1> DEFINE h == AddPeer(g, p, a)
<1>1. p \in Id /\ p \notin Placeholder /\ a \in Addr /\ Peer \subseteq Id /\ Placeholder \subseteq Id
  BY IdParts DEF Id, Near, Addr
<1>2. h \in [Id -> PeerInfo] /\ g \in [Id -> PeerInfo]
  BY <1>1, AddPeerType DEF Touched
<1>3. \A q \in Id : /\ h[q].state = IF q = p /\ g[p].state = "unknown" THEN "cold" ELSE g[q].state
                    /\ h[q].addr = IF q = p THEN a ELSE g[q].addr
                    /\ h[q].quiet => g[q].quiet
  BY <1>1, <1>2, AddPeerAt
<1> HIDE DEF h
<1>4. \A q \in Peer : h[q].addr \in Near(q)
  BY <1>1, <1>3 DEF Touched
<1>5. \A b \in Placeholder : ~ IsActive(h[b]) /\ (IsKnown(h[b]) => h[b].addr = BootAddr[b])
  BY <1>1, <1>3 DEF Touched, IsActive, IsKnown
<1>6. \A q \in Id : /\ h[q].state = "hot" <=> gov[q].state = "hot"
                    /\ h[q].quiet => IsActive(h[q])
  BY <1>3 DEF Touched, IsActive
<1> QED
  BY <1>2, <1>4, <1>5, <1>6 DEF Touched, h

LEMMA TouchedReplace ==
    ASSUME HotInv, NEW b \in Placeholder
    PROVE  Touched(ReplaceNodeId(gov, b, BootAddr[b]))
<1> DEFINE p == BootAddr[b]
           h == ReplaceNodeId(gov, b, p)
<1>1. /\ p \in Peer /\ p \in Id /\ b \in Id /\ b # p /\ p \notin Placeholder
      /\ Peer \subseteq Id /\ Placeholder \subseteq Id
  BY IdParts
<1>2. gov \in [Id -> PeerInfo] /\ h \in [Id -> PeerInfo] /\ ~ IsActive(gov[b])
  BY <1>1, ReplaceNodeIdType DEF HotInv, TypeOK, Addressed
<1>3. gov[b].state # "unknown" => gov[b].addr = p
  BY DEF HotInv, Addressed, IsKnown
<1>4. ASSUME NEW q \in Id
      PROVE  /\ h[q].state = IF gov[b].state = "unknown" THEN gov[q].state
                             ELSE IF q = b THEN "unknown"
                             ELSE IF q = p /\ ~ IsActive(gov[p]) THEN "cold"
                             ELSE gov[q].state
             /\ h[q].addr \in {gov[q].addr, NoAddr, gov[b].addr}
             /\ gov[b].state = "unknown" \/ q \notin {b, p} => h[q].addr = gov[q].addr
             /\ h[q].quiet => gov[q].quiet \/ gov[b].quiet
  BY <1>1, <1>2, ReplaceNodeIdAt, ZenonT(30)
<1> HIDE DEF h, p
<1>5. ASSUME NEW q \in Peer PROVE h[q].addr \in Near(q)
  <2>1. q # b /\ q \in Id
    BY <1>1, IdParts
  <2> QED
    BY <1>3, <1>4, <2>1 DEF HotInv, Addressed, Near
<1>6. ASSUME NEW c \in Placeholder
      PROVE  ~ IsActive(h[c]) /\ (IsKnown(h[c]) => h[c].addr = BootAddr[c])
  <2>1. c \in Id /\ c # p
    BY <1>1
  <2>2. ~ IsActive(gov[c]) /\ (IsKnown(gov[c]) => gov[c].addr = BootAddr[c])
    BY DEF HotInv, Addressed
  <2> QED
    BY <1>4, <2>1, <2>2 DEF IsActive, IsKnown
<1>q. ~ gov[b].quiet /\ \A q \in Id : gov[q].quiet => IsActive(gov[q])
  BY <1>1, <1>2 DEF HotInv, HotHeld
<1>7. ASSUME NEW q \in Id
      PROVE  (h[q].state = "hot" <=> gov[q].state = "hot") /\ (h[q].quiet => IsActive(h[q]))
  <2>1. h[q].quiet => gov[q].quiet /\ IsActive(gov[q]) /\ q # b
    BY <1>4, <1>q
  <2> QED
    BY <1>2, <1>4, <2>1 DEF IsActive
<1> QED
  BY <1>2, <1>5, <1>6, <1>7 DEF Touched, h, p

LEMMA TouchedStep ==
    ASSUME IsFiniteSet(Id), HotInv, TypeOK', Touched(gov'), NearEvents', NearExchanges',
           \A a \in Peer : pending_dials'[a] \in {pending_dials[a], None},
           \A p \in Peer : /\ pool'[p].state = "hot" => pool[p].state = "hot"
                           /\ pool'[p].addr \in Near(p)
    PROVE  HotInv' /\ Earned
<1>1. Addressed'
  <2>1. ASSUME NEW a \in Peer, pending_dials'[a] # a
        PROVE  \/ pending_dials'[a] = None
               \/ pending_dials'[a] \in Placeholder /\ BootAddr[pending_dials'[a]] = a
    BY <2>1 DEF HotInv, Addressed
  <2> QED
    BY <2>1 DEF Addressed, Touched, NearEvents, NearExchanges
<1>2. \A q \in Id : /\ gov'[q].state = "hot" => gov[q].state = "hot"
                    /\ gov'[q].quiet => IsActive(gov'[q])
  BY DEF Touched
<1>3. \A p \in Peer : pool'[p].state = "hot" => gov'[p].state = "hot"
  BY DEF Touched, HotInv, HotHeld, Id
<1> QED
  BY <1>1, <1>2, <1>3, HeldStep

LEMMA TickHot ==
    ASSUME IsFiniteSet(Id), HotInv, TypeOK', NEW up \in SUBSET Id, NEW down \in SUBSET Id,
           NEW out \in SUBSET Id, NEW evicted \in SUBSET Id, NEW connect \in SUBSET Id,
           TickDoes(up, down, out, evicted, connect), UNCHANGED <<exchange, events>>
    PROVE  HotInv' /\ Earned
<1>t. gov \in [Id -> PeerInfo] /\ pool \in [Peer -> Handle] /\ gov' \in [Id -> PeerInfo]
  BY DEF HotInv, TypeOK
<1>i. Peer \subseteq Id /\ Placeholder \subseteq Id
  BY DEF Id
<1>1. ASSUME NEW p \in Id
      PROVE  /\ gov'[p] = Unknown \/ gov'[p] = Rotated(up, down, out)[p]
             /\ Rotated(up, down, out)[p].addr = gov[p].addr
             /\ Rotated(up, down, out)[p].quiet => ReapDead(gov)[p].state = "warm" /\ p \notin out
  <2>1. gov'[p] = Unknown \/ gov'[p] = Rotated(up, down, out)[p]
    BY DEF TickDoes, Forget
  <2> QED
    BY <1>t, <2>1, RotatedFields
<1>u. Unknown.state = "unknown" /\ Unknown.addr = NoAddr /\ ~ Unknown.quiet
  BY DEF Unknown
<1>2. ASSUME NEW p \in Id
      PROVE  LET r == Rotated(up, down, out)[p] IN
             /\ gov[p].state = "unknown" <=> r.state = "unknown"
             /\ ReapDead(gov)[p].state = "cold" => r.state = "cold"
             /\ p \in evicted => r.state = "cold"
             /\ IsActive(r) => IsActive(gov[p])
             /\ r.quiet => IsActive(r)
             /\ r.state = "hot" <=> p \notin down /\ MakeHot(ReapDead(gov), up)[p].state = "hot"
             /\ r.state = "hot" /\ gov[p].state # "hot" =>
                   gov[p].state = "warm" /\ ~ gov[p].cooling /\ ~ gov[p].quiet
             /\ Settled(up, down)[p].state = "hot" => r.state = "hot"
             /\ p \notin Moved(up, down) \cup DeadWarm(gov) \cup out /\ IsActive(gov[p]) =>
                   r.state = gov[p].state
  <2>1. gov[p].quiet => IsActive(gov[p])
    BY Zenon DEF HotInv, HotHeld
  <2>2. TickEffect(up, down, out, evicted, p)
    BY <1>t, <2>1, TickMoves
  <2> QED
    BY <2>2, Zenon DEF TickEffect
<1>3. ASSUME NEW p \in Id
      PROVE  /\ gov'[p].state = "hot" <=> Rotated(up, down, out)[p].state = "hot"
             /\ ~ IsActive(gov[p]) => ~ IsActive(gov'[p])
             /\ gov[p].state = "unknown" => gov'[p].state = "unknown"
             /\ p \notin evicted /\ ReapDead(gov)[p].state = "cold" => gov'[p].state = "cold"
             /\ gov'[p].quiet => IsActive(gov'[p])
  <2>1. CASE p \in evicted
    <3>1. gov'[p] = Unknown
      BY <2>1 DEF TickDoes, Forget
    <3> QED
      BY <1>2, <1>u, <2>1, <3>1 DEF IsActive
  <2>2. CASE p \notin evicted
    <3>1. gov'[p] = Rotated(up, down, out)[p]
      BY <2>2 DEF TickDoes, Forget
    <3> QED
      BY <1>2, <2>2, <3>1, Zenon
  <2> QED
    BY <2>1, <2>2, ZenonT(30)
<1>4. Count(gov', "hot") <= HotMax
  <2>1. In(gov', "hot") = In(MakeHot(ReapDead(gov), up), "hot") \ down
    BY <1>2, <1>3, Zenon DEF In
  <2>2. down \in DemoteExcessHot(MakeHot(ReapDead(gov), up))
    BY DEF TickDoes
  <2> QED
    BY <2>1, <2>2, HotAfterDemotion DEF Count
<1>5. Earned
  BY <1>2, <1>3, Zenon DEF Earned
<1>6. ASSUME NEW p \in Peer
      PROVE  /\ pool'[p].addr \in {pool[p].addr, NoAddr}
             /\ pool'[p].state = "hot" => gov'[p].state = "hot"
  <2>1. pool'[p] = IF p \in DeadWarm(gov) \cup out THEN Absent
                   ELSE IF InPool(p) /\ p \in Moved(up, down)
                        THEN [pool[p] EXCEPT !.state = Settled(up, down)[p].state]
                   ELSE pool[p]
    BY DEF TickDoes, ApplyGovernorActions
  <2>2. CASE p \in DeadWarm(gov) \cup out
    BY <2>1, <2>2 DEF Absent
  <2>3. CASE p \notin DeadWarm(gov) \cup out /\ InPool(p) /\ p \in Moved(up, down)
    <3>1. pool'[p].state = Settled(up, down)[p].state /\ pool'[p].addr = pool[p].addr
      BY <1>t, <2>1, <2>3 DEF Handle
    <3> QED
      BY <1>2, <1>3, <1>i, <3>1, Zenon
  <2>4. CASE p \notin DeadWarm(gov) \cup out /\ ~ (InPool(p) /\ p \in Moved(up, down))
    <3>1. pool'[p] = pool[p]
      BY <2>1, <2>4
    <3>2. ASSUME pool[p].state = "hot" PROVE gov'[p].state = "hot"
      <4>1. gov[p].state = "hot" /\ p \in Id
        BY <3>2, <1>i, Zenon DEF HotInv, HotHeld
      <4>2. p \notin Moved(up, down)
        BY <2>4, <3>2 DEF InPool
      <4>3. IsActive(gov[p])
        BY <4>1 DEF IsActive
      <4> QED
        BY <1>2, <1>3, <2>4, <4>1, <4>2, <4>3, Zenon
    <3> QED
      BY <3>1, <3>2
  <2> QED
    BY <2>2, <2>3, <2>4, ZenonT(30)
<1>7. ASSUME NEW a \in Peer
      PROVE  \/ pending_dials'[a] = pending_dials[a]
             \/ /\ pending_dials'[a] \in Id /\ gov'[pending_dials'[a]].addr = a
                /\ gov'[pending_dials'[a]].state = "cold"
  <2>1. \/ pending_dials'[a] = pending_dials[a]
        \/ pending_dials'[a] \in connect /\ gov'[pending_dials'[a]].addr = a
    BY DEF TickDoes, PendingAfter
  <2>2. ASSUME NEW c \in connect, gov'[c].addr = a PROVE gov'[c].state = "cold"
    <3>1. c \notin evicted
      <4>1. c \in evicted => gov'[c] = Unknown
        BY DEF TickDoes, Forget
      <4> QED
        BY <4>1, <2>2, <1>u, TargetAssumption DEF Id
    <3>2. gov'[c] = Rotated(up, down, out)[c]
      BY <3>1 DEF TickDoes, Forget
    <3>3. ReapDead(gov)[c].state = "cold" \/ Rotated(up, down, out)[c].state = "cold"
      BY ZenonT(30) DEF TickDoes, In
    <3> QED
      BY <1>3, <3>1, <3>2, <3>3, ZenonT(30)
  <2> QED
    BY <2>1, <2>2, ZenonT(30)
<1>8. Addressed'
  <2>1. \A p \in Peer : gov'[p].addr \in Near(p) /\ pool'[p].addr \in Near(p)
    <3>1. ASSUME NEW p \in Peer PROVE gov'[p].addr \in Near(p) /\ pool'[p].addr \in Near(p)
      <4>1. gov[p].addr \in Near(p) /\ pool[p].addr \in Near(p) /\ NoAddr \in Near(p) /\ p \in Id
        BY <1>i, Zenon DEF HotInv, Addressed, Near
      <4>2. gov'[p].addr \in {NoAddr, gov[p].addr}
        BY <1>1, <1>u, <4>1
      <4> QED
        BY <1>6, <4>1, <4>2, Zenon
    <3> QED
      BY <3>1
  <2>2. ASSUME NEW b \in Placeholder
        PROVE  /\ ~ IsActive(gov'[b])
               /\ IsKnown(gov'[b]) => gov'[b].addr = BootAddr[b]
    <3>1. b \in Id /\ ~ IsActive(gov[b]) /\ (IsKnown(gov[b]) => gov[b].addr = BootAddr[b])
      BY <1>i, ZenonT(30) DEF HotInv, Addressed
    <3>2. ~ IsActive(gov'[b])
      BY <1>3, <3>1
    <3>3. IsKnown(gov'[b]) => IsKnown(gov[b]) /\ gov'[b] = Rotated(up, down, out)[b]
      BY <1>1, <1>3, <1>u, <3>1, ZenonT(30) DEF IsKnown
    <3> QED
      BY <1>1, <3>1, <3>2, <3>3, ZenonT(30)
  <2>3. ASSUME NEW a \in Peer, pending_dials'[a] # a
        PROVE  \/ pending_dials'[a] = None
               \/ pending_dials'[a] \in Placeholder /\ BootAddr[pending_dials'[a]] = a
    <3>1. CASE pending_dials'[a] = pending_dials[a]
      BY <2>3, <3>1, ZenonT(30) DEF HotInv, Addressed
    <3>2. CASE /\ pending_dials'[a] \in Id /\ gov'[pending_dials'[a]].addr = a
               /\ gov'[pending_dials'[a]].state = "cold"
      <4>1. pending_dials'[a] \notin Peer
        BY <2>1, <2>3, <3>2, Nearest, Zenon DEF Id
      <4>2. pending_dials'[a] \in Placeholder
        BY <3>2, <4>1, ZenonT(30) DEF Id
      <4> QED
        BY <2>2, <3>2, <4>2 DEF IsKnown
    <3> QED
      BY <1>7, <3>1, <3>2
  <2>4. /\ \A x \in exchange' : x.addr \in Near(x.peer)
        /\ \A k \in 1 .. Len(events') : events'[k].addr \in Near(events'[k].peer)
    BY ZenonT(30) DEF HotInv, Addressed
  <2> QED
    BY <2>1, <2>2, <2>3, <2>4 DEF Addressed
<1> QED
  BY <1>3, <1>4, <1>5, <1>6, <1>8 DEF HotInv, HotHeld

\* A connection enters its peer in the pool as warm, and makes no peer hot: the
\* entry it takes over is that of a bootnode not yet met.
LEMMA ConnectedHot ==
    ASSUME IsFiniteSet(Id), HotInv, TypeOK', PeerConnected
    PROVE  HotInv' /\ Earned
<1> DEFINE e == Head(events)
           p == e.peer
           dialled == IF e.addr \in Peer THEN pending_dials[e.addr] ELSE None
           met == IF dialled # None
                  THEN IF dialled # p THEN ReplaceNodeId(gov, dialled, p) ELSE gov
                  ELSE IF IsKnown(gov[p]) THEN gov ELSE AddPeer(gov, p, e.addr)
<1>t. events \in Seq(Event) /\ Len(events) <= EventCap /\ gov' \in [Id -> PeerInfo]
      /\ pool \in [Peer -> Handle] /\ pending_dials \in [Peer -> Id \cup {None}]
      /\ events # <<>> /\ events' = Tail(events) /\ exchange \subseteq Exchange
  BY Zenon DEF HotInv, TypeOK, PeerConnected
<1>1. e \in Event /\ p \in Peer /\ p \in Id
  BY <1>t, HeadType DEF Event, Id
<1>2. NearEvents' /\ e.addr \in Near(p)
  BY <1>t, HandledNear, ZenonT(30) DEF HotInv, Addressed, NearEvents
<1>3. e.addr \in Peer => e.addr = p
  BY <1>2, Nearest, Zenon DEF Id
<1>4. Touched(met)
  <2>1. CASE dialled = None
    BY <1>1, <1>2, <2>1, TouchedSame, TouchedAdd, ZenonT(30)
  <2>2. CASE dialled # None
    <3>1. e.addr = p /\ dialled = pending_dials[p]
      BY <1>3, <2>2, ZenonT(30)
    <3>3. CASE dialled = p
      BY <2>2, <3>3, TouchedSame
    <3>4. CASE dialled # p
      <4>1. dialled \in Placeholder /\ BootAddr[dialled] = p
        BY <1>1, <2>2, <3>1, <3>4, ZenonT(30) DEF HotInv, Addressed
      <4>2. met = ReplaceNodeId(gov, dialled, BootAddr[dialled])
        BY <2>2, <3>4, <4>1
      <4> HIDE DEF met, dialled
      <4> QED
        BY <4>1, <4>2, TouchedReplace
    <3> QED
      BY <3>3, <3>4
  <2> QED
    BY <2>1, <2>2, ZenonT(30)
<1>5. /\ gov' = MarkConnected(met, p)
      /\ pool' = [pool EXCEPT ![p] = [state |-> "warm", addr |-> e.addr,
                                      is_relay |-> gov'[p].is_relay]]
      /\ pending_dials' = [a \in Peer |-> IF a = e.addr THEN None ELSE pending_dials[a]]
  BY Zenon DEF PeerConnected
<1> HIDE DEF met, dialled
<1>6. ASSUME NEW q \in Id
      PROVE  /\ gov'[q].state = IF q = p /\ met[p].state = "cold" THEN "warm" ELSE met[q].state
             /\ gov'[q].addr = met[q].addr
             /\ gov'[q].quiet = met[q].quiet
  BY <1>1, <1>4, <1>5, MarkConnectedAt, ZenonT(30) DEF Touched
<1>i. Peer \subseteq Id /\ Placeholder \subseteq Id /\ p \notin Placeholder
  BY <1>1, IdParts
<1>7. Touched(gov')
  <2>1. \A q \in Peer : gov'[q].addr \in Near(q)
    BY <1>4, <1>6, <1>i DEF Touched
  <2>2. \A b \in Placeholder : /\ ~ IsActive(gov'[b])
                               /\ IsKnown(gov'[b]) => gov'[b].addr = BootAddr[b]
    BY <1>4, <1>6, <1>i DEF Touched, IsActive, IsKnown
  <2>3. \A q \in Id : /\ gov'[q].state = "hot" <=> gov[q].state = "hot"
                      /\ gov'[q].quiet => IsActive(gov'[q])
    BY <1>4, <1>6 DEF Touched, IsActive
  <2> QED
    BY <1>t, <2>1, <2>2, <2>3, ZenonT(30) DEF Touched
<1>8. NearExchanges'
  <2>1. \A x \in exchange' : x \in exchange \/ x = [peer |-> p, step |-> "asked", addr |-> NoAddr]
    BY Zenon DEF PeerConnected
  <2> QED
    BY <2>1 DEF NearExchanges, HotInv, Addressed, Near
<1>9. \A q \in Peer : /\ pool'[q].state = "hot" => pool[q].state = "hot"
                      /\ pool'[q].addr \in Near(q)
  <2>1. \A q \in Peer : /\ pool'[q].addr = IF q = p THEN e.addr ELSE pool[q].addr
                        /\ pool'[q].state = IF q = p THEN "warm" ELSE pool[q].state
    BY <1>1, <1>t, <1>5, ZenonT(30)
  <2> QED
    BY <1>2, <2>1 DEF HotInv, Addressed
<1>10. \A a \in Peer : pending_dials'[a] \in {pending_dials[a], None}
  BY <1>5
<1> QED
  BY <1>2, <1>7, <1>8, <1>9, <1>10, TouchedStep

LEMMA DisconnectedHot ==
    ASSUME IsFiniteSet(Id), HotInv, TypeOK', PeerDisconnected
    PROVE  HotInv' /\ Earned
<1> DEFINE p == Head(events).peer
<1>t. events \in Seq(Event) /\ Len(events) <= EventCap /\ gov \in [Id -> PeerInfo]
      /\ pool \in [Peer -> Handle] /\ events # <<>> /\ events' = Tail(events)
  BY DEF HotInv, TypeOK, PeerDisconnected
<1>1. p \in Peer /\ p \in Id /\ Peer \subseteq Id /\ Placeholder \subseteq Id
  BY <1>t, HeadType DEF Event, Id
<1>2. NearEvents'
  BY <1>t, HandledNear, ZenonT(30) DEF HotInv, Addressed, NearEvents
<1>3. ASSUME NEW q \in Id
      PROVE  /\ gov'[q].state = IF q = p /\ IsActive(gov[p]) THEN "cold" ELSE gov[q].state
             /\ gov'[q].addr = gov[q].addr
             /\ gov'[q].quiet => gov[q].quiet /\ ~ (q = p /\ IsActive(gov[p]))
  BY <1>1, <1>t, MarkDisconnectedAt, ZenonT(30) DEF PeerDisconnected
<1>4. pool' = [pool EXCEPT ![p] = Absent] /\ UNCHANGED <<pending_dials, exchange>>
  BY DEF PeerDisconnected, taskVars
<1>5. \A q \in Peer : /\ pool'[q].state = IF q = p THEN "none" ELSE pool[q].state
                      /\ pool'[q].addr = IF q = p THEN NoAddr ELSE pool[q].addr
  BY <1>1, <1>4, <1>t, ZenonT(30) DEF Absent
<1> HIDE DEF p
<1>6. Addressed'
  <2>1. \A q \in Peer : gov'[q].addr \in Near(q) /\ pool'[q].addr \in Near(q)
    BY <1>1, <1>3, <1>5, ZenonT(30) DEF HotInv, Addressed, Near
  <2>2. \A b \in Placeholder : /\ ~ IsActive(gov'[b])
                               /\ IsKnown(gov'[b]) => gov'[b].addr = BootAddr[b]
    BY <1>1, <1>3, ZenonT(30) DEF HotInv, Addressed, IsActive, IsKnown
  <2> QED
    BY <1>2, <1>4, <2>1, <2>2 DEF HotInv, Addressed, NearEvents
<1>7. \A q \in Id : /\ gov'[q].state = "hot" => gov[q].state = "hot"
                    /\ gov'[q].quiet => IsActive(gov'[q])
  BY <1>3, ZenonT(30) DEF HotInv, HotHeld, IsActive
<1>8. \A q \in Peer : pool'[q].state = "hot" => gov'[q].state = "hot"
  BY <1>1, <1>3, <1>5, ZenonT(30) DEF HotInv, HotHeld
<1> QED
  BY <1>6, <1>7, <1>8, HeldStep, ZenonT(30)

LEMMA InitHotInv == IsFiniteSet(Id) /\ Init => HotInv
<1> SUFFICES ASSUME IsFiniteSet(Id), Init PROVE HotInv
  OBVIOUS
<1>1. GovInv
  BY InitGovInv
<1>2. \A p \in Id : gov[p].state # "hot"
  BY ZenonT(30) DEF Init, Unknown
<1>3. \A p \in Peer : pool[p].state = "none"
  BY Zenon DEF Init, Absent
<1>4. In(gov, "hot") = {}
  BY <1>2, ZenonT(30) DEF In
<1>5. Count(gov, "hot") <= HotMax
  BY <1>4, FS_EmptySet, TargetAssumption DEF Count
<1> QED
  BY <1>1, <1>3, <1>5 DEF HotInv, HotHeld, GovInv, Governed

LEMMA NextHot == IsFiniteSet(Id) /\ HotInv /\ [Next]_vars => HotInv' /\ Earned
<1> SUFFICES ASSUME IsFiniteSet(Id), HotInv, [Next]_vars PROVE HotInv' /\ Earned
  OBVIOUS
<1> USE DEF govVars, taskVars, swarmVars
<1>t. TypeOK'
  BY NextTypeOK, ZenonT(30) DEF HotInv
<1>u. /\ gov \in [Id -> PeerInfo] /\ gov' \in [Id -> PeerInfo] /\ pool \in [Peer -> Handle]
      /\ events \in Seq(Event) /\ Len(events) <= EventCap /\ exchange \subseteq Exchange
  BY <1>t DEF HotInv, TypeOK
<1>i. Peer \subseteq Id
  BY ZenonT(30) DEF Id
<1>n. NearEvents /\ NearExchanges /\ \A p \in Peer : pool[p].addr \in Near(p)
  BY DEF HotInv, Addressed, NearEvents, NearExchanges
<1>m. Touched(gov)
  BY TouchedSame, ZenonT(30)
<1>k. ASSUME Touched(gov'), NearEvents', NearExchanges', pending_dials' = pending_dials,
             \A p \in Peer : pool'[p].state = pool[p].state /\ pool'[p].addr \in Near(p)
      PROVE  HotInv' /\ Earned
  BY <1>t, <1>k, TouchedStep, ZenonT(30)
\* What leaves governor and pool alone.
<1>s. ASSUME UNCHANGED <<gov, pool, pending_dials>>, NearEvents', NearExchanges'
      PROVE  HotInv' /\ Earned
  BY <1>k, <1>m, <1>n, <1>s, ZenonT(30)
\* What only sets flags.
<1>f. ASSUME \A q \in Id : /\ gov'[q].state = gov[q].state /\ gov'[q].addr = gov[q].addr
                           /\ gov'[q].quiet => gov[q].quiet \/ IsActive(gov[q])
      PROVE  Touched(gov')
  <2>1. Placeholder \subseteq Id
    BY DEF Id
  <2> QED
    BY <1>f, <1>i, <1>m, <1>u, <2>1, ZenonT(30) DEF Touched, IsActive, IsKnown
<1>1. ASSUME NEW churn \in BOOLEAN, NEW redial \in BOOLEAN, NEW discover \in BOOLEAN,
             Tick(churn, redial, discover)
      PROVE  HotInv' /\ Earned
  <2>1. PICK up, down, out, evicted, connect \in SUBSET Id :
                TickDoes(up, down, out, evicted, connect)
    BY <1>1, TickStep, ZenonT(30)
  <2>2. UNCHANGED <<exchange, events>>
    BY <1>1, Zenon DEF Tick
  <2> QED
    BY <1>t, <2>1, <2>2, TickHot, ZenonT(30)
<1>2. CASE PeerConnected
  BY <1>t, <1>2, ConnectedHot, ZenonT(30)
<1>3. CASE PeerDisconnected
  BY <1>t, <1>3, DisconnectedHot, ZenonT(30)
<1>4. CASE DialFailureEvent
  <2>1. NearEvents' /\ Head(events) \in Event
    BY <1>4, <1>u, <1>n, HandledNear, HeadType, ZenonT(30) DEF DialFailureEvent
  <2>2. \A q \in Id : /\ gov'[q].state = gov[q].state /\ gov'[q].addr = gov[q].addr
                      /\ gov'[q].quiet => gov[q].quiet
    BY <1>4, <1>u DEF DialFailureEvent, MarkDialFailed, PeerInfo
  <2>3. Touched(gov')
    BY <1>f, <2>2
  <2> QED
    BY <1>4, <1>k, <1>n, <2>1, <2>3, ZenonT(30) DEF DialFailureEvent, NearExchanges
<1>5. CASE DiscoverPeers
  <2>1. PICK reported \in SUBSET (Relays \X {FALSE, TRUE}) :
          gov' = [p \in Id |->
                    IF IsActive(gov[p]) \/ \A stray \in BOOLEAN : <<p, stray>> \notin reported
                    THEN gov[p]
                    ELSE LET addr == IF <<p, TRUE>> \in reported THEN Stray ELSE p
                         IN [AddPeer(gov, p, addr)[p] EXCEPT !.is_relay = TRUE]]
    BY <1>5, ZenonT(30) DEF DiscoverPeers
  <2>2. ASSUME NEW q \in Id
        PROVE  \/ gov'[q] = gov[q]
               \/ /\ q \in Peer /\ ~ IsActive(gov[q]) /\ ~ IsActive(gov'[q])
                  /\ gov'[q].addr \in Near(q) /\ ~ gov'[q].quiet
    <3>1. CASE IsActive(gov[q]) \/ \A stray \in BOOLEAN : <<q, stray>> \notin reported
      BY <2>1, <3>1, ZenonT(30)
    <3>2. CASE ~ (IsActive(gov[q]) \/ \A stray \in BOOLEAN : <<q, stray>> \notin reported)
      <4> DEFINE addr == IF <<q, TRUE>> \in reported THEN Stray ELSE q
                 g == AddPeer(gov, q, addr)
      <4>1. q \in Peer /\ ~ IsActive(gov[q])
        BY <3>2, LifecycleAssumption, Zenon
      <4>2. addr \in Addr /\ addr \in Near(q)
        BY <4>1 DEF Addr, Near
      <4>3. gov'[q] = [g[q] EXCEPT !.is_relay = TRUE]
        BY <2>1, <3>2, ZenonT(30)
      <4> HIDE DEF addr
      <4>4. g[q].state = (IF gov[q].state = "unknown" THEN "cold" ELSE gov[q].state)
            /\ g[q].addr = addr /\ (g[q].quiet => gov[q].quiet)
        BY <1>u, <4>2, AddPeerAt
      <4>5. g[q] \in PeerInfo
        BY <1>u, <4>2, AddPeerType
      <4> HIDE DEF g
      <4>6. /\ gov'[q].state = g[q].state /\ gov'[q].addr = g[q].addr
            /\ gov'[q].quiet => g[q].quiet
        BY <4>3, <4>5, ZenonT(30) DEF PeerInfo
      <4>7. ~ gov[q].quiet
        BY <4>1 DEF HotInv, HotHeld
      <4> QED
        BY <4>1, <4>2, <4>4, <4>6, <4>7, ZenonT(30) DEF IsActive
    <3> QED
      BY <3>1, <3>2, ZenonT(30)
  <2>3. Touched(gov')
    <3>1. \A q \in Placeholder : gov'[q] = gov[q]
      BY <2>2, IdParts, ZenonT(30)
    <3>2. \A q \in Id : /\ gov'[q].state = "hot" <=> gov[q].state = "hot"
                        /\ gov'[q].quiet => IsActive(gov'[q])
      BY <1>m, <2>2, ZenonT(30) DEF Touched, IsActive
    <3>3. \A q \in Peer : gov'[q].addr \in Near(q)
      BY <1>m, <1>i, <2>2, ZenonT(30) DEF Touched
    <3> QED
      BY <1>u, <1>m, <3>1, <3>2, <3>3, ZenonT(30) DEF Touched
  <2> QED
    BY <1>5, <1>k, <1>n, <2>3, ZenonT(30) DEF DiscoverPeers, NearExchanges, NearEvents
<1>6. ASSUME NEW p \in Peer, IdentifyReceived(p) PROVE HotInv' /\ Earned
  <2> DEFINE same == {q \in In(gov, "cold") \ {p} : gov[q].addr = p}
  <2>1. PICK met \in IF same = {} THEN {gov} ELSE {ReplaceNodeId(gov, q, p) : q \in same} :
          IF InPool(p) /\ pool[p].addr # p
          THEN gov' = AddPeer(met, p, p) /\ pool' = [pool EXCEPT ![p].addr = p]
          ELSE gov' = met /\ UNCHANGED pool
    BY <1>6, ZenonT(30) DEF IdentifyReceived
  <2>2. \A q \in same : q \in Placeholder /\ BootAddr[q] = p
    <3>1. ASSUME NEW q \in same PROVE q \in Placeholder /\ BootAddr[q] = p
      <4>1. q \in Id /\ gov[q].state = "cold" /\ gov[q].addr = p /\ q # p
        BY DEF In
      <4>2. q \notin Peer
        <5>1. q \in Peer => gov[q].addr \in Near(q)
          BY Zenon DEF HotInv, Addressed
        <5> QED
          BY <4>1, <5>1, Nearest, Zenon DEF Id
      <4> QED
        BY <4>1, <4>2, ZenonT(30) DEF HotInv, Addressed, Id, IsKnown
    <3> QED
      BY <3>1, ZenonT(30)
  <2>3. Touched(met)
    <3>1. met = gov \/ \E q \in same : met = ReplaceNodeId(gov, q, p)
      BY <2>1
    <3> QED
      BY <1>m, <2>2, <3>1, TouchedReplace, ZenonT(30)
  <2>4. Touched(gov')
    BY <2>1, <2>3, TouchedAdd DEF Near
  <2>5. \A q \in Peer : pool'[q].state = pool[q].state /\ pool'[q].addr \in Near(q)
    <3>1. pool' = [pool EXCEPT ![p].addr = p] \/ pool' = pool
      BY <2>1, ZenonT(30)
    <3> QED
      BY <1>u, <1>n, <3>1 DEF Near, Handle
  <2> QED
    BY <1>6, <1>k, <1>n, <2>4, <2>5, ZenonT(30) DEF IdentifyReceived, NearExchanges, NearEvents
<1>7. ASSUME NEW p \in Peer,
             RecordActivity(p) \/ FallsSilent(p) \/ CooldownOver(p) \/ BackoffOver(p)
      PROVE  HotInv' /\ Earned
  <2>1. \A q \in Id : /\ gov'[q].state = gov[q].state /\ gov'[q].addr = gov[q].addr
                      /\ gov'[q].quiet => gov[q].quiet \/ IsActive(gov[q])
    <3>1. CASE FallsSilent(p)
      BY <1>u, <1>i, <3>1, ZenonT(30) DEF FallsSilent, PeerInfo
    <3>2. CASE RecordActivity(p)
      BY <1>u, <1>i, <3>2, ZenonT(30) DEF RecordActivity, PeerInfo
    <3>3. CASE CooldownOver(p)
      BY <1>u, <1>i, <3>3, ZenonT(30) DEF CooldownOver, PeerInfo
    <3>4. CASE BackoffOver(p)
      BY <1>u, <1>i, <3>4, ZenonT(30) DEF BackoffOver, PeerInfo
    <3> QED
      BY <1>7, <3>1, <3>2, <3>3, <3>4, ZenonT(30)
  <2>2. Touched(gov')
    BY <1>f, <2>1
  <2>3. UNCHANGED <<pool, pending_dials, exchange, events>>
    BY <1>7, ZenonT(30) DEF RecordActivity, FallsSilent, CooldownOver, BackoffOver
  <2> QED
    BY <1>k, <1>n, <2>2, <2>3, ZenonT(30) DEF NearExchanges, NearEvents
<1>8. ASSUME NEW p \in Peer,
             SwarmDisconnect(p) \/ SwarmDial(p) \/ DialFails(p) \/ SwarmRequest(p)
      PROVE  HotInv' /\ Earned
  <2>1. UNCHANGED <<gov, pool, pending_dials, exchange, events>>
    BY <1>8, ZenonT(30) DEF SwarmDisconnect, SwarmDial, DialFails, SwarmRequest
  <2> QED
    BY <1>s, <1>n, <2>1, ZenonT(30) DEF NearExchanges, NearEvents
<1>9. ASSUME NEW p \in Peer, RequestFails(p) PROVE HotInv' /\ Earned
  <2>1. NearEvents'
    BY <1>9, <1>u, <1>n, SentNear, ZenonT(30) DEF RequestFails, Near
  <2>2. UNCHANGED <<gov, pool, pending_dials>> /\ exchange' \subseteq exchange
    BY <1>9, ZenonT(30) DEF RequestFails
  <2> QED
    BY <1>s, <1>n, <2>1, <2>2, ZenonT(30) DEF NearExchanges
<1>10. ASSUME NEW p \in Peer, NEW addr \in Near(p), ConnectionEstablished(p, addr)
       PROVE  HotInv' /\ Earned
  <2>1. NearEvents'
    BY <1>10, <1>u, <1>n, SentNear, ZenonT(30) DEF ConnectionEstablished, NearEvents
  <2> QED
    BY <1>10, <1>s, <1>n, <2>1, ZenonT(30) DEF ConnectionEstablished, NearExchanges
<1>11. ASSUME NEW p \in Peer, DialSucceeds(p) \/ Accept(p) PROVE HotInv' /\ Earned
  BY <1>10, <1>11, ZenonT(30) DEF DialSucceeds, Accept, Near
<1>12. ASSUME NEW p \in Peer, CloseCompletes(p) \/ ConnectionLost(p) PROVE HotInv' /\ Earned
  <2>1. ConnectionClosed(p)
    BY <1>12, ZenonT(30) DEF CloseCompletes, ConnectionLost
  <2>2. NearEvents'
    BY <2>1, <1>u, <1>n, SentNear, ZenonT(30) DEF ConnectionClosed, NearEvents, Near
  <2> QED
    BY <2>1, <1>s, <1>n, <2>2, ZenonT(30) DEF ConnectionClosed, NearExchanges
<1>13. ASSUME NEW x \in exchange, ExchangeAnswered(x) \/ ExchangeFailed(x) \/ ExchangeRead(x)
       PROVE  HotInv' /\ Earned
  <2>1. x \in Exchange /\ x.peer \in Peer
    BY <1>u DEF Exchange
  <2>2. UNCHANGED <<gov, pool, pending_dials, events>>
    BY <1>13 DEF ExchangeAnswered, ExchangeFailed, ExchangeRead
  <2>3. \A y \in exchange' : \/ y \in exchange
                             \/ y = [x EXCEPT !.step = "answered"]
                             \/ y = [x EXCEPT !.step = "read", !.addr = pool[x.peer].addr]
    BY <1>13 DEF ExchangeAnswered, ExchangeFailed, ExchangeRead
  <2>4. NearExchanges'
    BY <1>n, <2>1, <2>3, Zenon DEF NearExchanges, Exchange
  <2> QED
    BY <1>s, <1>n, <2>2, <2>4, ZenonT(30) DEF NearEvents
<1>14. ASSUME NEW x \in exchange, ExchangeAdd(x) PROVE HotInv' /\ Earned
  <2>1. x.peer \in Peer /\ x.addr \in Near(x.peer)
    BY <1>u, <1>n, ZenonT(30) DEF Exchange, NearExchanges
  <2>2. Touched(gov')
    BY <1>14, <1>m, <2>1, TouchedAdd, ZenonT(30) DEF ExchangeAdd
  <2> QED
    BY <1>14, <1>k, <1>n, <2>2, ZenonT(30) DEF ExchangeAdd, NearExchanges, NearEvents
<1>15. CASE UNCHANGED vars
  BY <1>15, <1>s, <1>n, ZenonT(30) DEF vars, NearExchanges, NearEvents
<1> QED
  BY <1>1, <1>2, <1>3, <1>4, <1>5, <1>6, <1>7, <1>8, <1>9, <1>11, <1>12, <1>13, <1>14, <1>15, ZenonT(30)
     DEF Next

LEMMA HotInvBounds ==
    ASSUME IsFiniteSet(Id), HotInv
    PROVE  HotBounded
<1>1. {p \in Peer : pool[p].state = "hot"} \subseteq In(gov, "hot") /\ In(gov, "hot") \subseteq Id
  BY ZenonT(30) DEF HotInv, HotHeld, In, Id
<1>2. Cardinality(In(gov, "hot")) <= HotMax
  BY ZenonT(30) DEF HotInv, HotHeld, Count
<1>3. Cardinality({p \in Peer : pool[p].state = "hot"}) <= HotMax
  BY <1>1, <1>2, FewerHot, ZenonT(30)
<1> QED
  BY <1>2, <1>3, ZenonT(30) DEF HotBounded, Count

\* Never more than hot_max peers are hot in the governor or in the pool, also
\* when events are dropped and cold entries are evicted.  It takes that every
\* tick copies its demotions to the pool, and that no connection event makes a
\* peer hot or hides a hot one from the governor.
THEOREM HotWithinTarget == IsFiniteSet(Id) => (Spec => []HotBounded)
<1> SUFFICES ASSUME IsFiniteSet(Id) PROVE Spec => []HotBounded
  OBVIOUS
<1>1. Init => HotInv
  BY InitHotInv
<1>2. HotInv /\ [Next]_vars => HotInv'
  BY NextHot
<1>3. HotInv => HotBounded
  BY HotInvBounds
<1> QED
  BY <1>1, <1>2, <1>3, PTL DEF Spec

\* Whoever gets hot was warm, not silent and not cooling down before the step:
\* promote_warm_to_hot is the only way to hot, and what reap_dead demotes in a
\* tick is not promoted again by the same tick.
THEOREM HotIsEarned == IsFiniteSet(Id) => (Spec => HotEarned)
<1> SUFFICES ASSUME IsFiniteSet(Id) PROVE Spec => HotEarned
  BY ZenonT(30)
<1>1. Init => HotInv
  BY InitHotInv
<1>2. HotInv /\ [Next]_vars => HotInv'
  BY NextHot
<1>3. HotInv /\ [Next]_vars =>
        [\A p \in Id : gov'[p].state = "hot" /\ gov[p].state # "hot" =>
            gov[p].state = "warm" /\ ~ gov[p].cooling /\ ~ gov[p].quiet]_vars
  BY NextHot DEF Earned
<1> QED
  BY <1>1, <1>2, <1>3, PTL DEF Spec, HotEarned

\* A tick only redistributes the hot places among those in the pool.
LEMMA TickTable ==
    ASSUME HotInv, HotInv', HotBounded',
           NEW churn \in BOOLEAN, NEW redial \in BOOLEAN, NEW discover \in BOOLEAN,
           Tick(churn, redial, discover)
    PROVE  Table!Rebalance
<1> DEFINE role == [p \in Peer |-> pool[p].state]
<1>1. PICK settled, moved, disconnect : pool' = ApplyGovernorActions(settled, moved, disconnect)
  <2>1. PICK up, down, out, evicted, connect \in SUBSET Id : TickDoes(up, down, out, evicted, connect)
    BY TickStep
  <2> QED
    BY <2>1, Zenon DEF TickDoes
<1>2. \A p \in Peer : pool[p].state = "none" => pool'[p].state = "none"
  BY <1>1, ZenonT(30) DEF ApplyGovernorActions, InPool, Absent
<1>3. pool' \in [Peer -> Handle]
  BY DEF HotInv, TypeOK
<1>4. role' \in [Peer -> {"none", "warm", "hot"}]
  BY <1>3 DEF Handle
<1>5. {p \in Peer : role'[p] = "hot"} = {p \in Peer : pool'[p].state = "hot"}
  OBVIOUS
<1>6. {p \in Peer : role'[p] = "hot"} \in {S \in SUBSET Peer : Cardinality(S) <= HotMax}
  BY <1>5, Zenon DEF HotBounded
<1>7. \A p \in Peer : role[p] = "none" => role'[p] = "none"
  BY <1>2
<1> QED
  BY <1>4, <1>6, <1>7, Zenon DEF Table!Rebalance

\* Every other step leaves the table alone or has one peer enter or leave.
LEMMA NextTable ==
    ASSUME HotInv, HotInv', HotBounded', [Next]_vars
    PROVE  [Table!TableNext]_[p \in Peer |-> pool[p].state]
<1> DEFINE role == [p \in Peer |-> pool[p].state]
<1>t. /\ pool \in [Peer -> Handle] /\ pool' \in [Peer -> Handle]
      /\ events \in Seq(Event)
  BY DEF HotInv, TypeOK
<1>h. events # <<>> => Head(events).peer \in Peer
  <2>1. events # <<>> => Head(events) \in Event
    BY <1>t
  <2> QED
    BY <2>1 DEF Event
<1>s. ASSUME UNCHANGED pool PROVE role' = role
  BY <1>s
<1>1. ASSUME NEW churn \in BOOLEAN, NEW redial \in BOOLEAN, NEW discover \in BOOLEAN,
             Tick(churn, redial, discover)
      PROVE  Table!TableNext
  BY <1>1, TickTable DEF Table!TableNext
<1>2. ASSUME PeerConnected PROVE Table!TableNext
  <2> DEFINE p == Head(events).peer
  <2>1. p \in Peer
    BY <1>2, <1>h, Zenon DEF PeerConnected
  <2>2. \A q \in Peer : pool'[q].state = IF q = p THEN "warm" ELSE pool[q].state
    BY <1>2, <1>t, <2>1, Zenon DEF PeerConnected
  <2>3. role' = [role EXCEPT ![p] = "warm"]
    BY <2>1, <2>2, Zenon
  <2> QED
    BY <2>1, <2>3, ZenonT(30) DEF Table!TableNext, Table!Enter
<1>3. ASSUME PeerDisconnected PROVE Table!TableNext
  <2> DEFINE p == Head(events).peer
  <2>1. p \in Peer
    BY <1>3, <1>h, ZenonT(30) DEF PeerDisconnected
  <2>2. \A q \in Peer : pool'[q].state = IF q = p THEN "none" ELSE pool[q].state
    BY <1>3, <1>t, <2>1 DEF PeerDisconnected, Absent
  <2>3. role' = [role EXCEPT ![p] = "none"]
    BY <2>1, <2>2, Zenon
  <2> QED
    BY <2>1, <2>3, Zenon DEF Table!TableNext, Table!Leave
<1>4. ASSUME NEW p \in Peer, IdentifyReceived(p) PROVE role' = role
  <2>1. pool' = [pool EXCEPT ![p].addr = p] \/ pool' = pool
    BY <1>4 DEF IdentifyReceived
  <2>2. \A q \in Peer : pool'[q].state = pool[q].state
    BY <2>1, <1>t DEF Handle
  <2> QED
    BY <2>2
<1>5. ASSUME DialFailureEvent \/ DiscoverPeers PROVE role' = role
  BY <1>5, <1>s, Zenon DEF DialFailureEvent, DiscoverPeers
<1>6. ASSUME NEW p \in Peer,
             \/ RecordActivity(p) \/ FallsSilent(p) \/ CooldownOver(p) \/ BackoffOver(p)
             \/ SwarmDisconnect(p) \/ SwarmDial(p) \/ DialFails(p)
             \/ SwarmRequest(p) \/ RequestFails(p)
      PROVE  role' = role
  BY <1>6, <1>s DEF RecordActivity, FallsSilent, CooldownOver, BackoffOver, SwarmDisconnect,
                    SwarmDial, DialFails, SwarmRequest, RequestFails, govVars
<1>7. ASSUME NEW p \in Peer,
             DialSucceeds(p) \/ Accept(p) \/ CloseCompletes(p) \/ ConnectionLost(p)
      PROVE  role' = role
  BY <1>7, <1>s, ZenonT(30) DEF DialSucceeds, Accept, CloseCompletes, ConnectionLost,
                    ConnectionEstablished, ConnectionClosed, govVars
<1>8. ASSUME NEW x \in exchange,
             ExchangeAnswered(x) \/ ExchangeFailed(x) \/ ExchangeRead(x) \/ ExchangeAdd(x)
      PROVE  role' = role
  BY <1>8, <1>s DEF ExchangeAnswered, ExchangeFailed, ExchangeRead, ExchangeAdd, govVars
<1>9. ASSUME UNCHANGED vars PROVE role' = role
  BY <1>9, <1>s, ZenonT(30) DEF vars, govVars
<1> HIDE DEF role
<1>10. Table!TableNext \/ role' = role
  BY <1>1, <1>2, <1>3, <1>4, <1>5, <1>6, <1>7, <1>8, <1>9, ZenonT(30) DEF Next
<1> QED
  BY <1>10, ZenonT(30) DEF role

\* What the replication tasks see of the pool is a PeerTable, also when events
\* are dropped and cold entries are evicted: peers enter as warm one by one, and
\* only apply_governor_actions makes them hot, within hot_max.
THEOREM PoolImplementsTable == IsFiniteSet(Id) => (Spec => ImplementsPeerTable)
<1> SUFFICES ASSUME IsFiniteSet(Id) PROVE Spec => ImplementsPeerTable
  OBVIOUS
<1>1. Init => HotInv
  BY InitHotInv
<1>2. HotInv /\ [Next]_vars => HotInv'
  BY NextHot
<1>3. HotInv => HotBounded
  BY HotInvBounds
<1>4. Init => Table!TableInit
  <2> SUFFICES ASSUME Init PROVE [p \in Peer |-> pool[p].state] = [p \in Peer |-> "none"]
    BY DEF Table!TableInit
  <2>1. \A p \in Peer : pool[p].state = "none"
    BY Zenon DEF Init, Absent
  <2> QED
    BY <2>1
<1>5. HotInv /\ HotInv' /\ HotBounded' /\ [Next]_vars
        => [Table!TableNext]_[p \in Peer |-> pool[p].state]
  BY NextTable
<1> QED
  BY <1>1, <1>2, <1>3, <1>4, <1>5, PTL DEF Spec, ImplementsPeerTable, Table!TableSpec
=============================================================================
