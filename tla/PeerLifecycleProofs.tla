------------------------- MODULE PeerLifecycleProofs -------------------------
(***************************************************************************)
(* Proofs about PeerLifecycle, for every set of peers and bootnodes, every *)
(* dial policy, all targets and all capacities.                            *)
(***************************************************************************)
EXTENDS PeerLifecycle, TLAPS

-----------------------------------------------------------------------------
(* The governor's methods.                                                 *)

LEMMA UnknownType == Unknown \in PeerInfo
  BY DEF Unknown, PeerInfo, Addr

LEMMA AddPeerType ==
    ASSUME NEW g \in [Id -> PeerInfo], NEW p \in Id, NEW a \in Addr
    PROVE  AddPeer(g, p, a) \in [Id -> PeerInfo]
  BY ZenonT(30) DEF AddPeer, PeerInfo, IsKnown, Unknown

LEMMA FlagType ==
    ASSUME NEW g \in [Id -> PeerInfo], NEW p \in Id, NEW flag \in BOOLEAN
    PROVE  /\ [g EXCEPT ![p].quiet = flag] \in [Id -> PeerInfo]
           /\ [g EXCEPT ![p].cooling = flag] \in [Id -> PeerInfo]
           /\ [g EXCEPT ![p].backoff = flag] \in [Id -> PeerInfo]
<1>1. [g EXCEPT ![p].quiet = flag] \in [Id -> PeerInfo]
  BY DEF PeerInfo
<1>2. [g EXCEPT ![p].cooling = flag] \in [Id -> PeerInfo]
  BY DEF PeerInfo
<1>3. [g EXCEPT ![p].backoff = flag] \in [Id -> PeerInfo]
  BY DEF PeerInfo
<1> QED
  BY <1>1, <1>2, <1>3

LEMMA MarkConnectedType ==
    ASSUME NEW g \in [Id -> PeerInfo], NEW p \in Id
    PROVE  MarkConnected(g, p) \in [Id -> PeerInfo]
  BY DEF MarkConnected, PeerInfo

LEMMA MarkDisconnectedType ==
    ASSUME NEW g \in [Id -> PeerInfo], NEW p \in Id
    PROVE  MarkDisconnected(g, p) \in [Id -> PeerInfo]
<1> DEFINE cold == [g EXCEPT ![p].state = "cold"]
           calm == [cold EXCEPT ![p].quiet = FALSE]
<1>1. cold \in [Id -> PeerInfo]
  BY DEF PeerInfo
<1>2. calm \in [Id -> PeerInfo]
  <2> HIDE DEF cold
  <2> QED
    BY <1>1, Zenon DEF PeerInfo
<1>3. [calm EXCEPT ![p].backoff = TRUE] \in [Id -> PeerInfo]
  <2> HIDE DEF calm
  <2> QED
    BY <1>2, Zenon DEF PeerInfo
<1> QED
  BY <1>3 DEF MarkDisconnected

LEMMA ReplaceNodeIdType ==
    ASSUME NEW g \in [Id -> PeerInfo], NEW old \in Id, NEW new \in Id
    PROVE  ReplaceNodeId(g, old, new) \in [Id -> PeerInfo]
<1>1. (g[new].is_relay \/ g[old].is_relay) \in BOOLEAN
  OBVIOUS
<1> QED
  BY <1>1, UnknownType DEF ReplaceNodeId, PeerInfo

LEMMA SetStateType ==
    ASSUME NEW g \in [Id -> PeerInfo], NEW S, NEW s \in {"unknown", "cold", "warm", "hot"}
    PROVE  SetState(g, S, s) \in [Id -> PeerInfo]
<1>1. \A p \in Id : (g[p].quiet /\ s # "cold") \in BOOLEAN
  OBVIOUS
<1> QED
  BY <1>1, ZenonT(30) DEF SetState, PeerInfo

LEMMA MakeHotType ==
    ASSUME NEW g \in [Id -> PeerInfo], NEW S
    PROVE  MakeHot(g, S) \in [Id -> PeerInfo]
  BY ZenonT(30) DEF MakeHot, PeerInfo

LEMMA ForgetType ==
    ASSUME NEW g \in [Id -> PeerInfo], NEW S
    PROVE  Forget(g, S) \in [Id -> PeerInfo]
  BY UnknownType DEF Forget

LEMMA ReapDeadType ==
    ASSUME NEW g \in [Id -> PeerInfo]
    PROVE  ReapDead(g) \in [Id -> PeerInfo]
  BY Zenon DEF ReapDead, PeerInfo

LEMMA TakeSubset ==
    ASSUME NEW S, NEW k, NEW T \in Take(S, k)
    PROVE  T \subseteq S
  BY DEF Take, kSubset
LEMMA PromotedWarm ==
    ASSUME NEW g, NEW up \in PromoteWarmToHot(g)
    PROVE  up \subseteq In(g, "warm") /\ \A p \in up : ~ g[p].cooling
<1> DEFINE hot == In(g, "hot")
           able == {p \in In(g, "warm") : ~ g[p].cooling}
<1>1. up \in Take(able, HotMin - Cardinality(hot)) \/ up = {} \/ \E p \in able : up = {p}
  BY DEF PromoteWarmToHot
<1>2. up \subseteq able
  BY <1>1, TakeSubset
<1> QED
  BY <1>2

LEMMA DemotedHot ==
    ASSUME NEW g, NEW down \in DemoteExcessHot(g)
    PROVE  down \subseteq In(g, "hot")
<1>1. down \in Take(In(g, "hot"), Cardinality(In(g, "hot")) - HotMax) \/ down = {}
  BY DEF DemoteExcessHot
<1> QED
  BY <1>1, TakeSubset

LEMMA EvictedCold ==
    ASSUME NEW g, NEW evicted \in EvictExcessCold(g)
    PROVE  /\ evicted \subseteq In(g, "cold")
           /\ Cardinality(In(g, "cold")) <= ColdMax => evicted = {}
<1>1. evicted \in Take(In(g, "cold"), Cardinality(In(g, "cold")) - ColdMax) \/ evicted = {}
  BY DEF EvictExcessCold
<1>2. evicted \subseteq In(g, "cold")
  BY <1>1, TakeSubset
<1>3. Cardinality(In(g, "cold")) <= ColdMax => evicted = {}
  BY DEF EvictExcessCold
<1> QED
  BY <1>2, <1>3

LEMMA DialledCold ==
    ASSUME NEW g, NEW dial \in PromoteColdToWarm(g)
    PROVE  dial \subseteq In(g, "cold")
<1> DEFINE active == Count(g, "warm") + Count(g, "hot")
           able == {p \in In(g, "cold") : IsDialable(g, p) /\ ~ g[p].backoff}
<1>1. dial \in Take(able, WarmMax - active) \/ dial = {}
  BY DEF PromoteColdToWarm
<1>2. dial \subseteq able
  BY <1>1, TakeSubset
<1> QED
  BY <1>2

\* What a tick does, without how it chooses.
Settled(up, down) == SetState(MakeHot(ReapDead(gov), up), down, "warm")
Rotated(up, down, out) == SetState(Settled(up, down), out, "cold")
Moved(up, down) == {p \in In(gov, "hot") : gov[p].quiet} \cup up \cup down

TickDoes(up, down, out, evicted, connect) ==
    /\ up \subseteq In(ReapDead(gov), "warm") /\ \A p \in up : ~ ReapDead(gov)[p].cooling
    /\ down \subseteq In(MakeHot(ReapDead(gov), up), "hot")
    /\ down \in DemoteExcessHot(MakeHot(ReapDead(gov), up))
    /\ out \subseteq In(Settled(up, down), "warm")
    /\ evicted \subseteq In(Rotated(up, down, out), "cold")
    /\ Cardinality(In(Rotated(up, down, out), "cold")) <= ColdMax => evicted = {}
    /\ connect \subseteq In(ReapDead(gov), "cold") \cup In(Rotated(up, down, out), "cold")
    /\ gov' = Forget(Rotated(up, down, out), evicted)
    /\ pool' = ApplyGovernorActions(Settled(up, down), Moved(up, down), DeadWarm(gov) \cup out)
    /\ pending_dials' \in PendingAfter(gov', connect)
    /\ commands' \in [disconnect : SUBSET Peer, dial : SUBSET Peer]
    /\ discovering' \in BOOLEAN

LEMMA TickStep ==
    ASSUME NEW churn, NEW redial, NEW discover, Tick(churn, redial, discover)
    PROVE  \E up, down, out, evicted, connect \in SUBSET Id :
              TickDoes(up, down, out, evicted, connect)
<1> DEFINE reaped == ReapDead(gov)
<1>1. PICK dial \in PromoteColdToWarm(reaped), up \in PromoteWarmToHot(reaped) :
       LET hotter == MakeHot(reaped, up) IN
       \E down \in DemoteExcessHot(hotter) :
       LET settled == SetState(hotter, down, "warm")
           k == ChurnCount(settled, churn)
       IN
       \E out \in ChurnOut(settled, k) :
       LET rotated == SetState(settled, out, "cold") IN
       \E in \in ChurnIn(rotated, k), evicted \in EvictExcessCold(rotated) :
       LET after == Forget(rotated, evicted)
           moved == {p \in In(gov, "hot") : gov[p].quiet} \cup up \cup down
           disconnect == DeadWarm(gov) \cup out
           connect == dial \cup in
       IN
       /\ gov' = after
       /\ pool' = ApplyGovernorActions(settled, moved, disconnect)
       /\ pending_dials' \in PendingAfter(after, connect)
       /\ commands' =
             [disconnect |-> {p \in disconnect \cap Peer : InPool(p)},
              dial |-> DialsTo(after, connect)
                          \cup IF redial THEN MissingBootnodes(pool') ELSE {}]
       /\ discovering' = \/ discovering
                         \/ discover /\ \E p \in Peer : pool'[p].state # "none"
                                                        /\ pool'[p].is_relay
  BY ZenonT(30) DEF Tick
<1>2. PICK down \in DemoteExcessHot(MakeHot(reaped, up)) :
       \E out \in ChurnOut(Settled(up, down), ChurnCount(Settled(up, down), churn)) :
       \E in \in ChurnIn(Rotated(up, down, out), ChurnCount(Settled(up, down), churn)),
          evicted \in EvictExcessCold(Rotated(up, down, out)) :
       /\ gov' = Forget(Rotated(up, down, out), evicted)
       /\ pool' = ApplyGovernorActions(Settled(up, down), Moved(up, down), DeadWarm(gov) \cup out)
       /\ pending_dials' \in PendingAfter(Forget(Rotated(up, down, out), evicted), dial \cup in)
       /\ commands' =
             [disconnect |-> {p \in (DeadWarm(gov) \cup out) \cap Peer : InPool(p)},
              dial |-> DialsTo(Forget(Rotated(up, down, out), evicted), dial \cup in)
                          \cup IF redial THEN MissingBootnodes(pool') ELSE {}]
       /\ discovering' = \/ discovering
                         \/ discover /\ \E p \in Peer : pool'[p].state # "none"
                                                        /\ pool'[p].is_relay
  BY <1>1, Zenon DEF Settled, Rotated, Moved
<1>o. PICK out \in ChurnOut(Settled(up, down), ChurnCount(Settled(up, down), churn)) :
       \E in \in ChurnIn(Rotated(up, down, out), ChurnCount(Settled(up, down), churn)),
          evicted \in EvictExcessCold(Rotated(up, down, out)) :
       /\ gov' = Forget(Rotated(up, down, out), evicted)
       /\ pool' = ApplyGovernorActions(Settled(up, down), Moved(up, down), DeadWarm(gov) \cup out)
       /\ pending_dials' \in PendingAfter(gov', dial \cup in)
       /\ commands' =
             [disconnect |-> {p \in (DeadWarm(gov) \cup out) \cap Peer : InPool(p)},
              dial |-> DialsTo(gov', dial \cup in)
                          \cup IF redial THEN MissingBootnodes(pool') ELSE {}]
       /\ discovering' = \/ discovering
                         \/ discover /\ \E p \in Peer : pool'[p].state # "none"
                                                        /\ pool'[p].is_relay
  BY <1>2, Zenon
<1>3. PICK in \in ChurnIn(Rotated(up, down, out), ChurnCount(Settled(up, down), churn)),
           evicted \in EvictExcessCold(Rotated(up, down, out)) :
       /\ gov' = Forget(Rotated(up, down, out), evicted)
       /\ pool' = ApplyGovernorActions(Settled(up, down), Moved(up, down), DeadWarm(gov) \cup out)
       /\ pending_dials' \in PendingAfter(gov', dial \cup in)
       /\ commands' =
             [disconnect |-> {p \in (DeadWarm(gov) \cup out) \cap Peer : InPool(p)},
              dial |-> DialsTo(gov', dial \cup in)
                          \cup IF redial THEN MissingBootnodes(pool') ELSE {}]
       /\ discovering' = \/ discovering
                         \/ discover /\ \E p \in Peer : pool'[p].state # "none"
                                                        /\ pool'[p].is_relay
  BY <1>o, Zenon
<1>4. /\ up \subseteq In(reaped, "warm") /\ \A p \in up : ~ reaped[p].cooling
      /\ dial \subseteq In(reaped, "cold")
      /\ down \subseteq In(MakeHot(reaped, up), "hot")
  BY PromotedWarm, DialledCold, DemotedHot
<1>5. out \subseteq In(Settled(up, down), "warm")
  BY TakeSubset DEF ChurnOut
<1>6. in \subseteq In(Rotated(up, down, out), "cold")
  <2>1. in \subseteq {p \in In(Rotated(up, down, out), "cold") : IsDialable(Rotated(up, down, out), p)}
    BY TakeSubset DEF ChurnIn
  <2> QED
    BY <2>1
<1>7. /\ evicted \subseteq In(Rotated(up, down, out), "cold")
      /\ Cardinality(In(Rotated(up, down, out), "cold")) <= ColdMax => evicted = {}
  BY EvictedCold
<1> /\ up \in SUBSET Id /\ down \in SUBSET Id /\ out \in SUBSET Id
      /\ evicted \in SUBSET Id /\ dial \cup in \in SUBSET Id
  BY <1>4, <1>5, <1>6, <1>7 DEF In
<1>9. commands' \in [disconnect : SUBSET Peer, dial : SUBSET Peer]
  <2>1. DialsTo(gov', dial \cup in) \subseteq Peer
    BY DEF DialsTo
  <2>2. MissingBootnodes(pool') \subseteq Peer
    BY LifecycleAssumption DEF MissingBootnodes
  <2> QED
    BY <1>3, <2>1, <2>2, ZenonT(30)
<1>11. discovering' \in BOOLEAN
  <2>1. (\/ discovering
         \/ discover /\ \E p \in Peer : pool'[p].state # "none" /\ pool'[p].is_relay) \in BOOLEAN
    BY Zenon
  <2> QED
    BY <1>3, <2>1, Zenon
<1>10. dial \cup in \subseteq In(ReapDead(gov), "cold") \cup In(Rotated(up, down, out), "cold")
  BY <1>4, <1>6
<1> WITNESS up \in SUBSET Id, down \in SUBSET Id, out \in SUBSET Id,
            evicted \in SUBSET Id, dial \cup in \in SUBSET Id
<1> QED
  BY <1>3, <1>4, <1>5, <1>7, <1>9, <1>10, <1>11, Zenon DEF TickDoes
LEMMA SettledType ==
    ASSUME gov \in [Id -> PeerInfo], NEW up, NEW down, NEW out
    PROVE  /\ Settled(up, down) \in [Id -> PeerInfo]
           /\ Rotated(up, down, out) \in [Id -> PeerInfo]
<1>1. MakeHot(ReapDead(gov), up) \in [Id -> PeerInfo]
  BY ReapDeadType, MakeHotType
<1>2. Settled(up, down) \in [Id -> PeerInfo]
  BY <1>1, SetStateType DEF Settled
<1> QED
  BY <1>2, SetStateType DEF Rotated

\* The states that the phases of a tick leave.
LEMMA TickStates ==
    ASSUME gov \in [Id -> PeerInfo], NEW up, NEW down, NEW p \in Id
    PROVE  /\ ReapDead(gov)[p].state = IF ~ gov[p].quiet THEN gov[p].state
                                      ELSE IF gov[p].state = "hot" THEN "warm" ELSE "cold"
           /\ MakeHot(ReapDead(gov), up)[p].state =
                 IF p \in up THEN "hot" ELSE ReapDead(gov)[p].state
           /\ Settled(up, down)[p].state =
                 IF p \in down THEN "warm" ELSE MakeHot(ReapDead(gov), up)[p].state
<1>1. ReapDead(gov)[p].state = IF ~ gov[p].quiet THEN gov[p].state
                               ELSE IF gov[p].state = "hot" THEN "warm" ELSE "cold"
  BY DEF ReapDead, PeerInfo
<1>2. ReapDead(gov) \in [Id -> PeerInfo] /\ MakeHot(ReapDead(gov), up) \in [Id -> PeerInfo]
  BY ReapDeadType, MakeHotType
<1>3. MakeHot(ReapDead(gov), up)[p].state = IF p \in up THEN "hot" ELSE ReapDead(gov)[p].state
  BY <1>2, Zenon DEF MakeHot, PeerInfo
<1>4. Settled(up, down)[p].state =
         IF p \in down THEN "warm" ELSE MakeHot(ReapDead(gov), up)[p].state
  BY <1>2 DEF Settled, SetState, PeerInfo
<1> QED
  BY <1>1, <1>3, <1>4

LEMMA RotatedState ==
    ASSUME gov \in [Id -> PeerInfo], NEW up, NEW down, NEW out, NEW p \in Id
    PROVE  Rotated(up, down, out)[p].state =
              IF p \in out THEN "cold" ELSE Settled(up, down)[p].state
<1>1. Settled(up, down) \in [Id -> PeerInfo]
  BY SettledType, Zenon
<1> QED
  BY <1>1 DEF Rotated, SetState, PeerInfo

LEMMA SetStateFields ==
    ASSUME NEW g \in [Id -> PeerInfo], NEW S, NEW state, NEW p \in Id
    PROVE  /\ SetState(g, S, state)[p].addr = g[p].addr
           /\ SetState(g, S, state)[p].quiet => g[p].quiet /\ ~ (p \in S /\ state = "cold")
<1>1. CASE p \in S
  <2>1. SetState(g, S, state)[p] = [g[p] EXCEPT !.state = state, !.quiet = g[p].quiet /\ state # "cold"]
    BY <1>1 DEF SetState
  <2>2. SetState(g, S, state)[p].quiet = (g[p].quiet /\ state # "cold")
    BY <2>1 DEF PeerInfo
  <2>3. SetState(g, S, state)[p].addr = g[p].addr
    BY <2>1 DEF PeerInfo
  <2> QED
    BY <2>2, <2>3, Zenon
<1>2. CASE p \notin S
  BY <1>2 DEF SetState
<1> QED
  BY <1>1, <1>2

LEMMA RotatedFields ==
    ASSUME gov \in [Id -> PeerInfo], NEW up, NEW down, NEW out, NEW p \in Id
    PROVE  /\ Rotated(up, down, out)[p].addr = gov[p].addr
           /\ Rotated(up, down, out)[p].quiet =>
                 gov[p].quiet /\ ReapDead(gov)[p].state = "warm" /\ p \notin out
<1>1. ReapDead(gov) \in [Id -> PeerInfo] /\ MakeHot(ReapDead(gov), up) \in [Id -> PeerInfo]
      /\ Settled(up, down) \in [Id -> PeerInfo]
  BY ReapDeadType, MakeHotType, SettledType, Zenon
<1>2. /\ ReapDead(gov)[p].addr = gov[p].addr
      /\ ReapDead(gov)[p].quiet => gov[p].quiet /\ ReapDead(gov)[p].state = "warm"
  BY DEF ReapDead, PeerInfo
<1>3. /\ MakeHot(ReapDead(gov), up)[p].addr = ReapDead(gov)[p].addr
      /\ MakeHot(ReapDead(gov), up)[p].quiet => ReapDead(gov)[p].quiet
  <2>1. \/ MakeHot(ReapDead(gov), up)[p] = ReapDead(gov)[p]
        \/ MakeHot(ReapDead(gov), up)[p] =
              [ReapDead(gov)[p] EXCEPT !.state = "hot", !.backoff = FALSE]
    BY DEF MakeHot
  <2>2. ReapDead(gov)[p] \in PeerInfo
    BY <1>1
  <2> QED
    BY <2>1, <2>2, Zenon DEF PeerInfo
<1>4. /\ Settled(up, down)[p].addr = MakeHot(ReapDead(gov), up)[p].addr
      /\ Settled(up, down)[p].quiet => MakeHot(ReapDead(gov), up)[p].quiet
  BY <1>1, SetStateFields DEF Settled
<1>5. /\ Rotated(up, down, out)[p].addr = Settled(up, down)[p].addr
      /\ Rotated(up, down, out)[p].quiet => Settled(up, down)[p].quiet /\ p \notin out
  BY <1>1, SetStateFields DEF Rotated
<1> QED
  BY <1>2, <1>3, <1>4, <1>5

\* A tick, phase by phase, for one peer.
LEMMA TickPhases ==
    ASSUME gov \in [Id -> PeerInfo], NEW up, NEW down, NEW out, NEW evicted, NEW connect,
           TickDoes(up, down, out, evicted, connect), NEW p \in Id
    PROVE  /\ ReapDead(gov)[p].state = IF ~ gov[p].quiet THEN gov[p].state
                                      ELSE IF gov[p].state = "hot" THEN "warm" ELSE "cold"
           /\ MakeHot(ReapDead(gov), up)[p].state =
                 IF p \in up THEN "hot" ELSE ReapDead(gov)[p].state
           /\ Settled(up, down)[p].state =
                 IF p \in down THEN "warm" ELSE MakeHot(ReapDead(gov), up)[p].state
           /\ Rotated(up, down, out)[p].state =
                 IF p \in out THEN "cold" ELSE Settled(up, down)[p].state
           /\ gov[p].state \in {"unknown", "cold", "warm", "hot"}
           /\ p \in up => ReapDead(gov)[p].state = "warm" /\ ~ ReapDead(gov)[p].cooling
           /\ p \in down => MakeHot(ReapDead(gov), up)[p].state = "hot"
           /\ p \in out => Settled(up, down)[p].state = "warm"
           /\ p \in evicted => Rotated(up, down, out)[p].state = "cold"
<1>1. /\ ReapDead(gov)[p].state = IF ~ gov[p].quiet THEN gov[p].state
                                  ELSE IF gov[p].state = "hot" THEN "warm" ELSE "cold"
      /\ MakeHot(ReapDead(gov), up)[p].state =
            IF p \in up THEN "hot" ELSE ReapDead(gov)[p].state
      /\ Settled(up, down)[p].state =
            IF p \in down THEN "warm" ELSE MakeHot(ReapDead(gov), up)[p].state
  BY TickStates
<1>2. Rotated(up, down, out)[p].state = IF p \in out THEN "cold" ELSE Settled(up, down)[p].state
  BY RotatedState
<1>3. gov[p].state \in {"unknown", "cold", "warm", "hot"}
  BY DEF PeerInfo
<1>4. /\ up \subseteq In(ReapDead(gov), "warm") /\ \A q \in up : ~ ReapDead(gov)[q].cooling
      /\ down \subseteq In(MakeHot(ReapDead(gov), up), "hot")
      /\ out \subseteq In(Settled(up, down), "warm")
      /\ evicted \subseteq In(Rotated(up, down, out), "cold")
  BY Zenon DEF TickDoes
<1>5. /\ p \in up => ReapDead(gov)[p].state = "warm" /\ ~ ReapDead(gov)[p].cooling
      /\ p \in down => MakeHot(ReapDead(gov), up)[p].state = "hot"
      /\ p \in out => Settled(up, down)[p].state = "warm"
      /\ p \in evicted => Rotated(up, down, out)[p].state = "cold"
  BY <1>4, Zenon DEF In
<1> QED
  BY <1>1, <1>2, <1>3, <1>5

\* What the phases of a tick amount to for one peer.
TickEffect(up, down, out, evicted, p) ==
    /\ gov[p].state = "unknown" <=> Rotated(up, down, out)[p].state = "unknown"
    /\ gov[p].state = "cold" => Rotated(up, down, out)[p].state = "cold"
    /\ ReapDead(gov)[p].state = "cold" => Rotated(up, down, out)[p].state = "cold"
    /\ p \in evicted => Rotated(up, down, out)[p].state = "cold"
    /\ IsActive(Rotated(up, down, out)[p]) <=>
          IsActive(gov[p]) /\ p \notin DeadWarm(gov) \cup out
    /\ Rotated(up, down, out)[p].quiet => IsActive(Rotated(up, down, out)[p])
    /\ Rotated(up, down, out)[p].state = "hot" <=>
          p \notin down /\ MakeHot(ReapDead(gov), up)[p].state = "hot"
    /\ Rotated(up, down, out)[p].state = "hot" /\ gov[p].state # "hot" =>
          gov[p].state = "warm" /\ ~ gov[p].cooling /\ ~ gov[p].quiet
    /\ Settled(up, down)[p].state = "hot" => Rotated(up, down, out)[p].state = "hot"
    /\ p \notin out => Rotated(up, down, out)[p].state = Settled(up, down)[p].state
    /\ p \in Moved(up, down) => Settled(up, down)[p].state # "none"
    /\ p \notin Moved(up, down) \cup DeadWarm(gov) /\ IsActive(gov[p]) =>
          Settled(up, down)[p].state = gov[p].state

\* Whatever the tick promotes, demotes, rotates out or evicts, it moves every
\* peer as TickEffect says.
LEMMA TickMoves ==
    ASSUME gov \in [Id -> PeerInfo], NEW up, NEW down, NEW out, NEW evicted, NEW connect,
           TickDoes(up, down, out, evicted, connect), NEW p \in Id,
           gov[p].quiet => IsActive(gov[p])
    PROVE  TickEffect(up, down, out, evicted, p)
<1> DEFINE s0 == gov[p].state
           s1 == ReapDead(gov)[p].state
           s2 == MakeHot(ReapDead(gov), up)[p].state
           s3 == Settled(up, down)[p].state
           s4 == Rotated(up, down, out)[p].state
           quiet == gov[p].quiet
<1>1. /\ s1 = IF ~ quiet THEN s0 ELSE IF s0 = "hot" THEN "warm" ELSE "cold"
      /\ s2 = IF p \in up THEN "hot" ELSE s1
      /\ s3 = IF p \in down THEN "warm" ELSE s2
      /\ s4 = IF p \in out THEN "cold" ELSE s3
      /\ s0 \in {"unknown", "cold", "warm", "hot"}
      /\ p \in up => s1 = "warm" /\ ~ ReapDead(gov)[p].cooling
      /\ p \in down => s2 = "hot"
      /\ p \in out => s3 = "warm"
      /\ p \in evicted => s4 = "cold"
  BY TickPhases
<1>2. /\ IsActive(gov[p]) <=> s0 = "warm" \/ s0 = "hot"
      /\ IsActive(Rotated(up, down, out)[p]) <=> s4 = "warm" \/ s4 = "hot"
      /\ p \in DeadWarm(gov) <=> s0 = "warm" /\ quiet
      /\ p \in Moved(up, down) <=> (s0 = "hot" /\ quiet) \/ p \in up \/ p \in down
  BY DEF IsActive, DeadWarm, Moved, In
<1>3. Rotated(up, down, out)[p].quiet => s1 = "warm" /\ p \notin out
  BY RotatedFields
<1>4. ~ quiet => ReapDead(gov)[p].cooling = gov[p].cooling
  BY Zenon DEF ReapDead
<1>5. quiet => s0 = "warm" \/ s0 = "hot"
  BY <1>2
<1> HIDE DEF s0, s1, s2, s3, s4, quiet
<1>6. /\ s0 = "unknown" <=> s4 = "unknown"
      /\ s0 = "cold" => s4 = "cold"
      /\ s1 = "cold" => s4 = "cold"
      /\ s4 = "hot" <=> p \notin down /\ s2 = "hot"
      /\ s3 = "hot" => s4 = "hot"
      /\ p \notin out => s4 = s3
  BY <1>1, <1>5
<1>7. s4 = "warm" \/ s4 = "hot" <=> (s0 = "warm" \/ s0 = "hot") /\ ~ (s0 = "warm" /\ quiet) /\ p \notin out
  BY <1>1, <1>5
<1>8. s1 = "warm" /\ p \notin out => s4 = "warm" \/ s4 = "hot"
  BY <1>1
<1>9. s4 = "hot" /\ s0 # "hot" => s0 = "warm" /\ ~ gov[p].cooling /\ ~ quiet
  BY <1>1, <1>4, <1>5
<1>10. /\ (s0 = "hot" /\ quiet) \/ p \in up \/ p \in down => s3 # "none"
       /\ ~ (s0 = "warm" /\ quiet) /\ ~ ((s0 = "hot" /\ quiet) \/ p \in up \/ p \in down)
             /\ (s0 = "warm" \/ s0 = "hot") => s3 = s0
  BY <1>1
<1> QED
  BY <1>1, <1>2, <1>3, <1>6, <1>7, <1>8, <1>9, <1>10, ZenonT(30)
  DEF TickEffect, s0, s1, s2, s3, s4, quiet

LEMMA AppliedType ==
    ASSUME pool \in [Peer -> Handle], gov \in [Id -> PeerInfo],
           NEW up \in SUBSET Id, NEW down \in SUBSET Id, NEW S,
           up \subseteq In(ReapDead(gov), "warm"),
           down \subseteq In(MakeHot(ReapDead(gov), up), "hot")
    PROVE  ApplyGovernorActions(Settled(up, down), Moved(up, down), S) \in [Peer -> Handle]
<1>1. ASSUME NEW p \in Moved(up, down) PROVE p \in Id /\ Settled(up, down)[p].state \in {"warm", "hot"}
  <2>1. p \in Id
    BY DEF Moved, In
  <2>2. (p \in In(gov, "hot") /\ gov[p].quiet) \/ p \in up \/ p \in down
    BY DEF Moved
  <2>3. /\ ReapDead(gov)[p].state = IF ~ gov[p].quiet THEN gov[p].state
                                   ELSE IF gov[p].state = "hot" THEN "warm" ELSE "cold"
        /\ MakeHot(ReapDead(gov), up)[p].state =
              IF p \in up THEN "hot" ELSE ReapDead(gov)[p].state
        /\ Settled(up, down)[p].state =
              IF p \in down THEN "warm" ELSE MakeHot(ReapDead(gov), up)[p].state
    BY <2>1, TickStates
  <2> QED
    BY <2>1, <2>2, <2>3 DEF In
<1>2. Absent \in Handle
  BY DEF Absent, Handle, Addr
<1> QED
  BY <1>1, <1>2 DEF ApplyGovernorActions, Handle

LEMMA InitTypeOK == Init => TypeOK
<1> SUFFICES ASSUME Init PROVE TypeOK
  OBVIOUS
<1>1. gov \in [Id -> PeerInfo]
  BY UnknownType, LifecycleAssumption, ZenonT(30) DEF Init, PeerInfo, Unknown, Addr
<1>2. pool \in [Peer -> Handle]
  BY ZenonT(30) DEF Init, Absent, Handle, Addr
<1>3. lags \in BOOLEAN
  BY LifecycleAssumption, Zenon DEF Init
<1>4. events \in Seq(Event) /\ Len(events) <= EventCap
  <2>1. events = <<>> /\ EventCap \in Nat
    BY LifecycleAssumption, Zenon DEF Init
  <2> QED
    BY <2>1
<1> QED
  BY <1>1, <1>2, <1>3, <1>4, Zenon DEF Init, TypeOK, NoCommands

LEMMA SendType ==
    ASSUME events \in Seq(Event), Len(events) <= EventCap,
           NEW type \in {"connected", "disconnected", "dial_failed"},
           NEW p \in Peer, NEW addr \in Addr, Send(type, p, addr)
    PROVE  events' \in Seq(Event) /\ Len(events') <= EventCap
<1> DEFINE kept == IF Len(events) = EventCap THEN Tail(events) ELSE events
<1>1. [type |-> type, peer |-> p, addr |-> addr] \in Event
  BY DEF Event
<1>2. kept \in Seq(Event) /\ Len(kept) < EventCap
  BY LifecycleAssumption
<1> HIDE DEF kept
<1>3. events' = Append(kept, [type |-> type, peer |-> p, addr |-> addr])
  BY DEF Send, kept
<1> QED
  BY <1>1, <1>2, <1>3, LifecycleAssumption

LEMMA HeadType ==
    ASSUME events \in Seq(Event), Len(events) <= EventCap, events # <<>>
    PROVE  /\ Head(events) \in Event
           /\ Tail(events) \in Seq(Event) /\ Len(Tail(events)) <= EventCap
  BY LifecycleAssumption
LEMMA NextTypeOK == TypeOK /\ [Next]_vars => TypeOK'
<1> SUFFICES ASSUME TypeOK, [Next]_vars PROVE TypeOK'
  OBVIOUS
<1> USE DEF govVars, taskVars, swarmVars
<1>t. /\ gov \in [Id -> PeerInfo] /\ pool \in [Peer -> Handle]
      /\ pending_dials \in [Peer -> Id \cup {None}] /\ exchange \subseteq Exchange
      /\ discovering \in BOOLEAN /\ commands \in [disconnect : SUBSET Peer, dial : SUBSET Peer]
      /\ events \in Seq(Event) /\ Len(events) <= EventCap
      /\ dialing \subseteq Peer /\ requesting \subseteq Peer
      /\ open \in [Peer -> Nat] /\ closing \in [Peer -> Nat] /\ lags \in BOOLEAN
  BY DEF TypeOK
<1>i. Peer \subseteq Id
  BY DEF Id
<1>1. ASSUME NEW churn \in BOOLEAN, NEW redial \in BOOLEAN, NEW discover \in BOOLEAN,
             Tick(churn, redial, discover)
      PROVE  TypeOK'
  <2>1. PICK up, down, out, evicted, connect \in SUBSET Id :
                TickDoes(up, down, out, evicted, connect)
    BY <1>1, TickStep
  <2>2. gov' \in [Id -> PeerInfo]
    BY <2>1, <1>t, SettledType, ForgetType DEF TickDoes
  <2>3. pool' \in [Peer -> Handle]
    BY <2>1, <1>t, AppliedType, Zenon DEF TickDoes
  <2>4. pending_dials' \in [Peer -> Id \cup {None}]
    BY <1>t, <2>1 DEF TickDoes, PendingAfter
  <2>5. commands' \in [disconnect : SUBSET Peer, dial : SUBSET Peer] /\ discovering' \in BOOLEAN
    BY <1>t, <2>1 DEF TickDoes
  <2> QED
    BY <1>1, <1>t, <2>2, <2>3, <2>4, <2>5, Zenon DEF Tick, TypeOK
<1>2. CASE PeerConnected
  <2> DEFINE e == Head(events)
             dialled == IF e.addr \in Peer THEN pending_dials[e.addr] ELSE None
             met == IF dialled # None
                    THEN IF dialled # e.peer THEN ReplaceNodeId(gov, dialled, e.peer) ELSE gov
                    ELSE IF IsKnown(gov[e.peer]) THEN gov ELSE AddPeer(gov, e.peer, e.addr)
  <2>1. e \in Event /\ events' \in Seq(Event) /\ Len(events') <= EventCap
    BY <1>t, <1>2, HeadType, Zenon DEF PeerConnected
  <2>2. e.peer \in Peer /\ e.addr \in Addr
    BY <1>t, <2>1 DEF Event
  <2>3. dialled \in Id \cup {None}
    BY <1>t, <2>2
  <2>4. gov' = MarkConnected(met, e.peer)
    BY <1>t, <1>2, Zenon DEF PeerConnected
  <2> HIDE DEF dialled
  <2>5. met \in [Id -> PeerInfo]
    BY <1>t, <2>2, <2>3, <1>i, ReplaceNodeIdType, AddPeerType, Zenon
  <2> HIDE DEF met
  <2>6. gov' \in [Id -> PeerInfo]
    BY <1>t, <2>2, <2>4, <2>5, <1>i, MarkConnectedType
  <2>7. pool' \in [Peer -> Handle]
    <3>1. pool' = [pool EXCEPT ![e.peer] = [state |-> "warm", addr |-> e.addr,
                                            is_relay |-> gov'[e.peer].is_relay]]
      BY <1>t, <1>2, Zenon DEF PeerConnected
    <3>2. gov'[e.peer].is_relay \in BOOLEAN
      BY <1>t, <2>2, <2>6, <1>i DEF PeerInfo
    <3>3. [state |-> "warm", addr |-> e.addr, is_relay |-> gov'[e.peer].is_relay] \in Handle
      BY <1>t, <3>2, <2>2 DEF Handle
    <3> QED
      BY <1>t, <3>1, <3>3, Zenon
  <2>8. exchange' \subseteq Exchange
    <3>1. \A x \in exchange' : x \in exchange \/ x = [peer |-> e.peer, step |-> "asked", addr |-> NoAddr]
      BY <1>2, Zenon DEF PeerConnected
    <3>2. [peer |-> e.peer, step |-> "asked", addr |-> NoAddr] \in Exchange
      BY <2>2 DEF Exchange, Addr
    <3> QED
      BY <1>t, <3>1, <3>2
  <2>9. pending_dials' \in [Peer -> Id \cup {None}]
    BY <1>t, <1>2, Zenon DEF PeerConnected
  <2> QED
    BY <1>t, <1>2, <2>1, <2>6, <2>7, <2>8, <2>9, ZenonT(30) DEF PeerConnected, TypeOK
<1>3. CASE PeerDisconnected
  <2>1. Head(events).peer \in Peer /\ events' \in Seq(Event) /\ Len(events') <= EventCap
    BY <1>t, <1>3, HeadType DEF PeerDisconnected, Event
  <2>2. gov' \in [Id -> PeerInfo]
    BY <1>t, <1>3, <2>1, <1>i, MarkDisconnectedType, Zenon DEF PeerDisconnected
  <2>3. pool' \in [Peer -> Handle]
    BY <1>t, <1>3, <2>1 DEF PeerDisconnected, Absent, Handle, Addr
  <2> QED
    BY <1>t, <1>3, <2>1, <2>2, <2>3 DEF PeerDisconnected, TypeOK
<1>4. CASE DialFailureEvent
  <2>1. Head(events).peer \in Peer /\ events' \in Seq(Event) /\ Len(events') <= EventCap
    BY <1>t, <1>4, HeadType DEF DialFailureEvent, Event
  <2>2. gov' \in [Id -> PeerInfo]
    BY <1>t, <1>4, <2>1, <1>i, FlagType, Zenon DEF DialFailureEvent, MarkDialFailed
  <2> QED
    BY <1>t, <1>4, <2>1, <2>2 DEF DialFailureEvent, TypeOK
<1>5. CASE DiscoverPeers
  <2>1. PICK reported \in SUBSET (Relays \X {FALSE, TRUE}) :
          gov' = [p \in Id |->
                    IF IsActive(gov[p]) \/ \A stray \in BOOLEAN : <<p, stray>> \notin reported
                    THEN gov[p]
                    ELSE LET addr == IF <<p, TRUE>> \in reported THEN Stray ELSE p
                         IN [AddPeer(gov, p, addr)[p] EXCEPT !.is_relay = TRUE]]
    BY <1>t, <1>5, Zenon DEF DiscoverPeers
  <2>2. ASSUME NEW p \in Id PROVE gov'[p] \in PeerInfo
    <3>1. CASE IsActive(gov[p]) \/ \A stray \in BOOLEAN : <<p, stray>> \notin reported
      BY <1>t, <2>1, <3>1
    <3>2. CASE ~ (IsActive(gov[p]) \/ \A stray \in BOOLEAN : <<p, stray>> \notin reported)
      <4> DEFINE addr == IF <<p, TRUE>> \in reported THEN Stray ELSE p
      <4>1. p \in Peer
        BY <1>t, <3>2, LifecycleAssumption, Zenon
      <4>2. addr \in Addr
        BY <4>1 DEF Addr
      <4>3. gov'[p] = [AddPeer(gov, p, addr)[p] EXCEPT !.is_relay = TRUE]
        BY <1>t, <2>1, <3>2
      <4> HIDE DEF addr
      <4>4. AddPeer(gov, p, addr)[p] \in PeerInfo
        <5>1. AddPeer(gov, p, addr) \in [Id -> PeerInfo]
          BY <1>t, <4>2, AddPeerType, Zenon
        <5> QED
          BY <5>1
      <4> QED
        BY <4>3, <4>4, Zenon DEF PeerInfo
    <3> QED
      BY <1>t, <3>1, <3>2
  <2>3. gov' \in [Id -> PeerInfo]
    <3>1. gov' = [p \in Id |-> gov'[p]]
      BY <1>t, <2>1
    <3> QED
      BY <1>t, <2>2, <3>1
  <2> QED
    BY <1>t, <1>5, <2>3, Zenon DEF DiscoverPeers, TypeOK
<1>6. ASSUME NEW p \in Peer, IdentifyReceived(p) PROVE TypeOK'
  <2> DEFINE same == {q \in In(gov, "cold") \ {p} : gov[q].addr = p}
  <2>1. PICK met \in IF same = {} THEN {gov} ELSE {ReplaceNodeId(gov, q, p) : q \in same} :
          IF InPool(p) /\ pool[p].addr # p
          THEN gov' = AddPeer(met, p, p) /\ pool' = [pool EXCEPT ![p].addr = p]
          ELSE gov' = met /\ UNCHANGED pool
    BY <1>t, <1>6, Zenon DEF IdentifyReceived
  <2>2. met \in [Id -> PeerInfo]
    <3>1. met = gov \/ \E q \in same : met = ReplaceNodeId(gov, q, p)
      BY <2>1
    <3>2. \A q \in same : q \in Id
      BY DEF In
    <3>3. ASSUME NEW q \in same PROVE ReplaceNodeId(gov, q, p) \in [Id -> PeerInfo]
      BY <1>t, <1>i, <3>2, ReplaceNodeIdType, Zenon
    <3> QED
      BY <1>t, <3>1, <3>3
  <2>3. gov' \in [Id -> PeerInfo]
    <3>1. gov' = AddPeer(met, p, p) \/ gov' = met
      BY <2>1
    <3>2. AddPeer(met, p, p) \in [Id -> PeerInfo]
      BY <2>2, <1>i, AddPeerType DEF Addr
    <3> QED
      BY <2>2, <3>1, <3>2
  <2>4. pool' \in [Peer -> Handle]
    <3>1. pool' = [pool EXCEPT ![p].addr = p] \/ pool' = pool
      BY <2>1
    <3>2. [pool EXCEPT ![p].addr = p] \in [Peer -> Handle]
      <4>1. [pool[p] EXCEPT !.addr = p] \in Handle
        <5>1. pool[p] \in Handle /\ p \in Addr
          BY <1>t DEF Addr
        <5> QED
          BY <5>1 DEF Handle
      <4> QED
        BY <1>t, <4>1
    <3> QED
      BY <1>t, <3>1, <3>2, Zenon
  <2> QED
    BY <1>t, <1>6, <2>3, <2>4 DEF IdentifyReceived, TypeOK
<1>7. ASSUME NEW p \in Peer,
             RecordActivity(p) \/ FallsSilent(p) \/ CooldownOver(p) \/ BackoffOver(p)
      PROVE  TypeOK'
  <2>1. gov' \in [Id -> PeerInfo]
    <3>1. /\ [gov EXCEPT ![p].quiet = TRUE] \in [Id -> PeerInfo]
          /\ [gov EXCEPT ![p].quiet = FALSE] \in [Id -> PeerInfo]
          /\ [gov EXCEPT ![p].cooling = FALSE] \in [Id -> PeerInfo]
          /\ [gov EXCEPT ![p].backoff = FALSE] \in [Id -> PeerInfo]
      BY <1>t, <1>i, FlagType, Zenon
    <3> QED
      BY <1>7, <3>1, Zenon DEF RecordActivity, FallsSilent, CooldownOver, BackoffOver
  <2> QED
    BY <1>t, <1>7, <2>1 DEF RecordActivity, FallsSilent, CooldownOver, BackoffOver, TypeOK
<1>8. ASSUME NEW p \in Peer,
             SwarmDisconnect(p) \/ SwarmDial(p) \/ DialFails(p) \/ SwarmRequest(p)
      PROVE  TypeOK'
  <2>1. CASE SwarmDisconnect(p)
    <3>1. open' \in [Peer -> Nat] /\ closing' \in [Peer -> Nat]
      BY <1>t, <2>1 DEF SwarmDisconnect
    <3>2. commands' \in [disconnect : SUBSET Peer, dial : SUBSET Peer]
      BY <1>t, <2>1, Zenon DEF SwarmDisconnect
    <3> QED
      BY <1>t, <2>1, <3>1, <3>2, Zenon DEF SwarmDisconnect, TypeOK
  <2>2. CASE SwarmDial(p)
    <3>1. commands' \in [disconnect : SUBSET Peer, dial : SUBSET Peer]
      BY <1>t, <2>2, Zenon DEF SwarmDial
    <3> QED
      BY <1>t, <2>2, <3>1, Zenon DEF SwarmDial, TypeOK
  <2>3. CASE DialFails(p)
    BY <1>t, <2>3 DEF DialFails, TypeOK
  <2>4. CASE SwarmRequest(p)
    BY <1>t, <2>4 DEF SwarmRequest, TypeOK
  <2> QED
    BY <1>8, <2>1, <2>2, <2>3, <2>4
<1>9. ASSUME NEW p \in Peer, RequestFails(p) PROVE TypeOK'
  <2>1. events' \in Seq(Event) /\ Len(events') <= EventCap
    BY <1>t, <1>9, SendType DEF RequestFails, Addr
  <2> QED
    BY <1>t, <1>9, <2>1 DEF RequestFails, TypeOK
<1>10. ASSUME NEW p \in Peer, NEW addr \in Addr, ConnectionEstablished(p, addr),
              dialing' \subseteq Peer, requesting' \subseteq Peer
       PROVE  TypeOK'
  <2>1. events' \in Seq(Event) /\ Len(events') <= EventCap
    BY <1>t, <1>10, SendType DEF ConnectionEstablished
  <2> QED
    BY <1>t, <1>10, <2>1 DEF ConnectionEstablished, TypeOK
<1>11. ASSUME NEW p \in Peer, DialSucceeds(p) \/ Accept(p) PROVE TypeOK'
  BY <1>t, <1>10, <1>11, Zenon DEF DialSucceeds, Accept, Addr, TypeOK
<1>12. ASSUME NEW p \in Peer, CloseCompletes(p) \/ ConnectionLost(p) PROVE TypeOK'
  <2>1. events' \in Seq(Event) /\ Len(events') <= EventCap
    BY <1>t, <1>12, SendType DEF CloseCompletes, ConnectionLost, ConnectionClosed, Addr
  <2>2. open' \in [Peer -> Nat] /\ closing' \in [Peer -> Nat]
    <3>1. CASE CloseCompletes(p)
      BY <1>t, <3>1 DEF CloseCompletes
    <3>2. CASE ConnectionLost(p)
      BY <1>t, <3>2 DEF ConnectionLost
    <3> QED
      BY <1>12, <3>1, <3>2
  <2> QED
    BY <1>t, <1>12, <2>1, <2>2 DEF CloseCompletes, ConnectionLost, ConnectionClosed, TypeOK
<1>13. ASSUME NEW x \in exchange, ExchangeAnswered(x) \/ ExchangeFailed(x) \/ ExchangeRead(x)
       PROVE  TypeOK'
  <2>1. exchange' \subseteq Exchange
    <3>1. x \in Exchange /\ x.peer \in Peer
      BY <1>t DEF Exchange
    <3>2. [x EXCEPT !.step = "answered"] \in Exchange
      BY <3>1 DEF Exchange
    <3>3. [x EXCEPT !.step = "read", !.addr = pool[x.peer].addr] \in Exchange
      BY <1>t, <3>1, Zenon DEF Exchange, Handle
    <3> QED
      BY <1>t, <1>13, <3>2, <3>3, Zenon DEF ExchangeAnswered, ExchangeFailed, ExchangeRead
  <2> QED
    BY <1>t, <1>13, <2>1 DEF ExchangeAnswered, ExchangeFailed, ExchangeRead, TypeOK
<1>14. ASSUME NEW x \in exchange, ExchangeAdd(x) PROVE TypeOK'
  <2>1. gov' \in [Id -> PeerInfo]
    BY <1>t, <1>14, <1>i, AddPeerType, Zenon DEF ExchangeAdd, Exchange
  <2> QED
    BY <1>t, <1>14, <2>1 DEF ExchangeAdd, TypeOK
<1>15. CASE UNCHANGED vars
  BY <1>t, <1>15 DEF vars, TypeOK
<1> QED
  BY <1>t, <1>1, <1>2, <1>3, <1>4, <1>5, <1>6, <1>7, <1>8, <1>9, <1>11, <1>12, <1>13, <1>14, <1>15
     DEF Next

\* Governor, pool, event channel and connections keep their types: no handler
\* leaves a cold or unknown peer's state in the pool, the channel stays within
\* its capacity, and no connection is closed twice.
THEOREM TypeCorrect == Spec => []TypeOK
  BY InitTypeOK, NextTypeOK, PTL DEF Spec
-----------------------------------------------------------------------------
(* Pool and governor.                                                      *)

LEMMA AddPeerAt ==
    ASSUME NEW g \in [Id -> PeerInfo], NEW p \in Id, NEW a \in Addr, NEW q \in Id
    PROVE  /\ AddPeer(g, p, a)[q].state =
                 IF q = p /\ g[p].state = "unknown" THEN "cold" ELSE g[q].state
           /\ AddPeer(g, p, a)[q].addr = IF q = p THEN a ELSE g[q].addr
           /\ AddPeer(g, p, a)[q].quiet => (g[q].quiet /\ g[q].state # "unknown") \/ (q # p /\ g[q].quiet)
  BY DEF AddPeer, PeerInfo, IsKnown, Unknown

LEMMA MarkConnectedAt ==
    ASSUME NEW g \in [Id -> PeerInfo], NEW p \in Id, NEW q \in Id
    PROVE  /\ MarkConnected(g, p)[q].state =
                 IF q = p /\ g[p].state = "cold" THEN "warm" ELSE g[q].state
           /\ MarkConnected(g, p)[q].addr = g[q].addr
           /\ MarkConnected(g, p)[q].quiet = g[q].quiet
  BY DEF MarkConnected, PeerInfo

LEMMA MarkDisconnectedAt ==
    ASSUME NEW g \in [Id -> PeerInfo], NEW p \in Id, NEW q \in Id
    PROVE  /\ MarkDisconnected(g, p)[q].state =
                 IF q = p /\ IsActive(g[p]) THEN "cold" ELSE g[q].state
           /\ MarkDisconnected(g, p)[q].addr = g[q].addr
           /\ MarkDisconnected(g, p)[q].quiet => g[q].quiet /\ ~ (q = p /\ IsActive(g[p]))
  BY DEF MarkDisconnected, PeerInfo

\* Taking over a cold entry.
LEMMA ReplaceNodeIdAt ==
    ASSUME NEW g \in [Id -> PeerInfo], NEW old \in Id, NEW new \in Id, NEW q \in Id,
           old # new, ~ IsActive(g[old])
    PROVE  /\ ReplaceNodeId(g, old, new)[q].state =
                 IF g[old].state = "unknown" THEN g[q].state
                 ELSE IF q = old THEN "unknown"
                 ELSE IF q = new /\ ~ IsActive(g[new]) THEN "cold"
                 ELSE g[q].state
           /\ ReplaceNodeId(g, old, new)[q].addr \in {g[q].addr, NoAddr, g[old].addr}
           /\ g[old].state = "unknown" \/ q \notin {old, new} =>
                 ReplaceNodeId(g, old, new)[q].addr = g[q].addr
           /\ ReplaceNodeId(g, old, new)[q].quiet => g[q].quiet \/ g[old].quiet
<1>1. CASE g[old].state = "unknown"
  BY <1>1 DEF ReplaceNodeId, IsKnown
<1>2. CASE g[old].state # "unknown"
  <2>1. g[old].state = "cold"
    BY <1>2 DEF PeerInfo, IsActive
  <2>2. ReplaceNodeId(g, old, new)[q] =
          IF q = old THEN Unknown
          ELSE IF q = new THEN IF IsActive(g[q])
                               THEN [g[q] EXCEPT !.is_relay = g[q].is_relay \/ g[old].is_relay]
                               ELSE g[old]
          ELSE g[q]
    <3>1. ReplaceNodeId(g, old, new) =
            [g EXCEPT ![old] = Unknown,
                      ![new] = IF IsActive(g[new])
                               THEN [g[new] EXCEPT !.is_relay = g[new].is_relay \/ g[old].is_relay]
                               ELSE g[old]]
      BY <1>2 DEF ReplaceNodeId, IsKnown
    <3> QED
      BY <3>1
  <2>3. CASE q = old
    BY <1>2, <2>2, <2>3 DEF Unknown
  <2>4. CASE q # old /\ q = new /\ IsActive(g[q])
    BY <1>2, <2>2, <2>4 DEF PeerInfo
  <2>5. CASE q # old /\ ~ (q = new /\ IsActive(g[q]))
    BY <1>2, <2>1, <2>2, <2>5
  <2> QED
    BY <2>3, <2>4, <2>5, ZenonT(30)
<1> QED
  BY <1>1, <1>2, ZenonT(30)
\* The entry of a peer has the address it listens on, one on which it does not
\* listen, or none, wherever it is kept; that of a bootnode not yet met has the
\* configured one, and such a bootnode is never active.
Near(p) == {p, Stray, NoAddr}

Addressed ==
    /\ \A p \in Peer : gov[p].addr \in Near(p) /\ pool[p].addr \in Near(p)
    /\ \A b \in Placeholder : /\ ~ IsActive(gov[b])
                              /\ IsKnown(gov[b]) => gov[b].addr = BootAddr[b]
    /\ \A x \in exchange : x.addr \in Near(x.peer)
    /\ \A k \in 1 .. Len(events) : events[k].addr \in Near(events[k].peer)
    /\ \A a \in Peer : pending_dials[a] # a =>
                             \/ pending_dials[a] = None
                             \/ pending_dials[a] \in Placeholder /\ BootAddr[pending_dials[a]] = a

\* A dial under way was made for a peer that is still known, or the peer it
\* will meet is known otherwise; only active peers can be silent.
Governed ==
    /\ \A p \in Id : gov[p].quiet => IsActive(gov[p])
    /\ \A a \in Peer : pending_dials[a] # None =>
                           IsKnown(gov[pending_dials[a]]) \/ IsKnown(gov[a])
    /\ PoolIsGoverned

GovInv == TypeOK /\ Addressed /\ Governed

\* cold_max leaves room for any set of identities, so that nobody is evicted.
Roomy == \A S \in SUBSET Id : Cardinality(S) <= ColdMax

LEMMA IdParts ==
    /\ Peer \subseteq Id /\ Placeholder \subseteq Id
    /\ \A q \in Peer : q \notin Placeholder
    /\ \A b \in Placeholder : BootAddr[b] \in Peer
BY TargetAssumption, LifecycleAssumption DEF Id

LEMMA Nearest ==
    ASSUME NEW p, NEW a \in Near(p), a \in Id
    PROVE  a = p
BY TargetAssumption DEF Near

LEMMA InitGovInv == Init => GovInv
<1> SUFFICES ASSUME Init PROVE GovInv
  OBVIOUS
<1>1. TypeOK
  BY InitTypeOK
<1>2. /\ \A p \in Peer : gov[p] = Unknown /\ pool[p] = Absent /\ pending_dials[p] = None
      /\ \A b \in Placeholder : gov[b] = [Unknown EXCEPT !.state = "cold", !.addr = BootAddr[b],
                                                       !.is_relay = TRUE]
      /\ exchange = {} /\ events = <<>>
  BY TargetAssumption, ZenonT(30) DEF Init, Id
<1>3. \A b \in Placeholder : gov[b].state = "cold" /\ gov[b].addr = BootAddr[b] /\ gov[b].quiet = FALSE
  BY <1>2, ZenonT(30) DEF Unknown
<1>p. \A p \in Peer : /\ gov[p].state = "unknown" /\ gov[p].addr = NoAddr /\ ~ gov[p].quiet
                      /\ pool[p].state = "none" /\ pool[p].addr = NoAddr
  <2>1. Unknown.state = "unknown" /\ Unknown.addr = NoAddr /\ ~ Unknown.quiet
    BY DEF Unknown
  <2>2. Absent.state = "none" /\ Absent.addr = NoAddr
    BY DEF Absent
  <2> QED
    BY <1>2, <2>1, <2>2, Zenon
<1>4. Addressed
  <2>1. Len(events) = 0
    BY <1>2, Zenon
  <2>2. \A k \in 1 .. Len(events) : FALSE
    BY <2>1
  <2> QED
    BY <1>2, <1>3, <1>p, <2>2, ZenonT(30) DEF Addressed, Near, IsActive, IsKnown
<1>5. Governed
  <2>1. \A p \in Id : gov[p].quiet => IsActive(gov[p])
    BY <1>3, <1>p DEF Id
  <2>2. PoolIsGoverned
    BY <1>p DEF PoolIsGoverned, InPool, IsActive
  <2> QED
    BY <1>2, <2>1, <2>2, Zenon DEF Governed
<1> QED
  BY <1>1, <1>4, <1>5 DEF GovInv

LEMMA NobodyEvicted ==
    ASSUME Roomy, NEW g
    PROVE  Cardinality(In(g, "cold")) <= ColdMax
BY DEF Roomy, In

LEMMA TickGoverned ==
    ASSUME Roomy, GovInv, TypeOK', NEW up \in SUBSET Id, NEW down \in SUBSET Id,
           NEW out \in SUBSET Id, NEW evicted \in SUBSET Id, NEW connect \in SUBSET Id,
           TickDoes(up, down, out, evicted, connect), UNCHANGED <<exchange, events>>
    PROVE  GovInv'
<1>t. gov \in [Id -> PeerInfo] /\ pool \in [Peer -> Handle] /\ gov' \in [Id -> PeerInfo]
  BY DEF GovInv, TypeOK
<1>i. Peer \subseteq Id /\ Placeholder \subseteq Id
  BY DEF Id
<1>1. evicted = {}
  BY NobodyEvicted DEF TickDoes
<1>2. gov' = Rotated(up, down, out)
  <2>1. Rotated(up, down, out) \in [Id -> PeerInfo]
    BY <1>t, SettledType
  <2> QED
    BY <1>1, <2>1 DEF TickDoes, Forget
<1>3. \A p \in Id : gov[p].quiet => IsActive(gov[p])
  BY Zenon DEF GovInv, Governed
<1>4. \A p \in Id : gov'[p].addr = gov[p].addr
  BY <1>t, <1>2, RotatedFields
<1>5. ASSUME NEW p \in Id
      PROVE  /\ gov[p].state = "unknown" <=> gov'[p].state = "unknown"
             /\ gov[p].state = "cold" => gov'[p].state = "cold"
             /\ ReapDead(gov)[p].state = "cold" => gov'[p].state = "cold"
             /\ IsActive(gov'[p]) <=>
                   IsActive(gov[p]) /\ p \notin DeadWarm(gov) \cup out
             /\ gov'[p].quiet => IsActive(gov'[p])
             /\ p \in Moved(up, down) => Settled(up, down)[p].state # "none"
  <2>1. TickEffect(up, down, out, evicted, p)
    BY <1>t, <1>3, TickMoves
  <2> QED
    BY <1>2, <2>1, Zenon DEF TickEffect
<1>6. ASSUME NEW p \in Peer
      PROVE  /\ pool'[p].state # "none" <=>
                   pool[p].state # "none" /\ p \notin DeadWarm(gov) \cup out
             /\ pool'[p].addr \in {pool[p].addr, NoAddr}
  <2>1. p \in Moved(up, down) => Settled(up, down)[p].state # "none"
    BY <1>5, <1>i, Zenon
  <2>2. pool'[p] = IF p \in DeadWarm(gov) \cup out THEN Absent
                   ELSE IF InPool(p) /\ p \in Moved(up, down)
                        THEN [pool[p] EXCEPT !.state = Settled(up, down)[p].state]
                   ELSE pool[p]
    BY DEF TickDoes, ApplyGovernorActions
  <2> QED
    BY <1>t, <2>1, <2>2 DEF InPool, Absent, Handle
<1>7. ASSUME NEW a \in Peer
      PROVE  pending_dials'[a] = pending_dials[a]
             \/ /\ pending_dials'[a] \in Id /\ gov'[pending_dials'[a]].addr = a
                /\ gov'[pending_dials'[a]].state = "cold"
  <2>1. \/ pending_dials'[a] = pending_dials[a]
        \/ pending_dials'[a] \in connect /\ gov'[pending_dials'[a]].addr = a
    BY Zenon DEF TickDoes, PendingAfter
  <2>2. \A q \in connect : gov'[q].state = "cold"
    BY <1>2, <1>5, ZenonT(30) DEF TickDoes, In
  <2> QED
    BY <2>1, <2>2
<1>8. Addressed'
  <2>1. \A p \in Peer : gov'[p].addr \in Near(p) /\ pool'[p].addr \in Near(p)
    BY <1>4, <1>6, <1>i, ZenonT(30) DEF GovInv, Addressed, Near
  <2>2. \A b \in Placeholder :
           /\ ~ IsActive(gov'[b])
           /\ IsKnown(gov'[b]) => gov'[b].addr = BootAddr[b]
    BY <1>4, <1>5, <1>i, ZenonT(30) DEF GovInv, Addressed, IsKnown
  <2>3. ASSUME NEW a \in Peer, pending_dials'[a] # a
        PROVE  \/ pending_dials'[a] = None
               \/ pending_dials'[a] \in Placeholder /\ BootAddr[pending_dials'[a]] = a
    <3>1. CASE pending_dials'[a] = pending_dials[a]
      BY <2>3, <3>1 DEF GovInv, Addressed
    <3>2. CASE /\ pending_dials'[a] \in Id /\ gov'[pending_dials'[a]].addr = a
               /\ gov'[pending_dials'[a]].state = "cold"
      <4>1. pending_dials'[a] \notin Peer
        BY <2>1, <2>3, <3>2, Nearest, Zenon DEF Id
      <4>2. pending_dials'[a] \in Placeholder
        BY <3>2, <4>1 DEF Id
      <4>3. IsKnown(gov'[pending_dials'[a]])
        BY <3>2 DEF IsKnown
      <4> QED
        BY <2>2, <3>2, <4>2, <4>3 DEF IsKnown, IsActive
    <3> QED
      BY <1>7, <3>1, <3>2, ZenonT(30)
  <2>4. /\ \A x \in exchange' : x.addr \in Near(x.peer)
        /\ \A k \in 1 .. Len(events') : events'[k].addr \in Near(events'[k].peer)
    BY DEF GovInv, Addressed
  <2> QED
    BY <2>1, <2>2, <2>3, <2>4 DEF Addressed
<1>9. Governed'
  <2>1. \A p \in Id : gov'[p].quiet => IsActive(gov'[p])
    BY <1>5, Zenon
  <2>2. ASSUME NEW a \in Peer, pending_dials'[a] # None
        PROVE  IsKnown(gov'[pending_dials'[a]]) \/ IsKnown(gov'[a])
    <3>1. CASE pending_dials'[a] = pending_dials[a]
      <4>1. pending_dials[a] \in Id
        BY <2>2, <3>1 DEF GovInv, TypeOK
      <4> QED
        BY <2>2, <3>1, <4>1, <1>5, <1>i DEF GovInv, Governed, IsKnown
    <3> QED
      BY <1>7, <3>1 DEF IsKnown
  <2>3. PoolIsGoverned'
    BY <1>5, <1>6, <1>i, Zenon DEF GovInv, Governed, PoolIsGoverned, InPool
  <2> QED
    BY <2>1, <2>2, <2>3 DEF Governed
<1> QED
  BY <1>8, <1>9 DEF GovInv
\* What add_peer and replace_node_id may do to the table: no peer becomes or
\* ceases to be active, and whoever was known is known, a bootnode perhaps by
\* its own identity.
Merged(g) ==
    /\ g \in [Id -> PeerInfo]
    /\ \A q \in Peer : /\ IsActive(g[q]) <=> IsActive(gov[q])
                       /\ IsKnown(gov[q]) => IsKnown(g[q])
                       /\ g[q].addr \in Near(q)
    /\ \A b \in Placeholder : /\ ~ IsActive(g[b])
                              /\ IsKnown(g[b]) => g[b].addr = BootAddr[b]
                              /\ IsKnown(gov[b]) => IsKnown(g[b]) \/ IsKnown(g[BootAddr[b]])
    /\ \A q \in Id : g[q].quiet => IsActive(g[q])

LEMMA MergedSame == GovInv => Merged(gov)
  BY ZenonT(30) DEF GovInv, TypeOK, Addressed, Governed, Merged

LEMMA MergedAdd ==
    ASSUME NEW g, Merged(g), NEW p \in Peer, NEW a \in Near(p)
    PROVE  Merged(AddPeer(g, p, a)) /\ IsKnown(AddPeer(g, p, a)[p])
<1> DEFINE h == AddPeer(g, p, a)
<1>1. p \in Id /\ p \notin Placeholder /\ a \in Addr /\ Peer \subseteq Id /\ Placeholder \subseteq Id
  BY IdParts, ZenonT(30) DEF Id, Near, Addr
<1>2. h \in [Id -> PeerInfo] /\ g \in [Id -> PeerInfo]
  BY <1>1, AddPeerType DEF Merged
<1>3. \A q \in Id : /\ h[q].state = IF q = p /\ g[p].state = "unknown" THEN "cold" ELSE g[q].state
                    /\ h[q].addr = IF q = p THEN a ELSE g[q].addr
                    /\ h[q].quiet => g[q].quiet
  BY <1>1, <1>2, AddPeerAt
<1> HIDE DEF h
<1>4. \A q \in Id : h[q].quiet => IsActive(h[q])
  BY <1>3, ZenonT(30) DEF Merged, IsActive
<1>5. \A q \in Peer : /\ IsActive(h[q]) <=> IsActive(gov[q])
                      /\ IsKnown(gov[q]) => IsKnown(h[q])
                      /\ h[q].addr \in Near(q)
  BY <1>1, <1>3, ZenonT(30) DEF Merged, IsActive, IsKnown
<1>6. \A b \in Placeholder : /\ ~ IsActive(h[b])
                             /\ IsKnown(h[b]) => h[b].addr = BootAddr[b]
                             /\ IsKnown(gov[b]) => IsKnown(h[b]) \/ IsKnown(h[BootAddr[b]])
  <2>1. \A b \in Placeholder : b # p /\ b \in Id /\ BootAddr[b] \in Id
    BY <1>1, LifecycleAssumption
  <2> QED
    BY <1>3, <2>1 DEF Merged, IsActive, IsKnown
<1>7. IsKnown(h[p])
  BY <1>1, <1>3 DEF IsKnown
<1> QED
  BY <1>2, <1>4, <1>5, <1>6, <1>7, ZenonT(30) DEF Merged, h

LEMMA MergedReplace ==
    ASSUME GovInv, NEW b \in Placeholder
    PROVE  /\ Merged(ReplaceNodeId(gov, b, BootAddr[b]))
           /\ IsKnown(gov[b]) \/ IsKnown(gov[BootAddr[b]]) =>
                 IsKnown(ReplaceNodeId(gov, b, BootAddr[b])[BootAddr[b]])
<1> DEFINE p == BootAddr[b]
           h == ReplaceNodeId(gov, b, p)
<1>1. /\ p \in Peer /\ p \in Id /\ b \in Id /\ b # p /\ p \notin Placeholder
      /\ Peer \subseteq Id /\ Placeholder \subseteq Id
  BY IdParts
<1>2. gov \in [Id -> PeerInfo] /\ h \in [Id -> PeerInfo] /\ ~ IsActive(gov[b])
  BY <1>1, ReplaceNodeIdType, ZenonT(30) DEF GovInv, TypeOK, Addressed
<1>3. gov[b].state # "unknown" => gov[b].addr = p
  BY DEF GovInv, Addressed, IsKnown
<1>4. ASSUME NEW q \in Id
      PROVE  /\ h[q].state = IF gov[b].state = "unknown" THEN gov[q].state
                             ELSE IF q = b THEN "unknown"
                             ELSE IF q = p /\ ~ IsActive(gov[p]) THEN "cold"
                             ELSE gov[q].state
             /\ h[q].addr \in {gov[q].addr, NoAddr, gov[b].addr}
             /\ gov[b].state = "unknown" \/ q \notin {b, p} => h[q].addr = gov[q].addr
             /\ h[q].quiet => gov[q].quiet \/ gov[b].quiet
  BY <1>1, <1>2, ReplaceNodeIdAt, ZenonT(30)
<1>5. ~ gov[b].quiet
  BY <1>1, <1>2 DEF GovInv, Governed
<1> HIDE DEF h, p
<1>6. ASSUME NEW q \in Id, h[q].quiet PROVE IsActive(h[q])
  <2>1. gov[q].quiet /\ IsActive(gov[q])
    BY <1>4, <1>5, <1>6 DEF GovInv, Governed
  <2>2. q # b
    BY <1>5, <2>1
  <2> QED
    BY <1>4, <2>1, <2>2 DEF IsActive
<1>7. ASSUME NEW q \in Peer
      PROVE  /\ IsActive(h[q]) <=> IsActive(gov[q])
             /\ IsKnown(gov[q]) => IsKnown(h[q])
             /\ h[q].addr \in Near(q)
  <2>1. q # b /\ q \in Id
    BY <1>1, IdParts, ZenonT(30)
  <2>2. h[q].addr \in Near(q)
    BY <1>3, <1>4, <2>1 DEF GovInv, Addressed, Near
  <2> QED
    BY <1>4, <2>1, <2>2 DEF IsActive, IsKnown
<1>8. ASSUME NEW c \in Placeholder
      PROVE  /\ ~ IsActive(h[c])
             /\ IsKnown(h[c]) => h[c].addr = BootAddr[c]
             /\ IsKnown(gov[c]) => IsKnown(h[c]) \/ IsKnown(h[BootAddr[c]])
  <2>1. c \in Id /\ c # p
    BY <1>1
  <2>2. ~ IsActive(gov[c]) /\ (IsKnown(gov[c]) => gov[c].addr = BootAddr[c])
    BY DEF GovInv, Addressed
  <2>3. gov[b].state # "unknown" => IsKnown(h[p])
    BY <1>1, <1>4 DEF IsKnown, IsActive
  <2> QED
    BY <1>4, <2>1, <2>2, <2>3, Zenon DEF IsActive, IsKnown, p
<1>9. IsKnown(gov[b]) \/ IsKnown(gov[p]) => IsKnown(h[p])
  BY <1>1, <1>4 DEF IsKnown, IsActive
<1> QED
  BY <1>2, <1>6, <1>7, <1>8, <1>9, ZenonT(30) DEF Merged, h, p
NearEvents == \A k \in 1 .. Len(events) : events[k].addr \in Near(events[k].peer)
NearExchanges == \A x \in exchange : x.addr \in Near(x.peer)

LEMMA HandledNear ==
    ASSUME events \in Seq(Event), NearEvents, events # <<>>, events' = Tail(events)
    PROVE  NearEvents' /\ Head(events).addr \in Near(Head(events).peer)
<1>1. Head(events) = events[1] /\ 1 \in 1 .. Len(events)
  OBVIOUS
<1>2. \A k \in 1 .. Len(events') : events'[k] = events[k + 1] /\ k + 1 \in 1 .. Len(events)
  OBVIOUS
<1> QED
  BY <1>1, <1>2 DEF NearEvents

LEMMA SentNear ==
    ASSUME events \in Seq(Event), Len(events) <= EventCap, NearEvents, NEW type, NEW p \in Peer,
           NEW addr \in Near(p), Send(type, p, addr)
    PROVE  NearEvents'
<1> DEFINE new == [type |-> type, peer |-> p, addr |-> addr]
           kept == IF Len(events) = EventCap THEN Tail(events) ELSE events
<1>1. new.addr \in Near(new.peer)
  OBVIOUS
<1>2. Len(kept) \in Nat /\ \A k \in 1 .. Len(kept) :
         \E j \in 1 .. Len(events) : kept[k] = events[j]
  <2>1. CASE Len(events) = EventCap
    <3>1. events # <<>>
      BY <2>1, LifecycleAssumption
    <3>2. \A k \in 1 .. Len(Tail(events)) : Tail(events)[k] = events[k + 1] /\ k + 1 \in 1 .. Len(events)
      BY <3>1
    <3> QED
      BY <2>1, <3>1, <3>2
  <2>2. CASE Len(events) # EventCap
    BY <2>2
  <2> QED
    BY <2>1, <2>2
<1>3. \E S : kept \in Seq(S) /\ new \in S
  <2>1. kept \in Seq(Event \cup {new})
    BY LifecycleAssumption
  <2> QED
    BY <2>1
<1>4. events' = Append(kept, new)
  BY DEF Send
<1> HIDE DEF new, kept
<1>5. \A k \in 1 .. Len(events') : (k \in 1 .. Len(kept) /\ events'[k] = kept[k]) \/ events'[k] = new
  BY <1>2, <1>3, <1>4
<1> QED
  BY <1>1, <1>2, <1>5 DEF NearEvents

\* A step that merges entries or only changes flags.
LEMMA MergedStep ==
    ASSUME GovInv, TypeOK', Merged(gov'), NearEvents', NearExchanges',
           pending_dials' = pending_dials,
           \A p \in Peer : pool'[p].state = pool[p].state /\ pool'[p].addr \in Near(p)
    PROVE  GovInv'
<1>1. Addressed'
  BY ZenonT(30) DEF GovInv, Addressed, Merged, NearEvents, NearExchanges
<1>2. Governed'
  <2>1. ASSUME NEW a \in Peer, pending_dials[a] # None
        PROVE  IsKnown(gov'[pending_dials[a]]) \/ IsKnown(gov'[a])
    <3>1. IsKnown(gov[pending_dials[a]]) \/ IsKnown(gov[a])
      BY <2>1 DEF GovInv, Governed
    <3>2. CASE IsKnown(gov[a])
      BY <3>2, ZenonT(30) DEF Merged
    <3>3. CASE IsKnown(gov[pending_dials[a]]) /\ pending_dials[a] = a
      BY <3>3, ZenonT(30) DEF Merged
    <3>4. CASE IsKnown(gov[pending_dials[a]]) /\ pending_dials[a] # a
      <4>1. pending_dials[a] \in Placeholder /\ BootAddr[pending_dials[a]] = a
        BY <2>1, <3>4, ZenonT(30) DEF GovInv, Addressed
      <4> QED
        BY <3>4, <4>1, ZenonT(30) DEF Merged
    <3> QED
      BY <3>1, <3>2, <3>3, <3>4
  <2>2. PoolIsGoverned'
    BY ZenonT(30) DEF GovInv, Governed, Merged, PoolIsGoverned, InPool
  <2> QED
    BY <2>1, <2>2 DEF Governed, Merged
<1> QED
  BY <1>1, <1>2 DEF GovInv

LEMMA SameFields ==
    ASSUME GovInv, gov' \in [Id -> PeerInfo],
           \A q \in Id : /\ gov'[q].state = gov[q].state /\ gov'[q].addr = gov[q].addr
                         /\ gov'[q].quiet => gov[q].quiet \/ IsActive(gov[q])
    PROVE  Merged(gov')
<1>1. Peer \subseteq Id /\ Placeholder \subseteq Id /\ \A b \in Placeholder : BootAddr[b] \in Id
  BY IdParts, Zenon
<1> QED
  BY <1>1, ZenonT(30) DEF GovInv, Addressed, Governed, Merged, IsActive, IsKnown
\* The peer that a connection brings is known before mark_connected: it was
\* known, it is added, or it takes over the bootnode it was dialled for.
LEMMA ConnectedGoverned ==
    ASSUME GovInv, TypeOK', PeerConnected
    PROVE  GovInv'
<1> DEFINE e == Head(events)
           p == e.peer
           dialled == IF e.addr \in Peer THEN pending_dials[e.addr] ELSE None
           met == IF dialled # None
                  THEN IF dialled # p THEN ReplaceNodeId(gov, dialled, p) ELSE gov
                  ELSE IF IsKnown(gov[p]) THEN gov ELSE AddPeer(gov, p, e.addr)
<1>t. events \in Seq(Event) /\ Len(events) <= EventCap /\ gov' \in [Id -> PeerInfo]
      /\ pool \in [Peer -> Handle] /\ pending_dials \in [Peer -> Id \cup {None}]
      /\ events # <<>> /\ events' = Tail(events) /\ exchange \subseteq Exchange
  BY Zenon DEF GovInv, TypeOK, PeerConnected
<1>1. e \in Event /\ p \in Peer /\ p \in Id
  BY <1>t, HeadType DEF Event, Id
<1>2. NearEvents' /\ e.addr \in Near(p)
  BY <1>t, HandledNear, ZenonT(30) DEF GovInv, Addressed, NearEvents
<1>3. e.addr \in Peer => e.addr = p
  BY <1>2, Nearest, Zenon DEF Id
<1>4. Merged(met) /\ IsKnown(met[p])
  <2>1. CASE dialled = None
    BY <1>1, <1>2, <2>1, MergedSame, MergedAdd, ZenonT(30)
  <2>2. CASE dialled # None
    <3>1. e.addr = p /\ dialled = pending_dials[p]
      BY <1>3, <2>2
    <3>2. IsKnown(gov[dialled]) \/ IsKnown(gov[p])
      BY <1>1, <2>2, <3>1, ZenonT(30) DEF GovInv, Governed
    <3>3. CASE dialled = p
      BY <2>2, <3>2, <3>3, MergedSame, ZenonT(30)
    <3>4. CASE dialled # p
      <4>1. dialled \in Placeholder /\ BootAddr[dialled] = p
        BY <1>1, <2>2, <3>1, <3>4, ZenonT(30) DEF GovInv, Addressed
      <4>2. met = ReplaceNodeId(gov, dialled, BootAddr[dialled])
        BY <2>2, <3>4, <4>1, Zenon
      <4> HIDE DEF met, dialled
      <4> QED
        BY <3>2, <4>1, <4>2, MergedReplace, ZenonT(30)
    <3> QED
      BY <3>3, <3>4, ZenonT(30)
  <2> QED
    BY <2>1, <2>2, Zenon
<1>5. /\ gov' = MarkConnected(met, p)
      /\ pool' = [pool EXCEPT ![p] = [state |-> "warm", addr |-> e.addr,
                                      is_relay |-> gov'[p].is_relay]]
      /\ pending_dials' = [a \in Peer |-> IF a = e.addr THEN None ELSE pending_dials[a]]
  BY ZenonT(30) DEF PeerConnected
<1> HIDE DEF met, dialled
<1>6. ASSUME NEW q \in Id
      PROVE  /\ gov'[q].state = IF q = p /\ met[p].state = "cold" THEN "warm" ELSE met[q].state
             /\ gov'[q].addr = met[q].addr
             /\ gov'[q].quiet = met[q].quiet
  BY <1>1, <1>4, <1>5, MarkConnectedAt, ZenonT(30) DEF Merged
<1>7. IsActive(gov'[p])
  <2>1. met[p].state \in {"cold", "warm", "hot"}
    BY <1>1, <1>4, ZenonT(30) DEF Merged, PeerInfo, IsKnown
  <2> QED
    BY <1>1, <1>6, <2>1 DEF IsActive
<1>i. Peer \subseteq Id /\ Placeholder \subseteq Id /\ p \notin Placeholder
      /\ \A b \in Placeholder : BootAddr[b] \in Peer
  BY <1>1, IdParts
<1>8. \A q \in Id : IsKnown(gov'[q]) <=> IsKnown(met[q])
  BY <1>6 DEF IsKnown
<1>9. NearExchanges'
  <2>1. \A x \in exchange' : x \in exchange \/ x = [peer |-> p, step |-> "asked", addr |-> NoAddr]
    BY Zenon DEF PeerConnected
  <2>2. \A x \in exchange : x.addr \in Near(x.peer)
    BY Zenon DEF GovInv, Addressed
  <2> HIDE DEF e, p
  <2>3. \A x \in exchange' : x \in exchange \/ (x.peer = p /\ x.addr = NoAddr)
    BY <2>1
  <2>4. NoAddr \in Near(p)
    BY DEF Near
  <2> QED
    BY <2>2, <2>3, <2>4, Zenon DEF NearExchanges
<1>10. Addressed'
  <2>1. \A q \in Peer : gov'[q].addr \in Near(q) /\ pool'[q].addr \in Near(q)
    <3>1. \A q \in Peer : gov'[q].addr \in Near(q)
      BY <1>4, <1>6, <1>i, Zenon DEF Merged
    <3>2. \A q \in Peer : pool'[q].addr = IF q = p THEN e.addr ELSE pool[q].addr
      BY <1>1, <1>t, <1>5, ZenonT(30)
    <3> QED
      BY <1>2, <3>1, <3>2, ZenonT(30) DEF GovInv, Addressed
  <2>2. \A b \in Placeholder : /\ ~ IsActive(gov'[b])
                               /\ IsKnown(gov'[b]) => gov'[b].addr = BootAddr[b]
    BY <1>4, <1>6, <1>i, ZenonT(30) DEF Merged, IsActive, IsKnown
  <2>3. ASSUME NEW a \in Peer, pending_dials'[a] # a
        PROVE  \/ pending_dials'[a] = None
               \/ pending_dials'[a] \in Placeholder /\ BootAddr[pending_dials'[a]] = a
    BY <1>5, <2>3, Zenon DEF GovInv, Addressed
  <2> QED
    BY <1>2, <1>9, <2>1, <2>2, <2>3, Zenon DEF Addressed, NearEvents, NearExchanges
<1>11. Governed'
  <2>1. \A q \in Id : gov'[q].quiet => IsActive(gov'[q])
    BY <1>4, <1>6, Zenon DEF Merged, IsActive
  <2>2. PoolIsGoverned'
    <3>1. \A q \in Peer \ {p} : IsActive(gov'[q]) <=> IsActive(gov[q])
      BY <1>4, <1>6, <1>i, ZenonT(30) DEF Merged, IsActive
    <3>2. \A q \in Peer \ {p} : pool'[q] = pool[q]
      BY <1>1, <1>t, <1>5, ZenonT(30)
    <3>3. pool'[p].state = "warm"
      BY <1>1, <1>t, <1>5, ZenonT(30)
    <3> QED
      BY <1>7, <3>1, <3>2, <3>3, ZenonT(30) DEF GovInv, Governed, PoolIsGoverned, InPool
  <2>3. ASSUME NEW a \in Peer, pending_dials'[a] # None
        PROVE  IsKnown(gov'[pending_dials'[a]]) \/ IsKnown(gov'[a])
    <3>1. pending_dials'[a] = pending_dials[a] /\ pending_dials[a] \in Id
      BY <1>5, <1>t, <2>3, ZenonT(30)
    <3>2. IsKnown(gov[pending_dials[a]]) \/ IsKnown(gov[a])
      BY <2>3, <3>1 DEF GovInv, Governed
    <3>3. pending_dials[a] = a \/ (pending_dials[a] \in Placeholder /\ BootAddr[pending_dials[a]] = a)
      BY <2>3, <3>1, ZenonT(30) DEF GovInv, Addressed
    <3>4. IsKnown(met[pending_dials[a]]) \/ IsKnown(met[a])
      BY <1>4, <3>2, <3>3, ZenonT(30) DEF Merged
    <3> QED
      BY <1>8, <1>i, <3>1, <3>4, ZenonT(30)
  <2> QED
    BY <2>1, <2>2, <2>3, ZenonT(30) DEF Governed
<1> QED
  BY <1>10, <1>11 DEF GovInv

LEMMA DisconnectedGoverned ==
    ASSUME GovInv, TypeOK', PeerDisconnected
    PROVE  GovInv'
<1> DEFINE p == Head(events).peer
<1>t. events \in Seq(Event) /\ Len(events) <= EventCap /\ gov \in [Id -> PeerInfo]
      /\ pool \in [Peer -> Handle] /\ events # <<>> /\ events' = Tail(events)
      /\ pending_dials \in [Peer -> Id \cup {None}]
  BY DEF GovInv, TypeOK, PeerDisconnected
<1>1. p \in Peer /\ p \in Id /\ Peer \subseteq Id /\ Placeholder \subseteq Id /\ p \notin Placeholder
  BY <1>t, HeadType, IdParts, ZenonT(30) DEF Event
<1>2. NearEvents'
  BY <1>t, HandledNear, ZenonT(30) DEF GovInv, Addressed, NearEvents
<1>3. ASSUME NEW q \in Id
      PROVE  /\ gov'[q].state = IF q = p /\ IsActive(gov[p]) THEN "cold" ELSE gov[q].state
             /\ gov'[q].addr = gov[q].addr
             /\ gov'[q].quiet => gov[q].quiet /\ ~ (q = p /\ IsActive(gov[p]))
  BY <1>1, <1>t, MarkDisconnectedAt, ZenonT(30) DEF PeerDisconnected
<1>4. pool' = [pool EXCEPT ![p] = Absent] /\ UNCHANGED <<pending_dials, exchange>>
  BY DEF PeerDisconnected, taskVars
<1>5. \A q \in Peer : /\ pool'[q].state = IF q = p THEN "none" ELSE pool[q].state
                      /\ pool'[q].addr = IF q = p THEN NoAddr ELSE pool[q].addr
  BY <1>1, <1>4, <1>t, ZenonT(30) DEF Absent
<1>6. \A q \in Id : IsKnown(gov'[q]) <=> IsKnown(gov[q])
  BY <1>3 DEF IsKnown, IsActive
<1> HIDE DEF p
<1>7. Addressed'
  <2>1. \A q \in Peer : gov'[q].addr \in Near(q) /\ pool'[q].addr \in Near(q)
    BY <1>1, <1>3, <1>5, ZenonT(30) DEF GovInv, Addressed, Near
  <2>2. \A b \in Placeholder : /\ ~ IsActive(gov'[b])
                               /\ IsKnown(gov'[b]) => gov'[b].addr = BootAddr[b]
    BY <1>1, <1>3, <1>6, ZenonT(30) DEF GovInv, Addressed, IsActive
  <2> QED
    BY <1>2, <1>4, <2>1, <2>2, ZenonT(30) DEF GovInv, Addressed, NearEvents
<1>8. Governed'
  <2>1. \A q \in Id : gov'[q].quiet => IsActive(gov'[q])
    BY <1>3 DEF GovInv, Governed, IsActive
  <2>2. PoolIsGoverned'
    BY <1>1, <1>3, <1>5 DEF GovInv, Governed, PoolIsGoverned, InPool, IsActive
  <2>3. \A a \in Peer : pending_dials'[a] # None =>
           IsKnown(gov'[pending_dials'[a]]) \/ IsKnown(gov'[a])
    BY <1>1, <1>4, <1>6, <1>t DEF GovInv, Governed
  <2> QED
    BY <2>1, <2>2, <2>3, ZenonT(30) DEF Governed
<1> QED
  BY <1>7, <1>8 DEF GovInv

LEMMA NextGovInv == Roomy /\ GovInv /\ [Next]_vars => GovInv'
<1> SUFFICES ASSUME Roomy, GovInv, [Next]_vars PROVE GovInv'
  OBVIOUS
<1> USE DEF govVars, taskVars, swarmVars
<1>t. TypeOK'
  BY NextTypeOK DEF GovInv
<1>u. /\ gov \in [Id -> PeerInfo] /\ gov' \in [Id -> PeerInfo] /\ pool \in [Peer -> Handle]
      /\ events \in Seq(Event) /\ Len(events) <= EventCap /\ exchange \subseteq Exchange
  BY <1>t DEF GovInv, TypeOK
<1>i. Peer \subseteq Id
  BY DEF Id
<1>n. NearEvents /\ NearExchanges /\ \A p \in Peer : pool[p].addr \in Near(p)
  BY DEF GovInv, Addressed, NearEvents, NearExchanges
<1>m. Merged(gov)
  BY MergedSame
\* What leaves governor and pool alone.
<1>s. ASSUME UNCHANGED <<gov, pool, pending_dials>>, NearEvents', NearExchanges' PROVE GovInv'
  BY <1>t, <1>m, <1>n, <1>s, MergedStep
<1>1. ASSUME NEW churn \in BOOLEAN, NEW redial \in BOOLEAN, NEW discover \in BOOLEAN,
             Tick(churn, redial, discover)
      PROVE  GovInv'
  <2>1. PICK up, down, out, evicted, connect \in SUBSET Id :
                TickDoes(up, down, out, evicted, connect)
    BY <1>1, TickStep
  <2>2. UNCHANGED <<exchange, events>>
    BY <1>1, Zenon DEF Tick
  <2> QED
    BY <1>t, <2>1, <2>2, TickGoverned
<1>2. CASE PeerConnected
  BY <1>t, <1>2, ConnectedGoverned
<1>3. CASE PeerDisconnected
  BY <1>t, <1>3, DisconnectedGoverned
<1>4. CASE DialFailureEvent
  <2>1. NearEvents' /\ Head(events) \in Event
    BY <1>4, <1>u, <1>n, HandledNear, HeadType DEF DialFailureEvent
  <2>2. \A q \in Id : /\ gov'[q].state = gov[q].state /\ gov'[q].addr = gov[q].addr
                      /\ gov'[q].quiet => gov[q].quiet
    BY <1>4, <1>u DEF DialFailureEvent, MarkDialFailed, PeerInfo
  <2>3. Merged(gov')
    BY <1>u, <2>2, SameFields
  <2> QED
    BY <1>4, <1>t, <1>n, <2>1, <2>3, MergedStep, ZenonT(30) DEF DialFailureEvent, NearExchanges
<1>5. CASE DiscoverPeers
  <2>1. PICK reported \in SUBSET (Relays \X {FALSE, TRUE}) :
          gov' = [p \in Id |->
                    IF IsActive(gov[p]) \/ \A stray \in BOOLEAN : <<p, stray>> \notin reported
                    THEN gov[p]
                    ELSE LET addr == IF <<p, TRUE>> \in reported THEN Stray ELSE p
                         IN [AddPeer(gov, p, addr)[p] EXCEPT !.is_relay = TRUE]]
    BY <1>5, Zenon DEF DiscoverPeers
  <2>2. ASSUME NEW q \in Id
        PROVE  \/ gov'[q] = gov[q]
               \/ /\ q \in Peer /\ ~ IsActive(gov[q]) /\ ~ IsActive(gov'[q]) /\ IsKnown(gov'[q])
                  /\ gov'[q].addr \in Near(q) /\ ~ gov'[q].quiet
    <3>1. CASE IsActive(gov[q]) \/ \A stray \in BOOLEAN : <<q, stray>> \notin reported
      BY <2>1, <3>1
    <3>2. CASE ~ (IsActive(gov[q]) \/ \A stray \in BOOLEAN : <<q, stray>> \notin reported)
      <4> DEFINE addr == IF <<q, TRUE>> \in reported THEN Stray ELSE q
                 g == AddPeer(gov, q, addr)
      <4>1. q \in Peer /\ ~ IsActive(gov[q])
        BY <3>2, LifecycleAssumption, Zenon
      <4>2. addr \in Addr /\ addr \in Near(q)
        BY <4>1 DEF Addr, Near
      <4>3. gov'[q] = [g[q] EXCEPT !.is_relay = TRUE]
        BY <2>1, <3>2, ZenonT(30)
      <4> HIDE DEF addr
      <4>4. g[q].state = (IF gov[q].state = "unknown" THEN "cold" ELSE gov[q].state)
            /\ g[q].addr = addr /\ (g[q].quiet => gov[q].quiet)
        BY <1>u, <4>2, AddPeerAt
      <4>5. g[q] \in PeerInfo
        BY <1>u, <4>2, AddPeerType
      <4> HIDE DEF g
      <4>6. /\ gov'[q].state = g[q].state /\ gov'[q].addr = g[q].addr
            /\ gov'[q].quiet => g[q].quiet
        BY <4>3, <4>5 DEF PeerInfo
      <4>7. ~ gov[q].quiet
        BY <4>1 DEF GovInv, Governed
      <4> QED
        BY <4>1, <4>2, <4>4, <4>6, <4>7 DEF IsActive, IsKnown
    <3> QED
      BY <3>1, <3>2
  <2>3. Merged(gov')
    <3>1. \A q \in Placeholder : gov'[q] = gov[q]
      BY <2>2, IdParts
    <3>2. \A q \in Peer : IsKnown(gov[q]) => IsKnown(gov'[q])
      BY <2>2, <1>i
    <3> QED
      BY <1>u, <1>m, <1>i, <2>2, <3>1, <3>2, IdParts, ZenonT(30) DEF Merged
  <2> QED
    BY <1>5, <1>t, <1>n, <2>3, MergedStep DEF DiscoverPeers, NearExchanges, NearEvents
<1>6. ASSUME NEW p \in Peer, IdentifyReceived(p) PROVE GovInv'
  <2> DEFINE same == {q \in In(gov, "cold") \ {p} : gov[q].addr = p}
  <2>1. PICK met \in IF same = {} THEN {gov} ELSE {ReplaceNodeId(gov, q, p) : q \in same} :
          IF InPool(p) /\ pool[p].addr # p
          THEN gov' = AddPeer(met, p, p) /\ pool' = [pool EXCEPT ![p].addr = p]
          ELSE gov' = met /\ UNCHANGED pool
    BY <1>6 DEF IdentifyReceived
  <2>2. \A q \in same : q \in Placeholder /\ BootAddr[q] = p
    <3>1. ASSUME NEW q \in same PROVE q \in Placeholder /\ BootAddr[q] = p
      <4>1. q \in Id /\ gov[q].state = "cold" /\ gov[q].addr = p /\ q # p
        BY DEF In
      <4>2. q \notin Peer
        <5>1. q \in Peer => gov[q].addr \in Near(q)
          BY Zenon DEF GovInv, Addressed
        <5> QED
          BY <4>1, <5>1, Nearest, Zenon DEF Id
      <4> QED
        BY <4>1, <4>2 DEF GovInv, Addressed, Id, IsKnown
    <3> QED
      BY <3>1, ZenonT(30)
  <2>3. Merged(met)
    <3>1. met = gov \/ \E q \in same : met = ReplaceNodeId(gov, q, p)
      BY <2>1
    <3> QED
      BY <1>m, <2>2, <3>1, MergedReplace
  <2>4. Merged(gov')
    BY <2>1, <2>3, MergedAdd DEF Near
  <2>5. \A q \in Peer : pool'[q].state = pool[q].state /\ pool'[q].addr \in Near(q)
    <3>1. pool' = [pool EXCEPT ![p].addr = p] \/ pool' = pool
      BY <2>1
    <3> QED
      BY <1>u, <1>n, <3>1 DEF Near, Handle
  <2> QED
    BY <1>6, <1>t, <1>n, <2>4, <2>5, MergedStep DEF IdentifyReceived, NearExchanges, NearEvents
<1>7. ASSUME NEW p \in Peer,
             RecordActivity(p) \/ FallsSilent(p) \/ CooldownOver(p) \/ BackoffOver(p)
      PROVE  GovInv'
  <2>1. \A q \in Id : /\ gov'[q].state = gov[q].state /\ gov'[q].addr = gov[q].addr
                      /\ gov'[q].quiet => gov[q].quiet \/ IsActive(gov[q])
    <3>1. CASE FallsSilent(p)
      BY <1>u, <1>i, <3>1 DEF FallsSilent, PeerInfo
    <3>2. CASE RecordActivity(p)
      BY <1>u, <1>i, <3>2 DEF RecordActivity, PeerInfo
    <3>3. CASE CooldownOver(p)
      BY <1>u, <1>i, <3>3 DEF CooldownOver, PeerInfo
    <3>4. CASE BackoffOver(p)
      BY <1>u, <1>i, <3>4 DEF BackoffOver, PeerInfo
    <3> QED
      BY <1>7, <3>1, <3>2, <3>3, <3>4, Zenon
  <2>2. Merged(gov')
    BY <1>u, <2>1, SameFields
  <2>3. UNCHANGED <<pool, pending_dials, exchange, events>>
    BY <1>7 DEF RecordActivity, FallsSilent, CooldownOver, BackoffOver
  <2> QED
    BY <1>t, <1>n, <2>2, <2>3, MergedStep DEF NearExchanges, NearEvents
<1>8. ASSUME NEW p \in Peer,
             SwarmDisconnect(p) \/ SwarmDial(p) \/ DialFails(p) \/ SwarmRequest(p)
      PROVE  GovInv'
  <2>1. UNCHANGED <<gov, pool, pending_dials, exchange, events>>
    BY <1>8 DEF SwarmDisconnect, SwarmDial, DialFails, SwarmRequest
  <2> QED
    BY <1>s, <1>n, <2>1 DEF NearExchanges, NearEvents
<1>9. ASSUME NEW p \in Peer, RequestFails(p) PROVE GovInv'
  <2>1. NearEvents'
    BY <1>9, <1>u, <1>n, SentNear DEF RequestFails, Near
  <2>2. UNCHANGED <<gov, pool, pending_dials>> /\ exchange' \subseteq exchange
    BY <1>9 DEF RequestFails
  <2> QED
    BY <1>s, <1>n, <2>1, <2>2 DEF NearExchanges
<1>10. ASSUME NEW p \in Peer, NEW addr \in Near(p), ConnectionEstablished(p, addr) PROVE GovInv'
  <2>1. NearEvents'
    BY <1>10, <1>u, <1>n, SentNear, ZenonT(30) DEF ConnectionEstablished, NearEvents
  <2> QED
    BY <1>10, <1>s, <1>n, <2>1 DEF ConnectionEstablished, NearExchanges
<1>11. ASSUME NEW p \in Peer, DialSucceeds(p) \/ Accept(p) PROVE GovInv'
  BY <1>10, <1>11, ZenonT(30) DEF DialSucceeds, Accept, Near
<1>12. ASSUME NEW p \in Peer, CloseCompletes(p) \/ ConnectionLost(p) PROVE GovInv'
  <2>1. ConnectionClosed(p)
    BY <1>12 DEF CloseCompletes, ConnectionLost
  <2>2. NearEvents'
    BY <2>1, <1>u, <1>n, SentNear, ZenonT(30) DEF ConnectionClosed, NearEvents, Near
  <2> QED
    BY <2>1, <1>s, <1>n, <2>2 DEF ConnectionClosed, NearExchanges
<1>13. ASSUME NEW x \in exchange, ExchangeAnswered(x) \/ ExchangeFailed(x) \/ ExchangeRead(x)
       PROVE  GovInv'
  <2>1. x \in Exchange /\ x.peer \in Peer
    BY <1>u DEF Exchange
  <2>2. UNCHANGED <<gov, pool, pending_dials, events>>
    BY <1>13 DEF ExchangeAnswered, ExchangeFailed, ExchangeRead
  <2>3. \A y \in exchange' : \/ y \in exchange
                             \/ y = [x EXCEPT !.step = "answered"]
                             \/ y = [x EXCEPT !.step = "read", !.addr = pool[x.peer].addr]
    BY <1>13 DEF ExchangeAnswered, ExchangeFailed, ExchangeRead
  <2>4. NearExchanges'
    BY <1>n, <2>1, <2>3, Zenon DEF NearExchanges, Exchange
  <2> QED
    BY <1>s, <1>n, <2>2, <2>4, ZenonT(30) DEF NearEvents
<1>14. ASSUME NEW x \in exchange, ExchangeAdd(x) PROVE GovInv'
  <2>1. x.peer \in Peer /\ x.addr \in Near(x.peer)
    BY <1>u, <1>n DEF Exchange, NearExchanges
  <2>2. Merged(gov')
    BY <1>14, <1>m, <2>1, MergedAdd DEF ExchangeAdd
  <2> QED
    BY <1>14, <1>t, <1>n, <2>2, MergedStep DEF ExchangeAdd, NearExchanges, NearEvents
<1>15. CASE UNCHANGED vars
  BY <1>15, <1>s, <1>n DEF vars, NearExchanges, NearEvents
<1> QED
  BY <1>1, <1>2, <1>3, <1>4, <1>5, <1>6, <1>7, <1>8, <1>9, <1>11, <1>12, <1>13, <1>14, <1>15
     DEF Next

\* However ticks, events that are dropped, repeated or late, dials, group
\* exchanges and peer discoveries interleave: as long as cold_max leaves room
\* for every identity, the pool holds exactly the governor's active peers.
THEOREM PoolGoverned == Roomy => (Spec => []PoolIsGoverned)
<1> SUFFICES ASSUME Roomy PROVE Spec => []PoolIsGoverned
  OBVIOUS
<1>1. Init => GovInv
  BY InitGovInv
<1>2. GovInv /\ [Next]_vars => GovInv'
  BY NextGovInv
<1>3. GovInv => PoolIsGoverned
  BY DEF GovInv, Governed
<1> QED
  BY <1>1, <1>2, <1>3, PTL DEF Spec

\* So a peer that the governor holds for cold, and may dial or forget, is not
\* one that replication picks as a target; EvictDialled is about a cold table
\* that overflows.
THEOREM ColdStaysOut == Roomy => (Spec => []ColdNotInPool)
<1> SUFFICES ASSUME Roomy PROVE Spec => []ColdNotInPool
  OBVIOUS
<1>1. PoolIsGoverned => ColdNotInPool
  BY DEF PoolIsGoverned, ColdNotInPool, IsActive
<1> QED
  BY <1>1, PoolGoverned, PTL
=============================================================================
