-------------------------- MODULE RelayGroupsProofs --------------------------
(***************************************************************************)
(* Proofs about RelayGroups, for every set of nodes and groups, every      *)
(* configuration and every scenario: the variables keep their types, with  *)
(* nothing left in the pool of a peer that has gone; a dynamic relay       *)
(* carries only the groups of its own neighbours; the other nodes keep to  *)
(* their groups and lists, and relays to their deny-lists.                 *)
(***************************************************************************)
EXTENDS RelayGroups, TLAPS

LEMMA InitTypeOK == Init => TypeOK
  BY RelayConstants DEF Init, TypeOK, Accepted, Scenario, Active, bounds, itemVars

\* A scenario's links and bounds have their types.
LEMMA ScenarioType ==
    ASSUME TypeOK
    PROVE  scenario \in Scenario
  BY RelayConstants DEF TypeOK

LEMMA SendType ==
    ASSUME pushes \subseteq Push, NEW n \in Node, NEW g \in Group, NEW to \in SUBSET Node
    PROVE  Send(n, g, to) \subseteq Push
<1> SUFFICES ASSUME NEW p \in Send(n, g, to) PROVE p \in Push
  OBVIOUS
<1>1. CASE p \in pushes
  BY <1>1
<1>2. ASSUME NEW m \in to, p = [from |-> n, to |-> m, group |-> g] PROVE p \in Push
  BY <1>2 DEF Push
<1> QED
  BY <1>1, <1>2 DEF Send

LEMMA NextTypeOK == TypeOK /\ [Next]_vars => TypeOK'
<1> SUFFICES ASSUME TypeOK, [Next]_vars PROVE TypeOK'
  OBVIOUS
<1> USE DEF TypeOK, itemVars, bounds, Active
<1>s. scenario \in Scenario
  BY ScenarioType
<1>1. ASSUME NEW n \in Node, NEW m \in Node, PeerConnected(n, m) PROVE TypeOK'
  BY <1>1, Zenon DEF PeerConnected
<1>2. ASSUME NEW n \in Node, NEW m \in Node, PeerDisconnected(n, m) PROVE TypeOK'
  <2>1. faults' \in 0..scenario'.faults
    BY <1>2, <1>s DEF PeerDisconnected, Scenario
  <2>2. pool' \in [Node -> [Node -> SUBSET Group]]
    BY <1>2, Zenon DEF PeerDisconnected
  <2>3. \A k, l \in Node :
           pool'[k][l] = IF (k = n /\ l = m) \/ (k = m /\ l = n) THEN {} ELSE pool[k][l]
    BY <1>2, Zenon DEF PeerDisconnected
  <2>4. \A k, l \in Node : {k, l} \notin link' =>
           (k = n /\ l = m) \/ (k = m /\ l = n) \/ {k, l} \notin link
    BY <1>2, Zenon DEF PeerDisconnected
  <2>5. \A k, l \in Node : l \notin Active(k)' => pool'[k][l] = {}
    BY <2>3, <2>4, ZenonT(30)
  <2> QED
    BY <1>2, <2>1, <2>2, <2>5, Zenon DEF PeerDisconnected
<1>3. ASSUME NEW n \in Node, NEW m \in Node, GroupExchange(n, m) PROVE TypeOK'
  <2>1. faults' \in 0..scenario'.faults
    BY <1>3, <1>s DEF GroupExchange, TryRead, Scenario
  <2>2. exchanges' \subseteq Exchange
    <3>1. PICK accepted \in {learned[m], {}} :
             exchanges' = exchanges \cup
                {[from |-> n, to |-> m, is_relay |-> <<n, m>> \in Known,
                  phase |-> "answered", groups |-> shared[m] \cup accepted]}
      BY <1>3, Zenon DEF GroupExchange
    <3> DEFINE x == [from |-> n, to |-> m, is_relay |-> <<n, m>> \in Known,
                     phase |-> "answered", groups |-> shared[m] \cup accepted]
    <3>2. shared[m] \cup accepted \in SUBSET Group
      OBVIOUS
    <3>3. (<<n, m>> \in Known) \in BOOLEAN
      OBVIOUS
    <3>4. x \in Exchange
      BY <3>2, <3>3, Zenon DEF Exchange, Phase
    <3> HIDE DEF x
    <3> QED
      BY <3>1, <3>4, Zenon DEF x
  <2> QED
    BY <1>3, <2>1, <2>2, Zenon DEF GroupExchange
<1>4. ASSUME NEW x \in exchanges, UpdatePeerGroups(x) PROVE TypeOK'
  <2>1. x \in Exchange /\ x.from \in Node /\ x.to \in Node
    BY DEF Exchange
  <2>2. [x EXCEPT !.phase = "learn"] \in Exchange
    BY <2>1, Zenon DEF Exchange, Phase
  <2>3. exchanges' \subseteq Exchange
    BY <1>4, <2>2, Zenon DEF UpdatePeerGroups, Advance, Done
  <2>4. EffectiveGroups(x.from) \cap x.groups \in SUBSET Group
    BY <2>1 DEF EffectiveGroups, Exchange
  <2>5. /\ pool' \in [Node -> [Node -> SUBSET Group]]
        /\ \A k, l \in Node : l \notin Active(k)' => pool'[k][l] = {}
    BY <1>4, <2>1, <2>4, Zenon DEF UpdatePeerGroups
  <2> QED
    BY <1>4, <2>3, <2>5, Zenon DEF UpdatePeerGroups
<1>5. ASSUME NEW x \in exchanges, Learn(x) PROVE TypeOK'
  BY <1>5 DEF Learn, Done, Exchange
<1>6. ASSUME NEW n \in Node, NEW g \in Group, GroupsCreate(n, g) PROVE TypeOK'
  BY <1>6, <1>s DEF GroupsCreate, Scenario
<1>7. ASSUME NEW n \in Node, NEW g \in Group, GroupsDelete(n, g) PROVE TypeOK'
  <2>1. changes' \in 0..scenario'.changes
    BY <1>7, <1>s DEF GroupsDelete, Scenario
  <2>2. shared' \in [Node -> SUBSET Group]
    BY <1>7 DEF GroupsDelete
  <2> QED
    BY <1>7, <2>1, <2>2 DEF GroupsDelete
<1>8. ASSUME NEW n \in Node, NEW g \in Group, WriteItem(n, g) PROVE TypeOK'
  <2>1. PushTargets(n, g) \subseteq Node
    BY DEF PushTargets
  <2>2. pushes' \subseteq Push
    BY <1>8, <2>1, SendType DEF WriteItem
  <2> QED
    BY <1>8, <2>2 DEF WriteItem
<1>9. ASSUME NEW n \in Node, NEW g \in Group, BootstrapSync(n, g) PROVE TypeOK'
  <2>1. store' = store \/ store' = [store EXCEPT ![n] = @ \cup {g}]
    BY <1>9, Zenon DEF BootstrapSync, Pull
  <2>2. store' \in [Node -> SUBSET Group]
    BY <2>1
  <2>3. bootstrap' \in [Node -> SUBSET Group]
    BY <1>9 DEF BootstrapSync
  <2>4. UNCHANGED <<scenario, shared, joined, learned, link, pool, exchanges, pushes, bounds>>
    BY <1>9, Zenon DEF BootstrapSync
  <2> QED
    BY <2>2, <2>3, <2>4
<1>10. ASSUME NEW n \in Node, NEW g \in Group, NEW m \in Node, AntiEntropy(n, g, m)
       PROVE  TypeOK'
  BY <1>10 DEF AntiEntropy, Pull
<1>11. ASSUME NEW p \in pushes, ReceivePush(p) PROVE TypeOK'
  <2>1. faults' \in 0..scenario'.faults
    BY <1>11, <1>s DEF ReceivePush, TryRead, Scenario
  <2>2. p.from \in Node /\ p.to \in Node /\ p.group \in Group
    BY DEF Push
  <2>3. store' \in [Node -> SUBSET Group]
    BY <1>11, <2>2 DEF ReceivePush
  <2>4. Send(p.to, p.group, Active(p.to) \ {p.from}) \subseteq Push
    <3>1. Active(p.to) \ {p.from} \subseteq Node
      OBVIOUS
    <3> QED
      BY <2>2, <3>1, SendType, Zenon
  <2>5. pushes' \subseteq Push
    BY <1>11, <2>4, Zenon DEF ReceivePush
  <2> QED
    BY <1>11, <2>1, <2>3, <2>5, Zenon DEF ReceivePush
<1>12. ASSUME NEW p \in pushes, LosePush(p) PROVE TypeOK'
  BY <1>12 DEF LosePush
<1>13. ASSUME NEW n \in Node, Crash(n) PROVE TypeOK'
  <2>1. faults' \in 0..scenario'.faults
    BY <1>13, <1>s DEF Crash, Scenario
  <2>2. pool' \in [Node -> [Node -> SUBSET Group]]
    BY <1>13 DEF Crash
  <2>3. \A k, l \in Node : pool'[k][l] = IF n \in {k, l} THEN {} ELSE pool[k][l]
    BY <1>13 DEF Crash
  <2>4. \A k, l \in Node : {k, l} \notin link' => n \in {k, l} \/ {k, l} \notin link
    BY <1>13 DEF Crash
  <2>5. \A k, l \in Node : l \notin Active(k)' => pool'[k][l] = {}
    BY <2>3, <2>4, Zenon
  <2>6. learned' \in [Node -> SUBSET Group] /\ bootstrap' \in [Node -> SUBSET Group]
    BY <1>13, RelayConstants, Zenon DEF Crash, Accepted
  <2> QED
    BY <1>13, <2>1, <2>2, <2>5, <2>6 DEF Crash
<1>14. CASE UNCHANGED vars
  BY <1>14 DEF vars
<1> QED
  BY <1>1, <1>2, <1>3, <1>4, <1>5, <1>6, <1>7, <1>8, <1>9, <1>10, <1>11, <1>12,
     <1>13, <1>14, Zenon DEF Next

\* Every reachable state is well typed, and a peer that is not connected has
\* nothing in common with anyone: the answer of an exchange that comes after
\* PeerDisconnected does not bring its pool entry back.
THEOREM TypeCorrect == Spec => []TypeOK
  BY InitTypeOK, NextTypeOK, PTL DEF Spec
-----------------------------------------------------------------------------
(* Isolation.                                                              *)

\* Where the groups a relay learns come from.  An exchange runs along a link
\* of the scenario and remembers rightly whether the other end is a relay;
\* one that is about to teach was let by Learns; and the answer of a node that
\* is no relay names groups this node has been in, since it has learned none.
Origin(x) ==
    /\ {x.from, x.to} \in scenario.links
    /\ x.is_relay = (<<x.from, x.to>> \in Known)
    /\ x.phase = "learn" => Learns(x)
    /\ ~ IsRelay(x.to) => x.groups \subseteq joined[x.to]

\* The inductive invariant: Isolated says nothing of the answers under way,
\* from which a relay learns only later.
Sources ==
    /\ TypeOK
    /\ \A n \in Node : shared[n] \subseteq joined[n]
    /\ \A n \in Node : ~ IsRelay(n) => learned[n] = {}
    /\ \A x \in exchanges : Origin(x)
    /\ Isolated

LEMMA InitSources == RelaysKnown /\ Init => Sources
<1> SUFFICES ASSUME RelaysKnown, Init PROVE Sources
  OBVIOUS
<1>1. TypeOK
  BY InitTypeOK
<1>2. \A n \in Node : shared[n] = joined[n]
  BY DEF Init
<1>3. \A n \in Node : ~ IsRelay(n) => learned[n] = {}
  BY DEF Init, Accepted, IsRelay
<1>4. ASSUME NEW r \in Node, Dynamic(r) PROVE learned[r] \cup store[r] \subseteq joined[r]
  BY <1>4 DEF Init, Accepted, Dynamic, RelaysKnown
<1>5. exchanges = {}
  BY DEF Init
<1> QED
  BY <1>1, <1>2, <1>3, <1>4, <1>5 DEF Sources, Isolated

\* joined only grows, and with it what is near a relay.
LEMMA NearbyGrows ==
    ASSUME TypeOK, TypeOK', scenario' = scenario,
           \A n \in Node : joined[n] \subseteq joined'[n],
           NEW r \in Node
    PROVE  Nearby(r) \subseteq Nearby(r)'
<1> SUFFICES ASSUME NEW g \in Nearby(r) PROVE g \in Nearby(r)'
  OBVIOUS
<1>1. PICK m \in {k \in Node : {k, r} \in scenario.links /\ ~ IsRelay(k)} : g \in joined[m]
  BY DEF Nearby
<1>2. g \in joined'[m] /\ {m, r} \in scenario'.links /\ ~ IsRelay(m)
  BY <1>1
<1> QED
  BY <1>1, <1>2, Zenon DEF Nearby, IsRelay

\* A step that leaves exchanges, learned groups and shared groups alone and
\* stores only what a dynamic relay has learned, shares or holds already.
LEMMA StoreStep ==
    ASSUME Sources, TypeOK', UNCHANGED <<scenario, shared, joined, learned, exchanges>>,
           \A r \in Node : Dynamic(r) =>
               store'[r] \subseteq store[r] \cup learned[r] \cup shared[r]
    PROVE  Sources'
<1>1. \A r \in Node : Nearby(r)' = Nearby(r)
  BY DEF Nearby, IsRelay
<1>2. Isolated'
  BY <1>1 DEF Sources, Isolated
<1> QED
  BY <1>2 DEF Sources, Origin, Learns

\* The neighbour that taught a relay is no relay, so its groups are near.
LEMMA TaughtByNeighbour ==
    ASSUME RelaysKnown, Sources, NEW x \in exchanges, x.phase = "learn"
    PROVE  x.groups \subseteq Nearby(x.from)
<1>1. x.from \in Node /\ x.to \in Node /\ scenario \in Scenarios
  BY DEF Sources, TypeOK, Exchange
<1>2. {x.from, x.to} \in scenario.links /\ <<x.from, x.to>> \notin Known
  BY Zenon DEF Sources, Origin, Learns
<1>3. ~ IsRelay(x.to)
  BY <1>1, <1>2 DEF RelaysKnown
<1>4. x.groups \subseteq joined[x.to]
  BY <1>3, Zenon DEF Sources, Origin
<1>5. {x.to, x.from} \in scenario.links
  <2>1. {x.to, x.from} = {x.from, x.to}
    OBVIOUS
  <2> QED
    BY <1>2, <2>1
<1> QED
  BY <1>1, <1>3, <1>4, <1>5, Zenon DEF Nearby

LEMMA NextSources == RelaysKnown /\ Sources /\ [Next]_vars => Sources'
<1> SUFFICES ASSUME RelaysKnown, Sources, [Next]_vars PROVE Sources'
  OBVIOUS
<1>t. TypeOK /\ TypeOK'
  BY NextTypeOK DEF Sources
<1> USE DEF itemVars, bounds
<1>1. ASSUME NEW n \in Node, NEW m \in Node, PeerConnected(n, m) PROVE Sources'
  BY <1>1, <1>t, StoreStep DEF PeerConnected
<1>2. ASSUME NEW n \in Node, NEW m \in Node, PeerDisconnected(n, m) PROVE Sources'
  BY <1>2, <1>t, StoreStep DEF PeerDisconnected
<1>3. ASSUME NEW n \in Node, NEW m \in Node, GroupExchange(n, m) PROVE Sources'
  <2>1. PICK accepted \in {learned[m], {}} :
           exchanges' = exchanges \cup
              {[from |-> n, to |-> m, is_relay |-> <<n, m>> \in Known,
                phase |-> "answered", groups |-> shared[m] \cup accepted]}
    BY <1>3, Zenon DEF GroupExchange
  <2> DEFINE x == [from |-> n, to |-> m, is_relay |-> <<n, m>> \in Known,
                   phase |-> "answered", groups |-> shared[m] \cup accepted]
  <2>2. UNCHANGED <<scenario, shared, joined, learned, store>>
    BY <1>3 DEF GroupExchange
  <2>3. {n, m} \in scenario.links
    BY <1>3, <1>t DEF GroupExchange, Active, TypeOK
  <2>4. ~ IsRelay(m) => shared[m] \cup accepted \subseteq joined[m]
    BY DEF Sources
  <2>5. Origin(x)'
    BY <2>2, <2>3, <2>4 DEF Origin
  <2>6. \A y \in exchanges : Origin(y)'
    BY <2>2, Zenon DEF Sources, Origin, Learns
  <2>7. Isolated'
    <3>1. \A r \in Node : Nearby(r)' = Nearby(r)
      BY <2>2 DEF Nearby, IsRelay
    <3> QED
      BY <2>2, <3>1 DEF Sources, Isolated
  <2> HIDE DEF x
  <2> QED
    BY <1>t, <2>1, <2>2, <2>5, <2>6, <2>7, Zenon DEF Sources, x
<1>4. ASSUME NEW x \in exchanges, UpdatePeerGroups(x) PROVE Sources'
  <2>1. UNCHANGED <<scenario, shared, joined, learned, store>>
    BY <1>4 DEF UpdatePeerGroups
  <2>2. Origin(x) /\ x \in Exchange
    BY <1>t DEF Sources, TypeOK
  <2>3. Learns(x) => Origin([x EXCEPT !.phase = "learn"])
    BY <2>2 DEF Origin, Learns, Exchange
  <2>4. \A y \in exchanges' : Origin(y)
    BY <1>4, <2>3 DEF UpdatePeerGroups, Advance, Done, Sources
  <2>5. \A y \in exchanges' : Origin(y)'
    BY <2>1, <2>4, Zenon DEF Origin, Learns
  <2>6. Isolated'
    <3>1. \A r \in Node : Nearby(r)' = Nearby(r)
      BY <2>1 DEF Nearby, IsRelay
    <3> QED
      BY <2>1, <3>1 DEF Sources, Isolated
  <2> QED
    BY <1>t, <2>1, <2>5, <2>6 DEF Sources
<1>5. ASSUME NEW x \in exchanges, Learn(x) PROVE Sources'
  <2>1. UNCHANGED <<scenario, shared, joined, store>>
    BY <1>5 DEF Learn
  <2>2. x.from \in Node /\ Dynamic(x.from)
    BY <1>5, <1>t, Zenon DEF Learn, Sources, Origin, Learns, TypeOK, Exchange
  <2>3. x.groups \subseteq Nearby(x.from)
    BY <1>5, TaughtByNeighbour DEF Learn
  <2>4. \A r \in Node : Nearby(r)' = Nearby(r)
    BY <2>1 DEF Nearby, IsRelay
  <2>5. \A r \in Node : learned'[r] = IF r = x.from THEN learned[r] \cup x.groups
                                                   ELSE learned[r]
    BY <1>5, <1>t, Zenon DEF Learn, TypeOK
  <2>6. Isolated'
    <3> SUFFICES ASSUME NEW r \in Node, Dynamic(r)
                 PROVE  learned'[r] \cup store'[r] \subseteq Nearby(r)' \cup joined'[r]
      BY DEF Isolated, Dynamic
    <3>1. learned[r] \cup store[r] \subseteq Nearby(r) \cup joined[r]
      BY DEF Sources, Isolated
    <3>2. learned'[r] \subseteq learned[r] \cup Nearby(r)
      BY <2>3, <2>5, Zenon
    <3> QED
      BY <2>1, <2>4, <3>1, <3>2
  <2>7. \A n \in Node : ~ IsRelay(n) => learned'[n] = {}
    BY <2>2, <2>5, Zenon DEF Sources, IsRelay, Dynamic
  <2>8. \A y \in exchanges' : Origin(y)'
    BY <1>5, <2>1, Zenon DEF Learn, Done, Sources, Origin, Learns
  <2> QED
    BY <1>t, <2>1, <2>6, <2>7, <2>8 DEF Sources
<1>6. ASSUME NEW n \in Node, NEW g \in Group, GroupsCreate(n, g) PROVE Sources'
  <2>1. UNCHANGED <<scenario, learned, store, exchanges>>
    BY <1>6 DEF GroupsCreate
  <2>2. \A k \in Node : /\ joined[k] \subseteq joined'[k]
                        /\ shared'[k] \subseteq joined'[k]
    BY <1>6, <1>t DEF GroupsCreate, TypeOK, Sources
  <2>3. \A r \in Node : Nearby(r) \subseteq Nearby(r)'
    BY <1>t, <2>1, <2>2, NearbyGrows
  <2>4. Isolated'
    BY <2>1, <2>2, <2>3 DEF Sources, Isolated
  <2>5. \A x \in exchanges : x.to \in Node
    BY <1>t DEF TypeOK, Exchange
  <2>6. \A x \in exchanges : Origin(x)'
    BY <2>1, <2>2, <2>5, Zenon DEF Sources, Origin, Learns
  <2> QED
    BY <1>t, <2>1, <2>2, <2>4, <2>6 DEF Sources
<1>7. ASSUME NEW n \in Node, NEW g \in Group, GroupsDelete(n, g) PROVE Sources'
  <2>1. UNCHANGED <<scenario, joined, learned, store, exchanges>>
    BY <1>7 DEF GroupsDelete
  <2>2. \A k \in Node : shared'[k] \subseteq joined'[k]
    BY <1>7, <1>t DEF GroupsDelete, TypeOK, Sources
  <2>3. \A r \in Node : Nearby(r)' = Nearby(r)
    BY <2>1 DEF Nearby, IsRelay
  <2> QED
    BY <1>t, <2>1, <2>2, <2>3 DEF Sources, Isolated, Origin, Learns
<1>8. ASSUME NEW n \in Node, NEW g \in Group, WriteItem(n, g) PROVE Sources'
  BY <1>8, <1>t, StoreStep DEF WriteItem, TypeOK
<1>9. ASSUME NEW n \in Node, NEW g \in Group, BootstrapSync(n, g) PROVE Sources'
  BY <1>9, <1>t, StoreStep DEF BootstrapSync, Pull, TypeOK
<1>10. ASSUME NEW n \in Node, NEW g \in Group, NEW m \in Node, AntiEntropy(n, g, m)
       PROVE  Sources'
  BY <1>10, <1>t, StoreStep, ZenonT(30) DEF AntiEntropy, Pull, CurrentGroups, EffectiveGroups, TypeOK
<1>11. ASSUME NEW p \in pushes, ReceivePush(p) PROVE Sources'
  <2>1. p.to \in Node
    BY <1>t DEF TypeOK, Push
  <2>2. Dynamic(p.to) => store'[p.to] \subseteq store[p.to] \cup learned[p.to]
    BY <1>11, <1>t, <2>1 DEF ReceivePush, AcceptsPush, Dynamic, IsRelay, TypeOK
  <2>3. \A r \in Node : r # p.to => store'[r] = store[r]
    BY <1>11, <1>t, <2>1 DEF ReceivePush, TypeOK
  <2> QED
    BY <1>11, <1>t, <2>2, <2>3, StoreStep DEF ReceivePush
<1>12. ASSUME NEW p \in pushes, LosePush(p) PROVE Sources'
  BY <1>12, <1>t, StoreStep DEF LosePush
<1>13. ASSUME NEW n \in Node, Crash(n) PROVE Sources'
  <2>1. UNCHANGED <<scenario, shared, joined, store>> /\ exchanges' \subseteq exchanges
    BY <1>13 DEF Crash
  <2>2. \A r \in Node : learned'[r] = IF r = n THEN Accepted(r) ELSE learned[r]
    BY <1>13, <1>t DEF Crash, TypeOK
  <2>3. \A r \in Node : Nearby(r)' = Nearby(r)
    BY <2>1 DEF Nearby, IsRelay
  <2>4. Isolated'
    BY <2>1, <2>2, <2>3 DEF Sources, Isolated, Accepted, Dynamic
  <2>5. \A r \in Node : ~ IsRelay(r) => learned'[r] = {}
    BY <2>2 DEF Sources, IsRelay, Accepted
  <2>6. \A x \in exchanges' : Origin(x)'
    BY <2>1, Zenon DEF Sources, Origin, Learns
  <2> QED
    BY <1>t, <2>1, <2>4, <2>5, <2>6 DEF Sources
<1>14. CASE UNCHANGED vars
  BY <1>14, <1>t, StoreStep DEF vars
<1> QED
  BY <1>1, <1>2, <1>3, <1>4, <1>5, <1>6, <1>7, <1>8, <1>9, <1>10, <1>11, <1>12,
     <1>13, <1>14 DEF Next

\* Where every node knows which of its possible neighbours are relays, a
\* dynamic relay learns and stores only groups that its neighbours that are
\* no relays, or it itself, have been in: whatever the other relays carry and
\* however exchanges, pushes, pulls, restarts and API calls interleave.
THEOREM RelaysIsolated == RelaysKnown => (Spec => []Isolated)
<1> SUFFICES ASSUME RelaysKnown PROVE Spec => []Isolated
  OBVIOUS
<1>1. Init => Sources
  BY InitSources
<1>2. Sources /\ [Next]_vars => Sources'
  BY NextSources
<1>3. Sources => Isolated
  BY DEF Sources
<1> QED
  BY <1>1, <1>2, <1>3, PTL DEF Spec
-----------------------------------------------------------------------------
(* Confinement and the deny-list.                                          *)

\* What a step may add to a node's items: groups it shares, what a push was
\* let in for, and for a dynamic relay what it has learned.
MayStore(n, g) ==
    \/ g \in shared[n]
    \/ g \in learned[n] /\ IsRelay(n) /\ g \notin Config[n].blocked
    \/ Config[n].posture = "transparent" /\ g \notin Config[n].blocked

\* Every step adds to store only what MayStore allows, in all three ways an
\* item gets there: a client's write, a push and a pull.
LEMMA StoresAllowed ==
    ASSUME TypeOK, [Next]_vars, NEW n \in Node, NEW g \in store'[n] \ store[n]
    PROVE  MayStore(n, g)
<1> USE DEF itemVars, bounds
<1>t. store \in [Node -> SUBSET Group]
  BY DEF TypeOK
<1>1. ASSUME NEW k \in Node, NEW h \in Group, WriteItem(k, h) PROVE MayStore(n, g)
  <2>1. n = k /\ g = h
    BY <1>1, <1>t, Zenon DEF WriteItem
  <2> QED
    BY <1>1, <2>1 DEF WriteItem, MayStore
<1>2. ASSUME NEW k \in Node, NEW h \in Group, BootstrapSync(k, h) PROVE MayStore(n, g)
  <2>1. h \in shared[k] /\ store' = [store EXCEPT ![k] = @ \cup {h}]
    BY <1>2, Zenon DEF BootstrapSync, Pull
  <2>2. n = k /\ g = h
    BY <2>1, <1>t, Zenon
  <2> QED
    BY <2>1, <2>2 DEF MayStore
<1>3. ASSUME NEW k \in Node, NEW h \in Group, NEW m \in Node, AntiEntropy(k, h, m)
      PROVE  MayStore(n, g)
  <2>1. store' = [store EXCEPT ![k] = @ \cup {h}] /\ h \notin store[k] /\ h \in CurrentGroups(k)
    BY <1>3, Zenon DEF AntiEntropy, Pull
  <2>2. n = k /\ g = h
    BY <2>1, <1>t, Zenon
  <2>3. h \in EffectiveGroups(k) /\ h \notin Config[k].blocked
    BY <2>1, Zenon DEF CurrentGroups
  <2> QED
    BY <2>2, <2>3 DEF MayStore, EffectiveGroups, Dynamic, IsRelay
<1>4. ASSUME NEW p \in pushes, ReceivePush(p) PROVE MayStore(n, g)
  <2>1. p.to \in Node
    BY DEF TypeOK, Push
  <2>2. PICK accepted \in {learned[p.to], {}} :
           store' = IF p.group \notin store[p.to] /\ AcceptsPush(p.to, p.group, accepted)
                    THEN [store EXCEPT ![p.to] = @ \cup {p.group}] ELSE store
    BY <1>4, Zenon DEF ReceivePush
  <2>3. n = p.to /\ g = p.group /\ AcceptsPush(n, g, accepted)
    BY <1>t, <2>1, <2>2, Zenon
  <2>4. accepted \subseteq learned[n]
    BY <2>2, <2>3
  <2> QED
    BY <2>3, <2>4, Zenon DEF AcceptsPush, MayStore
<1>5. ASSUME UNCHANGED store PROVE FALSE
  BY <1>5
<1> QED
  BY <1>1, <1>2, <1>3, <1>4, <1>5, Zenon
  DEF Next, vars, PeerConnected, PeerDisconnected, GroupExchange, UpdatePeerGroups, Learn,
      GroupsCreate, GroupsDelete, LosePush, Crash

\* Only dynamic relays learn; the others keep what the configuration says.
Lists ==
    /\ TypeOK
    /\ \A x \in exchanges : x.phase = "learn" => Dynamic(x.from)
    /\ \A n \in Node : ~ Dynamic(n) => learned[n] = Accepted(n)

LEMMA InitLists == Init => Lists
<1> SUFFICES ASSUME Init PROVE Lists
  OBVIOUS
<1>1. TypeOK
  BY InitTypeOK
<1> QED
  BY <1>1 DEF Lists, Init

LEMMA NextLists ==
    ASSUME Lists, [Next]_vars
    PROVE  Lists'
<1> USE DEF itemVars, bounds
<1>t. TypeOK /\ TypeOK'
  BY NextTypeOK DEF Lists
<1>1. ASSUME UNCHANGED <<exchanges, learned>> PROVE Lists'
  BY <1>1, <1>t DEF Lists, Dynamic, Accepted
<1>2. ASSUME NEW n \in Node, NEW m \in Node, GroupExchange(n, m) PROVE Lists'
  <2>1. UNCHANGED learned
    BY <1>2 DEF GroupExchange
  <2>2. PICK accepted \in {learned[m], {}} :
           exchanges' = exchanges \cup
              {[from |-> n, to |-> m, is_relay |-> <<n, m>> \in Known,
                phase |-> "answered", groups |-> shared[m] \cup accepted]}
    BY <1>2, Zenon DEF GroupExchange
  <2>3. \A y \in exchanges' : y \in exchanges \/ y.phase = "answered"
    BY <2>2
  <2> QED
    BY <2>1, <2>3, <1>t DEF Lists, Dynamic, Accepted
<1>3. ASSUME NEW x \in exchanges, UpdatePeerGroups(x) PROVE Lists'
  <2>1. x \in Exchange /\ UNCHANGED learned
    BY <1>3, <1>t DEF TypeOK, UpdatePeerGroups
  <2>2. \A y \in exchanges' : y \in exchanges \/ (y.from = x.from /\ Dynamic(x.from))
    BY <1>3, <2>1 DEF UpdatePeerGroups, Advance, Done, Learns, Exchange
  <2> QED
    BY <2>1, <2>2, <1>t DEF Lists, Dynamic, Accepted
<1>4. ASSUME NEW x \in exchanges, Learn(x) PROVE Lists'
  <2>1. Dynamic(x.from) /\ exchanges' \subseteq exchanges
    BY <1>4 DEF Learn, Done, Lists
  <2>2. \A n \in Node : ~ Dynamic(n) => learned'[n] = learned[n]
    BY <1>4, <1>t, <2>1, Zenon DEF Learn, TypeOK
  <2> QED
    BY <2>1, <2>2, <1>t DEF Lists, Dynamic, Accepted
<1>5. ASSUME NEW n \in Node, Crash(n) PROVE Lists'
  <2>1. exchanges' \subseteq exchanges
    BY <1>5 DEF Crash
  <2>2. \A k \in Node : learned'[k] = learned[k] \/ learned'[k] = Accepted(k)
    BY <1>5, <1>t, Zenon DEF Crash, TypeOK
  <2> QED
    BY <2>1, <2>2, <1>t DEF Lists, Dynamic, Accepted
<1> QED
  BY <1>1, <1>2, <1>3, <1>4, <1>5, Zenon
  DEF Next, vars, PeerConnected, PeerDisconnected, GroupsCreate, GroupsDelete, WriteItem,
      BootstrapSync, AntiEntropy, ReceivePush, LosePush

\* A node has been in the groups it shares, and never has not been in a group.
LEMMA JoinedGrows ==
    ASSUME TypeOK, [Next]_vars, NEW n \in Node, shared[n] \subseteq joined[n]
    PROVE  joined[n] \subseteq joined'[n] /\ shared'[n] \subseteq joined'[n]
<1> USE DEF itemVars, bounds
<1>1. ASSUME UNCHANGED <<shared, joined>>
      PROVE  joined[n] \subseteq joined'[n] /\ shared'[n] \subseteq joined'[n]
  BY <1>1
<1>2. ASSUME NEW k \in Node, NEW g \in Group, GroupsCreate(k, g)
      PROVE  joined[n] \subseteq joined'[n] /\ shared'[n] \subseteq joined'[n]
  BY <1>2 DEF GroupsCreate, TypeOK
<1>3. ASSUME NEW k \in Node, NEW g \in Group, GroupsDelete(k, g)
      PROVE  joined[n] \subseteq joined'[n] /\ shared'[n] \subseteq joined'[n]
  <2>1. joined' = joined /\ shared'[n] \subseteq shared[n]
    BY <1>3 DEF GroupsDelete, TypeOK
  <2> QED
    BY <2>1
<1> QED
  BY <1>1, <1>2, <1>3, Zenon
  DEF Next, vars, PeerConnected, PeerDisconnected, GroupExchange, UpdatePeerGroups, Learn,
      WriteItem, BootstrapSync, AntiEntropy, ReceivePush, LosePush, Crash

\* Confined is inductive together with the lists and the history of membership.
ConfinedInv == Lists /\ (\A n \in Node : shared[n] \subseteq joined[n]) /\ Confined

LEMMA InitConfined == OwnItems /\ Init => ConfinedInv
<1> SUFFICES ASSUME OwnItems, Init PROVE ConfinedInv
  OBVIOUS
<1>1. Lists
  BY InitLists
<1>2. \A n \in Node : shared[n] = joined[n]
  BY DEF Init
<1>3. \A n \in Node : store[n] \subseteq joined[n]
  BY Zenon DEF Init, OwnItems
<1> QED
  BY <1>1, <1>2, <1>3 DEF ConfinedInv, Confined

LEMMA NextConfined == ConfinedInv /\ [Next]_vars => ConfinedInv'
<1> SUFFICES ASSUME ConfinedInv, [Next]_vars PROVE ConfinedInv'
  OBVIOUS
<1>1. Lists /\ Lists' /\ TypeOK
  BY NextLists DEF ConfinedInv, Lists
<1>2. \A n \in Node : joined[n] \subseteq joined'[n] /\ shared'[n] \subseteq joined'[n]
  BY <1>1, JoinedGrows DEF ConfinedInv
<1>3. ASSUME NEW n \in Node, NEW g \in store'[n] \ store[n] PROVE MayStore(n, g)
  BY <1>1, <1>3, StoresAllowed
<1>4. ASSUME NEW n \in Node, ~ IsRelay(n) PROVE store'[n] \subseteq joined'[n]
  <2> SUFFICES ASSUME NEW g \in store'[n] PROVE g \in joined'[n]
    OBVIOUS
  <2>1. CASE g \in store[n]
    BY <1>2, <1>4, <2>1 DEF ConfinedInv, Confined
  <2>2. CASE g \notin store[n]
    BY <1>2, <1>3, <1>4, <2>2 DEF ConfinedInv, MayStore, IsRelay
  <2> QED
    BY <2>1, <2>2
<1>5. ASSUME NEW n \in Node, Config[n].posture = "explicit"
      PROVE  store'[n] \subseteq joined'[n] \cup Config[n].allowed
  <2> SUFFICES ASSUME NEW g \in store'[n] PROVE g \in joined'[n] \cup Config[n].allowed
    OBVIOUS
  <2>1. learned[n] = Config[n].allowed
    BY <1>1, <1>5 DEF Lists, Accepted, Dynamic
  <2>2. CASE g \in store[n]
    BY <1>2, <1>5, <2>2 DEF ConfinedInv, Confined
  <2>3. CASE g \notin store[n]
    BY <1>2, <1>3, <1>5, <2>1, <2>3 DEF ConfinedInv, MayStore
  <2> QED
    BY <2>2, <2>3
<1>6. Confined'
  BY <1>4, <1>5 DEF Confined, IsRelay
<1> QED
  BY <1>1, <1>2, <1>6 DEF ConfinedInv

\* Where nodes start with items of their own groups only, a node that is no
\* relay never holds an item of a group it has not been in, and an explicit
\* relay none outside its list and its own groups: whatever is forwarded to
\* them, and in whatever order exchanges, pulls, restarts and API calls come.
THEOREM NodesConfined == OwnItems => (Spec => []Confined)
<1> SUFFICES ASSUME OwnItems PROVE Spec => []Confined
  OBVIOUS
<1>1. Init => ConfinedInv
  BY InitConfined
<1>2. ConfinedInv /\ [Next]_vars => ConfinedInv'
  BY NextConfined
<1>3. ConfinedInv => Confined
  BY DEF ConfinedInv
<1> QED
  BY <1>1, <1>2, <1>3, PTL DEF Spec

\* A relay has nothing to do with the groups it blocks.
DenyInv ==
    /\ TypeOK
    /\ \A r \in Node : IsRelay(r) => (shared[r] \cup store[r]) \cap Config[r].blocked = {}

\* Only clients named by the scenario put a group into shared_groups.
LEMMA SharedGrows ==
    ASSUME TypeOK, [Next]_vars, NEW n \in Node, NEW g \in shared'[n] \ shared[n]
    PROVE  <<n, g>> \in scenario.members
<1> USE DEF itemVars, bounds
<1>1. ASSUME UNCHANGED shared PROVE FALSE
  BY <1>1
<1>2. ASSUME NEW k \in Node, NEW h \in Group, GroupsCreate(k, h)
      PROVE  <<n, g>> \in scenario.members
  <2>1. n = k /\ g = h
    BY <1>2, Zenon DEF GroupsCreate, TypeOK
  <2> QED
    BY <1>2, <2>1 DEF GroupsCreate
<1>3. ASSUME NEW k \in Node, NEW h \in Group, GroupsDelete(k, h) PROVE FALSE
  BY <1>3, Zenon DEF GroupsDelete, TypeOK
<1> QED
  BY <1>1, <1>2, <1>3, Zenon
  DEF Next, vars, PeerConnected, PeerDisconnected, GroupExchange, UpdatePeerGroups, Learn,
      WriteItem, BootstrapSync, AntiEntropy, ReceivePush, LosePush, Crash

LEMMA InitDeny == BlockedUnused /\ Init => DenyInv
<1> SUFFICES ASSUME BlockedUnused, Init PROVE DenyInv
  OBVIOUS
<1>1. TypeOK
  BY InitTypeOK
<1>2. ASSUME NEW r \in Node, IsRelay(r), NEW g \in Config[r].blocked
      PROVE  g \notin shared[r] /\ g \notin store[r]
  BY <1>2, Zenon DEF Init, BlockedUnused
<1> QED
  BY <1>1, <1>2 DEF DenyInv

LEMMA NextDeny == BlockedUnused /\ DenyInv /\ [Next]_vars => DenyInv'
<1> SUFFICES ASSUME BlockedUnused, DenyInv, [Next]_vars PROVE DenyInv'
  OBVIOUS
<1>1. TypeOK /\ TypeOK' /\ scenario \in Scenarios
  BY NextTypeOK DEF DenyInv, TypeOK
<1>2. ASSUME NEW r \in Node, IsRelay(r), NEW g \in Config[r].blocked
      PROVE  g \notin shared'[r] /\ g \notin store'[r]
  <2>1. g \notin shared[r] /\ g \notin store[r] /\ <<r, g>> \notin scenario.members
    BY <1>1, <1>2 DEF DenyInv, BlockedUnused
  <2>2. g \notin shared'[r]
    BY <1>1, <2>1, SharedGrows
  <2>3. ~ MayStore(r, g)
    BY <1>2, <2>1 DEF MayStore
  <2> QED
    BY <1>1, <2>1, <2>2, <2>3, StoresAllowed
<1> QED
  BY <1>1, <1>2 DEF DenyInv, IsRelay

\* Where no client of a relay creates a group that the relay blocks, no relay,
\* whatever its posture, ever stores an item of a group on its deny-list, by
\* push or by pull; RelayDenyList is about a relay whose client does.
THEOREM DenyListKept == BlockedUnused => (Spec => []DenyListHolds)
<1> SUFFICES ASSUME BlockedUnused PROVE Spec => []DenyListHolds
  OBVIOUS
<1>1. Init => DenyInv
  BY InitDeny
<1>2. DenyInv /\ [Next]_vars => DenyInv'
  BY NextDeny
<1>3. DenyInv => DenyListHolds
  BY DEF DenyInv, DenyListHolds
<1> QED
  BY <1>1, <1>2, <1>3, PTL DEF Spec
=============================================================================
