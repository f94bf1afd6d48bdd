----------------------------- MODULE RelayGroups -----------------------------
(***************************************************************************)
(* Which groups a relay carries, and what that lets through.  Nodes that   *)
(* connect, and then from time to time, ask each other for their groups.   *)
(* From an answer a node computes the groups it has in common with the     *)
(* peer, which decide whom it pushes to and pulls from; a dynamic relay    *)
(* also learns, from peers that are not relays, the groups it will accept. *)
(* An exchange is a task of its own with several steps, so exchanges       *)
(* overlap with each other, with disconnections, restarts, API calls and   *)
(* with the traffic of items.  A group here has at most one item: what     *)
(* becomes of its versions is the subject of ItemReplication, and a pull   *)
(* is one step because its rounds are the subject of AntiEntropy.          *)
(***************************************************************************)
EXTENDS Naturals, FiniteSets

CONSTANTS
    Node, Group,
    Config,         \* [posture, allowed, blocked] of each node
    Known,          \* <<n, m>>: the governor of n knows that m is a relay
    Scenarios       \* the small instances to look at, see Scenario

Posture == {"none", "transparent", "dynamic", "explicit"}

\* Which nodes may connect, who is in which group and has stored its item
\* at the start, who may write it, and whose API may create and delete the
\* group; and bounds: on the exchanges a node has under way, on API calls,
\* and on faults, that is connections lost, nodes restarted and reads
\* that find a set locked.
Scenario ==
    [links : SUBSET SUBSET Node, shared : SUBSET (Node \X Group),
     stored : SUBSET (Node \X Group), writers : SUBSET (Node \X Group),
     members : SUBSET (Node \X Group),
     exchanges : Nat, changes : Nat, faults : Nat]

ASSUME RelayConstants ==
    /\ Config \in [Node -> [posture : Posture, allowed : SUBSET Group,
                            blocked : SUBSET Group]]
    /\ Known \subseteq Node \X Node
    /\ Scenarios \subseteq Scenario
    /\ \A s \in Scenarios : \A l \in s.links : Cardinality(l) = 2

VARIABLES
    scenario,       \* never changes
    shared,         \* shared[n]: shared_groups
    learned,        \* learned[n]: relay_accepted_groups
    link,           \* the connections that are up
    pool,           \* pool[n][m]: group_intersection of m in the pool of n
    exchanges,      \* the group exchanges under way
    store,          \* store[n]: the groups whose item n has stored
    pushes,         \* pushes in flight
    bootstrap,      \* bootstrap[n]: groups waiting for their first sync
    joined,         \* history: joined[n], the groups n has ever been in
    changes, faults

itemVars == <<store, pushes, bootstrap>>
bounds == <<changes, faults>>
vars == <<scenario, shared, joined, learned, link, pool, exchanges, itemVars, bounds>>

Phase == {"answered", "learn"}

Exchange == [from : Node, to : Node, is_relay : BOOLEAN, phase : Phase,
             groups : SUBSET Group]

Push == [from : Node, to : Node, group : Group]

IsRelay(n) == Config[n].posture # "none"
Dynamic(n) == Config[n].posture = "dynamic"

\* A dynamic relay starts with nothing, an explicit one with its list; for
\* the others there is no such set.
Accepted(n) == IF Config[n].posture = "explicit" THEN Config[n].allowed ELSE {}

Init ==
    /\ scenario \in Scenarios
    /\ shared = [n \in Node |-> {g \in Group : <<n, g>> \in scenario.shared}]
    /\ joined = shared
    /\ learned = [n \in Node |-> Accepted(n)]
    /\ link = {}
    /\ pool = [n \in Node |-> [m \in Node |-> {}]]
    /\ exchanges = {}
    /\ store = [n \in Node |-> {g \in Group : <<n, g>> \in scenario.stored}]
    /\ pushes = {}
    /\ bootstrap = [n \in Node |-> {}]
    /\ changes = 0
    /\ faults = 0

-----------------------------------------------------------------------------
(* Connections.  Both ends have each other in their pools while they are   *)
(* connected (that they do, in the end, is the subject of PeerLifecycle),  *)
(* with nothing in common before the first exchange.                       *)

Active(n) == {m \in Node : {n, m} \in link}

PeerConnected(n, m) ==
    /\ {n, m} \in scenario.links \ link
    /\ link' = link \cup {{n, m}}
    /\ UNCHANGED <<scenario, shared, joined, learned, pool, exchanges, itemVars,
                   bounds>>

PeerDisconnected(n, m) ==
    /\ {n, m} \in link
    /\ faults < scenario.faults
    /\ faults' = faults + 1
    /\ link' = link \ {{n, m}}
    /\ pool' = [pool EXCEPT ![n][m] = {}, ![m][n] = {}]
    /\ UNCHANGED <<scenario, shared, joined, learned, exchanges, itemVars, changes>>

-----------------------------------------------------------------------------
(* Group exchange.                                                         *)

\* Fault: a relay does not tell what it has learned.
TryReadNothing(n, accepted) == accepted = {} /\ UNCHANGED faults

\* try_read on relay_accepted_groups: while a task of n is adding to the set
\* it may find it locked, and then goes on as if it were empty.
TryRead(n, accepted) ==
    \/ accepted = learned[n] /\ UNCHANGED faults
    \/ /\ faults < scenario.faults
       /\ \E x \in exchanges : x.from = n /\ x.phase = "learn"
       /\ accepted = {}
       /\ faults' = faults + 1

Advance(x, y) == exchanges' = (exchanges \ {x}) \cup {y}
Done(x) == exchanges' = exchanges \ {x}

\* A task of n, started when m connected or by the governor's tick, has
\* asked m, and m answers; the groups the request carries are not looked at.
\* A request that fails changes nothing.
GroupExchange(n, m) ==
    /\ m \in Active(n)
    /\ Cardinality({x \in exchanges : x.from = n}) < scenario.exchanges
    /\ \E accepted \in {learned[m], {}} :
          /\ TryRead(m, accepted)
          /\ exchanges' = exchanges \cup
                {[from |-> n, to |-> m, is_relay |-> <<n, m>> \in Known,
                  phase |-> "answered", groups |-> shared[m] \cup accepted]}
    /\ UNCHANGED <<scenario, shared, joined, learned, link, pool, itemVars, changes>>

\* The groups in which n compares itself with a peer.
EffectiveGroups(n) == shared[n] \cup IF Dynamic(n) THEN learned[n] ELSE {}

\* Fault: relays teach a relay, too.
LearnsFromAll(x) == Dynamic(x.from)

\* Only a dynamic relay has a set to add to, and relays teach it nothing.
Learns(x) == Dynamic(x.from) /\ ~ x.is_relay

\* Fault: what was in common once stays so.
UpdatePeerGroupsGrows(x) ==
    /\ x.phase = "answered"
    /\ pool' = IF x.to \in Active(x.from)
               THEN [pool EXCEPT ![x.from][x.to] =
                        @ \cup (EffectiveGroups(x.from) \cap x.groups)]
               ELSE pool
    /\ IF Learns(x) THEN Advance(x, [x EXCEPT !.phase = "learn"]) ELSE Done(x)
    /\ UNCHANGED <<scenario, shared, joined, learned, link, itemVars, bounds>>

\* Fault: a late answer brings back the handle of a peer that has gone.
UpdatePeerGroupsInserts(x) ==
    /\ x.phase = "answered"
    /\ pool' = [pool EXCEPT ![x.from][x.to] = EffectiveGroups(x.from) \cap x.groups]
    /\ IF Learns(x) THEN Advance(x, [x EXCEPT !.phase = "learn"]) ELSE Done(x)
    /\ UNCHANGED <<scenario, shared, joined, learned, link, itemVars, bounds>>

\* What the two have in common by now, for a peer that is still there; what
\* this answer teaches comes only after.
UpdatePeerGroups(x) ==
    /\ x.phase = "answered"
    /\ pool' = IF x.to \in Active(x.from)
               THEN [pool EXCEPT ![x.from][x.to] = EffectiveGroups(x.from) \cap x.groups]
               ELSE pool
    /\ IF Learns(x) THEN Advance(x, [x EXCEPT !.phase = "learn"]) ELSE Done(x)
    /\ UNCHANGED <<scenario, shared, joined, learned, link, itemVars, bounds>>

Learn(x) ==
    /\ x.phase = "learn"
    /\ learned' = [learned EXCEPT ![x.from] = @ \cup x.groups]
    /\ Done(x)
    /\ UNCHANGED <<scenario, shared, joined, link, pool, itemVars, bounds>>

-----------------------------------------------------------------------------
(* Groups created and deleted over HTTP.                                   *)

GroupsCreate(n, g) ==
    /\ <<n, g>> \in scenario.members
    /\ changes < scenario.changes
    /\ shared' = [shared EXCEPT ![n] = @ \cup {g}]
    /\ joined' = [joined EXCEPT ![n] = @ \cup {g}]
    /\ bootstrap' = [bootstrap EXCEPT ![n] = @ \cup {g}]
    /\ changes' = changes + 1
    /\ UNCHANGED <<scenario, learned, link, pool, exchanges, store, pushes, faults>>

GroupsDelete(n, g) ==
    /\ <<n, g>> \in scenario.members
    /\ changes < scenario.changes
    /\ g \in shared[n]
    /\ shared' = [shared EXCEPT ![n] = @ \ {g}]
    /\ changes' = changes + 1
    /\ UNCHANGED <<scenario, joined, learned, link, pool, exchanges, itemVars, faults>>

-----------------------------------------------------------------------------
(* Items.                                                                  *)

\* active_peers_for_group_or_relays
PushTargets(n, g) ==
    {m \in Active(n) : <<n, m>> \in Known \/ g \in pool[n][m]}

\* Fault: a node that is no relay takes what it is sent.
AcceptsPushUnasked(n, g, accepted) ==
    IsRelay(n) => /\ g \notin Config[n].blocked
                  /\ Config[n].posture = "transparent" \/ g \in accepted

\* What the posture of a relay, or the membership of another node, lets in
\* when it is pushed to.
AcceptsPush(n, g, accepted) ==
    IF IsRelay(n)
    THEN /\ g \notin Config[n].blocked
         /\ Config[n].posture = "transparent" \/ g \in accepted
    ELSE g \in shared[n]

Send(n, g, to) ==
    LET sent == {[from |-> n, to |-> m, group |-> g] : m \in to}
    IN pushes \cup sent

\* An item is written and flushed to those who are there; a culture that is
\* not eager, or a lost push, is LosePush.
WriteItem(n, g) ==
    /\ <<n, g>> \in scenario.writers
    /\ g \in shared[n] \ store[n]
    /\ store' = [store EXCEPT ![n] = @ \cup {g}]
    /\ pushes' = Send(n, g, PushTargets(n, g))
    /\ UNCHANGED <<scenario, shared, joined, learned, link, pool, exchanges, bootstrap, bounds>>

\* Only what is new is stored, and only what a relay stores goes on, to all
\* its peers but the sender.
ReceivePush(p) ==
    LET n == p.to IN
    /\ {p.from, n} \in link
    /\ \E accepted \in {learned[n], {}} :
          /\ TryRead(n, accepted)
          /\ LET new == p.group \notin store[n] /\ AcceptsPush(n, p.group, accepted)
             IN /\ store' = IF new THEN [store EXCEPT ![n] = @ \cup {p.group}]
                                   ELSE store
                /\ pushes' = (IF new /\ IsRelay(n)
                              THEN Send(n, p.group, Active(n) \ {p.from})
                              ELSE pushes) \ {p}
    /\ UNCHANGED <<scenario, shared, joined, learned, link, pool, exchanges, bootstrap,
                   changes>>

LosePush(p) ==
    /\ pushes' = pushes \ {p}
    /\ UNCHANGED <<scenario, shared, joined, learned, link, pool, exchanges, store, bootstrap,
                   bounds>>

\* random_hot_peer_for_group, and random_hot_peer_for_group_or_relays on a
\* relay.  Any peer may be the only hot one, so any may be picked.
SyncPeers(n, g) ==
    LET sharing == {m \in Active(n) : g \in pool[n][m]}
    IN IF IsRelay(n) /\ sharing = {} THEN {m \in Active(n) : <<n, m>> \in Known}
                                     ELSE sharing

\* The groups of a sync tick: a relay adds what it has learned, if it is a
\* dynamic one, and what it has stored.
CurrentGroups(n) ==
    (EffectiveGroups(n) \cup IF IsRelay(n) THEN store[n] ELSE {})
        \ Config[n].blocked

\* run_anti_entropy with peer m, when m has something to give.
Pull(n, g, m) ==
    /\ g \in store[m] \ store[n]
    /\ store' = [store EXCEPT ![n] = @ \cup {g}]

AntiEntropy(n, g, m) ==
    /\ g \in CurrentGroups(n)
    /\ m \in SyncPeers(n, g)
    /\ Pull(n, g, m)
    /\ UNCHANGED <<scenario, shared, joined, learned, link, pool, exchanges, pushes, bootstrap,
                   bounds>>

\* The first sync of a created group goes by shared_groups alone; without a
\* peer, or with one that has nothing, it is over.
BootstrapSync(n, g) ==
    /\ g \in bootstrap[n]
    /\ bootstrap' = [bootstrap EXCEPT ![n] = @ \ {g}]
    /\ \/ g \in shared[n] /\ \E m \in SyncPeers(n, g) : Pull(n, g, m)
       \/ /\ \/ g \notin shared[n]
             \/ SyncPeers(n, g) = {}
             \/ \E m \in SyncPeers(n, g) : g \notin store[m] \ store[n]
          /\ UNCHANGED store
    /\ UNCHANGED <<scenario, shared, joined, learned, link, pool, exchanges, pushes, bounds>>

-----------------------------------------------------------------------------
(* A node goes down and comes back.  Its groups and items are on disk, what *)
(* it learned and whom it knew are not.                                    *)

Crash(n) ==
    /\ faults < scenario.faults
    /\ learned' = [learned EXCEPT ![n] = Accepted(n)]
    /\ link' = {l \in link : n \notin l}
    /\ pool' = [k \in Node |-> [m \in Node |-> IF n \in {k, m} THEN {} ELSE pool[k][m]]]
    /\ exchanges' = {x \in exchanges : x.from # n}
    /\ pushes' = {p \in pushes : n \notin {p.from, p.to}}
    /\ bootstrap' = [bootstrap EXCEPT ![n] = {}]
    /\ faults' = faults + 1
    /\ UNCHANGED <<scenario, shared, joined, store, changes>>

Next ==
    \/ \E n, m \in Node :
          PeerConnected(n, m) \/ PeerDisconnected(n, m) \/ GroupExchange(n, m)
    \/ \E x \in exchanges : UpdatePeerGroups(x) \/ Learn(x)
    \/ \E n \in Node, g \in Group :
          \/ GroupsCreate(n, g) \/ GroupsDelete(n, g)
          \/ WriteItem(n, g) \/ BootstrapSync(n, g)
          \/ \E m \in Node : AntiEntropy(n, g, m)
    \/ \E p \in pushes : ReceivePush(p) \/ LosePush(p)
    \/ \E n \in Node : Crash(n)

Spec == Init /\ [][Next]_vars

\* The governor dials again, its ticks come for ever and the tasks it spawns
\* run; a request does not fail every time; the peer of a sync is drawn at
\* random, among the hot ones, and every peer is hot at times.
Fairness ==
    /\ WF_vars(\E n, m \in Node : PeerConnected(n, m))
    /\ WF_vars(\E n, m \in Node, g \in Group : AntiEntropy(n, g, m))
    /\ \A n, m \in Node : (\E s \in Scenarios : {n, m} \in s.links) =>
          LET Own == {x \in exchanges : x.from = n /\ x.to = m} IN
          /\ IF IsRelay(n) THEN SF_vars(GroupExchange(n, m))
                           ELSE WF_vars(GroupExchange(n, m))
          /\ WF_vars(\E x \in Own : UpdatePeerGroups(x))
          /\ WF_vars(\E x \in Own : Learn(x))

FairSpec == Spec /\ Fairness

-----------------------------------------------------------------------------
(* Properties.                                                             *)

\* The types of the variables; a peer that has gone leaves nothing behind in
\* the pool, not even when its answer is handled late (update_peer_groups).
TypeOK ==
    /\ scenario \in Scenarios
    /\ shared \in [Node -> SUBSET Group]
    /\ joined \in [Node -> SUBSET Group]
    /\ learned \in [Node -> SUBSET Group]
    /\ link \subseteq scenario.links
    /\ pool \in [Node -> [Node -> SUBSET Group]]
    /\ \A n, m \in Node : m \notin Active(n) => pool[n][m] = {}
    /\ exchanges \subseteq Exchange
    /\ store \in [Node -> SUBSET Group]
    /\ pushes \subseteq Push
    /\ bootstrap \in [Node -> SUBSET Group]
    /\ changes \in 0..scenario.changes
    /\ faults \in 0..scenario.faults

\* The groups that the nodes around r that are no relays have been in.
Nearby(r) ==
    UNION {joined[m] : m \in {k \in Node : {k, r} \in scenario.links /\ ~ IsRelay(k)}}

\* What Isolated takes for granted: a node knows of the relays it may be
\* connected with that they are relays (RelayInbound is about one that does
\* not), and a relay starts with no items but those of its own groups.
RelaysKnown ==
    \A s \in Scenarios :
        /\ \A n, m \in Node : {n, m} \in s.links /\ IsRelay(m) => <<n, m>> \in Known
        /\ \A n \in Node, g \in Group :
              Dynamic(n) /\ <<n, g>> \in s.stored => <<n, g>> \in s.shared

\* A dynamic relay learns, and so stores, only groups of its own peers that
\* are not relays, whatever the relays it is connected to carry ("Learn
\* groups from connected org peers; forward only those").  It takes several
\* exchanges, and the governor knowing who is a relay, to keep this true.
Isolated ==
    \A r \in Node : Dynamic(r) =>
        learned[r] \cup store[r] \subseteq Nearby(r) \cup joined[r]

\* What Confined takes for granted: nodes start with items of their own groups.
OwnItems == \A s \in Scenarios : s.stored \subseteq s.shared

\* A node that is no relay stores only items of groups it has been in, and an
\* explicit relay only those and the groups of its list, although relays
\* forward to every peer and what a node holds is pulled by others.
Confined ==
    \A n \in Node :
        /\ ~ IsRelay(n) => store[n] \subseteq joined[n]
        /\ Config[n].posture = "explicit" =>
              store[n] \subseteq joined[n] \cup Config[n].allowed

\* However exchanges overlap with joining and leaving a group, lost
\* connections and restarts: between two nodes that stay connected,
\* group_intersection is, again and again, what the two now have in common.
IntersectionFollows ==
    \A n, m \in Node : (\E s \in Scenarios : {n, m} \in s.links) =>
        []<>(m \in Active(n) =>
                pool[n][m] = EffectiveGroups(n) \cap (shared[m] \cup learned[m]))

\* A link, or a chain of dynamic relays, each end of it with a member, that
\* do not block g, leads from n to m.
Carries(r, g) == Dynamic(r) /\ g \notin Config[r].blocked
Linked(n, m) == {n, m} \in scenario.links
Route(n, m, g) ==
    \/ Linked(n, m)
    \/ \E r, s \in {k \in Node : Carries(k, g)} :
          Linked(n, r) /\ (r = s \/ Linked(r, s)) /\ Linked(s, m)

Held(g, n) ==
    \E m \in Node : ~ IsRelay(m) /\ g \in store[m] \cap shared[m] /\ Route(n, m, g)

\* What one member of a group has stored reaches every other member that a
\* chain of up to two dynamic relays leads to, pushes lost or not.
ItemsArrive ==
    \A n \in Node, g \in Group : ~ IsRelay(n) =>
        []<>(g \in shared[n] /\ Held(g, n) => g \in store[n])
-----------------------------------------------------------------------------
(* What the documents say and the code does not do, each with a            *)
(* configuration of its own.                                               *)

\* tests/e2e/README.md: "All postures respect `blocked_groups` deny-list."
DenyListHolds == \A r \in Node : IsRelay(r) => store[r] \cap Config[r].blocked = {}

\* Under which it does hold: no client of a relay creates a blocked group, nor
\* does the relay start with one.
BlockedUnused ==
    \A s \in Scenarios, r \in Node : \A g \in Config[r].blocked :
        IsRelay(r) => <<r, g>> \notin s.shared \cup s.stored \cup s.members

\* replication-routing.md, 7.2: an internal item "does NOT reach boot nodes",
\* to which an edge does not push "unless boot is in group_intersection".
InternalStaysInternal ==
    \A n \in Node : Config[n].posture = "transparent" => store[n] \subseteq shared[n]

\* replication_task.rs: "push retries exhausted, relying on anti-entropy".
\* What is stored next to a transparent relay reaches the members on its
\* other side even if the push is lost.
CrossesTransparent ==
    \A n, m, r \in Node, g \in Group :
        Config[r].posture = "transparent" /\ ~ IsRelay(n) /\ ~ IsRelay(m) =>
            []( (Linked(n, r) /\ Linked(r, m) /\ g \in shared[n] \cap shared[m]
                    /\ g \in store[n])
                => <>(g \in store[m] \/ g \notin shared[m]))
=============================================================================
