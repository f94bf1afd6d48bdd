--------------------------- MODULE ItemReplication ---------------------------
(***************************************************************************)
(* Eager-push replication of memory items (table l2_items) between nodes:  *)
(*                                                                         *)
(*   HTTP handler l2_write / l2_delete  --write_notify-->  replication task*)
(*   replication task: write_buffer --flush--> push to peers, pending_pushes*)
(*   swarm task: handle_push_request --on_receive--> storage, relay re-push*)
(*                                                                         *)
(* Every node runs the HTTP handlers, the replication task and the swarm   *)
(* task concurrently over one database; a single storage call is atomic,   *)
(* the gap between two of them is not.  Push requests travel on separate   *)
(* streams: they may be lost or overtake each other, and retries repeat    *)
(* them.  A crash keeps the database and loses everything in memory.       *)
(***************************************************************************)
EXTENDS Engine, FiniteSets

CONSTANTS
    Node,
    Clients,        \* bound: the nodes whose HTTP API is used
    Config,         \* per node: shared groups, relay posture, relay lists
    Culture,        \* per group: the replication strategy of its culture
    Neighbour,      \* per node: the peers its pool starts with
    Flaky,          \* pairs <<n, m>>: m may leave and rejoin n's pool
    Lossy,          \* whether push requests may be lost
    NotifyCap,      \* capacity of the write_notify broadcast channel
    BatchItems,     \* items that fit into one push request
    PushRetryCount, \* ERA_0.push_retry_count
    MaxWrites,      \* bound: API writes in a behaviour
    WriteGroups,    \* bound: the groups they go to, NoGroup for none
    Deletable,      \* bound: items the API may delete, each once
    MaxCrashes,     \* bound: crashes in a behaviour
    MaxClock        \* bound: the last clock reading

Posture == {"none", "transparent", "dynamic", "explicit"}

ASSUME ConfigAssumption ==
    /\ Config \in [Node -> [shared : SUBSET Group, posture : Posture,
                            accepted : SUBSET Group, blocked : SUBSET Group]]
    /\ Culture \in [Group -> Strategy]
    /\ Neighbour \in [Node -> SUBSET Node]
    /\ Clients \subseteq Node
    /\ WriteGroups \subseteq MaybeGroup

ASSUME BoundAssumption ==
    /\ NotifyCap \in Nat \ {0}
    /\ BatchItems \in Nat \ {0}
    /\ PushRetryCount \in Nat \ {0}
    /\ MaxWrites \in Nat
    /\ MaxCrashes \in Nat
    /\ MaxClock \in Clock

VARIABLES
    clock,      \* wall-clock time, the same on every node
    written,    \* history: the API writes, in order; a blob indexes it
    deleted,    \* history: the items some API call has deleted
    store,      \* store[n][i]: n's row for item i
    api,        \* api[n]: HTTP handlers of n between two of their steps
    notify,     \* notify[n]: write_notify, oldest first
    buffer,     \* buffer[n][g]: write_buffer of the replication task
    pending,    \* pending[n]: pending_pushes of the replication task
    rx,         \* rx[n]: the push request n's swarm task is working on
    peers,      \* peers[n]: the active peers in n's pool
    net,        \* push requests under way
    crashes

apiVars  == <<written, deleted, api>>
replVars == <<buffer, pending>>
vars == <<clock, written, deleted, store, api, notify, buffer, pending, rx,
          peers, net, crashes>>

-----------------------------------------------------------------------------
(* Types.                                                                  *)

Write   == [id : Item, group : MaybeGroup, author : Node]
Handler == [step : {"delete", "notify"}, notif : WriteNotification]
PendingPush ==
    [items : Seq(FetchedItem), group : Group, attempt : 0 .. PushRetryCount - 1]
PushRequest == [src : Node, dst : Node, items : Seq(FetchedItem)]
Receiving ==
    [busy : BOOLEAN, src : Node, accepts : SUBSET Group,
     all : Seq(FetchedItem), todo : Seq(FetchedItem),
     write : BOOLEAN, stored : BOOLEAN]

Idle(n) ==
    [busy |-> FALSE, src |-> n, accepts |-> {}, all |-> <<>>, todo |-> <<>>,
     write |-> FALSE, stored |-> FALSE]

Init ==
    /\ clock = [day |-> 0, sec |-> 0, sub |-> 0]
    /\ written = <<>>
    /\ deleted = {}
    /\ store = [n \in Node |-> [i \in Item |-> NoRow]]
    /\ api = [n \in Node |-> {}]
    /\ notify = [n \in Node |-> <<>>]
    /\ buffer = [n \in Node |-> [g \in Group |-> <<>>]]
    /\ pending = [n \in Node |-> {}]
    /\ rx = [n \in Node |-> Idle(n)]
    /\ peers = Neighbour
    /\ net = {}
    /\ crashes = 0

-----------------------------------------------------------------------------
(* Roles, groups and peers.                                                *)

IsRelay(n) == Config[n].posture # "none"

\* The group universe of n's pool, and the groups n advertises.
OurGroups(n) ==
    Config[n].shared
        \cup IF Config[n].posture = "dynamic" THEN Config[n].accepted ELSE {}

\* active_peers_for_group_or_relays
PushTargets(n, g) ==
    {m \in peers[n] : IsRelay(m) \/ g \in OurGroups(n) \cap OurGroups(m)}

\* The snapshots of the accepted groups a push can be judged by.  On a
\* dynamic relay try_read fails while the group exchange holds the lock, and
\* the snapshot is then empty.
AcceptedSnapshots(n) ==
    LET c == Config[n]
        listed == IF c.posture = "dynamic" THEN {c.accepted, {}} ELSE {c.accepted}
    IN IF c.posture = "none" THEN {c.shared}
       ELSE IF c.posture = "transparent" THEN {Group \ c.blocked}
       ELSE {s \ c.blocked : s \in listed}

-----------------------------------------------------------------------------
(* The HTTP API.                                                           *)

\* l2_write up to and including write_l2_item; the notification follows.
L2Write(n, i, g) ==
    LET blob == Len(written) + 1 IN
    /\ n \in Clients
    /\ Len(written) < MaxWrites
    /\ written' = Append(written, [id |-> i, group |-> g, author |-> n])
    /\ store' = [store EXCEPT ![n][i] =
                    [blob |-> blob, group |-> g, at |-> DatetimeNow(clock)]]
    /\ api' = [api EXCEPT ![n] = @ \cup
                  {[step |-> "notify",
                    notif |-> [id |-> i, tombstone |-> FALSE,
                               blob |-> blob, group |-> g]]}]
    /\ UNCHANGED <<clock, deleted, notify, replVars, rx, peers, net, crashes>>

\* l2_delete reads the row's group before it deletes the row.
L2DeleteRead(n, i) ==
    /\ n \in Clients
    /\ i \in Deletable \ deleted
    /\ \A h \in api[n] : h.step # "delete"
    /\ api' = [api EXCEPT ![n] = @ \cup
                  {[step |-> "delete",
                    notif |-> [id |-> i, tombstone |-> TRUE, blob |-> 0,
                               group |-> store[n][i].group]]}]
    /\ UNCHANGED <<clock, written, deleted, store, notify, replVars, rx,
                   peers, net, crashes>>

\* delete_l2_item: false (404) when the row is gone by now; a tombstone
\* follows when the group read before was not NULL.
L2DeleteRow(n, h) ==
    LET i == h.notif.id
        gone == ~ Present(store[n][i])
        tell == IF gone \/ h.notif.group = NoGroup
                THEN {} ELSE {[h EXCEPT !.step = "notify"]}
    IN
    /\ h.step = "delete"
    /\ store' = [store EXCEPT ![n][i] = NoRow]
    /\ deleted' = IF gone THEN deleted ELSE deleted \cup {i}
    /\ api' = [api EXCEPT ![n] = (@ \ {h}) \cup tell]
    /\ UNCHANGED <<clock, written, notify, replVars, rx, peers, net, crashes>>

\* write_notify.send: a full channel overwrites its oldest entry, which the
\* replication task then never sees (RecvError::Lagged).
SendNotification(n, h) ==
    /\ h.step = "notify"
    /\ notify' = [notify EXCEPT ![n] =
                     Append(IF Len(@) = NotifyCap THEN Tail(@) ELSE @, h.notif)]
    /\ api' = [api EXCEPT ![n] = @ \ {h}]
    /\ UNCHANGED <<clock, written, deleted, store, replVars, rx, peers, net,
                   crashes>>

-----------------------------------------------------------------------------
(* The replication task.                                                   *)

\* Fault: the payload is read back from the database instead of taken from
\* the notification.
OnLocalWriteRereads(n) ==
    /\ notify[n] # <<>>
    /\ LET notif == Head(notify[n])
           g == notif.group
           fresh == [notif EXCEPT !.blob = store[n][notif.id].blob]
       IN buffer' = IF g # NoGroup /\ Culture[g] = "EagerPush"
                    THEN [buffer EXCEPT ![n][g] =
                              Append(@, BroadcastItem(fresh, clock))]
                    ELSE buffer
    /\ notify' = [notify EXCEPT ![n] = Tail(@)]
    /\ UNCHANGED <<clock, apiVars, store, pending, rx, peers, net, crashes>>

\* write_rx.recv and on_local_write: group items of an eager culture are
\* stamped and buffered, everything else is dropped here.
OnLocalWrite(n) ==
    /\ notify[n] # <<>>
    /\ LET notif == Head(notify[n])
           g == notif.group
       IN buffer' = IF g # NoGroup /\ Culture[g] = "EagerPush"
                    THEN [buffer EXCEPT ![n][g] =
                              Append(@, BroadcastItem(notif, clock))]
                    ELSE buffer
    /\ notify' = [notify EXCEPT ![n] = Tail(@)]
    /\ UNCHANGED <<clock, apiVars, store, pending, rx, peers, net, crashes>>

\* split_into_batches for items of one size.
SplitIntoBatches(items) ==
    {SubSeq(items, k, IF k + BatchItems - 1 < Len(items)
                      THEN k + BatchItems - 1 ELSE Len(items)) :
        k \in {j \in 1 .. Len(items) : (j - 1) % BatchItems = 0}}

Pushes(n, g, items) ==
    {[src |-> n, dst |-> m, items |-> batch] :
        m \in PushTargets(n, g), batch \in SplitIntoBatches(items)}

\* The flush tick drains every group; with or without peers the items are
\* also queued for a first retry.
FlushWrites(n) ==
    LET full == {g \in Group : buffer[n][g] # <<>>} IN
    /\ full # {}
    /\ net' = net \cup UNION {Pushes(n, g, buffer[n][g]) : g \in full}
    /\ pending' = [pending EXCEPT ![n] = @ \cup
                      {[items |-> buffer[n][g], group |-> g, attempt |-> 0] :
                          g \in full}]
    /\ buffer' = [buffer EXCEPT ![n] = [g \in Group |-> <<>>]]
    /\ UNCHANGED <<clock, apiVars, store, notify, rx, peers, crashes>>

\* Fault: one retry too many.
RetryPushOnceMore(n, p) ==
    LET next == [p EXCEPT !.attempt = @ + 1] IN
    /\ p \in pending[n]
    /\ net' = net \cup Pushes(n, p.group, p.items)
    /\ pending' = [pending EXCEPT ![n] = (@ \ {p}) \cup
                      IF next.attempt > PushRetryCount THEN {} ELSE {next}]
    /\ UNCHANGED <<clock, apiVars, store, notify, buffer, rx, peers, crashes>>

\* Fault: the attempt is not counted.
RetryPushForever(n, p) ==
    /\ p \in pending[n]
    /\ net' = net \cup Pushes(n, p.group, p.items)
    /\ UNCHANGED <<clock, apiVars, store, notify, replVars, rx, peers, crashes>>

\* The retry tick, for one entry that is due.
RetryPush(n, p) ==
    LET next == [p EXCEPT !.attempt = @ + 1] IN
    /\ p \in pending[n]
    /\ net' = net \cup Pushes(n, p.group, p.items)
    /\ pending' = [pending EXCEPT ![n] = (@ \ {p}) \cup
                      IF next.attempt >= PushRetryCount THEN {} ELSE {next}]
    /\ UNCHANGED <<clock, apiVars, store, notify, buffer, rx, peers, crashes>>

-----------------------------------------------------------------------------
(* The swarm task: one push request at a time, item by item.               *)

ReceivePush(m) ==
    /\ m \in net
    /\ ~ rx[m.dst].busy
    /\ net' = net \ {m}
    /\ \E s \in AcceptedSnapshots(m.dst) :
          rx' = [rx EXCEPT ![m.dst] =
                    [busy |-> TRUE, src |-> m.src, accepts |-> s,
                     all |-> m.items, todo |-> m.items,
                     write |-> FALSE, stored |-> FALSE]]
    /\ UNCHANGED <<clock, apiVars, store, notify, replVars, peers, crashes>>

\* on_receive up to its decision: a tombstone deletes in one storage call;
\* an item to be stored has only been compared with the row so far.
JudgeItem(n) ==
    /\ rx[n].todo # <<>>
    /\ ~ rx[n].write
    /\ LET item == Head(rx[n].todo)
           outcome == OnReceive(store[n][item.id], item, rx[n].accepts)
       IN /\ rx' = [rx EXCEPT
                ![n].write = outcome = "store",
                ![n].todo = IF outcome = "store" THEN @ ELSE Tail(@),
                ![n].stored = @ \/ outcome = "delete"]
          /\ store' = IF outcome = "delete"
                      THEN [store EXCEPT ![n][item.id] = NoRow] ELSE store
    /\ UNCHANGED <<clock, apiVars, notify, replVars, peers, net, crashes>>

\* on_receive's write_l2_item, which overwrites whatever row is there now.
StoreItem(n) ==
    /\ rx[n].write
    /\ LET item == Head(rx[n].todo) IN
       store' = [store EXCEPT ![n][item.id] = RowOf(item)]
    /\ rx' = [rx EXCEPT ![n].write = FALSE, ![n].todo = Tail(@),
                        ![n].stored = TRUE]
    /\ UNCHANGED <<clock, apiVars, notify, replVars, peers, net, crashes>>

\* Fault: the relay forwards only to peers that share the group.
FinishPushSharedGroups(n) ==
    /\ rx[n].busy
    /\ rx[n].todo = <<>>
    /\ net' = IF IsRelay(n) /\ rx[n].stored
              THEN net \cup {[src |-> n, dst |-> m, items |-> rx[n].all] :
                    m \in {k \in peers[n] \ {rx[n].src} :
                              OurGroups(n) \cap OurGroups(k) # {}}}
              ELSE net
    /\ rx' = [rx EXCEPT ![n] = Idle(n)]
    /\ UNCHANGED <<clock, apiVars, store, notify, replVars, peers, crashes>>

\* The end of the push: a relay that stored anything forwards the whole
\* request to its other active peers.
FinishPush(n) ==
    /\ rx[n].busy
    /\ rx[n].todo = <<>>
    /\ net' = IF IsRelay(n) /\ rx[n].stored
              THEN net \cup {[src |-> n, dst |-> m, items |-> rx[n].all] :
                                m \in peers[n] \ {rx[n].src}}
              ELSE net
    /\ rx' = [rx EXCEPT ![n] = Idle(n)]
    /\ UNCHANGED <<clock, apiVars, store, notify, replVars, peers, crashes>>

-----------------------------------------------------------------------------
(* The environment: time, the network, crashes.                            *)

LosePush(m) ==
    /\ Lossy
    /\ m \in net
    /\ net' = net \ {m}
    /\ UNCHANGED <<clock, apiVars, store, notify, replVars, rx, peers, crashes>>

\* m leaves n's active peers, or is back among them.
TogglePeer(n, m) ==
    /\ <<n, m>> \in Flaky
    /\ peers' = [peers EXCEPT ![n] = IF m \in @ THEN @ \ {m} ELSE @ \cup {m}]
    /\ UNCHANGED <<clock, apiVars, store, notify, replVars, rx, net, crashes>>

Crash(n) ==
    /\ crashes < MaxCrashes
    /\ crashes' = crashes + 1
    /\ api' = [api EXCEPT ![n] = {}]
    /\ notify' = [notify EXCEPT ![n] = <<>>]
    /\ buffer' = [buffer EXCEPT ![n] = [g \in Group |-> <<>>]]
    /\ pending' = [pending EXCEPT ![n] = {}]
    /\ rx' = [rx EXCEPT ![n] = Idle(n)]
    /\ UNCHANGED <<clock, written, deleted, store, peers, net>>

\* The next fraction, the next second or the next day.
Tick ==
    /\ clock' \in {[day |-> clock.day, sec |-> clock.sec, sub |-> clock.sub + 1],
                   [day |-> clock.day, sec |-> clock.sec + 1, sub |-> 0],
                   [day |-> clock.day + 1, sec |-> 0, sub |-> 0]}
    /\ clock'.day <= MaxClock.day
    /\ clock'.sec <= MaxClock.sec
    /\ clock'.sub <= MaxClock.sub
    /\ UNCHANGED <<apiVars, store, notify, replVars, rx, peers, net, crashes>>

\* Ticks that find nothing to do: the workload is over, every queue is empty.
IdleTick ==
    /\ \A n \in Node : api[n] = {} /\ notify[n] = <<>> /\ pending[n] = {}
                        /\ ~ rx[n].busy /\ \A g \in Group : buffer[n][g] = <<>>
    /\ net = {}
    /\ UNCHANGED vars

-----------------------------------------------------------------------------
ApiStep(n) ==
    \/ \E i \in Item, g \in WriteGroups : L2Write(n, i, g)
    \/ \E i \in Item : L2DeleteRead(n, i)
    \/ \E h \in api[n] : L2DeleteRow(n, h) \/ SendNotification(n, h)

ReplStep(n) ==
    \/ OnLocalWrite(n)
    \/ FlushWrites(n)
    \/ \E p \in pending[n] : RetryPush(n, p)

SwarmStep(n) ==
    \/ \E m \in net : m.dst = n /\ ReceivePush(m)
    \/ JudgeItem(n)
    \/ StoreItem(n)
    \/ FinishPush(n)

Environment ==
    \/ \E m \in net : LosePush(m)
    \/ \E n, m \in Node : TogglePeer(n, m)
    \/ \E n \in Node : Crash(n)
    \/ Tick

Next ==
    \/ \E n \in Node : ApiStep(n) \/ ReplStep(n) \/ SwarmStep(n)
    \/ Environment
    \/ IdleTick

Spec == Init /\ [][Next]_vars

\* The swarm loop serves the requests that have arrived and the replication
\* loop keeps taking branches that are ready; API calls, losses, crashes and
\* time are not owed.  Only the nodes in Clients have writes to replicate.
Fairness ==
    /\ \A n \in Clients :
        /\ WF_vars(\E h \in api[n] : L2DeleteRow(n, h) \/ SendNotification(n, h))
        /\ WF_vars(ReplStep(n))
    /\ \A n \in Node : WF_vars(SwarmStep(n))

FairSpec == Spec /\ Fairness

-----------------------------------------------------------------------------
(* Properties.                                                             *)

TypeOK ==
    /\ clock \in Clock
    /\ written \in Seq(Write)
    /\ deleted \in SUBSET Item
    /\ store \in [Node -> [Item -> Row]]
    /\ api \in [Node -> SUBSET Handler]
    /\ notify \in [Node -> Seq(WriteNotification)]
    /\ buffer \in [Node -> [Group -> Seq(FetchedItem)]]
    /\ pending \in [Node -> SUBSET PendingPush]
    /\ rx \in [Node -> Receiving]
    /\ peers \in [Node -> SUBSET Node]
    /\ net \in SUBSET PushRequest
    /\ crashes \in Nat

\* Blob b is the payload of an API write of item i into group g.
IsWrite(i, b, g) ==
    b \in 1 .. Len(written) /\ written[b].id = i /\ written[b].group = g

Elems(s) == {s[k] : k \in DOMAIN s}

\* The items in the queues of n, and all that are outside a database.
Queued(n) ==
    (UNION {Elems(buffer[n][g]) : g \in Group})
        \cup (UNION {Elems(p.items) : p \in pending[n]})
        \cup Elems(rx[n].all) \cup Elems(rx[n].todo)

OnTheWay ==
    (UNION {Elems(m.items) : m \in net}) \cup (UNION {Queued(n) : n \in Node})

Genuine(item) ==
    /\ item.group \in Group
    /\ IF item.tombstone THEN item.id \in deleted
                         ELSE IsWrite(item.id, item.blob, item.group)

\* Whatever is buffered, retried, forwarded by relays or stored was written by
\* an API call, under that id and into that group; a tombstone stands for an
\* API delete; and nothing without a group ever leaves its database (the
\* hand-overs l2_write -> write_rx -> flush/retry -> on_receive -> re-push).
NoInvention ==
    /\ \A n \in Node, i \in Item : LET row == store[n][i] IN
          Present(row) => IsWrite(i, row.blob, row.group)
    /\ \A item \in OnTheWay : Genuine(item)

\* The groups n may store for others: its shared groups, or what its relay
\* posture admits.
Readers == [n \in Node |-> UNION AcceptedSnapshots(n)]

\* A node's database holds its own writes, and of other nodes' writes only
\* those in groups it accepts, although relays forward a push to every active
\* peer whatever its groups.
OnlyReadersHold ==
    \A n \in Node, i \in Item : LET row == store[n][i] IN
        Present(row) => \/ written[row.blob].author = n
                        \/ row.group \in Readers[n]

\* No updated_at anywhere is later than the RFC 3339 stamp of this moment, so
\* a version being pushed now wins against every row it can meet (the
\* comparison in on_receive between stamps of both formats).
StampsNotAhead ==
    /\ \A n \in Node, i \in Item : StampLeq(store[n][i].at, ToRfc3339(clock))
    /\ \A item \in OnTheWay : StampLeq(item.at, ToRfc3339(clock))

\* The databases behave as GroupMemory promises.
Memory == INSTANCE GroupMemory WITH
    memory <- [n \in Node |-> [i \in Item |-> store[n][i].blob]]

\* Tasks, channels, retries, relays and crashes between the API calls change
\* what the databases contain only as GroupMemory allows.
ImplementsGroupMemory == Memory!MemSpec

\* Every write of item i so far went to group g.
StaysIn(i, g) == \A k \in DOMAIN written : written[k].id = i => written[k].group = g

\* The groups every snapshot of n admits; a dynamic relay has none.
SureReaders == [n \in Node |-> {g \in Group : \A s \in AcceptedSnapshots(n) : g \in s}]

\* Once the API is quiet, an item that some node wrote into a group is, over
\* reliable links, with every node that always accepts the group, through
\* relays too, unless it was written into another group as well (flush,
\* on_receive and the relay re-push in the swarm loop).
PushDelivered ==
    <>[](\A n \in Node, i \in Item : \A g \in SureReaders[n] :
            (\E m \in Node : store[m][i].group = g)
                => Present(store[n][i]) \/ ~ StaysIn(i, g))

\* Once the API is quiet the push traffic dies out: retries are used up and
\* relays stop forwarding (push_retry_count, and the comment "Loop prevention:
\* duplicate items -> stored == 0 -> no re-push" in the swarm loop).
PushesDieOut ==
    <>[](net = {} /\ \A n \in Node : pending[n] = {} /\ ~ rx[n].busy)

\* s was read from the clock in an earlier second than t.
EarlierSecond(s, t) == s.day < t.day \/ (s.day = t.day /\ s.sec < t.sec)

\* Last writer wins by updated_at: on_receive never decides to replace a row by
\* an item whose updated_at was read from the clock in an earlier second.
LaterStampWins ==
    [][\A n \in Node :
          JudgeItem(n) /\ rx'[n].write =>
              LET item == Head(rx[n].todo) IN
              Present(store[n][item.id])
                  => ~ EarlierSecond(item.at, store[n][item.id].at)]_vars

\* A receive never lowers the updated_at of a row that exists.
ReceiveNeverRegresses ==
    [][\A n \in Node, i \in Item :
          StoreItem(n) /\ Present(store[n][i])
              => StampLeq(store[n][i].at, store'[n][i].at)]_vars
=============================================================================
