----------------------------- MODULE AntiEntropy -----------------------------
(***************************************************************************)
(* Anti-entropy on top of eager push.  From time to time the replication   *)
(* task of a node goes through its groups; for each it asks one peer for   *)
(* the headers newer than its watermark (every FullSyncEvery-th time for   *)
(* all of them), compares them with its own, fetches what differs and      *)
(* hands it to on_receive.  All this happens inside one branch of the      *)
(* task's select loop: until the last answer is in, no notification is     *)
(* taken, nothing is flushed and nothing retried, while the HTTP handlers  *)
(* and the swarm task, of this node and of the peer, go on.                *)
(***************************************************************************)
EXTENDS ItemReplication

CONSTANTS
    Limit,              \* ERA_0.max_batch_size: headers in one answer
    FullSyncEvery,      \* FULL_SYNC_EVERY
    Syncers,            \* bound: the nodes whose sync tick fires
    Bootstraps,         \* pairs <<n, g>>: n has just been given group g
    MaxSyncFailures     \* bound: failed requests in a behaviour

ASSUME SyncAssumption ==
    /\ IsFiniteSet(Item)
    /\ Limit \in Nat \ {0}
    /\ FullSyncEvery \in Nat \ {0}
    /\ Syncers \subseteq Node
    /\ Bootstraps \subseteq Node \X Group
    /\ \A x \in Bootstraps : x[2] \in Config[x[1]].shared
    /\ MaxSyncFailures \in Nat

VARIABLES
    tick,               \* tick[n]: the groups of the current sync tick of n
    round,              \* round[n]: the run_anti_entropy under way at n
    last_sync_at,       \* last_sync_at[n][g]: the watermark
    sync_cycle_count,   \* sync_cycle_count[n][g], modulo FullSyncEvery
    bootstrap,          \* bootstrap_rx: groups waiting for a first sync
    failures

syncVars == <<tick, round, last_sync_at, sync_cycle_count, bootstrap, failures>>
allVars == <<vars, syncVars>>

\* No `since`: smaller than every stamp.
NoStamp == [day |-> -1, sep |-> Space, sec |-> 0, sub |-> 0]

ItemHeader == [id : Item, blob : Nat, at : Stamp]
Payload == {x \in FetchedItem : x.blob # 0 /\ ~ x.tombstone}
Phase == {"idle", "sync", "diff", "fetch", "apply"}

Round ==
    [phase : Phase, group : MaybeGroup, peer : Node,
     since : Stamp \cup {NoStamp}, accepts : SUBSET Group,
     headers : SUBSET ItemHeader, needed : SUBSET Item,
     items : SUBSET Payload, writing : SUBSET Payload]

NoRound(n) ==
    [phase |-> "idle", group |-> NoGroup, peer |-> n, since |-> NoStamp,
     accepts |-> {}, headers |-> {}, needed |-> {}, items |-> {},
     writing |-> {}]

NoTick == [groups |-> {}, due |-> {}]

SyncInit ==
    /\ Init
    /\ tick = [n \in Node |-> NoTick]
    /\ round = [n \in Node |-> NoRound(n)]
    /\ last_sync_at = [n \in Node |-> [g \in Group |-> NoStamp]]
    /\ sync_cycle_count = [n \in Node |-> [g \in Group |-> 0]]
    /\ bootstrap = Bootstraps
    /\ failures = 0

\* The replication task of n is inside its anti-entropy or bootstrap branch.
Syncing(n) == tick[n].due # {} \/ round[n].phase # "idle"

-----------------------------------------------------------------------------
(* What is asked, of whom.                                                 *)

\* list_stored_group_ids
StoredGroups(n) ==
    {store[n][i].group : i \in {j \in Item : Present(store[n][j])}} \ {NoGroup}

CurrentGroups(n) ==
    (OurGroups(n) \cup IF IsRelay(n) THEN StoredGroups(n) ELSE {})
        \ Config[n].blocked

\* random_hot_peer_for_group, and random_hot_peer_for_group_or_relays on a
\* relay.  Any peer may be the only hot one, so any may be picked.
SyncPeers(n, g) ==
    LET sharing == {m \in peers[n] : g \in OurGroups(n) \cap OurGroups(m)}
    IN IF IsRelay(n) /\ sharing = {} THEN {m \in peers[n] : IsRelay(m)}
                                     ELSE sharing

\* list_group_items: the oldest Limit rows of g after `since`.  Rows of equal
\* age come in any order, hence the set of possible answers.
ListGroupItems(n, g, since) ==
    LET rows == {[id |-> i, blob |-> store[n][i].blob, at |-> store[n][i].at] :
                    i \in {j \in Item : store[n][j].group = g
                                        /\ StampLess(since, store[n][j].at)}}
        size == IF Cardinality(rows) < Limit THEN Cardinality(rows) ELSE Limit
    IN {S \in SUBSET rows :
           Cardinality(S) = size
           /\ \A x \in S, y \in rows \ S : StampLeq(x.at, y.at)}

\* The latest updated_at among the headers; none keeps the old watermark.
Latest(headers, old) ==
    IF headers = {} THEN old
    ELSE (CHOOSE h \in headers : \A k \in headers : StampLeq(k.at, h.at)).at

-----------------------------------------------------------------------------
(* A sync tick and its rounds.                                             *)

itemVars == <<clock, apiVars, notify, replVars, rx, peers, net, crashes>>

\* The tick takes stock of the groups; which of them are due is up to time.
SyncTick(n, due) ==
    /\ n \in Syncers
    /\ ~ Syncing(n)
    /\ due # {}
    /\ due \subseteq CurrentGroups(n)
    /\ tick' = [tick EXCEPT ![n] = [groups |-> CurrentGroups(n), due |-> due]]
    /\ UNCHANGED <<itemVars, store, round, last_sync_at, sync_cycle_count,
                   bootstrap, failures>>

Ask(n, g, p, since, accepts) ==
    [NoRound(n) EXCEPT !.phase = "sync", !.group = g, !.peer = p,
                       !.since = since, !.accepts = accepts]

\* Fault: no round is ever a full one.
SinceNeverFull(n, g, cycle) == last_sync_at[n][g]

\* Every FullSyncEvery-th cycle asks for everything.
Since(n, g, cycle) == IF cycle = 0 THEN NoStamp ELSE last_sync_at[n][g]

\* run_anti_entropy up to the sync request; without a peer it is over.
StartRound(n, g) ==
    LET cycle == (sync_cycle_count[n][g] + 1) % FullSyncEvery IN
    /\ round[n].phase = "idle"
    /\ g \in tick[n].due
    /\ tick' = [tick EXCEPT ![n].due = @ \ {g}]
    /\ sync_cycle_count' = [sync_cycle_count EXCEPT ![n][g] = cycle]
    /\ \/ /\ SyncPeers(n, g) = {}
          /\ UNCHANGED round
       \/ \E p \in SyncPeers(n, g) :
             round' = [round EXCEPT ![n] =
                          Ask(n, g, p, Since(n, g, cycle), tick[n].groups)]
    /\ UNCHANGED <<itemVars, store, last_sync_at, bootstrap, failures>>

\* bootstrap_rx: tracking starts afresh, with a full sync right away.
BootstrapSync(n, g) ==
    /\ ~ Syncing(n)
    /\ <<n, g>> \in bootstrap
    /\ bootstrap' = bootstrap \ {<<n, g>>}
    /\ last_sync_at' = [last_sync_at EXCEPT ![n][g] = NoStamp]
    /\ sync_cycle_count' = [sync_cycle_count EXCEPT ![n][g] = 0]
    /\ \/ /\ SyncPeers(n, g) = {}
          /\ UNCHANGED round
       \/ \E p \in SyncPeers(n, g) :
             round' = [round EXCEPT ![n] =
                          Ask(n, g, p, NoStamp, Config[n].shared)]
    /\ UNCHANGED <<itemVars, store, tick, failures>>

\* The peer's swarm task answers between two pushes (has_more is not read).
HandleSyncRequest(n) ==
    LET q == round[n] IN
    /\ q.phase = "sync"
    /\ ~ rx[q.peer].busy
    /\ \E S \in ListGroupItems(q.peer, q.group, q.since) :
          round' = [round EXCEPT ![n].phase = "diff", ![n].headers = S]
    /\ UNCHANGED <<itemVars, store, tick, last_sync_at, sync_cycle_count,
                   bootstrap, failures>>

\* The watermark moves to the latest header of the answer.
Finish(n) ==
    LET q == round[n] IN
    /\ last_sync_at' = [last_sync_at EXCEPT ![n][q.group] =
                           Latest(q.headers, last_sync_at[n][q.group])]
    /\ round' = [round EXCEPT ![n] = NoRound(n)]

\* Fault: only unknown ids are fetched, whatever their checksums.
DiffHeadersById(n) ==
    LET q == round[n] IN
    /\ q.phase = "diff"
    /\ \E mine \in ListGroupItems(n, q.group, q.since) :
          LET needed == {h.id : h \in {x \in q.headers :
                                          ~ \E y \in mine : y.id = x.id}}
          IN IF needed = {}
             THEN Finish(n)
             ELSE /\ round' = [round EXCEPT ![n].phase = "fetch",
                                            ![n].needed = needed]
                  /\ UNCHANGED last_sync_at
    /\ UNCHANGED <<itemVars, store, tick, sync_cycle_count, bootstrap, failures>>

\* The answer is compared with the node's own list, read now.
DiffHeaders(n) ==
    LET q == round[n] IN
    /\ q.phase = "diff"
    /\ \E mine \in ListGroupItems(n, q.group, q.since) :
          LET needed == {h.id : h \in {x \in q.headers :
                            ~ \E y \in mine : y.id = x.id /\ y.blob = x.blob}}
          IN IF needed = {}
             THEN Finish(n)
             ELSE /\ round' = [round EXCEPT ![n].phase = "fetch",
                                            ![n].needed = needed]
                  /\ UNCHANGED last_sync_at
    /\ UNCHANGED <<itemVars, store, tick, sync_cycle_count, bootstrap, failures>>

\* Fault: an item without a row is answered by a blank one.
HandleFetchRequestBlank(n) ==
    LET q == round[n]
        row(i) == store[q.peer][i]
    IN
    /\ q.phase = "fetch"
    /\ ~ rx[q.peer].busy
    /\ round' = [round EXCEPT
          ![n].phase = "apply",
          ![n].items =
              {[id |-> i, tombstone |-> FALSE, blob |-> row(i).blob,
                group |-> row(i).group, at |-> row(i).at] : i \in q.needed}]
    /\ UNCHANGED <<itemVars, store, tick, last_sync_at, sync_cycle_count,
                   bootstrap, failures>>

\* The peer reads the rows as they are now; a row that is gone is left out,
\* one that is private by now goes out without a group.
HandleFetchRequest(n) ==
    LET q == round[n]
        row(i) == store[q.peer][i]
    IN
    /\ q.phase = "fetch"
    /\ ~ rx[q.peer].busy
    /\ round' = [round EXCEPT
          ![n].phase = "apply",
          ![n].items =
              {[id |-> i, tombstone |-> FALSE, blob |-> row(i).blob,
                group |-> row(i).group, at |-> row(i).at] :
                  i \in {j \in q.needed : Present(row(j))}}]
    /\ UNCHANGED <<itemVars, store, tick, last_sync_at, sync_cycle_count,
                   bootstrap, failures>>

\* on_receive of one fetched item, up to its decision.
JudgeFetched(n, item) ==
    LET q == round[n] IN
    /\ q.phase = "apply"
    /\ q.writing = {}
    /\ item \in q.items
    /\ round' = [round EXCEPT
          ![n].items = @ \ {item},
          ![n].writing =
              IF OnReceive(store[n][item.id], item, q.accepts) = "store"
              THEN {item} ELSE {}]
    /\ UNCHANGED <<itemVars, store, tick, last_sync_at, sync_cycle_count,
                   bootstrap, failures>>

\* on_receive's write_l2_item.
WriteFetched(n, item) ==
    /\ item \in round[n].writing
    /\ store' = [store EXCEPT ![n][item.id] = RowOf(item)]
    /\ round' = [round EXCEPT ![n].writing = {}]
    /\ UNCHANGED <<itemVars, tick, last_sync_at, sync_cycle_count, bootstrap,
                   failures>>

EndRound(n) ==
    /\ round[n].phase = "apply"
    /\ round[n].items = {}
    /\ round[n].writing = {}
    /\ Finish(n)
    /\ UNCHANGED <<itemVars, store, tick, sync_cycle_count, bootstrap, failures>>

\* Fault: the watermark moves although the fetch failed.
FailRoundMovesOn(n) ==
    /\ failures < MaxSyncFailures
    /\ failures' = failures + 1
    /\ round[n].phase \in {"sync", "fetch"}
    /\ Finish(n)
    /\ UNCHANGED <<itemVars, store, tick, sync_cycle_count, bootstrap>>

\* The request, or its answer, is lost: no watermark.
FailRound(n) ==
    /\ failures < MaxSyncFailures
    /\ failures' = failures + 1
    /\ round[n].phase \in {"sync", "fetch"}
    /\ round' = [round EXCEPT ![n] = NoRound(n)]
    /\ UNCHANGED <<itemVars, store, tick, last_sync_at, sync_cycle_count,
                   bootstrap>>

-----------------------------------------------------------------------------
\* The replication task: its other branches wait for the sync.
ReplicationTask(n) ==
    \/ ~ Syncing(n) /\ ReplStep(n) /\ UNCHANGED syncVars
    \/ \E due \in SUBSET Group : SyncTick(n, due)
    \/ \E g \in Group : StartRound(n, g) \/ BootstrapSync(n, g)
    \/ DiffHeaders(n)
    \/ \E item \in round[n].items : JudgeFetched(n, item)
    \/ \E item \in round[n].writing : WriteFetched(n, item)
    \/ EndRound(n)

\* A crash also forgets the watermarks, and fails the rounds that wait for an
\* answer of this node.
CrashAll(n) ==
    /\ Crash(n)
    /\ tick' = [tick EXCEPT ![n] = NoTick]
    /\ round' = [m \in Node |->
          IF m = n \/ (round[m].peer = n /\ round[m].phase \in {"sync", "fetch"})
          THEN NoRound(m) ELSE round[m]]
    /\ last_sync_at' = [last_sync_at EXCEPT ![n] = [g \in Group |-> NoStamp]]
    /\ sync_cycle_count' = [sync_cycle_count EXCEPT ![n] = [g \in Group |-> 0]]
    /\ bootstrap' = {x \in bootstrap : x[1] # n}
    /\ UNCHANGED failures

SyncNext ==
    \/ \E n \in Node : ApiStep(n) /\ UNCHANGED syncVars
    \/ \E n \in Node : SwarmStep(n) /\ UNCHANGED syncVars
    \/ \E n \in Node : ReplicationTask(n)
    \/ \E n \in Node : HandleSyncRequest(n) \/ HandleFetchRequest(n)
    \/ \E n \in Node : FailRound(n) \/ CrashAll(n)
    \/ \E m \in net : LosePush(m) /\ UNCHANGED syncVars
    \/ \E n, m \in Node : TogglePeer(n, m) /\ UNCHANGED syncVars
    \/ Tick /\ UNCHANGED syncVars

SyncSpec == SyncInit /\ [][SyncNext]_allVars

\* A round under way goes on, every group becomes due again and again, and a
\* peer picked at random is picked again and again, for full syncs too.
SyncFairness ==
    /\ \A n \in Clients :
        /\ WF_allVars(/\ \E h \in api[n] : L2DeleteRow(n, h) \/ SendNotification(n, h)
                      /\ UNCHANGED syncVars)
        /\ SF_allVars(~ Syncing(n) /\ ReplStep(n) /\ UNCHANGED syncVars)
    /\ \A n \in Node :
        /\ WF_allVars(SwarmStep(n) /\ UNCHANGED syncVars)
        /\ WF_allVars(\/ \E g \in Group : StartRound(n, g)
                      \/ HandleSyncRequest(n) \/ DiffHeaders(n)
                      \/ HandleFetchRequest(n)
                      \/ \E item \in round[n].items : JudgeFetched(n, item)
                      \/ \E item \in round[n].writing : WriteFetched(n, item)
                      \/ EndRound(n))
    /\ \A n \in Syncers, g \in Group :
            /\ SF_allVars(\E due \in SUBSET Group : g \in due /\ SyncTick(n, due))
            /\ \A p \in Neighbour[n] :
                  SF_allVars(/\ StartRound(n, g)
                             /\ round'[n].peer = p /\ round'[n].since = NoStamp)

FairSyncSpec == SyncSpec /\ SyncFairness

-----------------------------------------------------------------------------
(* Properties.                                                             *)

SyncTypeOK ==
    /\ tick \in [Node -> [groups : SUBSET Group, due : SUBSET Group]]
    /\ round \in [Node -> Round]
    /\ last_sync_at \in [Node -> [Group -> Stamp \cup {NoStamp}]]
    /\ sync_cycle_count \in [Node -> [Group -> 0 .. FullSyncEvery - 1]]
    /\ bootstrap \subseteq Bootstraps
    /\ failures \in Nat

\* Pulling, pushing, API calls and crashes together still change the databases
\* only as GroupMemory allows (run_anti_entropy and on_receive).
SyncImplementsGroupMemory == Memory!MemInit /\ [][Memory!MemNext]_(Memory!memVars)

\* The watermark moves only over items that have arrived: when last_sync_at is
\* set after a round, every item the peer listed is in the node's database,
\* unless it was deleted somewhere or written into another group as well
\* (run_anti_entropy returns latest_ts only after the last on_receive).
WatermarkCovers ==
    [][\A n \in Node, g \in Group :
          last_sync_at'[n][g] # last_sync_at[n][g]
              => \/ last_sync_at'[n][g] = NoStamp
                 \/ \A h \in round[n].headers :
                       \/ Present(store[n][h.id])
                       \/ h.id \in deleted
                       \/ ~ StaysIn(h.id, g)]_allVars

\* Members pull what others wrote: an item of a group reaches every connected
\* member, whatever was lost before, or it leaves the group (incremental and
\* full syncs of run_anti_entropy).
AllFetched ==
    \A n \in Node, i \in Item : \A g \in Config[n].shared :
        (\E m \in Node : store[m][i].group = g)
            ~> \/ Present(store[n][i])
               \/ \A m \in Node : store[m][i].group # g

InGroup(n, m, i) ==
    /\ store[n][i].group = store[m][i].group
    /\ store[n][i].group \in Config[n].shared \cap Config[m].shared

\* Once the API is quiet, members of a group agree on every item both hold,
\* unless their versions carry the same updated_at (diff_headers and the
\* last-writer-wins rule of on_receive).
Converges ==
    <>[](\A n, m \in Node, i \in Item :
            InGroup(n, m, i) => \/ store[n][i].blob = store[m][i].blob
                                \/ store[n][i].at = store[m][i].at)

\* Requirement FR-REP-004: with equal timestamps too, one version wins.
ConflictsResolved ==
    <>[](\A n, m \in Node, i \in Item :
            InGroup(n, m, i) => store[n][i].blob = store[m][i].blob)

\* Requirement FR-REP-003: a deletion replicates.  An item that was written
\* once and then deleted ends up on no node.
DeletesPropagate ==
    \A i \in Item : i \in deleted ~> \A n \in Node : ~ Present(store[n][i])
=============================================================================
