-------------------------- MODULE GroupDescriptors --------------------------
(***************************************************************************)
(* The metadata of one group on every node: the groups row, its members    *)
(* and the in-memory list shared_groups; the API calls that change them,   *)
(* the group exchange that spreads descriptors from node to node, garbage  *)
(* collection and restarts.                                                *)
(*                                                                         *)
(* Groups do not influence each other, so there is one.  A node's entity   *)
(* and key are written as the node; no decision depends on the membership  *)
(* of another entity.  An API handler and the swarm task interleave        *)
(* between storage calls.  The checksum of a descriptor is computed from   *)
(* what it carries and cannot fail on the way.                             *)
(***************************************************************************)
EXTENDS Integers, FiniteSets

CONSTANTS
    Node,
    Link,           \* <<n, m>>: n and m are connected, and n starts exchanges with m
    Admin,          \* nodes whose API is called
    Culture,        \* culture values clients use
    Oversized,      \* those above 4 KB
    Default,        \* the culture of a group seeded from the configuration
    Configured,     \* nodes that have the group in their configuration
    None,
    Retention,      \* tombstone_retention_days, in ticks of the clock
    MaxTime,        \* bound: the clock
    MaxCalls,       \* bound: API calls
    MaxRestarts,    \* bound: restarts
    Lossy,          \* messages can get lost
    Spaced          \* API calls come at least a second after the last change

Tombstone == "__deleted__"

ASSUME GroupAssumption ==
    /\ Link \subseteq Node \X Node
    /\ Admin \subseteq Node /\ Configured \subseteq Node
    /\ Oversized \subseteq Culture /\ Default \notin Culture
    /\ Tombstone \notin Culture \cup {Default}
    /\ None \notin Node
    /\ Retention \in Nat /\ MaxTime \in Nat /\ MaxCalls \in Nat /\ MaxRestarts \in Nat
    /\ Lossy \in BOOLEAN /\ Spaced \in BOOLEAN

VARIABLES
    clock,      \* seconds
    row,        \* per node: the groups row
    member,     \* per node: the group_members row of the node's own entity
    shared,     \* per node: is the group in shared_groups?
    api,        \* per node: the rest of the API call in progress
    swarm,      \* per node: what the swarm task is doing
    net,        \* group exchange messages under way
    calls, restarts

dbVars == <<row, member, shared>>
vars == <<clock, dbVars, api, swarm, net, calls, restarts>>

AnyCulture == Culture \cup {Default, Tombstone}
Time == 0 .. MaxTime

\* owner_id, owner_pubkey and signature are always written together; what was
\* signed is the culture and updated_at.
Signature == [by : Node, culture : AnyCulture, at : Time] \cup {None}

\* born is not in the code: when a client wrote this culture.
Row == [culture : AnyCulture, updated_at : Time, sig : Signature, born : Time]
NoRow == [culture |-> None]

Posture == {"none", "active", "silent", "removed"}
Member == [role : {"owner", "member"}, posture : Posture]
NoMember == [role |-> "member", posture |-> "none"]

ApiStep == {"idle", "share", "tombstone", "members", "unshare"}
Message == [from : Node, to : Node, request : BOOLEAN, desc : Row \cup {NoRow}]

\* What the swarm task still has to do.  sign: a new signature is to be stored;
\* tombstoned: the group is to leave shared_groups at the end.
Idle == [at |-> "idle"]
Task ==
    {Idle}
    \cup [at : {"write", "sign"}, peer : Node, request : BOOLEAN, desc : Row]
    \cup [at : {"members"}, peer : Node, request : BOOLEAN]
    \cup [at : {"respond"}, peer : Node, tombstoned : BOOLEAN]
    \cup [at : {"send"}, peer : Node, request : BOOLEAN, desc : Row,
          sign : BOOLEAN, tombstoned : BOOLEAN]
    \cup [at : {"send"}, peer : Node, request : BOOLEAN, desc : {NoRow},
          sign : {FALSE}, tombstoned : BOOLEAN]
    \cup [at : {"unshare"}]
Unsharing == [at |-> "unshare"]

IsTombstone(r) == r.culture = Tombstone

-----------------------------------------------------------------------------
(* Storage calls.                                                          *)

\* write_group: always stamped with the local time; the signature stays.
WriteGroup(r, culture, born) ==
    [culture |-> culture, updated_at |-> clock, born |-> born,
     sig |-> IF r = NoRow THEN None ELSE r.sig]

WriteGroupSignature(r, sig) == IF r = NoRow THEN r ELSE [r EXCEPT !.sig = sig]

\* list_members, and update_member_posture of each.
SoftRemove(m) == IF m.posture = "none" THEN m ELSE [m EXCEPT !.posture = "removed"]

-----------------------------------------------------------------------------
(* The API.                                                                *)

Call(n) ==
    /\ n \in Admin
    /\ api[n] = "idle"
    /\ calls < MaxCalls
    /\ Spaced => \A m \in Node : row[m] # NoRow => row[m].updated_at < clock
    /\ calls' = calls + 1

\* groups_create, also for a group that exists.
GroupsCreate(n, culture) ==
    /\ Call(n)
    /\ row' = [row EXCEPT ![n] = WriteGroup(@, culture, clock)]
    /\ api' = [api EXCEPT ![n] = "share"]
    /\ UNCHANGED <<clock, member, shared, swarm, net, restarts>>

ShareGroup(n) ==
    /\ api[n] = "share"
    /\ shared' = [shared EXCEPT ![n] = TRUE]
    /\ api' = [api EXCEPT ![n] = "idle"]
    /\ UNCHANGED <<clock, row, member, swarm, net, calls, restarts>>

GroupsDelete(n) ==
    /\ Call(n)
    /\ row[n] # NoRow
    /\ api' = [api EXCEPT ![n] = "tombstone"]
    /\ UNCHANGED <<clock, dbVars, swarm, net, restarts>>

TombstoneGroup(n) ==
    /\ api[n] = "tombstone"
    /\ row' = [row EXCEPT ![n] = WriteGroup(@, Tombstone, clock)]
    /\ api' = [api EXCEPT ![n] = "members"]
    /\ UNCHANGED <<clock, member, shared, swarm, net, calls, restarts>>

RemoveMembers(n) ==
    /\ api[n] = "members"
    /\ member' = [member EXCEPT ![n] = SoftRemove(@)]
    /\ api' = [api EXCEPT ![n] = "unshare"]
    /\ UNCHANGED <<clock, row, shared, swarm, net, calls, restarts>>

UnshareGroup(n) ==
    /\ api[n] = "unshare"
    /\ shared' = [shared EXCEPT ![n] = FALSE]
    /\ api' = [api EXCEPT ![n] = "idle"]
    /\ UNCHANGED <<clock, row, member, swarm, net, calls, restarts>>

\* groups_add_member; the foreign key refuses an unknown group.
AddMember(n, role) ==
    /\ Call(n)
    /\ row[n] # NoRow
    /\ member' = [member EXCEPT ![n] = [role |-> role, posture |-> "active"]]
    /\ UNCHANGED <<clock, row, shared, api, swarm, net, restarts>>

RemoveMember(n) ==
    /\ Call(n)
    /\ member[n].posture \notin {"none", "removed"}
    /\ member' = [member EXCEPT ![n].posture = "removed"]
    /\ UNCHANGED <<clock, row, shared, api, swarm, net, restarts>>

\* Fault: the posture is not validated.
UpdatePostureUnchecked(n, posture) ==
    /\ Call(n)
    /\ member[n].posture # "none"
    /\ member' = [member EXCEPT ![n].posture = "unknown"]
    /\ UNCHANGED <<clock, row, shared, api, swarm, net, restarts>>

\* groups_update_posture, which does not look at the posture before.
UpdatePosture(n, posture) ==
    /\ Call(n)
    /\ member[n].posture # "none"
    /\ member' = [member EXCEPT ![n].posture = posture]
    /\ UNCHANGED <<clock, row, shared, api, swarm, net, restarts>>

-----------------------------------------------------------------------------
(* The group exchange, in the swarm task.                                  *)

\* is_owner: by the group_members table, as no owner_id is stored without a
\* signature.
MustSign(n) ==
    /\ row[n] # NoRow
    /\ row[n].sig = None
    /\ member[n].role = "owner"
    /\ member[n].posture \notin {"none", "removed"}

Signed(n) ==
    [row[n] EXCEPT !.sig = [by |-> n, culture |-> row[n].culture,
                            at |-> row[n].updated_at]]

\* build_descriptors up to the signature; storing it is a storage call more.
BuildDescriptors(n, peer, request, tombstoned) ==
    swarm' = [swarm EXCEPT ![n] =
                [at |-> "send", peer |-> peer, request |-> request,
                 desc |-> IF MustSign(n) THEN Signed(n) ELSE row[n],
                 sign |-> MustSign(n), tombstoned |-> tombstoned]]

\* The governor task's SendGroupExchange.  One exchange at a time with a peer.
StartExchange(n, m) ==
    /\ <<n, m>> \in Link
    /\ swarm[n] = Idle
    /\ ~ \E x \in net : \/ x.from = n /\ x.to = m /\ x.request
                        \/ x.from = m /\ x.to = n /\ ~ x.request
    /\ BuildDescriptors(n, m, TRUE, FALSE)
    /\ UNCHANGED <<clock, dbVars, api, net, calls, restarts>>

Respond(n) ==
    /\ swarm[n].at = "respond"
    /\ BuildDescriptors(n, swarm[n].peer, FALSE, swarm[n].tombstoned)
    /\ UNCHANGED <<clock, dbVars, api, net, calls, restarts>>

SendExchange(n) ==
    LET s == swarm[n] IN
    /\ s.at = "send"
    /\ row' = IF s.sign THEN [row EXCEPT ![n] = WriteGroupSignature(@, s.desc.sig)] ELSE row
    /\ net' = net \cup {[from |-> n, to |-> s.peer, request |-> s.request, desc |-> s.desc]}
    /\ swarm' = [swarm EXCEPT ![n] =
                   IF s.tombstoned THEN Unsharing ELSE Idle]
    /\ UNCHANGED <<clock, member, shared, api, calls, restarts>>

\* Fault: signatures are not looked at.
AnySignature(desc) == TRUE

\* verify_descriptor_signature, when there is one.
SignatureOk(desc) ==
    \/ desc.sig = None
    \/ desc.sig.culture = desc.culture /\ desc.sig.at = desc.updated_at

\* Fault: any signed descriptor may replace any other one.
MayReplaceAny(local, desc) ==
    /\ local.sig # None => desc.sig # None
    /\ local.updated_at < desc.updated_at

\* No downgrade to unsigned, no change of owner, and newer than the local row.
MayReplace(local, desc) ==
    /\ local.sig # None => desc.sig # None
    /\ (local.sig # None /\ desc.sig # None) => local.sig.by = desc.sig.by
    /\ local.updated_at < desc.updated_at

\* Fault: only signed descriptors are merged.
AcceptableSigned(n, desc) ==
    /\ desc # NoRow
    /\ desc.culture \notin Oversized
    /\ desc.sig # None /\ SignatureOk(desc)
    /\ row[n] # NoRow => MayReplace(row[n], desc)

\* The checks of merge_descriptors.
Acceptable(n, desc) ==
    /\ desc # NoRow
    /\ desc.culture \notin Oversized
    /\ SignatureOk(desc)
    /\ row[n] # NoRow => MayReplace(row[n], desc)

\* After the merge a request is answered.
Merged(peer, request, tombstoned) ==
    IF request THEN [at |-> "respond", peer |-> peer, tombstoned |-> tombstoned]
    ELSE IF tombstoned THEN Unsharing
    ELSE Idle

\* A request or a response arrives and its descriptor is judged.
ReceiveExchange(x) ==
    LET n == x.to IN
    /\ swarm[n] = Idle
    /\ net' = net \ {x}
    /\ swarm' = [swarm EXCEPT ![n] =
                   IF Acceptable(n, x.desc)
                   THEN [at |-> "write", peer |-> x.from, request |-> x.request,
                         desc |-> x.desc]
                   ELSE Merged(x.from, x.request, FALSE)]
    /\ UNCHANGED <<clock, dbVars, api, calls, restarts>>

MergeWrite(n) ==
    LET s == swarm[n] IN
    /\ s.at = "write"
    /\ row' = [row EXCEPT ![n] = WriteGroup(@, s.desc.culture, s.desc.born)]
    /\ swarm' = [swarm EXCEPT ![n].at = "sign"]
    /\ UNCHANGED <<clock, member, shared, api, net, calls, restarts>>

MergeSign(n) ==
    LET s == swarm[n] IN
    /\ s.at = "sign"
    /\ row' = IF s.desc.sig = None THEN row
              ELSE [row EXCEPT ![n] = WriteGroupSignature(@, s.desc.sig)]
    /\ swarm' = [swarm EXCEPT ![n] =
                   IF IsTombstone(s.desc)
                   THEN [at |-> "members", peer |-> s.peer, request |-> s.request]
                   ELSE Merged(s.peer, s.request, FALSE)]
    /\ UNCHANGED <<clock, member, shared, api, net, calls, restarts>>

MergeMembers(n) ==
    LET s == swarm[n] IN
    /\ s.at = "members"
    /\ member' = [member EXCEPT ![n] = SoftRemove(@)]
    /\ swarm' = [swarm EXCEPT ![n] = Merged(s.peer, s.request, TRUE)]
    /\ UNCHANGED <<clock, row, shared, api, net, calls, restarts>>

Unshare(n) ==
    /\ swarm[n].at = "unshare"
    /\ shared' = [shared EXCEPT ![n] = FALSE]
    /\ swarm' = [swarm EXCEPT ![n] = Idle]
    /\ UNCHANGED <<clock, row, member, api, net, calls, restarts>>

\* A message is lost when it could have been handled: losses do not depend on
\* what the receiver is busy with.
LoseMessage(x) ==
    /\ Lossy
    /\ swarm[x.to] = Idle
    /\ net' = net \ {x}
    /\ UNCHANGED <<clock, dbVars, api, swarm, calls, restarts>>

-----------------------------------------------------------------------------
(* The rest of the node.                                                   *)

\* purge_deleted_groups, daily.
PurgeDeletedGroup(n) ==
    /\ row[n] # NoRow
    /\ IsTombstone(row[n])
    /\ row[n].updated_at + Retention < clock
    /\ row' = [row EXCEPT ![n] = NoRow]
    /\ member' = [member EXCEPT ![n] = NoMember]
    /\ UNCHANGED <<clock, shared, api, swarm, net, calls, restarts>>

\* The database of a node when it starts: groups of the configuration that it
\* does not know are seeded.
Seeded(n, r) ==
    IF n \in Configured /\ r = NoRow THEN WriteGroup(r, Default, clock) ELSE r

\* shared_groups is loaded with every row, tombstones included.
Restart(n) ==
    /\ restarts < MaxRestarts
    /\ restarts' = restarts + 1
    /\ row' = [row EXCEPT ![n] = Seeded(n, @)]
    /\ shared' = [shared EXCEPT ![n] = Seeded(n, row[n]) # NoRow]
    /\ api' = [api EXCEPT ![n] = "idle"]
    /\ swarm' = [swarm EXCEPT ![n] = Idle]
    /\ net' = {x \in net : n \notin {x.from, x.to}}
    /\ UNCHANGED <<clock, member, calls>>

Advance ==
    /\ clock < MaxTime
    /\ clock' = clock + 1
    /\ UNCHANGED <<dbVars, api, swarm, net, calls, restarts>>

Init ==
    /\ clock = 0
    /\ row = [n \in Node |->
                IF n \in Configured
                THEN [culture |-> Default, updated_at |-> 0, sig |-> None, born |-> 0]
                ELSE NoRow]
    /\ member = [n \in Node |-> NoMember]
    /\ shared = [n \in Node |-> n \in Configured]
    /\ api = [n \in Node |-> "idle"]
    /\ swarm = [n \in Node |-> Idle]
    /\ net = {}
    /\ calls = 0
    /\ restarts = 0

ApiStepOf(n) == ShareGroup(n) \/ TombstoneGroup(n) \/ RemoveMembers(n) \/ UnshareGroup(n)

SwarmStepOf(n) ==
    \/ Respond(n) \/ SendExchange(n) \/ MergeWrite(n)
    \/ MergeSign(n) \/ MergeMembers(n) \/ Unshare(n)

Next ==
    \/ \E n \in Node :
          \/ \E culture \in Culture : GroupsCreate(n, culture)
          \/ GroupsDelete(n)
          \/ \E role \in {"owner", "member"} : AddMember(n, role)
          \/ RemoveMember(n)
          \/ \E posture \in {"active", "silent"} : UpdatePosture(n, posture)
          \/ ApiStepOf(n) \/ SwarmStepOf(n)
          \/ PurgeDeletedGroup(n) \/ Restart(n)
          \/ \E m \in Node : StartExchange(n, m)
    \/ \E x \in net : ReceiveExchange(x) \/ LoseMessage(x)
    \/ Advance

Spec == Init /\ [][Next]_vars

\* Tasks keep running, exchanges are repeated every minute, and a message that
\* is sent again and again arrives.
FairSpec ==
    /\ Spec
    /\ WF_vars(Advance)
    /\ \A n \in Node : WF_vars(ApiStepOf(n)) /\ WF_vars(SwarmStepOf(n))
    /\ \A l \in Link :
          /\ SF_vars(StartExchange(l[1], l[2]))
          /\ \A from \in {l[1], l[2]} :
                SF_vars(\E x \in net : /\ x.from = from /\ {x.from, x.to} = {l[1], l[2]}
                                       /\ ReceiveExchange(x))

-----------------------------------------------------------------------------
TypeOK ==
    /\ clock \in Time
    /\ row \in [Node -> Row \cup {NoRow}]
    /\ member \in [Node -> Member]
    /\ shared \in [Node -> BOOLEAN]
    /\ api \in [Node -> ApiStep]
    /\ swarm \in [Node -> Task]
    /\ net \subseteq Message
    /\ calls \in 0 .. MaxCalls /\ restarts \in 0 .. MaxRestarts

\* Once a row is signed it stays signed, by the same owner, until it is purged:
\* merge_descriptors refuses the downgrade and the change of owner, although
\* the row is read, judged and written in separate storage calls.
OwnerFixed ==
    [][\A n \in Node :
          (row[n] # NoRow /\ row[n].sig # None /\ row'[n] # NoRow)
             => row'[n].sig # None /\ row'[n].sig.by = row[n].sig.by]_vars

\* On a node where no client changes the group, a signed row has the culture
\* that its owner signed, whatever the owner's clients do meanwhile.
SignedCultureIsOwners ==
    \A n \in Node \ Admin :
        (row[n] # NoRow /\ row[n].sig # None /\ swarm[n] = Idle)
            => row[n].culture = row[n].sig.culture

\* A group that exists on a node where clients manage it becomes known on every
\* other node, whatever is lost and whenever it is signed, unless it is changed
\* after it was signed or its culture is too large (build_descriptors signs once,
\* merge_descriptors checks).
Announced ==
    \A n \in Admin, m \in Node \ Admin :
        (row[n] # NoRow)
            ~> (row[m] # NoRow \/ row[n] = NoRow
                \/ ~ SignatureOk(row[n]) \/ row[n].culture \in Oversized)

\* The deletion of a group whose descriptor is signed reaches every node that
\* holds an older row of it, unless the group is created again.
DeletesReachAll ==
    \A n \in Admin, m \in Node \ Admin :
        (/\ row[n] # NoRow /\ IsTombstone(row[n]) /\ row[n].sig # None
         /\ row[m] # NoRow /\ row[m].updated_at < row[n].updated_at)
            ~> (row[m] = NoRow \/ IsTombstone(row[m]) \/ ~ IsTombstone(row[n]))

\* A descriptor is accepted only when no client wrote the local culture after
\* the one it carries.
StaleRejected ==
    [][\A n \in Node :
          (swarm[n] = Idle /\ swarm'[n].at = "write" /\ row[n] # NoRow
             /\ swarm'[n].desc.culture # row[n].culture)
             => swarm'[n].desc.born >= row[n].born]_vars

\* On a node where no client changes the group, a deletion that is merged has
\* taken the group out of shared_groups when the swarm task is done with the
\* exchange: the tombstones that merge_descriptors collects are remembered
\* while the request is answered.
DeletesUnshare ==
    \A n \in Node \ Admin :
        (row[n] # NoRow /\ IsTombstone(row[n]) /\ swarm[n] = Idle) => ~ shared[n]

\* A deleted group does not take part in replication.
DeletedNotShared ==
    \A n \in Node :
        (row[n] # NoRow /\ IsTombstone(row[n]) /\ api[n] = "idle" /\ swarm[n] = Idle)
            => ~ shared[n]
=============================================================================
