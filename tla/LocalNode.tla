------------------------------ MODULE LocalNode ------------------------------
(***************************************************************************)
(* One machine's node: the files a start creates or reads (identity key,   *)
(* database, bearer token), the start itself, and the API calls on the     *)
(* local tables (L1 memory, groups, members, devices) once it serves.      *)
(* The process may die between any two steps and is started again.         *)
(*                                                                         *)
(* A step is one file-system call or one SQL statement.  The mutex around  *)
(* the connection keeps other calls out while a storage call of several    *)
(* statements (todo) is under way, but not a crash.                        *)
(***************************************************************************)
EXTENDS SqliteStorage

CONSTANTS
    Key,          \* identity keys that may be generated
    Configured,   \* cfg.node.groups
    OldFiles,     \* databases that may be on the disk at first
    MaxCrashes,   \* bound on crashes
    Concurrent    \* may `identity generate` run beside the node?

(* What holds of every database this program has written, wherever it was  *)
(* interrupted: a start may rely on it.                                    *)
Sound(d) ==
    /\ ForeignKeysHold(d)
    /\ \A r, q \in d.devices : r.id = q.id => r = q
    /\ d.version \in {0} \cup 4..7
    /\ d.version # 0 => "schema_version" \in d.tables
    /\ "owner_id" \notin d.columns => d.columns = {}
    /\ "group_members" \notin d.tables => d.members = NoMembers
    /\ d.version = 7 => "group_members" \in d.tables /\ d.members_new = NoMembers

ASSUME LocalNodeConstants ==
    /\ "absent" \notin Key /\ "empty" \notin Key
    /\ Configured \subseteq Group
    /\ OldFiles \subseteq {d \in Database : Sound(d)}
    /\ MaxCrashes \in Nat
    /\ Concurrent \in BOOLEAN

VARIABLES
    key,      \* the identity key file: "absent", "empty" or a key
    token,    \* the bearer token file: "absent", "empty" or "whole"
    db,       \* the database file
    pc,       \* where the node process is
    ident,    \* the key the process has loaded or generated
    todo,     \* statements left of the storage call in progress
    removing, \* member rows a groups_delete handler has listed and not yet removed
    cli,      \* `cordelia-node identity generate`: <<step, its key>>
    served,   \* history: the key the node last served under
    crashes

files == <<key, token, db>>
vars == <<key, token, db, pc, ident, todo, removing, cli, served, crashes>>

Stage == {"down", "identity", "key_create", "key_write", "v4", "v5", "v6", "v7",
          "token", "token_create", "token_write", "seed", "serving"}
CliIdle == <<"idle", "absent">>

(* The type invariant; device_id is the primary key of devices.            *)
TypeOK ==
    /\ key \in Key \cup {"absent", "empty"}
    /\ token \in {"absent", "empty", "whole"}
    /\ db \in Database
    /\ \A r, q \in db.devices : r.id = q.id => r = q
    /\ pc \in Stage
    /\ ident \in Key \cup {"absent"}
    /\ todo \in Seq(Statement)
    /\ removing \subseteq MemberKey
    /\ cli \in {"idle", "create", "write"} \X (Key \cup {"absent"})
    /\ served \in Key \cup {"absent"}
    /\ crashes \in 0..MaxCrashes

Init ==
    /\ key = "absent" /\ token = "absent"
    /\ db \in OldFiles
    /\ pc = "down" /\ ident = "absent" /\ todo = <<>> /\ removing = {}
    /\ cli = CliIdle
    /\ served = "absent"
    /\ crashes = 0

-----------------------------------------------------------------------------
(* The process ends: what it kept in memory is gone.                       *)
Exit ==
    /\ pc' = "down" /\ ident' = "absent" /\ todo' = <<>> /\ removing' = {}
    /\ UNCHANGED <<files, cli, served>>

Crash ==
    /\ crashes < MaxCrashes /\ crashes' = crashes + 1
    /\ \/ pc # "down" /\ Exit
       \/ /\ cli # CliIdle /\ cli' = CliIdle
          /\ UNCHANGED <<files, pc, ident, todo, removing, served>>

Goto(stage) ==
    /\ pc' = stage
    /\ UNCHANGED <<removing, cli, served, crashes>>

Start ==
    /\ pc = "down"
    /\ Concurrent \/ cli = CliIdle
    /\ Goto("identity")
    /\ UNCHANGED <<files, ident, todo>>

(* load_or_create: an existing file is loaded, and a file that does not    *)
(* hold a key ends the start.  A new key is written with fs::write, which  *)
(* creates the file before it fills it.                                    *)
LoadIdentity ==
    /\ pc = "identity"
    /\ UNCHANGED <<files, todo>>
    /\ \/ key \in Key /\ ident' = key /\ Goto("v4")
       \/ key = "absent" /\ ident' \in Key /\ Goto("key_create")
       \/ key = "empty" /\ Exit /\ UNCHANGED crashes

(* Fault: the key stays in memory and is never saved.                      *)
ForgetKeyFile ==
    /\ pc = "key_create" /\ Goto("v4")
    /\ UNCHANGED <<key, token, db, ident, todo>>

CreateKeyFile ==
    /\ pc = "key_create" /\ key' = "empty" /\ Goto("key_write")
    /\ UNCHANGED <<token, db, ident, todo>>

WriteKeyFile ==
    /\ pc = "key_write" /\ key' = ident /\ Goto("v4")
    /\ UNCHANGED <<token, db, ident, todo>>

(* The same load_or_create run by `cordelia-node identity generate`.       *)
Identity ==
    /\ UNCHANGED <<token, db, pc, ident, todo, removing, served, crashes>>
    /\ \/ /\ cli = CliIdle /\ key = "absent"
          /\ Concurrent \/ pc = "down"
          /\ \E k \in Key : cli' = <<"create", k>>
          /\ UNCHANGED key
       \/ cli[1] = "create" /\ key' = "empty" /\ cli' = <<"write", cli[2]>>
       \/ cli[1] = "write" /\ key' = cli[2] /\ cli' = CliIdle

-----------------------------------------------------------------------------
(* SqliteStorage::open                                                     *)

(* Fault: v6 adds its columns without looking whether they exist.          *)
BatchUnchecked(stage) ==
    CASE stage = "v4" -> IF "schema_version" \in db.tables THEN <<>> ELSE schema_v4
      [] stage = "v5" -> IF db.version = 4 THEN schema_v5 ELSE <<>>
      [] stage = "v6" -> IF db.version = 5 THEN schema_v6 ELSE <<>>
      [] stage = "v7" -> IF db.version = 6 THEN schema_v7 ELSE <<>>

(* The batches ensure_schema runs, one stage per version it looks at.      *)
Batch(stage) ==
    CASE stage = "v4" -> IF "schema_version" \in db.tables THEN <<>> ELSE schema_v4
      [] stage = "v5" -> IF db.version = 4 THEN schema_v5 ELSE <<>>
      [] stage = "v6" -> IF db.version # 5 THEN <<>>
                         ELSE IF "owner_id" \in db.columns THEN <<Bump(6)>>
                         ELSE schema_v6
      [] stage = "v7" -> IF db.version = 6 THEN schema_v7 ELSE <<>>

After == [v4 |-> "v5", v5 |-> "v6", v6 |-> "v7", v7 |-> "token"]

EnsureSchema ==
    /\ pc \in DOMAIN After /\ todo = <<>>
    /\ \/ /\ pc = "v4" \/ db.version >= 4
          /\ todo' = Batch(pc)
          /\ Goto(After[pc])
          /\ UNCHANGED <<files, ident>>
       \/ pc # "v4" /\ db.version < 4 /\ Exit /\ UNCHANGED crashes

(* The next statement of a storage call.  A failing statement ends the     *)
(* call: during the start that ends the process, later the caller gets the *)
(* error.                                                                  *)
Execute ==
    /\ todo # <<>>
    /\ \/ /\ ~ Fails(db, Head(todo))
          /\ db' = Effect(db, Head(todo)) /\ todo' = Tail(todo)
          /\ UNCHANGED <<key, token, pc, ident, removing, cli, served, crashes>>
       \/ /\ Fails(db, Head(todo)) /\ pc = "serving"
          /\ todo' = <<>>
          /\ UNCHANGED <<files, pc, ident, removing, cli, served, crashes>>
       \/ Fails(db, Head(todo)) /\ pc # "serving" /\ Exit /\ UNCHANGED crashes

(* load_or_create_token                                                    *)
LoadToken ==
    /\ pc = "token" /\ todo = <<>>
    /\ Goto(IF token = "absent" THEN "token_create" ELSE "seed")
    /\ UNCHANGED <<files, ident, todo>>

WriteToken ==
    /\ \/ pc = "token_create" /\ token' = "empty" /\ Goto("token_write")
       \/ pc = "token_write" /\ token' = "whole" /\ Goto("seed")
    /\ UNCHANGED <<key, db, ident, todo>>

(* Configured groups that cannot be read count as missing.  Nothing else   *)
(* runs yet and a seeding cut short is repeated by the next start, so it   *)
(* is one step.                                                            *)
Missing(g) == ~ GroupsReadable(db) \/ db.groups[g] = "absent"

SeedGroups ==
    /\ pc = "seed"
    /\ db' = [db EXCEPT !.groups = [g \in Group |->
                            IF g \in Configured /\ Missing(g) THEN Chatty ELSE @[g]],
                        !.expired = @ \ {g \in Configured : Missing(g)}]
    /\ pc' = "serving" /\ served' = ident
    /\ UNCHANGED <<key, token, ident, todo, removing, cli, crashes>>

-----------------------------------------------------------------------------
(* API calls and the daily purge                                           *)

CanCall == pc = "serving" /\ todo = <<>>

(* A storage call of one statement, which has no effect when it fails.     *)
Update(d) ==
    /\ CanCall /\ KeepsForeignKeys(d)
    /\ db' = d
    /\ UNCHANGED <<key, token, pc, ident, todo, cli, served, crashes>>

Call(statements) ==
    /\ CanCall /\ todo' = statements
    /\ UNCHANGED <<files, pc, ident, removing, cli, served, crashes>>

WriteL1(e, data) == [db EXCEPT !.l1[e] = data]
DeleteL1(e) == [db EXCEPT !.l1[e] = "absent"]

l1_write(e, data) == Update(WriteL1(e, data)) /\ UNCHANGED removing

l1_delete(e) == Update(DeleteL1(e)) /\ UNCHANGED removing

WriteGroup(g, culture) ==
    [db EXCEPT !.groups[g] = culture, !.expired = @ \ {g}]

groups_create(g, culture) ==
    Update(WriteGroup(g, culture)) /\ UNCHANGED removing

(* The tombstone is written and the remaining members are listed; each is  *)
(* then removed by a storage call of its own.                              *)
groups_delete(g) ==
    /\ GroupsReadable(db) /\ db.groups[g] # "absent"
    /\ Update(WriteGroup(g, Tombstone))
    /\ removing' = removing \cup
           {k \in MemberKey : k[1] = g /\ db.members[k] \notin {"absent", "removed"}}

SetPosture(k, posture) ==
    /\ db.members[k] # "absent"
    /\ Update([db EXCEPT !.members[k] = posture])

SoftRemove(k) ==
    /\ k \in removing /\ removing' = removing \ {k}
    /\ \/ SetPosture(k, "removed")
       \/ CanCall /\ db.members[k] = "absent"
          /\ UNCHANGED <<files, pc, ident, todo, cli, served, crashes>>

groups_add_member(g, e) == Call(<<InsertStub(e), UpsertMember(g, e)>>)

groups_remove_member(k) ==
    db.members[k] # "removed" /\ SetPosture(k, "removed") /\ UNCHANGED removing

groups_update_posture(k, posture) ==
    SetPosture(k, posture) /\ UNCHANGED removing

purge_deleted_groups == Call(<<PurgeMembers, PurgeGroups>>)

(* Time passes for the tombstone of a group, whatever else goes on.        *)
Expire(g) ==
    /\ db.groups[g] = Tombstone /\ g \notin db.expired
    /\ db' = [db EXCEPT !.expired = @ \cup {g}]
    /\ UNCHANGED <<key, token, pc, ident, todo, removing, cli, served, crashes>>

(* Fault: a plain INSERT, without the conflict clause or the key.          *)
RegisteredTwice(d, e, t) ==
    db.devices \cup {[id |-> d, entity |-> e, token |-> t, revoked |-> FALSE]}

(* Fault: registering a device again makes it valid again.                 *)
Reinstated(d, e, t) ==
    {r \in db.devices : r.id # d} \cup {[id |-> d, entity |-> e, token |-> t, revoked |-> FALSE]}

(* INSERT ... ON CONFLICT(device_id): the entity and revoked_at stay.      *)
Registered(d, e, t) ==
    IF \E r \in db.devices : r.id = d
    THEN {IF r.id = d THEN [r EXCEPT !.token = t] ELSE r : r \in db.devices}
    ELSE db.devices \cup {[id |-> d, entity |-> e, token |-> t, revoked |-> FALSE]}

devices_register(d, e, t) ==
    /\ "devices" \in db.tables
    /\ Update([db EXCEPT !.devices = Registered(d, e, t)])
    /\ UNCHANGED removing

Revoked(d, e) ==
    {IF r.id = d /\ r.entity = e THEN [r EXCEPT !.revoked = TRUE] ELSE r : r \in db.devices}

devices_revoke(d, e) ==
    /\ "devices" \in db.tables
    /\ Update([db EXCEPT !.devices = Revoked(d, e)])
    /\ UNCHANGED removing

Api ==
    \/ \E e \in Entity : l1_delete(e) \/ \E data \in Blob : l1_write(e, data)
    \/ \E g \in Group : groups_delete(g) \/ \E c \in Culture : groups_create(g, c)
    \/ \E g \in Group, e \in Entity : groups_add_member(g, e)
    \/ \E k \in MemberKey :
          \/ SoftRemove(k)
          \/ groups_remove_member(k)
          \/ \E posture \in Posture \ {"removed"} : groups_update_posture(k, posture)
    \/ \E d \in Device, e \in Entity :
          devices_revoke(d, e) \/ \E t \in Token : devices_register(d, e, t)

Boot == Start \/ LoadIdentity \/ CreateKeyFile \/ WriteKeyFile \/ EnsureSchema
        \/ LoadToken \/ WriteToken \/ SeedGroups

Next == Boot \/ Execute \/ Identity \/ Crash \/ Api \/ purge_deleted_groups
        \/ \E g \in Group : Expire(g)

Spec == Init /\ [][Next]_vars

(* The process runs as long as it has something to do and is started again *)
(* after it ended; the command line tool runs to its end.                  *)
FairSpec == Spec /\ WF_vars(Boot) /\ WF_vars(Execute) /\ WF_vars(cli # CliIdle /\ Identity)
-----------------------------------------------------------------------------
(* Properties                                                              *)

(* No statement, migration or interrupted call leaves a member row that    *)
(* names a missing group or a missing L1 row: deletes of either wait for   *)
(* the members, and the purge removes members first although its two       *)
(* statements compare with the clock separately.                           *)
ForeignKeys == ForeignKeysHold(db)

HasRow(d, k) == d.members[k] # "absent" \/ d.members_new[k] # "absent"

(* A membership is only ever erased by the purge of its deleted group:     *)
(* wherever the rebuild of group_members for version 7 is interrupted, one *)
(* of the two tables holds the row.                                        *)
MembersKept ==
    [][\A k \in MemberKey :
          HasRow(db, k) => HasRow(db', k) \/ db.groups[k[1]] = Tombstone]_vars

(* A node that serves has the last version's group_members table, with all *)
(* members in it: no half-done migration is ever taken for a finished one. *)
ServesMembers ==
    pc = "serving" =>
        /\ db.version = 7 /\ "group_members" \in db.tables
        /\ db.members_new = NoMembers

(* Once the node has served under an identity it serves under no other,    *)
(* whatever crashes and runs of `identity generate` come between: peers    *)
(* know it by that identity.                                               *)
IdentityKept == [][served # "absent" => served' = served]_vars

(* A revoked device stays revoked, also when it is registered again.       *)
RevocationFinal ==
    [][\A r \in db.devices : r.revoked =>
          \E q \in db'.devices : q.id = r.id /\ q.revoked]_vars

(* The three states of the disk no start recovers from: a key file created *)
(* but not written, a schema_version table without its row, and version 6  *)
(* without group_members (schema_v4.sql cut short, or schema_v7.sql cut    *)
(* between DROP and RENAME).                                               *)
Damaged ==
    \/ key = "empty"
    \/ "schema_version" \in db.tables /\ db.version = 0
    \/ db.version = 6 /\ "group_members" \notin db.tables

(* A start ends by itself only on a disk that a crash left in one of these *)
(* states: whatever else was interrupted, no statement of a later          *)
(* migration fails on a column, table or reference it finds.               *)
StartFailsDamaged ==
    [][pc # "down" /\ pc' = "down" /\ crashes' = crashes => Damaged]_vars

(* From every database the node may meet, and after crashes anywhere, the  *)
(* node ends up serving, unless a crash hit one of the windows of Damaged. *)
StartsAgain == <>[](pc = "serving") \/ <>[]Damaged

(* Claims the code does not keep.                                          *)

(* An opened database has the tables of every version: "initialize schema  *)
(* v4 then apply migrations".                                              *)
MigrationsApplied == pc = "serving" => "devices" \in db.tables

(* "Seed config-defined groups into storage (idempotent)".                 *)
SeedIdempotent ==
    [][pc = "seed" => \A g \in Group :
          db.groups[g] # "absent" => db'.groups[g] = db.groups[g]]_vars
=============================================================================
