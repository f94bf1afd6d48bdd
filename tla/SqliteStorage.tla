---------------------------- MODULE SqliteStorage ----------------------------
(***************************************************************************)
(* The node's database file: the tables of cordelia-storage, the SQL       *)
(* statements that change them and the batches that open and migrate a     *)
(* database.  A batch is a sequence of statements; SQLite commits each     *)
(* statement on its own (execute_batch opens no transaction), so a crash   *)
(* may leave any prefix of a batch behind.                                 *)
(*                                                                         *)
(* Only what the properties tell apart is kept: whether a row exists, an   *)
(* L1 blob, a group's culture, a member's posture, a device's token.  The  *)
(* L2 items are the subject of ItemReplication, the signatures of groups   *)
(* that of GroupDescriptors.  access_log, audit and embedding_cache are    *)
(* never read.                                                             *)
(***************************************************************************)
EXTENDS Naturals, Sequences

CONSTANTS
    Entity,      \* user and entity ids
    Group,       \* group ids
    Device,      \* device ids
    Token,       \* auth token hashes
    Blob,        \* L1 data other than the stub
    Culture      \* cultures an API client gives a group

(* "absent" stands for a row that does not exist.                          *)
Stub == "{}"
Tombstone == "__deleted__"
Chatty == "chatty"
Posture == {"active", "silent", "emcon", "removed"}
OwnerColumns == {"owner_id", "owner_pubkey", "signature"}
Table == {"l1_hot", "l2_items", "schema_version", "l2_fts", "groups",
          "group_members", "group_members_new", "access_log", "devices"}

ASSUME RowsAreRows ==
    /\ "absent" \notin Blob
    /\ "absent" \notin Culture
    /\ Tombstone \notin Culture

MemberKey == Group \X Entity
DeviceRow == [id : Device, entity : Entity, token : Token, revoked : BOOLEAN]

Database == [
    version : Nat,                 \* schema_version; 0 when it has no row
    tables  : SUBSET Table,
    columns : SUBSET OwnerColumns, \* of groups
    l1      : [Entity -> Blob \cup {Stub, "absent"}],
    groups  : [Group -> Culture \cup {Chatty, Tombstone, "absent"}],
    expired : SUBSET Group,        \* groups whose updated_at is past the retention
    members     : [MemberKey -> Posture \cup {"absent"}],
    members_new : [MemberKey -> Posture \cup {"absent"}],
    devices : SUBSET DeviceRow]

NoMembers == [k \in MemberKey |-> "absent"]

EmptyFile == [
    version |-> 0, tables |-> {}, columns |-> {},
    l1 |-> [e \in Entity |-> "absent"], groups |-> [g \in Group |-> "absent"],
    expired |-> {}, members |-> NoMembers, members_new |-> NoMembers, devices |-> {}]

-----------------------------------------------------------------------------
(* The statements                                                          *)

Create(t) == [op |-> "create", table |-> t]
InsertVersion(v) == [op |-> "insert_version", to |-> v]
Bump(v) == [op |-> "bump", to |-> v]
AddColumn(c) == [op |-> "add_column", column |-> c]
CopyMembers == [op |-> "copy"]
DropMembers == [op |-> "drop"]
RenameMembers == [op |-> "rename"]
InsertStub(e) == [op |-> "stub", entity |-> e]
UpsertMember(g, e) == [op |-> "member", key |-> <<g, e>>]
PurgeMembers == [op |-> "purge_members"]
PurgeGroups == [op |-> "purge_groups"]

Statement ==
    {Create(t) : t \in Table} \cup {InsertVersion(v) : v \in 4..7}
    \cup {Bump(v) : v \in 4..7} \cup {AddColumn(c) : c \in OwnerColumns}
    \cup {CopyMembers, DropMembers, RenameMembers, PurgeMembers, PurgeGroups}
    \cup {InsertStub(e) : e \in Entity}
    \cup {UpsertMember(k[1], k[2]) : k \in MemberKey}

(* Foreign keys: a group_members row names a group and an L1 row.          *)
Refers(d, k) == d.groups[k[1]] # "absent" /\ d.l1[k[2]] # "absent"
ForeignKeysHold(d) ==
    \A k \in MemberKey :
        d.members[k] # "absent" \/ d.members_new[k] # "absent" => Refers(d, k)

(* Fault: the connection is opened without PRAGMA foreign_keys.            *)
NoForeignKeys(d) == TRUE

(* PRAGMA foreign_keys = ON: a statement after which a reference dangles   *)
(* fails as a whole.                                                       *)
KeepsForeignKeys(d) == ForeignKeysHold(d)

(* Rows of both tables, the newer table's rows first kept (INSERT OR IGNORE). *)
Merged(d) == [k \in MemberKey |->
    IF d.members_new[k] = "absent" THEN d.members[k] ELSE d.members_new[k]]

Expired(d) == {g \in d.expired : d.groups[g] = Tombstone}

(* What a statement does to the database, when it does not fail.           *)
Effect(d, s) ==
    CASE s.op = "create" ->
            [d EXCEPT !.tables = @ \cup {s.table},
                      !.columns = IF s.table = "groups" /\ "groups" \notin d.tables
                                  THEN OwnerColumns ELSE @]
      [] s.op = "insert_version" -> [d EXCEPT !.version = s.to]
      [] s.op = "bump" ->
            [d EXCEPT !.version = IF @ = s.to - 1 THEN s.to ELSE @]
      [] s.op = "add_column" -> [d EXCEPT !.columns = @ \cup {s.column}]
      [] s.op = "copy" -> [d EXCEPT !.members_new = Merged(d)]
      [] s.op = "drop" ->
            [d EXCEPT !.tables = @ \ {"group_members"}, !.members = NoMembers]
      [] s.op = "rename" ->
            [d EXCEPT !.tables = (@ \ {"group_members_new"}) \cup {"group_members"},
                      !.members = d.members_new, !.members_new = NoMembers]
      [] s.op = "stub" ->
            [d EXCEPT !.l1[s.entity] = IF @ = "absent" THEN Stub ELSE @]
      [] s.op = "member" -> [d EXCEPT !.members[s.key] = "active"]
      [] s.op = "purge_members" ->
            [d EXCEPT !.members = [k \in MemberKey |->
                IF k[1] \in Expired(d) THEN "absent" ELSE @[k]]]
      [] s.op = "purge_groups" ->
            [d EXCEPT !.groups = [g \in Group |->
                          IF g \in Expired(d) THEN "absent" ELSE @[g]],
                      !.expired = @ \ Expired(d)]
      [] OTHER -> d

(* A statement on a table or column that is not as it expects fails, and   *)
(* so does one that breaks a reference.                                    *)
Fails(d, s) ==
    \/ s.op = "add_column" /\ s.column \in d.columns
    \/ s.op \in {"copy", "drop"} /\ "group_members" \notin d.tables
    \/ s.op = "rename" /\ "group_members" \in d.tables
    \/ ~ KeepsForeignKeys(Effect(d, s))

-----------------------------------------------------------------------------
(* schema_v4.sql, which creates the tables of version 6 except devices.    *)
schema_v4 == <<
    Create("l1_hot"), Create("l2_items"), Create("schema_version"), InsertVersion(6),
    Create("l2_fts"), Create("groups"), Create("group_members"), Create("access_log")>>

schema_v5 == <<Create("devices"), Bump(5)>>

schema_v6 == <<AddColumn("owner_id"), AddColumn("owner_pubkey"),
               AddColumn("signature"), Bump(6)>>

(* Fault: the old table is dropped before its rows are copied.             *)
schema_v7_dropFirst == <<Create("group_members_new"), DropMembers, CopyMembers,
                         RenameMembers, Bump(7)>>

(* Fault: the version is raised before the table is rebuilt.               *)
schema_v7_bumpFirst == <<Bump(7), Create("group_members_new"), CopyMembers,
                         DropMembers, RenameMembers>>

(* SQLite cannot alter a CHECK constraint, so the table is rebuilt.        *)
schema_v7 == <<Create("group_members_new"), CopyMembers, DropMembers,
               RenameMembers, Bump(7)>>

(* Can SELECTs that name the owner columns run?  (read_group, list_groups) *)
GroupsReadable(d) == d.columns = OwnerColumns
=============================================================================
