----------------------------- MODULE MCLocalNode -----------------------------
EXTENDS LocalNode

CONSTANTS user, guest, team

(* Databases of older versions: one group with one member.                 *)
Old(v, tables, columns) ==
    [EmptyFile EXCEPT
        !.version = v,
        !.tables = {"l1_hot", "l2_items", "schema_version", "l2_fts", "groups",
                    "group_members", "access_log"} \cup tables,
        !.columns = columns,
        !.l1[user] = CHOOSE data \in Blob : TRUE,
        !.groups[team] = CHOOSE c \in Culture : TRUE,
        !.members[<<team, user>>] = "silent"]

OldVersions == {
    EmptyFile,
    Old(4, {}, {}), Old(4, {}, OwnerColumns),
    Old(5, {"devices"}, {}), Old(5, {"devices"}, OwnerColumns),
    Old(6, {"devices"}, OwnerColumns)}

NewMachine == {EmptyFile}
Upgrade == {Old(4, {}, {})}
=============================================================================
