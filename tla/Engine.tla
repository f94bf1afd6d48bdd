------------------------------- MODULE Engine -------------------------------
(***************************************************************************)
(* The pure part of item replication: the two timestamp formats and their  *)
(* string order, the rows of table l2_items, the items put on the wire,    *)
(* and the decision ReplicationEngine::on_receive takes about one of them. *)
(*                                                                         *)
(* A blob is the ordinal of the API write that produced it, so that two    *)
(* blobs have the same checksum exactly when they are the same write, and  *)
(* b1 < b2 says that b1 was written first.  Ordinal 0 is no blob at all:   *)
(* an absent row, or the empty payload of a tombstone.                     *)
(***************************************************************************)
EXTENDS Integers, Sequences

CONSTANTS
    Item,       \* item ids
    Group,      \* group ids
    NoGroup     \* group_id = NULL: a private item

ASSUME NoGroupAssumption == NoGroup \notin Group

MaybeGroup == Group \cup {NoGroup}

-----------------------------------------------------------------------------
(* Timestamps.  A clock reading has a date, a second of the day and a      *)
(* fraction of that second.                                                *)

Clock == [day : Nat, sec : Nat, sub : Nat]

Space  == 0     \* the separator in "2026-03-01 10:15:30"
LetterT == 1    \* the separator in "2026-03-01T10:15:30.25+00:00"; ' ' < 'T'

Stamp == [day : Nat, sep : {Space, LetterT}, sec : Nat, sub : Nat]

\* Fault: datetime('now', 'localtime') on a machine east of Greenwich.
DatetimeNowLocal(c) ==
    [day |-> c.day + 1, sep |-> Space, sec |-> c.sec, sub |-> 0]

\* SQLite's datetime('now'): a blank between date and time, whole seconds.
DatetimeNow(c) == [day |-> c.day, sep |-> Space, sec |-> c.sec, sub |-> 0]

\* chrono::Utc::now().to_rfc3339(): the letter T, and the fraction.
ToRfc3339(c) == [day |-> c.day, sep |-> LetterT, sec |-> c.sec, sub |-> c.sub]

\* s < t as strings: the first field that differs decides.
StampLess(s, t) ==
    \/ s.day < t.day
    \/ s.day = t.day /\ s.sep < t.sep
    \/ s.day = t.day /\ s.sep = t.sep /\ s.sec < t.sec
    \/ s.day = t.day /\ s.sep = t.sep /\ s.sec = t.sec /\ s.sub < t.sub

StampLeq(s, t) == ~ StampLess(t, s)

Epoch == [day |-> 0, sep |-> Space, sec |-> 0, sub |-> 0]

-----------------------------------------------------------------------------
(* Rows and wire items.                                                    *)

Row == [blob : Nat, group : MaybeGroup, at : Stamp]

NoRow == [blob |-> 0, group |-> NoGroup, at |-> Epoch]

Present(row) == row.blob # 0

FetchedItem ==
    [id : Item, tombstone : BOOLEAN, blob : Nat, group : MaybeGroup, at : Stamp]

RowOf(item) == [blob |-> item.blob, group |-> item.group, at |-> item.at]

\* What a node reports of a write to its replication task.
WriteNotification ==
    [id : Item, tombstone : BOOLEAN, blob : Nat, group : MaybeGroup]

Strategy == {"EagerPush", "Passive"}

\* The item an eager push carries: stamped when the notification is handled,
\* not when the row was written.
BroadcastItem(notif, c) ==
    [id |-> notif.id, tombstone |-> notif.tombstone, blob |-> notif.blob,
     group |-> notif.group, at |-> ToRfc3339(c)]

-----------------------------------------------------------------------------
(* on_receive: what becomes of an item when the row read is `existing` and *)
(* the groups accepted are `accepts`.  Sizes and checksums are always in   *)
(* order here: the API refuses an oversized blob before it is stored, and  *)
(* a blob determines its checksum.                                         *)

LastWriterWins(existing, item) ==
    \/ ~ Present(existing)
    \/ existing.blob # item.blob /\ StampLess(existing.at, item.at)

\* Fault: no test of the item's group.
OnReceiveAnyGroup(existing, item, accepts) ==
    IF item.tombstone THEN IF Present(existing) THEN "delete" ELSE "duplicate"
    ELSE IF LastWriterWins(existing, item) THEN "store" ELSE "duplicate"

\* Fault: an outdated item removes the row.
OnReceiveStaleDeletes(existing, item, accepts) ==
    IF item.group \notin accepts THEN "reject"
    ELSE IF item.tombstone
         THEN IF Present(existing) THEN "delete" ELSE "duplicate"
    ELSE IF LastWriterWins(existing, item) THEN "store" ELSE "delete"

OnReceive(existing, item, accepts) ==
    IF item.group \notin accepts THEN "reject"
    ELSE IF item.tombstone
         THEN IF Present(existing) THEN "delete" ELSE "duplicate"
    ELSE IF LastWriterWins(existing, item) THEN "store" ELSE "duplicate"

=============================================================================
