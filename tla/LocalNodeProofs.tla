--------------------------- MODULE LocalNodeProofs ---------------------------
(***************************************************************************)
(* Proofs about LocalNode, for every set of entities, groups, devices and  *)
(* keys, every sound database a start may meet and any number of crashes:  *)
(* the database stays sound between any two statements, so that references *)
(* hold, a membership is only erased with its group and a half-done        *)
(* migration is never served; revocations are final; and the node keeps    *)
(* its identity.                                                           *)
(***************************************************************************)
EXTENDS LocalNode, SequenceTheorems, TLAPS

(* What is left of a batch from its n-th statement on.                     *)
Left(batch, n) == SubSeq(batch, n, Len(batch))

LEMMA LeftStep ==
    ASSUME NEW batch \in Seq(Statement), NEW m \in Nat, Len(batch) = m, NEW n \in 1..m
    PROVE  /\ Left(batch, n) \in Seq(Statement)
           /\ Left(batch, n) # <<>>
           /\ Head(Left(batch, n)) = batch[n]
           /\ Tail(Left(batch, n)) = Left(batch, n + 1)
           /\ Left(batch, m + 1) = <<>>
<1>1. Left(batch, n) \in Seq(Statement) /\ Len(Left(batch, n)) = m - n + 1
  BY SubSeqProperties DEF Left
<1>2. /\ Head(Left(batch, n)) = batch[n]
      /\ Tail(Left(batch, n)) = Left(batch, n + 1)
  BY HeadTailOfSubSeq DEF Left
<1>3. Left(batch, m + 1) = <<>>
  BY SubSeqEmpty DEF Left
<1> QED
  BY <1>1, <1>2, <1>3

LEMMA LeftAll ==
    ASSUME NEW batch \in Seq(Statement)
    PROVE  Left(batch, 1) = batch
  BY SubSeqFull DEF Left

-----------------------------------------------------------------------------
(* What each statement does                                                *)

LEMMA Statements ==
    /\ \A t \in Table : Create(t) \in Statement
    /\ \A v \in 4..7 : InsertVersion(v) \in Statement /\ Bump(v) \in Statement
    /\ \A c \in OwnerColumns : AddColumn(c) \in Statement
    /\ {CopyMembers, DropMembers, RenameMembers, PurgeMembers, PurgeGroups} \subseteq Statement
    /\ \A e \in Entity : InsertStub(e) \in Statement
    /\ \A g \in Group, e \in Entity : UpsertMember(g, e) \in Statement
<1>1. \A g \in Group, e \in Entity : UpsertMember(g, e) \in Statement
  <2> SUFFICES ASSUME NEW g \in Group, NEW e \in Entity
               PROVE  UpsertMember(g, e) \in Statement
    OBVIOUS
  <2>1. <<g, e>> \in MemberKey /\ UpsertMember(<<g, e>>[1], <<g, e>>[2]) = UpsertMember(g, e)
    BY DEF MemberKey
  <2> HIDE DEF UpsertMember
  <2> QED
    BY <2>1 DEF Statement
<1> QED
  BY <1>1 DEF Statement

(* What a statement needs to find, so that the database it leaves is sound *)
(* and has all its members.                                                *)
Safe(d, s) ==
    /\ s.op = "insert_version" => "schema_version" \in d.tables /\ s.to = 6
    /\ s.op = "bump" /\ s.to = 7 =>
          "group_members" \in d.tables /\ d.members_new = NoMembers
    /\ s.op = "add_column" => s.column = "owner_id" \/ "owner_id" \in d.columns
    /\ s.op \in {"copy", "drop"} => d.version # 7
    /\ s.op = "drop" =>
          \A k \in MemberKey : d.members[k] # "absent" => d.members_new[k] # "absent"
    /\ s.op = "member" => "group_members" \in d.tables

Kept(d, e) ==
    \A k \in MemberKey : HasRow(d, k) => HasRow(e, k) \/ d.groups[k[1]] = Tombstone

LEMMA StatementKinds ==
    ASSUME NEW s \in Statement
    PROVE  \/ \E t \in Table : s = Create(t)
           \/ \E v \in 4..7 : s = InsertVersion(v)
           \/ \E v \in 4..7 : s = Bump(v)
           \/ \E c \in OwnerColumns : s = AddColumn(c)
           \/ s = CopyMembers \/ s = DropMembers \/ s = RenameMembers
           \/ \E e \in Entity : s = InsertStub(e)
           \/ \E g \in Group, e \in Entity : s = UpsertMember(g, e)
           \/ s = PurgeMembers \/ s = PurgeGroups
<1>1. ASSUME NEW k \in MemberKey, s = UpsertMember(k[1], k[2])
      PROVE  \E g \in Group, e \in Entity : s = UpsertMember(g, e)
  <2>1. k[1] \in Group /\ k[2] \in Entity
    BY DEF MemberKey
  <2> QED
    BY <1>1, <2>1
<1> QED
  BY <1>1 DEF Statement

\* What the statements do to the version, the tables, the columns and the
\* table that schema_v7 copies.
LEMMA CreateEffect ==
    ASSUME NEW d \in Database, NEW t
    PROVE  /\ Effect(d, Create(t)).version = d.version
           /\ Effect(d, Create(t)).tables = d.tables \cup {t}
BY Zenon DEF Effect, Create, Database

\* ALTER TABLE ... ADD COLUMN of schema_v6.
LEMMA ColumnEffect ==
    ASSUME NEW d \in Database, NEW c
    PROVE  /\ Effect(d, AddColumn(c)).version = d.version
           /\ Effect(d, AddColumn(c)).columns = d.columns \cup {c}
BY DEF Effect, AddColumn, Database

\* The DROP and the RENAME of schema_v7.
LEMMA RebuildEffect ==
    ASSUME NEW d \in Database
    PROVE  /\ Effect(d, DropMembers).version = d.version
           /\ "group_members" \notin Effect(d, DropMembers).tables
           /\ Effect(d, RenameMembers).version = d.version
           /\ "group_members" \in Effect(d, RenameMembers).tables
           /\ Effect(d, RenameMembers).members_new = NoMembers
<1>1. /\ Effect(d, DropMembers).version = d.version
      /\ "group_members" \notin Effect(d, DropMembers).tables
  BY Zenon DEF Effect, DropMembers, Database
<1>2. /\ Effect(d, RenameMembers).version = d.version
      /\ "group_members" \in Effect(d, RenameMembers).tables
      /\ Effect(d, RenameMembers).members_new = NoMembers
  BY Zenon DEF Effect, RenameMembers, Database
<1> QED
  BY <1>1, <1>2, Zenon

\* add_member and purge_deleted_groups leave the version alone.
LEMMA CallEffect ==
    ASSUME NEW d \in Database
    PROVE  /\ \A e : Effect(d, InsertStub(e)).version = d.version
           /\ \A g, e : Effect(d, UpsertMember(g, e)).version = d.version
           /\ Effect(d, PurgeMembers).version = d.version
           /\ Effect(d, PurgeGroups).version = d.version
<1>1. \A e : Effect(d, InsertStub(e)).version = d.version
  BY DEF Effect, InsertStub, Database
<1>2. \A g, e : Effect(d, UpsertMember(g, e)).version = d.version
  BY DEF Effect, UpsertMember, Database
<1>3. Effect(d, PurgeMembers).version = d.version
  BY DEF Effect, PurgeMembers, Database
<1>4. Effect(d, PurgeGroups).version = d.version
  BY Zenon DEF Effect, PurgeGroups, Database
<1> QED
  BY <1>1, <1>2, <1>3, <1>4, Zenon

\* What inserting the version, and moving it on by one, does.
LEMMA VersionEffect ==
    ASSUME NEW d \in Database, NEW v
    PROVE  /\ Effect(d, InsertVersion(v)).tables = d.tables
           /\ d.version = v - 1 => Effect(d, Bump(v)).version = v
<1>1. Effect(d, InsertVersion(v)).tables = d.tables
  BY DEF Effect, InsertVersion, Database
<1>2. d.version = v - 1 => Effect(d, Bump(v)).version = v
  BY DEF Effect, Bump, Database
<1> QED
  BY <1>1, <1>2

LEMMA StatementSound ==
    ASSUME NEW d \in Database, Sound(d), NEW s \in Statement,
           ~ Fails(d, s), Safe(d, s)
    PROVE  /\ Effect(d, s) \in Database
           /\ Sound(Effect(d, s))
           /\ Effect(d, s).devices = d.devices
           /\ Kept(d, Effect(d, s))
<1> DEFINE e == Effect(d, s)
           Good == /\ e \in Database /\ Sound(e) /\ e.devices = d.devices /\ Kept(d, e)
<1> SUFFICES Good
  OBVIOUS
<1>f. ForeignKeysHold(e)
  BY DEF Fails, KeepsForeignKeys
<1>n. /\ NoMembers \in [MemberKey -> Posture \cup {"absent"}]
      /\ \A k \in MemberKey : NoMembers[k] = "absent"
  BY DEF NoMembers
<1>0. Expired(d) \subseteq {g \in Group : d.groups[g] = Tombstone}
  BY DEF Expired, Database
<1> USE <1>f, <1>n DEF Sound, Kept, HasRow, Database
<1> HIDE DEF e
<1>1. ASSUME NEW t \in Table, s = Create(t) PROVE Good
  <2>1. e = [d EXCEPT !.tables = @ \cup {t},
                      !.columns = IF t = "groups" /\ "groups" \notin d.tables
                                  THEN OwnerColumns ELSE @]
    BY <1>1 DEF Effect, Create, e
  <2> QED
    BY <2>1, ZenonT(30) DEF OwnerColumns
<1>2. ASSUME NEW v \in 4..7, s = InsertVersion(v) PROVE Good
  <2>1. e = [d EXCEPT !.version = v]
    BY <1>2 DEF Effect, InsertVersion, e
  <2>2. v = 6 /\ "schema_version" \in d.tables
    BY <1>2 DEF Safe, InsertVersion
  <2> QED
    BY <2>1, <2>2
<1>3. ASSUME NEW v \in 4..7, s = Bump(v) PROVE Good
  <2>1. e = [d EXCEPT !.version = IF @ = v - 1 THEN v ELSE @]
    BY <1>3 DEF Effect, Bump, e
  <2>2. v = 7 => "group_members" \in d.tables /\ d.members_new = NoMembers
    BY <1>3 DEF Safe, Bump
  <2> QED
    BY <2>1, <2>2
<1>4. ASSUME NEW c \in OwnerColumns, s = AddColumn(c) PROVE Good
  <2>1. e = [d EXCEPT !.columns = @ \cup {c}]
    BY <1>4 DEF Effect, AddColumn, e
  <2>2. c = "owner_id" \/ "owner_id" \in d.columns
    BY <1>4 DEF Safe, AddColumn
  <2> QED
    BY <2>1, <2>2
<1>5. CASE s = CopyMembers
  <2>1. e = [d EXCEPT !.members_new = Merged(d)]
    BY <1>5 DEF Effect, CopyMembers, e
  <2>2. d.version # 7
    BY <1>5 DEF Safe, CopyMembers
  <2>3. /\ Merged(d) \in [MemberKey -> Posture \cup {"absent"}]
        /\ \A k \in MemberKey : HasRow(d, k) => Merged(d)[k] # "absent"
    BY DEF Merged
  <2> QED
    BY <2>1, <2>2, <2>3
<1>6. CASE s = DropMembers
  <2>1. e = [d EXCEPT !.tables = @ \ {"group_members"}, !.members = NoMembers]
    BY <1>6 DEF Effect, DropMembers, e
  <2>2. /\ d.version # 7
        /\ \A k \in MemberKey : d.members[k] # "absent" => d.members_new[k] # "absent"
    BY <1>6 DEF Safe, DropMembers
  <2> QED
    BY <2>1, <2>2, Zenon
<1>7. CASE s = RenameMembers
  <2>1. e = [d EXCEPT !.tables = (@ \ {"group_members_new"}) \cup {"group_members"},
                      !.members = d.members_new, !.members_new = NoMembers]
    BY <1>7 DEF Effect, RenameMembers, e
  <2>2. "group_members" \notin d.tables
    BY <1>7 DEF Fails, RenameMembers
  <2> QED
    BY <2>1, <2>2, Zenon DEF Table
<1>8. ASSUME NEW x \in Entity, s = InsertStub(x) PROVE Good
  <2>1. e = [d EXCEPT !.l1[x] = IF @ = "absent" THEN Stub ELSE @]
    BY <1>8 DEF Effect, InsertStub, e
  <2> QED
    BY <2>1, ZenonT(30)
<1>9. ASSUME NEW g \in Group, NEW x \in Entity, s = UpsertMember(g, x) PROVE Good
  <2>1. e = [d EXCEPT !.members[<<g, x>>] = "active"]
    BY <1>9 DEF Effect, UpsertMember, e
  <2>2. "group_members" \in d.tables
    BY <1>9 DEF Safe, UpsertMember
  <2> QED
    BY <2>1, <2>2, ZenonT(30) DEF Posture
<1>10. CASE s = PurgeMembers
  <2> DEFINE left == [k \in MemberKey |-> IF k[1] \in Expired(d) THEN "absent" ELSE d.members[k]]
  <2>1. e = [d EXCEPT !.members = left]
    BY <1>10 DEF Effect, PurgeMembers, e
  <2>2. /\ left \in [MemberKey -> Posture \cup {"absent"}]
        /\ d.members = NoMembers => left = NoMembers
    BY DEF NoMembers
  <2>3. \A k \in MemberKey :
           d.members[k] # "absent" => left[k] # "absent" \/ d.groups[k[1]] = Tombstone
    BY <1>0
  <2> HIDE DEF left
  <2> QED
    BY <2>1, <2>2, <2>3
<1>11. CASE s = PurgeGroups
  <2>1. e = [d EXCEPT !.groups = [g \in Group |->
                          IF g \in Expired(d) THEN "absent" ELSE @[g]],
                      !.expired = @ \ Expired(d)]
    BY <1>11 DEF Effect, PurgeGroups, e
  <2> QED
    BY <2>1, Zenon
<1> HIDE DEF Good, Sound, Kept, HasRow, Database
<1> QED
  BY <1>1, <1>2, <1>3, <1>4, <1>5, <1>6, <1>7, <1>8, <1>9, <1>10, <1>11, StatementKinds

-----------------------------------------------------------------------------
(* Where a storage call stands                                             *)

AddMember(k) == <<InsertStub(k[2]), UpsertMember(k[1], k[2])>>
Purge == <<PurgeMembers, PurgeGroups>>

(* What the database holds before the n-th statement of schema_v7.         *)
Rebuilt(n) ==
    /\ db.version = 6
    /\ n = 3 =>
          \A k \in MemberKey : db.members[k] # "absent" => db.members_new[k] # "absent"
    /\ n = 4 => "group_members" \notin db.tables
    /\ n = 5 => "group_members" \in db.tables /\ db.members_new = NoMembers

(* The owner columns before the n-th statement of schema_v6.               *)
Widened(n) ==
    /\ n = 1 => db.columns = {}
    /\ n = 2 => db.columns = {"owner_id"}
    /\ n = 3 => db.columns = {"owner_id", "owner_pubkey"}

(* The statements left, and the version the database has come to.          *)
Working ==
    \/ /\ todo = <<>>
       /\ pc = "v5" => "schema_version" \in db.tables
       /\ pc = "v6" => db.version \in 5..7
       /\ pc = "v7" => db.version \in 6..7
       /\ pc = "token" => db.version = 7
    \/ /\ pc = "v5"
       /\ \E n \in 1..8 : /\ todo = Left(schema_v4, n)
                          /\ n >= 4 => "schema_version" \in db.tables
    \/ pc = "v6" /\ db.version = 4 /\ \E n \in 1..2 : todo = Left(schema_v5, n)
    \/ pc = "v7" /\ db.version = 5 /\ \E n \in 1..4 : todo = Left(schema_v6, n) /\ Widened(n)
    \/ pc = "token" /\ \E n \in 1..5 : todo = Left(schema_v7, n) /\ Rebuilt(n)
    \/ pc = "serving" /\ \E k \in MemberKey, n \in 1..2 : todo = Left(AddMember(k), n)
    \/ pc = "serving" /\ \E n \in 1..2 : todo = Left(Purge, n)

Migrated == pc \in {"token_create", "token_write", "seed", "serving"} => db.version = 7

LocalInv == TypeOK /\ Sound(db) /\ Working /\ Migrated

LEMMA Batches ==
    /\ schema_v4 \in Seq(Statement) /\ Len(schema_v4) = 8
    /\ schema_v5 \in Seq(Statement) /\ Len(schema_v5) = 2
    /\ schema_v6 \in Seq(Statement) /\ Len(schema_v6) = 4
    /\ schema_v7 \in Seq(Statement) /\ Len(schema_v7) = 5
    /\ Purge \in Seq(Statement) /\ Len(Purge) = 2
    /\ \A k \in MemberKey : AddMember(k) \in Seq(Statement) /\ Len(AddMember(k)) = 2
<1>1. schema_v4 \in Seq(Statement) /\ Len(schema_v4) = 8
  BY Statements DEF schema_v4, Table
<1>2. schema_v5 \in Seq(Statement) /\ Len(schema_v5) = 2
  BY Statements DEF schema_v5, Table
<1>3. schema_v6 \in Seq(Statement) /\ Len(schema_v6) = 4
  BY Statements DEF schema_v6, OwnerColumns
<1>4. schema_v7 \in Seq(Statement) /\ Len(schema_v7) = 5
  BY Statements DEF schema_v7, Table
<1>5. Purge \in Seq(Statement) /\ Len(Purge) = 2
  BY Statements DEF Purge
<1>6. \A k \in MemberKey : AddMember(k) \in Seq(Statement) /\ Len(AddMember(k)) = 2
  BY Statements DEF AddMember, MemberKey
<1> QED
  BY <1>1, <1>2, <1>3, <1>4, <1>5, <1>6

\* <<Bump(6)>> is the end of schema_v6: what is left when the columns exist.
LEMMA BumpLeft == <<Bump(6)>> = Left(schema_v6, 4)
<1>1. schema_v6[4] = Bump(6)
  BY DEF schema_v6
<1>2. /\ Left(schema_v6, 4) \in Seq(Statement)
      /\ Len(Left(schema_v6, 4)) = 1
      /\ Left(schema_v6, 4)[1] = schema_v6[4]
  <2>1. /\ Len(schema_v6) = 4
        /\ \A i \in 4..4 : schema_v6[i] \in Statement
    BY Batches, <1>1, Statements
  <2>2. /\ SubSeq(schema_v6, 4, 4) \in Seq(Statement)
        /\ Len(SubSeq(schema_v6, 4, 4)) = 1
        /\ \A i \in 1..1 : SubSeq(schema_v6, 4, 4)[i] = schema_v6[4 + i - 1]
    BY <2>1, SubSeqProperties
  <2> QED
    BY <2>1, <2>2 DEF Left
<1> QED
  BY <1>1, <1>2

\* A statement that does not fail, in any storage call.
LEMMA ExecuteStep ==
    ASSUME LocalInv, todo # <<>>, ~ Fails(db, Head(todo)),
           db' = Effect(db, Head(todo)), todo' = Tail(todo), pc' = pc
    PROVE  /\ db' \in Database /\ Sound(db)' /\ db'.devices = db.devices /\ Kept(db, db')
           /\ todo' \in Seq(Statement) /\ Working' /\ Migrated'
<1> DEFINE s == Head(todo)
<1>t. db \in Database /\ Sound(db) /\ todo \in Seq(Statement)
  BY DEF LocalInv, TypeOK
<1>s. s \in Statement /\ todo' \in Seq(Statement)
  BY <1>t, HeadTailProperties
<1>v. pc = "serving" => db.version = 7
  BY DEF LocalInv, Migrated
<1>a. ASSUME Safe(db, s), Working', pc = "serving" => db'.version = 7
      PROVE  /\ db' \in Database /\ Sound(db)' /\ db'.devices = db.devices /\ Kept(db, db')
             /\ todo' \in Seq(Statement) /\ Working' /\ Migrated'
  <2>1. db' \in Database /\ Sound(db') /\ db'.devices = db.devices /\ Kept(db, db')
    BY <1>a, <1>t, <1>s, StatementSound
  <2>2. Sound(db)'
    BY <2>1 DEF Sound, ForeignKeysHold, Refers
  <2>3. pc \notin {"token_create", "token_write", "seed"}
    BY DEF LocalInv, Working
  <2> QED
    BY <1>a, <1>s, <2>1, <2>2, <2>3 DEF Migrated
<1>e. db' = Effect(db, s)
  BY DEF s
<1> HIDE DEF s
<1>1. ASSUME pc = "v5", NEW n \in 1..8, todo = Left(schema_v4, n),
             n >= 4 => "schema_version" \in db.tables
      PROVE  Safe(db, s) /\ Working'
  <2>l. schema_v4 \in Seq(Statement) /\ Len(schema_v4) = 8
    BY Batches
  <2>1. s = schema_v4[n] /\ todo' = Left(schema_v4, n + 1) /\ Left(schema_v4, 9) = <<>>
    <3>1. Left(schema_v4, 8 + 1) = <<>> /\ Head(todo) = schema_v4[n] /\ Tail(todo) = Left(schema_v4, n + 1)
      BY <1>1, <2>l, LeftStep, ZenonT(30)
    <3> QED
      BY <3>1 DEF s
  <2>2. CASE n = 4
    <3>1. s = InsertVersion(6)
      BY <2>1, <2>2 DEF schema_v4
    <3>2. db'.tables = db.tables
      BY <3>1, <1>e, <1>t, VersionEffect
    <3>3. Safe(db, s)
      BY <1>1, <2>2, <3>1 DEF Safe, InsertVersion
    <3>4. 5 \in 1..8 /\ n + 1 = 5 /\ "schema_version" \in db'.tables
      BY <1>1, <2>2, <3>2
    <3> QED
      BY <1>1, <2>1, <3>3, <3>4 DEF Working
  <2>3. CASE n # 4
    <3>1. \E t \in Table : s = Create(t) /\ (n = 3 => t = "schema_version")
      BY <2>1, <2>3 DEF schema_v4, Table
    <3>2. PICK t \in Table : s = Create(t) /\ (n = 3 => t = "schema_version")
      BY <3>1
    <3>3. db'.tables = db.tables \cup {t}
      BY <3>2, <1>e, <1>t, CreateEffect, Zenon
    <3>4. Safe(db, s)
      BY <3>2 DEF Safe, Create
    <3>5. CASE n = 8
      BY <1>1, <2>1, <3>3, <3>4, <3>5 DEF Working
    <3>6. CASE n # 8
      <4>1. n + 1 \in 1..8 /\ (n + 1 >= 4 => "schema_version" \in db'.tables)
        BY <1>1, <3>2, <3>3, <3>6
      <4> QED
        BY <1>1, <2>1, <3>4, <4>1, ZenonT(30) DEF Working
    <3> QED
      BY <3>5, <3>6
  <2> QED
    BY <2>2, <2>3
<1>2. ASSUME pc = "v6", db.version = 4, NEW n \in 1..2, todo = Left(schema_v5, n)
      PROVE  Safe(db, s) /\ Working'
  <2>l. schema_v5 \in Seq(Statement) /\ Len(schema_v5) = 2
    BY Batches
  <2>1. s = schema_v5[n] /\ todo' = Left(schema_v5, n + 1) /\ Left(schema_v5, 3) = <<>>
    <3>1. Left(schema_v5, 2 + 1) = <<>> /\ Head(todo) = schema_v5[n] /\ Tail(todo) = Left(schema_v5, n + 1)
      BY <1>2, <2>l, LeftStep, ZenonT(30)
    <3> QED
      BY <3>1 DEF s
  <2>2. CASE n = 1
    <3>1. s = Create("devices")
      BY <2>1, <2>2 DEF schema_v5
    <3>s. Safe(db, s)
      BY <3>1 DEF Safe, Create
    <3>b. Effect(db, Create("devices")).version = db.version
      BY <1>t, CreateEffect, Zenon
    <3>2. db'.version = 4
      BY <3>1, <3>b, <1>e, <1>2, Zenon
    <3> QED
      BY <1>2, <2>1, <2>2, <3>2, <3>s DEF Working
  <2>3. CASE n = 2
    <3>1. s = Bump(5)
      BY <2>1, <2>3 DEF schema_v5
    <3>s. Safe(db, s)
      BY <3>1 DEF Safe, Bump
    <3>b. db.version = 5 - 1 => Effect(db, Bump(5)).version = 5
      BY <1>t, VersionEffect, Zenon
    <3>2. db'.version = 5
      BY <3>1, <3>b, <1>e, <1>2
    <3> QED
      BY <1>2, <2>1, <2>3, <3>2, <3>s DEF Working
  <2> QED
    BY <2>2, <2>3
<1>3. ASSUME pc = "v7", db.version = 5, NEW n \in 1..4, todo = Left(schema_v6, n), Widened(n)
      PROVE  Safe(db, s) /\ Working'
  <2>l. schema_v6 \in Seq(Statement) /\ Len(schema_v6) = 4
    BY Batches
  <2>1. s = schema_v6[n] /\ todo' = Left(schema_v6, n + 1) /\ Left(schema_v6, 5) = <<>>
    <3>1. Left(schema_v6, 4 + 1) = <<>> /\ Head(todo) = schema_v6[n] /\ Tail(todo) = Left(schema_v6, n + 1)
      BY <1>3, <2>l, LeftStep, Zenon
    <3> QED
      BY <3>1 DEF s
  <2>2. CASE n # 4
    <3>1. PICK c \in OwnerColumns :
             /\ s = AddColumn(c) /\ (n = 1 => c = "owner_id") /\ (n = 2 => c = "owner_pubkey")
      BY <2>1, <2>2 DEF schema_v6, OwnerColumns
    <3>2. db'.version = 5 /\ db'.columns = db.columns \cup {c}
      BY <3>1, <1>e, <1>t, <1>3, ColumnEffect
    <3>3. Safe(db, s)
      BY <3>1, <1>3, <2>2 DEF AddColumn, Safe, Widened
    <3>4. n + 1 \in 1..4 /\ Widened(n + 1)'
      BY <1>3, <2>2, <3>1, <3>2 DEF Widened
    <3> QED
      BY <1>3, <2>1, <3>2, <3>3, <3>4 DEF Working
  <2>3. CASE n = 4
    <3>1. s = Bump(6)
      BY <2>1, <2>3 DEF schema_v6
    <3>s. Safe(db, s)
      BY <3>1 DEF Safe, Bump
    <3>b. db.version = 6 - 1 => Effect(db, Bump(6)).version = 6
      BY <1>t, VersionEffect, Zenon
    <3>2. db'.version = 6
      BY <3>1, <3>b, <1>e, <1>3
    <3> QED
      BY <1>3, <2>1, <2>3, <3>2, <3>s DEF Working
  <2> QED
    BY <2>2, <2>3
<1>4. ASSUME pc = "token", NEW n \in 1..5, todo = Left(schema_v7, n), Rebuilt(n)
      PROVE  Safe(db, s) /\ Working'
  <2>l. schema_v7 \in Seq(Statement) /\ Len(schema_v7) = 5
    BY Batches
  <2>1. s = schema_v7[n] /\ todo' = Left(schema_v7, n + 1) /\ Left(schema_v7, 6) = <<>>
    <3>1. Left(schema_v7, 5 + 1) = <<>> /\ Head(todo) = schema_v7[n] /\ Tail(todo) = Left(schema_v7, n + 1)
      BY <1>4, <2>l, LeftStep, ZenonT(30)
    <3> QED
      BY <3>1 DEF s
  <2>v. db.version = 6
    BY <1>4 DEF Rebuilt
  <2>0. ASSUME n + 1 \in 1..5, Rebuilt(n + 1)' PROVE Working'
    BY <1>4, <2>1, <2>0 DEF Working
  <2>2. CASE n = 1
    <3>1. s = Create("group_members_new")
      BY <2>1, <2>2 DEF schema_v7
    <3>s. Safe(db, s)
      BY <3>1 DEF Safe, Create
    <3>b. Effect(db, Create("group_members_new")).version = db.version
      BY <1>t, CreateEffect, Zenon
    <3>2. db'.version = 6
      BY <3>1, <3>b, <1>e, <2>v, Zenon
    <3> QED
      BY <2>0, <2>2, <3>2, <3>s DEF Rebuilt
  <2>3. CASE n = 2
    <3>1. s = CopyMembers
      BY <2>1, <2>3 DEF schema_v7
    <3>e. db' = [db EXCEPT !.members_new = Merged(db)]
      BY <3>1, <1>e, Zenon DEF Effect, CopyMembers
    <3>2. /\ db'.version = 6 /\ db'.members = db.members /\ Safe(db, s)
          /\ db'.members_new = Merged(db)
      BY <3>1, <3>e, <1>t, <1>4 DEF CopyMembers, Database, Safe, Rebuilt
    <3>3. \A k \in MemberKey : db.members[k] # "absent" => Merged(db)[k] # "absent"
      BY DEF Merged
    <3>4. Rebuilt(n + 1)'
      BY <2>3, <3>2, <3>3 DEF Rebuilt
    <3> QED
      BY <2>0, <2>3, <3>2, <3>4
  <2>4. CASE n = 3
    <3>1. s = DropMembers
      BY <2>1, <2>4 DEF schema_v7
    <3>s. Safe(db, s)
      BY <3>1, <1>4, <2>4 DEF Safe, DropMembers, Rebuilt
    <3>2. db'.version = 6 /\ "group_members" \notin db'.tables
      BY <3>1, <2>v, <1>e, <1>t, RebuildEffect
    <3> QED
      BY <2>0, <2>4, <3>2, <3>s DEF Rebuilt
  <2>5. CASE n = 4
    <3>1. s = RenameMembers
      BY <2>1, <2>5 DEF schema_v7
    <3>s. Safe(db, s)
      BY <3>1 DEF Safe, RenameMembers
    <3>2. db'.version = 6 /\ "group_members" \in db'.tables /\ db'.members_new = NoMembers
      BY <3>1, <2>v, <1>e, <1>t, RebuildEffect, ZenonT(30)
    <3> QED
      BY <2>0, <2>5, <3>2, <3>s DEF Rebuilt
  <2>6. CASE n = 5
    <3>1. s = Bump(7)
      BY <2>1, <2>6 DEF schema_v7
    <3>s. Safe(db, s)
      BY <3>1, <1>4, <2>6 DEF Safe, Bump, Rebuilt
    <3>b. db.version = 7 - 1 => Effect(db, Bump(7)).version = 7
      BY <1>t, VersionEffect, Zenon
    <3>2. db'.version = 7
      BY <3>1, <3>b, <1>e, <2>v
    <3> QED
      BY <1>4, <2>1, <2>6, <3>2, <3>s DEF Working
  <2> QED
    BY <2>2, <2>3, <2>4, <2>5, <2>6
<1>5. ASSUME pc = "serving", NEW k \in MemberKey, NEW n \in 1..2, todo = Left(AddMember(k), n)
      PROVE  Safe(db, s) /\ Working' /\ db'.version = 7
  <2>l. AddMember(k) \in Seq(Statement) /\ Len(AddMember(k)) = 2
    BY Batches
  <2>1. s = AddMember(k)[n] /\ todo' = Left(AddMember(k), n + 1) /\ Left(AddMember(k), 3) = <<>>
    <3>1. Left(AddMember(k), 2 + 1) = <<>> /\ Head(todo) = AddMember(k)[n] /\ Tail(todo) = Left(AddMember(k), n + 1)
      BY <1>5, <2>l, LeftStep, ZenonT(30)
    <3> QED
      BY <3>1 DEF s
  <2>2. n = 1 => s = InsertStub(k[2])
    BY <2>1 DEF AddMember
  <2>3. n = 2 => s = UpsertMember(k[1], k[2])
    BY <2>1 DEF AddMember
  <2>4. Safe(db, s)
    BY <2>2, <2>3, <1>v, <1>5, <1>t DEF Safe, InsertStub, UpsertMember, Sound
  <2>5. n = 1 => db'.version = 7
    BY <2>2, <1>v, <1>5, <1>t, <1>e, CallEffect
  <2>6. n = 2 => db'.version = 7
    BY <2>3, <1>v, <1>5, <1>t, <1>e, CallEffect
  <2>7. Working'
    BY <1>5, <2>1 DEF Working
  <2> QED
    BY <2>4, <2>5, <2>6, <2>7
<1>6. ASSUME pc = "serving", NEW n \in 1..2, todo = Left(Purge, n)
      PROVE  Safe(db, s) /\ Working' /\ db'.version = 7
  <2>l. Purge \in Seq(Statement) /\ Len(Purge) = 2
    BY Batches
  <2>1. s = Purge[n] /\ todo' = Left(Purge, n + 1) /\ Left(Purge, 3) = <<>>
    <3>1. Left(Purge, 2 + 1) = <<>> /\ Head(todo) = Purge[n] /\ Tail(todo) = Left(Purge, n + 1)
      BY <1>6, <2>l, LeftStep, ZenonT(30)
    <3> QED
      BY <3>1 DEF s
  <2>2. n = 1 => s = PurgeMembers
    BY <2>1 DEF Purge
  <2>3. n = 2 => s = PurgeGroups
    BY <2>1 DEF Purge
  <2>4. Safe(db, s)
    BY <2>2, <2>3 DEF Safe, PurgeMembers, PurgeGroups
  <2>5. n = 1 => db'.version = 7
    BY <2>2, <1>v, <1>6, <1>t, <1>e, CallEffect
  <2>6. n = 2 => db'.version = 7
    BY <2>3, <1>v, <1>6, <1>t, <1>e, CallEffect
  <2>7. Working'
    BY <1>6, <2>1 DEF Working
  <2> QED
    BY <2>4, <2>5, <2>6, <2>7
<1>7. Safe(db, s) /\ Working' /\ (pc = "serving" => db'.version = 7)
  <2>1. CASE pc = "v5"
    BY <1>1, <2>1, Zenon DEF LocalInv, Working
  <2>2. CASE pc = "v6"
    BY <1>2, <2>2, ZenonT(30) DEF LocalInv, Working
  <2>3. CASE pc = "v7"
    BY <1>3, <2>3, ZenonT(30) DEF LocalInv, Working
  <2>4. CASE pc = "token"
    BY <1>4, <2>4, ZenonT(30) DEF LocalInv, Working
  <2>5. CASE pc = "serving"
    BY <1>5, <1>6, <2>5 DEF LocalInv, Working
  <2> QED
    BY <2>1, <2>2, <2>3, <2>4, <2>5, ZenonT(30) DEF LocalInv, Working
<1> QED
  BY <1>7, <1>a

-----------------------------------------------------------------------------
(* The steps                                                               *)

(* Revoked devices stay revoked.                                           *)
Revokes(d, e) ==
    \A r \in d.devices : r.revoked => \E q \in e.devices : q.id = r.id /\ q.revoked

Step == LocalInv' /\ Kept(db, db') /\ Revokes(db, db')

LEMMA InitLocalInv == Init => LocalInv
<1> SUFFICES ASSUME Init PROVE LocalInv
  OBVIOUS
<1>1. db \in Database /\ Sound(db)
  BY LocalNodeConstants, ZenonT(30) DEF Init
<1>2. TypeOK
  BY <1>1, LocalNodeConstants DEF Init, TypeOK, Sound, Stage, CliIdle
<1>3. Working /\ Migrated
  BY DEF Init, Working, Migrated
<1> QED
  BY <1>1, <1>2, <1>3 DEF LocalInv

\* No call in progress.
LEMMA Idle ==
    ASSUME LocalInv, todo = <<>>
    PROVE  /\ pc = "v5" => "schema_version" \in db.tables
           /\ pc = "v6" => db.version \in 5..7
           /\ pc = "v7" => db.version \in 6..7
           /\ pc = "token" => db.version = 7
<1>1. \A n \in 1..2 : todo # Left(schema_v5, n)
  <2>1. schema_v5 \in Seq(Statement) /\ Len(schema_v5) = 2
    BY Batches
  <2> QED
    BY <2>1, LeftStep, Zenon
<1>2. \A n \in 1..4 : todo # Left(schema_v6, n)
  <2>1. schema_v6 \in Seq(Statement) /\ Len(schema_v6) = 4
    BY Batches
  <2> QED
    BY <2>1, LeftStep, Zenon
<1>3. \A n \in 1..5 : todo # Left(schema_v7, n)
  <2>1. schema_v7 \in Seq(Statement) /\ Len(schema_v7) = 5
    BY Batches
  <2> QED
    BY <2>1, LeftStep, Zenon
<1>4. \A n \in 1..8 : todo # Left(schema_v4, n)
  <2>1. schema_v4 \in Seq(Statement) /\ Len(schema_v4) = 8
    BY Batches
  <2> QED
    BY <2>1, LeftStep, Zenon
<1> QED
  BY <1>1, <1>2, <1>3, <1>4 DEF LocalInv, Working

\* A step that leaves the database alone.
LEMMA FileStep ==
    ASSUME LocalInv, db' = db, TypeOK', Working', Migrated'
    PROVE  Step
<1>1. Sound(db)'
  BY DEF LocalInv, Sound, ForeignKeysHold, Refers
<1>2. Kept(db, db') /\ Revokes(db, db')
  BY DEF Kept, HasRow, Revokes
<1> QED
  BY <1>1, <1>2, ZenonT(30) DEF LocalInv, Step

\* The process ends, by a crash or by an error during the start.
LEMMA ExitStep ==
    ASSUME LocalInv, Exit, crashes' \in 0..MaxCrashes
    PROVE  Step
<1>1. db' = db /\ pc' = "down" /\ todo' = <<>>
  BY DEF Exit, files
<1>2. TypeOK'
  BY DEF LocalInv, TypeOK, Exit, files, Stage
<1>3. Working' /\ Migrated'
  BY <1>1 DEF Working, Migrated
<1> QED
  BY <1>1, <1>2, <1>3, FileStep

\* A step of another process: nothing a storage call depends on changes.
LEMMA OtherStep ==
    ASSUME LocalInv, UNCHANGED <<db, pc, todo>>, TypeOK'
    PROVE  Step
<1>1. Working' /\ Migrated'
  BY DEF LocalInv, Working, Migrated, Rebuilt, Widened
<1> QED
  BY <1>1, FileStep, ZenonT(30)

LEMMA CrashStep ==
    ASSUME LocalInv, Crash
    PROVE  Step
<1>1. crashes' \in 0..MaxCrashes
  BY LocalNodeConstants DEF LocalInv, TypeOK, Crash
<1>2. CASE Exit
  BY <1>1, <1>2, ExitStep
<1>3. CASE cli' = CliIdle /\ UNCHANGED <<files, pc, ident, todo, removing, served>>
  <2>1. TypeOK'
    BY <1>1, <1>3 DEF LocalInv, TypeOK, files, CliIdle
  <2> QED
    BY <1>3, <2>1, OtherStep DEF files
<1> QED
  BY <1>2, <1>3, ZenonT(30) DEF Crash

LEMMA IdentityStep ==
    ASSUME LocalInv, Identity
    PROVE  Step
<1>1. TypeOK'
  BY DEF LocalInv, TypeOK, Identity, CliIdle
<1> QED
  BY <1>1, OtherStep DEF Identity

\* The steps of a start that touch the key and token files only.
LEMMA FilesStep ==
    ASSUME LocalInv,
           Start \/ LoadIdentity \/ CreateKeyFile \/ WriteKeyFile \/ LoadToken \/ WriteToken
    PROVE  Step
<1> USE DEF LocalInv, TypeOK, Goto, files, Stage
<1>1. CASE LoadIdentity /\ Exit /\ UNCHANGED crashes
  BY <1>1, ExitStep, ZenonT(30)
<1>2. CASE LoadIdentity /\ ~ Exit
  <2>1. db' = db /\ todo' = todo /\ pc = "identity" /\ pc' \in {"v4", "key_create"}
    BY <1>2 DEF LoadIdentity
  <2>2. TypeOK'
    BY <1>2, ZenonT(30) DEF LoadIdentity
  <2>3. Working' /\ Migrated'
    BY <2>1, ZenonT(30) DEF Working, Migrated
  <2> QED
    BY <2>1, <2>2, <2>3, FileStep
<1>3. CASE Start \/ CreateKeyFile \/ WriteKeyFile
  <2>1. /\ db' = db /\ todo' = todo /\ pc \in {"down", "key_create", "key_write"}
        /\ pc' \in {"identity", "key_write", "v4"}
    BY <1>3 DEF Start, CreateKeyFile, WriteKeyFile
  <2>2. TypeOK'
    BY <1>3, ZenonT(30) DEF Start, CreateKeyFile, WriteKeyFile
  <2>3. Working' /\ Migrated'
    BY <2>1, ZenonT(30) DEF Working, Migrated
  <2> QED
    BY <2>1, <2>2, <2>3, FileStep, ZenonT(30)
<1>4. CASE LoadToken \/ WriteToken
  <2>1. /\ db' = db /\ todo' = todo /\ pc \in {"token", "token_create", "token_write"}
        /\ pc = "token" => todo = <<>>
        /\ pc' \in {"token_create", "token_write", "seed"}
    BY <1>4 DEF LoadToken, WriteToken
  <2>2. TypeOK'
    BY <1>4, ZenonT(30) DEF LoadToken, WriteToken
  <2>3. db.version = 7 /\ todo = <<>>
    BY <2>1, Idle, ZenonT(30) DEF Working, Migrated
  <2>4. Working' /\ Migrated'
    BY <2>1, <2>3 DEF Working, Migrated
  <2> QED
    BY <2>1, <2>2, <2>4, FileStep, ZenonT(30)
<1> QED
  BY <1>1, <1>2, <1>3, <1>4, ZenonT(30) DEF LoadIdentity

LEMMA EnsureSchemaStep ==
    ASSUME LocalInv, EnsureSchema
    PROVE  Step
<1>1. CASE Exit /\ UNCHANGED crashes
  BY <1>1, ExitStep DEF LocalInv, TypeOK
<1>2. CASE /\ pc = "v4" \/ db.version >= 4
           /\ todo' = Batch(pc) /\ Goto(After[pc]) /\ UNCHANGED <<files, ident>>
  <2>0. /\ db' = db /\ todo = <<>> /\ pc \in {"v4", "v5", "v6", "v7"} /\ pc' = After[pc]
        /\ UNCHANGED <<key, token, ident, removing, cli, served, crashes>>
    BY <1>2 DEF EnsureSchema, After, Goto, files
  <2>d. db.version \in {0} \cup 4..7
    BY DEF LocalInv, Sound
  <2>a. ASSUME todo' \in Seq(Statement), pc' \in {"v5", "v6", "v7", "token"}, Working'
        PROVE  Step
    <3>1. TypeOK'
      BY <2>0, <2>a DEF LocalInv, TypeOK, Stage
    <3>2. Migrated'
      BY <2>a DEF Migrated
    <3> QED
      BY <2>0, <2>a, <3>1, <3>2, FileStep, ZenonT(30)
  <2>e. <<>> \in Seq(Statement)
    OBVIOUS
  <2>1. CASE pc = "v4"
    <3>1. /\ pc' = "v5"
          /\ (todo' = <<>> /\ "schema_version" \in db.tables) \/ todo' = schema_v4
      BY <1>2, <2>0, <2>1 DEF Batch, After
    <3>2. todo' \in Seq(Statement) /\ schema_v4 = Left(schema_v4, 1)
      BY <3>1, <2>e, Batches, LeftAll, Zenon
    <3>3. Working'
      BY <2>0, <3>1, <3>2 DEF Working
    <3> QED
      BY <2>a, <3>1, <3>2, <3>3
  <2>2. CASE pc = "v5"
    <3>1. /\ pc' = "v6" /\ db.version >= 4
          /\ todo' = IF db.version = 4 THEN schema_v5 ELSE <<>>
      BY <1>2, <2>0, <2>2 DEF Batch, After
    <3>2. todo' \in Seq(Statement) /\ schema_v5 = Left(schema_v5, 1)
      BY <3>1, <2>e, Batches, LeftAll, ZenonT(30)
    <3>3. Working'
      BY <2>0, <2>d, <3>1, <3>2 DEF Working
    <3> QED
      BY <2>a, <3>1, <3>2, <3>3
  <2>3. CASE pc = "v6"
    <3>1. /\ pc' = "v7"
          /\ todo' = IF db.version # 5 THEN <<>>
                     ELSE IF "owner_id" \in db.columns THEN <<Bump(6)>> ELSE schema_v6
      BY <1>2, <2>0, <2>3 DEF Batch, After
    <3>2. <<Bump(6)>> = Left(schema_v6, 4) /\ schema_v6 = Left(schema_v6, 1)
      BY BumpLeft, Batches, LeftAll
    <3>3. <<Bump(6)>> \in Seq(Statement) /\ schema_v6 \in Seq(Statement)
      BY Statements, Batches
    <3>4. db.version \in 5..7
      BY <2>0, <2>3, Idle
    <3> HIDE DEF Bump
    <3>6. "owner_id" \notin db.columns => db.columns = {}
      BY ZenonT(30) DEF LocalInv, Sound
    <3>5. Working'
      BY <2>0, <3>1, <3>2, <3>4, <3>6 DEF Working, Widened
    <3> QED
      BY <2>a, <2>e, <3>1, <3>3, <3>5
  <2>4. CASE pc = "v7"
    <3>1. pc' = "token" /\ todo' = IF db.version = 6 THEN schema_v7 ELSE <<>>
      BY <1>2, <2>0, <2>4 DEF Batch, After
    <3>2. todo' \in Seq(Statement) /\ schema_v7 = Left(schema_v7, 1)
      BY <3>1, <2>e, Batches, LeftAll
    <3>3. db.version \in 6..7
      BY <2>0, <2>4, Idle, ZenonT(30)
    <3>4. Working'
      BY <2>0, <3>1, <3>2, <3>3 DEF Working, Rebuilt
    <3> QED
      BY <2>a, <3>1, <3>2, <3>4
  <2> QED
    BY <2>0, <2>1, <2>2, <2>3, <2>4
<1> QED
  BY <1>1, <1>2, ZenonT(30) DEF EnsureSchema

LEMMA ExecuteAll ==
    ASSUME LocalInv, Execute
    PROVE  Step
<1>1. CASE /\ ~ Fails(db, Head(todo))
           /\ db' = Effect(db, Head(todo)) /\ todo' = Tail(todo)
           /\ UNCHANGED <<key, token, pc, ident, removing, cli, served, crashes>>
  <2>1. /\ db' \in Database /\ Sound(db)' /\ db'.devices = db.devices /\ Kept(db, db')
        /\ todo' \in Seq(Statement) /\ Working' /\ Migrated'
    BY <1>1, ExecuteStep, ZenonT(30) DEF Execute
  <2>2. TypeOK'
    BY <1>1, <2>1 DEF LocalInv, TypeOK
  <2> QED
    BY <2>1, <2>2, ZenonT(30) DEF Step, LocalInv, Revokes
<1>2. CASE /\ Fails(db, Head(todo)) /\ pc = "serving"
           /\ todo' = <<>>
           /\ UNCHANGED <<files, pc, ident, removing, cli, served, crashes>>
  <2>1. TypeOK' /\ db' = db
    BY <1>2 DEF LocalInv, TypeOK, files
  <2>2. Working' /\ Migrated'
    BY <1>2, <2>1 DEF LocalInv, Working, Migrated
  <2> QED
    BY <2>1, <2>2, FileStep, ZenonT(30)
<1>3. CASE Exit /\ UNCHANGED crashes
  BY <1>3, ExitStep DEF LocalInv, TypeOK
<1> QED
  BY <1>1, <1>2, <1>3 DEF Execute

LEMMA SeedStep ==
    ASSUME LocalInv, SeedGroups
    PROVE  Step
<1> DEFINE seeded == [g \in Group |->
                IF g \in Configured /\ Missing(g) THEN Chatty ELSE db.groups[g]]
           kept == db.expired \ {g \in Configured : Missing(g)}
<1>t. /\ db \in Database /\ Sound(db) /\ pc = "seed" /\ todo = <<>> /\ db.version = 7
  BY DEF LocalInv, TypeOK, SeedGroups, Working, Migrated
<1>1. db' = [db EXCEPT !.groups = seeded, !.expired = kept]
  BY ZenonT(30) DEF SeedGroups
<1>2. /\ seeded \in [Group -> Culture \cup {Chatty, Tombstone, "absent"}]
      /\ \A g \in Group : db.groups[g] # "absent" => seeded[g] # "absent"
      /\ kept \subseteq Group
  BY <1>t DEF Database, Chatty
<1> HIDE DEF seeded, kept
<1>3. /\ db' \in Database
      /\ db'.groups = seeded /\ db'.l1 = db.l1 /\ db'.devices = db.devices
      /\ db'.members = db.members /\ db'.members_new = db.members_new
      /\ db'.version = db.version /\ db'.tables = db.tables /\ db'.columns = db.columns
  BY <1>t, <1>1, <1>2, Zenon DEF Database
<1>4. ForeignKeysHold(db')
  <2> SUFFICES ASSUME NEW k \in MemberKey, Refers(db, k) PROVE Refers(db', k)
    BY <1>t, <1>3 DEF Sound, ForeignKeysHold
  <2>1. k[1] \in Group
    BY DEF MemberKey
  <2> QED
    BY <1>2, <1>3, <2>1 DEF Refers
<1>5. Sound(db)'
  BY <1>t, <1>3, <1>4 DEF Sound
<1>6. TypeOK'
  BY <1>t, <1>3 DEF LocalInv, TypeOK, SeedGroups, Stage
<1>7. Working' /\ Migrated'
  BY <1>t, <1>3 DEF SeedGroups, Working, Migrated
<1>8. Kept(db, db') /\ Revokes(db, db')
  BY <1>3, ZenonT(30) DEF Kept, HasRow, Revokes
<1> QED
  BY <1>5, <1>6, <1>7, <1>8 DEF Step, LocalInv

\* A storage call of one statement by a serving node.
LEMMA UpdateStep ==
    ASSUME LocalInv, NEW d \in Database, Update(d), removing' \subseteq MemberKey,
           d.version = db.version, d.tables = db.tables, d.columns = db.columns,
           d.members_new = db.members_new,
           \A r, q \in d.devices : r.id = q.id => r = q,
           Kept(db, d), Revokes(db, d)
    PROVE  Step
<1>1. /\ db' = d /\ pc = "serving" /\ pc' = pc /\ todo' = todo /\ todo = <<>>
      /\ UNCHANGED <<key, token, ident, cli, served, crashes>>
  BY ZenonT(30) DEF Update, CanCall
<1>2. ForeignKeysHold(d)
  BY ZenonT(30) DEF Update, KeepsForeignKeys
<1>3. db.version = 7 /\ Sound(db)
  BY <1>1, ZenonT(30) DEF LocalInv, Migrated
<1>4. Sound(d)
  BY <1>2, <1>3, ZenonT(30) DEF Sound
<1>5. Sound(db)'
  BY <1>1, <1>4, ZenonT(30) DEF Sound, ForeignKeysHold, Refers
<1>6. TypeOK'
  BY <1>1, ZenonT(30) DEF LocalInv, TypeOK
<1>7. Working' /\ Migrated'
  BY <1>1, <1>3, ZenonT(30) DEF Working, Migrated
<1> QED
  BY <1>1, <1>5, <1>6, <1>7, ZenonT(30) DEF Step, LocalInv

\* ... that leaves members and devices alone.
LEMMA UpdateOther ==
    ASSUME LocalInv, NEW d \in Database, Update(d), removing' \subseteq MemberKey,
           d.version = db.version, d.tables = db.tables, d.columns = db.columns,
           d.members_new = db.members_new,
           d.members = db.members, d.devices = db.devices
    PROVE  Step
<1>1. Kept(db, d) /\ Revokes(db, d) /\ (\A r, q \in d.devices : r.id = q.id => r = q)
  BY DEF Kept, HasRow, Revokes, LocalInv, TypeOK
<1> QED
  BY <1>1, UpdateStep, ZenonT(30)

LEMMA MemoryStep ==
    ASSUME LocalInv, NEW e \in Entity,
           l1_delete(e) \/ \E data \in Blob : l1_write(e, data)
    PROVE  Step
<1>t. db \in Database /\ removing \subseteq MemberKey
  BY DEF LocalInv, TypeOK
<1>1. ASSUME NEW x \in Blob \cup {"absent"}, Update([db EXCEPT !.l1[e] = x]), removing' = removing
      PROVE  Step
  <2> DEFINE d == [db EXCEPT !.l1[e] = x]
  <2>1. /\ d \in Database
        /\ d.version = db.version /\ d.tables = db.tables /\ d.columns = db.columns /\ d.members_new = db.members_new
        /\ d.members = db.members /\ d.devices = db.devices
    BY <1>t, ZenonT(30) DEF Database
  <2>2. Update(d)
    BY <1>1
  <2> HIDE DEF d
  <2> QED
    BY <1>1, <1>t, <2>1, <2>2, UpdateOther
<1> QED
  BY <1>1, Zenon DEF l1_delete, l1_write, WriteL1, DeleteL1

LEMMA GroupStep ==
    ASSUME LocalInv, NEW g \in Group,
           groups_delete(g) \/ \E c \in Culture : groups_create(g, c)
    PROVE  Step
<1>t. db \in Database /\ removing \subseteq MemberKey
  BY DEF LocalInv, TypeOK
<1>1. removing' \subseteq MemberKey
  BY <1>t DEF groups_delete, groups_create
<1>2. ASSUME NEW x \in Culture \cup {Tombstone}, Update(WriteGroup(g, x)) PROVE Step
  <2> DEFINE d == WriteGroup(g, x)
  <2>1. /\ d \in Database
        /\ d.version = db.version /\ d.tables = db.tables /\ d.columns = db.columns /\ d.members_new = db.members_new
        /\ d.members = db.members /\ d.devices = db.devices
    BY <1>t, Zenon DEF Database, WriteGroup
  <2>2. Update(d)
    BY <1>2, ZenonT(30)
  <2> HIDE DEF d
  <2> QED
    BY <1>1, <2>1, <2>2, UpdateOther
<1> QED
  BY <1>2, ZenonT(30) DEF groups_delete, groups_create

LEMMA SetPostureStep ==
    ASSUME LocalInv, NEW k \in MemberKey, NEW posture \in Posture,
           SetPosture(k, posture), removing' \subseteq MemberKey
    PROVE  Step
<1>t. db \in Database
  BY DEF LocalInv, TypeOK
<1> DEFINE d == [db EXCEPT !.members[k] = posture]
<1>1. /\ d \in Database
      /\ d.version = db.version /\ d.tables = db.tables /\ d.columns = db.columns /\ d.members_new = db.members_new
      /\ d.devices = db.devices
      /\ \A j \in MemberKey : d.members[j] = IF j = k THEN posture ELSE db.members[j]
  BY <1>t, ZenonT(30) DEF Database
<1>2. Update(d)
  BY DEF SetPosture
<1> HIDE DEF d
<1>3. Kept(db, d)
  BY <1>1 DEF Kept, HasRow, Posture
<1>4. Revokes(db, d) /\ (\A r, q \in d.devices : r.id = q.id => r = q)
  BY <1>1, ZenonT(30) DEF Revokes, LocalInv, TypeOK
<1> QED
  BY <1>1, <1>2, <1>3, <1>4, UpdateStep

LEMMA MemberStep ==
    ASSUME LocalInv, NEW k \in MemberKey,
           \/ SoftRemove(k) \/ groups_remove_member(k)
           \/ \E posture \in Posture \ {"removed"} : groups_update_posture(k, posture)
    PROVE  Step
<1>1. removing' \subseteq MemberKey
  BY DEF LocalInv, TypeOK, SoftRemove, groups_remove_member, groups_update_posture
<1>2. CASE \E posture \in Posture : SetPosture(k, posture)
  BY <1>1, <1>2, SetPostureStep
<1>3. CASE SoftRemove(k) /\ UNCHANGED <<files, pc, ident, todo, cli, served, crashes>>
  <2>1. TypeOK' /\ UNCHANGED <<db, pc, todo>>
    BY <1>1, <1>3 DEF LocalInv, TypeOK, files
  <2> QED
    BY <2>1, OtherStep, ZenonT(30)
<1> QED
  BY <1>2, <1>3, ZenonT(30) DEF SoftRemove, groups_remove_member, groups_update_posture, Posture

\* The storage calls of two statements: groups_add_member and the purge.
LEMMA CallStep ==
    ASSUME LocalInv,
           \/ \E g \in Group, e \in Entity : groups_add_member(g, e)
           \/ purge_deleted_groups
    PROVE  Step
<1>1. /\ db' = db /\ pc = "serving" /\ pc' = pc
      /\ UNCHANGED <<key, token, ident, removing, cli, served, crashes>>
  BY DEF groups_add_member, purge_deleted_groups, Call, CanCall, files
<1>2. (\E k \in MemberKey : todo' = AddMember(k)) \/ todo' = Purge
  <2>1. ASSUME NEW g \in Group, NEW e \in Entity, groups_add_member(g, e)
        PROVE  \E k \in MemberKey : todo' = AddMember(k)
    <3>1. <<g, e>> \in MemberKey /\ todo' = AddMember(<<g, e>>)
      BY <2>1 DEF MemberKey, AddMember, groups_add_member, Call
    <3> QED
      BY <3>1
  <2> QED
    BY <2>1 DEF purge_deleted_groups, Call, Purge
<1>3. todo' \in Seq(Statement) /\ Working'
  <2>1. CASE todo' = Purge
    <3>1. Purge \in Seq(Statement) /\ Purge = Left(Purge, 1)
      BY Batches, LeftAll, ZenonT(30)
    <3> QED
      BY <1>1, <2>1, <3>1 DEF Working
  <2>2. ASSUME NEW k \in MemberKey, todo' = AddMember(k)
        PROVE  todo' \in Seq(Statement) /\ Working'
    <3>1. AddMember(k) \in Seq(Statement) /\ AddMember(k) = Left(AddMember(k), 1)
      BY Batches, LeftAll, ZenonT(30)
    <3> QED
      BY <1>1, <2>2, <3>1 DEF Working
  <2> QED
    BY <1>2, <2>1, <2>2, ZenonT(30)
<1>4. TypeOK' /\ Migrated'
  BY <1>1, <1>3, ZenonT(30) DEF LocalInv, TypeOK, Migrated
<1> QED
  BY <1>1, <1>3, <1>4, FileStep

LEMMA ExpireStep ==
    ASSUME LocalInv, NEW g \in Group, Expire(g)
    PROVE  Step
<1>1. db \in Database /\ Sound(db) /\ db' = [db EXCEPT !.expired = @ \cup {g}]
  BY DEF LocalInv, TypeOK, Expire
<1>2. /\ db' \in Database
      /\ db'.groups = db.groups /\ db'.l1 = db.l1 /\ db'.devices = db.devices
      /\ db'.members = db.members /\ db'.members_new = db.members_new
      /\ db'.version = db.version /\ db'.tables = db.tables /\ db'.columns = db.columns
  BY <1>1 DEF Database
<1>3. Sound(db)'
  BY <1>1, <1>2 DEF Sound, ForeignKeysHold, Refers
<1>4. TypeOK'
  BY <1>2 DEF LocalInv, TypeOK, Expire
<1>5. Working' /\ Migrated'
  BY <1>2, ZenonT(30) DEF LocalInv, Expire, Working, Migrated, Rebuilt, Widened
<1>6. Kept(db, db') /\ Revokes(db, db')
  BY <1>2 DEF Kept, HasRow, Revokes
<1> QED
  BY <1>3, <1>4, <1>5, <1>6 DEF Step, LocalInv

LEMMA DeviceStep ==
    ASSUME LocalInv, NEW i \in Device, NEW e \in Entity,
           devices_revoke(i, e) \/ \E t \in Token : devices_register(i, e, t)
    PROVE  Step
<1>t. /\ db \in Database /\ removing \subseteq MemberKey /\ db.devices \subseteq DeviceRow
      /\ \A r, q \in db.devices : r.id = q.id => r = q
  BY DEF LocalInv, TypeOK, Database
<1>1. ASSUME NEW new \in SUBSET DeviceRow, Update([db EXCEPT !.devices = new]),
             removing' = removing,
             \A r, q \in new : r.id = q.id => r = q,
             \A r \in db.devices : r.revoked => \E q \in new : q.id = r.id /\ q.revoked
      PROVE  Step
  <2> DEFINE d == [db EXCEPT !.devices = new]
  <2>1. /\ d \in Database /\ d.devices = new
        /\ d.version = db.version /\ d.tables = db.tables /\ d.columns = db.columns /\ d.members_new = db.members_new
        /\ d.members = db.members
    BY <1>t DEF Database
  <2>2. Update(d)
    BY <1>1
  <2> HIDE DEF d
  <2>3. Kept(db, d) /\ Revokes(db, d)
    BY <1>1, <2>1 DEF Kept, HasRow, Revokes
  <2> QED
    BY <1>1, <1>t, <2>1, <2>2, <2>3, UpdateStep
<1>2. CASE devices_revoke(i, e)
  <2> DEFINE mark(r) == IF r.id = i /\ r.entity = e THEN [r EXCEPT !.revoked = TRUE] ELSE r
  <2>1. \A r \in DeviceRow :
           mark(r) \in DeviceRow /\ mark(r).id = r.id /\ (r.revoked => mark(r).revoked)
    BY Zenon DEF DeviceRow
  <2>2. Revoked(i, e) = {mark(r) : r \in db.devices}
    BY ZenonT(30) DEF Revoked
  <2> HIDE DEF mark
  <2>3. /\ Revoked(i, e) \subseteq DeviceRow
        /\ \A r, q \in Revoked(i, e) : r.id = q.id => r = q
        /\ \A r \in db.devices : r.revoked => \E q \in Revoked(i, e) : q.id = r.id /\ q.revoked
    <3>1. \A x \in Revoked(i, e) : \E r \in db.devices : x = mark(r)
      BY <2>2
    <3>2. \A r \in db.devices : mark(r) \in Revoked(i, e) /\ r \in DeviceRow
      BY <2>2, <1>t
    <3>3. ASSUME NEW x \in Revoked(i, e), NEW y \in Revoked(i, e), x.id = y.id PROVE x = y
      <4>1. PICK r \in db.devices : x = mark(r)
        BY <3>1, ZenonT(30)
      <4>2. PICK q \in db.devices : y = mark(q)
        BY <3>1, ZenonT(30)
      <4>3. r.id = q.id
        BY <3>2, <3>3, <4>1, <4>2, <2>1
      <4>4. r = q
        BY <4>3, <1>t, ZenonT(30)
      <4> QED
        BY <4>1, <4>2, <4>4, ZenonT(30)
    <3>4. Revoked(i, e) \subseteq DeviceRow
      BY <3>1, <3>2, <2>1, ZenonT(30)
    <3>5. \A r \in db.devices : r.revoked => \E q \in Revoked(i, e) : q.id = r.id /\ q.revoked
      BY <3>2, <2>1
    <3> QED
      BY <3>3, <3>4, <3>5
  <2> QED
    BY <1>1, <1>2, <2>3 DEF devices_revoke
<1>3. ASSUME NEW t \in Token, devices_register(i, e, t) PROVE Step
  <2> DEFINE renew(r) == IF r.id = i THEN [r EXCEPT !.token = t] ELSE r
             row == [id |-> i, entity |-> e, token |-> t, revoked |-> FALSE]
  <2>1. \A r \in DeviceRow :
           renew(r) \in DeviceRow /\ renew(r).id = r.id /\ (r.revoked => renew(r).revoked)
    BY DEF DeviceRow
  <2>r. row \in DeviceRow /\ row.id = i
    BY DEF DeviceRow
  <2>2. Registered(i, e, t) = IF \E r \in db.devices : r.id = i
                              THEN {renew(r) : r \in db.devices} ELSE db.devices \cup {row}
    BY ZenonT(30) DEF Registered
  <2> HIDE DEF renew, row
  <2>3. /\ Registered(i, e, t) \subseteq DeviceRow
        /\ \A r, q \in Registered(i, e, t) : r.id = q.id => r = q
        /\ \A r \in db.devices :
              r.revoked => \E q \in Registered(i, e, t) : q.id = r.id /\ q.revoked
    <3>1. CASE \E r \in db.devices : r.id = i
      <4>0. Registered(i, e, t) = {renew(r) : r \in db.devices}
        BY <2>2, <3>1, Zenon
      <4>1. \A x \in Registered(i, e, t) : \E r \in db.devices : x = renew(r)
        BY <4>0
      <4>2. \A r \in db.devices : renew(r) \in Registered(i, e, t) /\ r \in DeviceRow
        BY <4>0, <1>t, ZenonT(30)
      <4>3. ASSUME NEW x \in Registered(i, e, t), NEW y \in Registered(i, e, t), x.id = y.id PROVE x = y
        <5>1. PICK r \in db.devices : x = renew(r)
          BY <4>1, ZenonT(30)
        <5>2. PICK q \in db.devices : y = renew(q)
          BY <4>1, ZenonT(30)
        <5>3. r.id = q.id
          BY <4>2, <4>3, <5>1, <5>2, <2>1, ZenonT(30)
        <5>4. r = q
          BY <5>3, <1>t, ZenonT(30)
        <5> QED
          BY <5>1, <5>2, <5>4
      <4>4. Registered(i, e, t) \subseteq DeviceRow
        BY <4>1, <4>2, <2>1, ZenonT(30)
      <4>5. \A r \in db.devices : r.revoked => \E q \in Registered(i, e, t) : q.id = r.id /\ q.revoked
        BY <4>2, <2>1
      <4> QED
        BY <4>3, <4>4, <4>5
    <3>2. CASE ~ \E r \in db.devices : r.id = i
      <4>1. Registered(i, e, t) = db.devices \cup {row}
        BY <2>2, <3>2, Zenon
      <4> QED
        BY <1>t, <2>r, <3>2, <4>1, Zenon
    <3> QED
      BY <3>1, <3>2, ZenonT(30)
  <2> QED
    BY <1>1, <1>3, <2>3 DEF devices_register
<1> QED
  BY <1>2, <1>3

LEMMA LocalStep == LocalInv /\ [Next]_vars => Step
<1> SUFFICES ASSUME LocalInv, [Next]_vars PROVE Step
  OBVIOUS
<1>1. CASE Boot
  BY <1>1, FilesStep, EnsureSchemaStep, SeedStep DEF Boot
<1>2. CASE Execute
  BY <1>2, ExecuteAll
<1>3. CASE Identity
  BY <1>3, IdentityStep
<1>4. CASE Crash
  BY <1>4, CrashStep
<1>5. CASE Api
  <2>1. ASSUME NEW e \in Entity, l1_delete(e) \/ \E data \in Blob : l1_write(e, data)
        PROVE  Step
    BY <2>1, MemoryStep
  <2>2. ASSUME NEW g \in Group, groups_delete(g) \/ \E c \in Culture : groups_create(g, c)
        PROVE  Step
    BY <2>2, GroupStep
  <2>3. ASSUME \E g \in Group, e \in Entity : groups_add_member(g, e)
        PROVE  Step
    BY <2>3, CallStep
  <2>4. ASSUME NEW k \in MemberKey,
               \/ SoftRemove(k) \/ groups_remove_member(k)
               \/ \E posture \in Posture \ {"removed"} : groups_update_posture(k, posture)
        PROVE  Step
    BY <2>4, MemberStep
  <2>5. ASSUME NEW i \in Device, NEW e \in Entity,
               devices_revoke(i, e) \/ \E t \in Token : devices_register(i, e, t)
        PROVE  Step
    BY <2>5, DeviceStep
  <2> QED
    BY <1>5, <2>1, <2>2, <2>3, <2>4, <2>5 DEF Api
<1>6. CASE purge_deleted_groups
  BY <1>6, CallStep
<1>7. ASSUME NEW g \in Group, Expire(g) PROVE Step
  BY <1>7, ExpireStep
<1>8. CASE UNCHANGED vars
  <2>1. TypeOK' /\ UNCHANGED <<db, pc, todo>>
    BY <1>8 DEF vars, LocalInv, TypeOK
  <2> QED
    BY <2>1, OtherStep, ZenonT(30)
<1> QED
  BY <1>1, <1>2, <1>3, <1>4, <1>5, <1>6, <1>7, <1>8 DEF Next

LEMMA LocalInvariant == Spec => []LocalInv
<1>1. LocalInv /\ [Next]_vars => LocalInv'
  BY LocalStep DEF Step
<1> QED
  BY <1>1, InitLocalInv, PTL DEF Spec

-----------------------------------------------------------------------------
(* The theorems                                                            *)

(* Files, database, statements in progress and handlers keep their types,  *)
(* and device_id stays a primary key, whatever is interrupted.             *)
THEOREM LocalTypeCorrect == Spec => []TypeOK
<1>1. LocalInv => TypeOK
  BY DEF LocalInv
<1> QED
  BY <1>1, LocalInvariant, PTL

(* No statement, migration or interrupted call of the storage leaves a     *)
(* member row that names a missing group or a missing L1 row.              *)
THEOREM ReferencesHold == Spec => []ForeignKeys
<1>1. LocalInv => ForeignKeys
  BY DEF LocalInv, Sound, ForeignKeys
<1> QED
  BY <1>1, LocalInvariant, PTL

(* A serving node has the group_members table of version 7 with all        *)
(* members in it, whatever was left of an interrupted migration.           *)
THEOREM MigrationsComplete == Spec => []ServesMembers
<1>1. LocalInv => ServesMembers
  BY DEF LocalInv, Migrated, Sound, ServesMembers
<1> QED
  BY <1>1, LocalInvariant, PTL

(* Only the purge of a deleted group erases a membership: not schema_v7's  *)
(* rebuild of the table, wherever it is interrupted.                       *)
THEOREM MembershipsKept == Spec => MembersKept
<1>1. LocalInv /\ [Next]_vars =>
         [\A k \in MemberKey :
             HasRow(db, k) => HasRow(db', k) \/ db.groups[k[1]] = Tombstone]_vars
  BY LocalStep DEF Step, Kept
<1> QED
  BY <1>1, LocalInvariant, PTL DEF Spec, MembersKept

(* A revoked device stays revoked, whoever registers it again.             *)
THEOREM RevocationsFinal == Spec => RevocationFinal
<1>1. LocalInv /\ [Next]_vars =>
         [\A r \in db.devices : r.revoked =>
             \E q \in db'.devices : q.id = r.id /\ q.revoked]_vars
  BY LocalStep, ZenonT(30) DEF Step, Revokes
<1> QED
  BY <1>1, LocalInvariant, PTL DEF Spec, RevocationFinal

-----------------------------------------------------------------------------
(* The identity.  While the key file is being made, by the node or by the  *)
(* command line tool, nobody else makes one; afterwards it is never        *)
(* written again.                                                          *)
OneKey ==
    /\ served # "absent" => key = served
    /\ pc = "key_create" => key = "absent" /\ ident \in Key
    /\ pc = "key_write" => key = "empty" /\ ident \in Key
    /\ pc \notin {"down", "identity", "key_create", "key_write"} => key \in Key /\ ident = key
    /\ cli # CliIdle => pc = "down" /\ key \notin Key

LEMMA OneKeyStep ==
    ASSUME ~ Concurrent, TypeOK, OneKey, [Next]_vars
    PROVE  OneKey' /\ (served # "absent" => served' = served)
<1> USE LocalNodeConstants DEF OneKey, TypeOK, files
<1>e. ASSUME Exit PROVE OneKey' /\ served' = served
  BY <1>e, ZenonT(30) DEF Exit
<1>u. ASSUME UNCHANGED <<key, pc, ident, cli, served>> PROVE OneKey' /\ served' = served
  BY <1>u, ZenonT(30)
<1>1. CASE Start
  BY <1>1, ZenonT(30) DEF Start, Goto
<1>2. CASE LoadIdentity
  BY <1>2, <1>e, ZenonT(30) DEF LoadIdentity, Goto
<1>3. CASE CreateKeyFile \/ WriteKeyFile
  BY <1>3, ZenonT(30) DEF CreateKeyFile, WriteKeyFile, Goto
<1>4. CASE EnsureSchema
  BY <1>4, <1>e DEF EnsureSchema, Goto, After
<1>5. CASE LoadToken \/ WriteToken
  BY <1>5 DEF LoadToken, WriteToken, Goto
<1>6. CASE SeedGroups
  BY <1>6, ZenonT(30) DEF SeedGroups
<1>7. CASE Execute
  BY <1>7, <1>e, <1>u, ZenonT(30) DEF Execute
<1>8. CASE Identity
  BY <1>8 DEF Identity, CliIdle
<1>9. CASE Crash
  BY <1>9, <1>e DEF Crash
<1>10. CASE Api \/ purge_deleted_groups
  BY <1>10, <1>u, Zenon DEF Api, purge_deleted_groups, Call, Update, l1_delete, l1_write, groups_delete,
     groups_create, groups_add_member, SoftRemove, groups_remove_member, groups_update_posture,
     SetPosture, devices_revoke, devices_register
<1>11. ASSUME NEW g \in Group, Expire(g) PROVE OneKey' /\ served' = served
  BY <1>11, <1>u, ZenonT(30) DEF Expire
<1>12. CASE UNCHANGED vars
  BY <1>12, <1>u, Zenon DEF vars
<1> QED
  BY <1>1, <1>2, <1>3, <1>4, <1>5, <1>6, <1>7, <1>8, <1>9, <1>10, <1>11, <1>12, ZenonT(30) DEF Next, Boot

(* Where `identity generate` does not run beside the node, the node never  *)
(* serves under a second identity, whatever crashes interrupt the writing  *)
(* of the key file.                                                        *)
THEOREM IdentityFixed ==
    ASSUME ~ Concurrent
    PROVE  Spec => IdentityKept
<1>1. Init => OneKey
  BY LocalNodeConstants DEF Init, OneKey, CliIdle
<1>2. TypeOK /\ OneKey /\ [Next]_vars => OneKey'
  BY OneKeyStep
<1>3. TypeOK /\ OneKey /\ [Next]_vars => [served # "absent" => served' = served]_vars
  BY OneKeyStep, ZenonT(30)
<1> QED
  BY <1>1, <1>2, <1>3, LocalTypeCorrect, PTL DEF Spec, IdentityKept

-----------------------------------------------------------------------------
(* Starts that fail                                                        *)

\* A statement that leaves rows alone breaks no reference.
LEMMA SchemaKeepsKeys ==
    ASSUME NEW d \in Database, ForeignKeysHold(d), NEW s,
           \/ \E t \in Table : s = Create(t)
           \/ \E v \in 4..7 : s = InsertVersion(v) \/ s = Bump(v)
           \/ \E c \in OwnerColumns : s = AddColumn(c)
    PROVE  ForeignKeysHold(Effect(d, s))
<1> SUFFICES /\ Effect(d, s).members = d.members /\ Effect(d, s).members_new = d.members_new
             /\ Effect(d, s).groups = d.groups /\ Effect(d, s).l1 = d.l1
  BY Zenon DEF ForeignKeysHold, Refers
<1>1. ASSUME NEW t \in Table, s = Create(t)
      PROVE  /\ Effect(d, s).members = d.members /\ Effect(d, s).members_new = d.members_new
             /\ Effect(d, s).groups = d.groups /\ Effect(d, s).l1 = d.l1
  BY <1>1, Zenon DEF Effect, Create, Database
<1>2. ASSUME NEW v \in 4..7, s = InsertVersion(v)
      PROVE  /\ Effect(d, s).members = d.members /\ Effect(d, s).members_new = d.members_new
             /\ Effect(d, s).groups = d.groups /\ Effect(d, s).l1 = d.l1
  BY <1>2 DEF Effect, InsertVersion, Database
<1>3. ASSUME NEW v \in 4..7, s = Bump(v)
      PROVE  /\ Effect(d, s).members = d.members /\ Effect(d, s).members_new = d.members_new
             /\ Effect(d, s).groups = d.groups /\ Effect(d, s).l1 = d.l1
  BY <1>3 DEF Effect, Bump, Database
<1>4. ASSUME NEW c \in OwnerColumns, s = AddColumn(c)
      PROVE  /\ Effect(d, s).members = d.members /\ Effect(d, s).members_new = d.members_new
             /\ Effect(d, s).groups = d.groups /\ Effect(d, s).l1 = d.l1
  BY <1>4 DEF Effect, AddColumn, Database
<1> QED
  BY <1>1, <1>2, <1>3, <1>4, ZenonT(30)

\* Neither does the rebuild of group_members.
LEMMA RebuildKeepsKeys ==
    ASSUME NEW d \in Database, ForeignKeysHold(d)
    PROVE  /\ ForeignKeysHold(Effect(d, CopyMembers))
           /\ ForeignKeysHold(Effect(d, DropMembers))
           /\ ForeignKeysHold(Effect(d, RenameMembers))
<1>n. \A k \in MemberKey : NoMembers[k] = "absent"
  BY DEF NoMembers
<1>1. ForeignKeysHold(Effect(d, CopyMembers))
  <2> DEFINE e == Effect(d, CopyMembers)
  <2>1. e = [d EXCEPT !.members_new = Merged(d)]
    BY DEF Effect, CopyMembers
  <2>2. /\ e.members = d.members /\ e.members_new = Merged(d)
        /\ e.groups = d.groups /\ e.l1 = d.l1
    BY <2>1 DEF Database
  <2>3. \A k \in MemberKey :
           Merged(d)[k] # "absent" => d.members[k] # "absent" \/ d.members_new[k] # "absent"
    BY DEF Merged
  <2> HIDE DEF e
  <2>4. ForeignKeysHold(e)
    BY <2>2, <2>3 DEF ForeignKeysHold, Refers
  <2> QED
    BY <2>4 DEF e
<1>2. ForeignKeysHold(Effect(d, DropMembers))
  <2> DEFINE e == Effect(d, DropMembers)
  <2>1. /\ e.members = NoMembers /\ e.members_new = d.members_new
        /\ e.groups = d.groups /\ e.l1 = d.l1
    BY Zenon DEF Effect, DropMembers, Database
  <2> HIDE DEF e
  <2>2. ForeignKeysHold(e)
    BY <1>n, <2>1 DEF ForeignKeysHold, Refers
  <2> QED
    BY <2>2 DEF e
<1>3. ForeignKeysHold(Effect(d, RenameMembers))
  <2> DEFINE e == Effect(d, RenameMembers)
  <2>1. /\ e.members = d.members_new /\ e.members_new = NoMembers
        /\ e.groups = d.groups /\ e.l1 = d.l1
    BY Zenon DEF Effect, RenameMembers, Database
  <2> HIDE DEF e
  <2>2. ForeignKeysHold(e)
    BY <1>n, <2>1, ZenonT(30) DEF ForeignKeysHold, Refers
  <2> QED
    BY <2>2 DEF e
<1> QED
  BY <1>1, <1>2, <1>3

\* A statement of a start fails only in the rebuild of a table that is gone.
LEMMA StatementFails ==
    ASSUME LocalInv, todo # <<>>, pc # "serving", Fails(db, Head(todo))
    PROVE  Damaged
<1>t. db \in Database /\ ForeignKeysHold(db)
  BY ZenonT(30) DEF LocalInv, TypeOK, Sound
<1> DEFINE s == Head(todo)
<1>c. ASSUME NEW t \in Table, s = Create(t) PROVE FALSE
  <2>1. ForeignKeysHold(Effect(db, s))
    BY <1>c, <1>t, SchemaKeepsKeys
  <2> QED
    BY <1>c, <2>1 DEF Fails, Create, KeepsForeignKeys
<1>i. ASSUME NEW v \in 4..7, s = InsertVersion(v) PROVE FALSE
  <2>1. ForeignKeysHold(Effect(db, s))
    BY <1>i, <1>t, SchemaKeepsKeys, ZenonT(30)
  <2> QED
    BY <1>i, <2>1 DEF Fails, InsertVersion, KeepsForeignKeys
<1>b. ASSUME NEW v \in 4..7, s = Bump(v) PROVE FALSE
  <2>1. ForeignKeysHold(Effect(db, s))
    BY <1>b, <1>t, SchemaKeepsKeys, ZenonT(30)
  <2> QED
    BY <1>b, <2>1 DEF Fails, Bump, KeepsForeignKeys
<1>a. ASSUME NEW c \in OwnerColumns, s = AddColumn(c) PROVE c \in db.columns
  <2>1. ForeignKeysHold(Effect(db, s))
    BY <1>a, <1>t, SchemaKeepsKeys
  <2> QED
    BY <1>a, <2>1 DEF Fails, AddColumn, KeepsForeignKeys
<1> HIDE DEF s
<1>1. ASSUME pc = "v5", NEW n \in 1..8, todo = Left(schema_v4, n) PROVE FALSE
  <2>1. schema_v4 \in Seq(Statement) /\ Len(schema_v4) = 8
    BY Batches
  <2>2. s = schema_v4[n]
    BY <1>1, <2>1, LeftStep, Zenon DEF s
  <2>3. (\E t \in Table : s = Create(t)) \/ s = InsertVersion(6)
    BY <2>2 DEF schema_v4, Table
  <2> QED
    BY <2>3, <1>c, <1>i
<1>2. ASSUME pc = "v6", NEW n \in 1..2, todo = Left(schema_v5, n) PROVE FALSE
  <2>1. schema_v5 \in Seq(Statement) /\ Len(schema_v5) = 2
    BY Batches
  <2>2. s = schema_v5[n]
    BY <1>2, <2>1, LeftStep, Zenon DEF s
  <2>3. (\E t \in Table : s = Create(t)) \/ s = Bump(5)
    BY <2>2 DEF schema_v5, Table
  <2> QED
    BY <2>3, <1>c, <1>b
<1>3. ASSUME pc = "v7", NEW n \in 1..4, todo = Left(schema_v6, n), Widened(n) PROVE FALSE
  <2>1. schema_v6 \in Seq(Statement) /\ Len(schema_v6) = 4
    BY Batches
  <2>2. s = schema_v6[n]
    BY <1>3, <2>1, LeftStep, Zenon DEF s
  <2>3. (\E c \in OwnerColumns : s = AddColumn(c) /\ c \notin db.columns) \/ s = Bump(6)
    BY <1>3, <2>2 DEF schema_v6, OwnerColumns, Widened
  <2> QED
    BY <2>3, <1>a, <1>b
<1>4. ASSUME pc = "token", NEW n \in 1..5, todo = Left(schema_v7, n), Rebuilt(n)
      PROVE  Damaged
  <2>1. schema_v7 \in Seq(Statement) /\ Len(schema_v7) = 5
    BY Batches
  <2>2. s = schema_v7[n]
    BY <1>4, <2>1, LeftStep, Zenon DEF s
  <2>3. \/ \E t \in Table : s = Create(t)
        \/ s \in {CopyMembers, DropMembers}
        \/ n = 4 /\ s = RenameMembers
        \/ s = Bump(7)
    <3>1. n = 1 => s = Create("group_members_new") /\ "group_members_new" \in Table
      BY <2>2 DEF schema_v7, Table
    <3>2. /\ n = 2 => s = CopyMembers
          /\ n = 3 => s = DropMembers
          /\ n = 4 => s = RenameMembers
          /\ n = 5 => s = Bump(7)
      BY <2>2 DEF schema_v7
    <3>3. n = 1 \/ n = 2 \/ n = 3 \/ n = 4 \/ n = 5
      OBVIOUS
    <3>4. CASE n = 1
      BY <3>1, <3>4
    <3>5. CASE n # 1
      BY <3>2, <3>3, <3>5
    <3> QED
      BY <3>4, <3>5
  <2>4. CASE s \in {CopyMembers, DropMembers}
    <3>1. "group_members" \notin db.tables
      BY <2>4, <1>t, RebuildKeepsKeys DEF s, Fails, CopyMembers, DropMembers, KeepsForeignKeys
    <3> QED
      BY <1>4, <3>1 DEF Rebuilt, Damaged
  <2>5. CASE n = 4 /\ s = RenameMembers
    <3>1. "group_members" \in db.tables
      BY <2>5, <1>t, RebuildKeepsKeys DEF s, Fails, RenameMembers, KeepsForeignKeys
    <3> QED
      BY <1>4, <2>5, <3>1 DEF Rebuilt
  <2> QED
    BY <2>3, <2>4, <2>5, <1>c, <1>b
<1> QED
  BY <1>1, <1>2, <1>3, <1>4, ZenonT(30) DEF LocalInv, Working

LEMMA StartFails ==
    ASSUME LocalInv, [Next]_vars, pc # "down", pc' = "down", crashes' = crashes
    PROVE  Damaged
<1>1. CASE EnsureSchema
  <2>1. todo = <<>> /\ pc \in {"v5", "v6", "v7"} /\ db.version < 4
    BY <1>1 DEF EnsureSchema, Goto, After
  <2>2. db.version = 0
    BY <2>1 DEF LocalInv, Sound
  <2> QED
    BY <2>1, <2>2, Idle DEF Damaged
<1>2. CASE Execute
  BY <1>2, StatementFails DEF Execute
<1>3. CASE LoadIdentity
  BY <1>3, ZenonT(30) DEF LoadIdentity, Goto, Damaged
<1>4. CASE Crash
  BY <1>4, LocalNodeConstants DEF Crash, LocalInv, TypeOK
<1>5. CASE Start \/ CreateKeyFile \/ WriteKeyFile \/ LoadToken \/ WriteToken \/ SeedGroups
  BY <1>5 DEF Start, CreateKeyFile, WriteKeyFile, LoadToken, WriteToken, SeedGroups, Goto
<1>6. CASE Identity \/ UNCHANGED vars \/ \E g \in Group : Expire(g)
  BY <1>6 DEF Identity, vars, Expire
<1>7. CASE Api \/ purge_deleted_groups
  BY <1>7, Zenon DEF Api, purge_deleted_groups, Call, Update, l1_delete, l1_write, groups_delete,
     groups_create, groups_add_member, SoftRemove, groups_remove_member, groups_update_posture,
     SetPosture, devices_revoke, devices_register
<1> QED
  BY <1>1, <1>2, <1>3, <1>4, <1>5, <1>6, <1>7 DEF Next, Boot

(* A start of the node ends by itself only on a key file that was created  *)
(* and not written, on a schema_version table without its row, or at       *)
(* version 6 without group_members: no other interruption of the schema    *)
(* batches makes a later migration fail.                                   *)
THEOREM StartsUnlessDamaged == Spec => StartFailsDamaged
<1>1. LocalInv /\ [Next]_vars =>
         [pc # "down" /\ pc' = "down" /\ crashes' = crashes => Damaged]_vars
  BY StartFails
<1> QED
  BY <1>1, LocalInvariant, PTL DEF Spec, StartFailsDamaged
=============================================================================
