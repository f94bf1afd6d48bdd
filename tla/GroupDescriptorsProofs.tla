------------------------ MODULE GroupDescriptorsProofs ------------------------
(***************************************************************************)
(* Proofs about GroupDescriptors, for every set of nodes, every topology,  *)
(* configuration and bound: the variables keep their types, the owner of a *)
(* signed row never changes, and, as long as no node is restarted, a node  *)
(* without clients of its own stores under a signature what was signed.    *)
(***************************************************************************)
EXTENDS GroupDescriptors, TLAPS

\* The kinds of task by their first field.
LEMMA TaskKinds ==
    ASSUME NEW t \in Task
    PROVE  /\ t.at \in {"write", "sign"} =>
                t \in [at : {"write", "sign"}, peer : Node, request : BOOLEAN, desc : Row]
           /\ t.at = "members" => t \in [at : {"members"}, peer : Node, request : BOOLEAN]
           /\ t.at = "respond" => t \in [at : {"respond"}, peer : Node, tombstoned : BOOLEAN]
           /\ t.at = "send" =>
                /\ t \in [at : {"send"}, peer : Node, request : BOOLEAN,
                          desc : Row \cup {NoRow}, sign : BOOLEAN, tombstoned : BOOLEAN]
                /\ t.sign => t.desc \in Row
<1> DEFINE Merging == [at : {"write", "sign"}, peer : Node, request : BOOLEAN, desc : Row]
           Removing == [at : {"members"}, peer : Node, request : BOOLEAN]
           Answering == [at : {"respond"}, peer : Node, tombstoned : BOOLEAN]
           Signing == [at : {"send"}, peer : Node, request : BOOLEAN, desc : Row,
                       sign : BOOLEAN, tombstoned : BOOLEAN]
           Plain == [at : {"send"}, peer : Node, request : BOOLEAN, desc : {NoRow},
                     sign : {FALSE}, tombstoned : BOOLEAN]
           Sending == [at : {"send"}, peer : Node, request : BOOLEAN,
                       desc : Row \cup {NoRow}, sign : BOOLEAN, tombstoned : BOOLEAN]
           Leaving == [at : {"unshare"}]
<1>1. \/ t = Idle \/ t \in Merging \/ t \in Removing \/ t \in Answering
      \/ t \in Signing \/ t \in Plain \/ t \in Leaving
  BY Zenon DEF Task
<1>2. /\ t = Idle => t.at = "idle"
      /\ t \in Merging => t.at \in {"write", "sign"}
      /\ t \in Removing => t.at = "members"
      /\ t \in Answering => t.at = "respond"
      /\ t \in Leaving => t.at = "unshare"
  BY DEF Idle
<1>3. t \in Signing => t.at = "send" /\ t \in Sending /\ t.desc \in Row
  OBVIOUS
<1>4. t \in Plain => t.at = "send" /\ t \in Sending /\ t.sign = FALSE
  BY Zenon
<1> HIDE DEF Merging, Removing, Answering, Signing, Plain, Sending, Leaving
<1>6. t.at \in {"write", "sign"} => t \in Merging
  BY <1>1, <1>2, <1>3, <1>4
<1>7. t.at = "members" => t \in Removing
  BY <1>1, <1>2, <1>3, <1>4
<1>8. t.at = "respond" => t \in Answering
  BY <1>1, <1>2, <1>3, <1>4
<1>9. t.at = "send" => t \in Sending /\ (t.sign = FALSE \/ t.desc \in Row)
  BY <1>1, <1>2, <1>3, <1>4
<1> QED
  BY <1>6, <1>7, <1>8, <1>9, Zenon DEF Merging, Removing, Answering, Sending

LEMMA WriteGroupType ==
    ASSUME NEW r \in Row \cup {NoRow}, NEW culture \in AnyCulture, NEW born \in Time,
           clock \in Time
    PROVE  WriteGroup(r, culture, born) \in Row
  BY DEF WriteGroup, Row, Signature

LEMMA WriteGroupSignatureType ==
    ASSUME NEW r \in Row \cup {NoRow}, NEW sig \in Signature
    PROVE  WriteGroupSignature(r, sig) \in Row \cup {NoRow}
  BY DEF WriteGroupSignature, Row

LEMMA SoftRemoveType ==
    ASSUME NEW m \in Member
    PROVE  SoftRemove(m) \in Member
  BY DEF SoftRemove, Member, Posture

LEMMA MergedType ==
    ASSUME NEW peer \in Node, NEW request \in BOOLEAN, NEW tombstoned \in BOOLEAN
    PROVE  Merged(peer, request, tombstoned) \in Task
  BY Zenon DEF Merged, Task, Unsharing, Idle

LEMMA SignedType ==
    ASSUME TypeOK, NEW n \in Node, row[n] # NoRow
    PROVE  Signed(n) \in Row
<1>1. row[n] \in Row
  BY DEF TypeOK
<1>2. [by |-> n, culture |-> row[n].culture, at |-> row[n].updated_at] \in Signature
  BY <1>1 DEF Row, Signature
<1> QED
  BY <1>1, <1>2 DEF Signed, Row

LEMMA BuildType ==
    ASSUME TypeOK, NEW n \in Node, NEW peer \in Node, NEW request \in BOOLEAN,
           NEW tombstoned \in BOOLEAN, BuildDescriptors(n, peer, request, tombstoned)
    PROVE  swarm' \in [Node -> Task]
<1> DEFINE d == IF MustSign(n) THEN Signed(n) ELSE row[n]
           b == MustSign(n)
<1>1. d \in Row \/ (d = NoRow /\ b = FALSE)
  BY SignedType DEF TypeOK, MustSign
<1>2. b \in BOOLEAN
  BY DEF MustSign
<1>3. [at |-> "send", peer |-> peer, request |-> request, desc |-> d, sign |-> b,
       tombstoned |-> tombstoned] \in Task
  <2> HIDE DEF d, b
  <2>1. CASE d \in Row
    BY <1>2, <2>1, Zenon DEF Task
  <2>2. CASE d = NoRow /\ b = FALSE
    BY <2>2, Zenon DEF Task
  <2> QED
    BY <1>1, <2>1, <2>2, Zenon
<1> QED
  BY <1>3 DEF TypeOK, BuildDescriptors

LEMMA InitTypeOK == Init => TypeOK
<1> SUFFICES ASSUME Init PROVE TypeOK
  OBVIOUS
<1> USE GroupAssumption
<1>1. [culture |-> Default, updated_at |-> 0, sig |-> None, born |-> 0] \in Row
  BY DEF Row, AnyCulture, Signature, Time
<1>2. NoMember \in Member /\ Idle \in Task
  BY DEF NoMember, Member, Posture, Idle, Task
<1>3. \A n \in Node : (n \in Configured) \in BOOLEAN
  OBVIOUS
<1> QED
  BY <1>1, <1>2, <1>3 DEF Init, TypeOK, Time, ApiStep
LEMMA NextTypeOK == TypeOK /\ [Next]_vars => TypeOK'
<1> SUFFICES ASSUME TypeOK, [Next]_vars PROVE TypeOK'
  OBVIOUS
<1> USE GroupAssumption DEF TypeOK, dbVars
<1>1. ASSUME NEW n \in Node, NEW culture \in Culture, GroupsCreate(n, culture) PROVE TypeOK'
  <2>1. WriteGroup(row[n], culture, clock) \in Row
    BY WriteGroupType, Zenon DEF AnyCulture
  <2> QED
    BY <1>1, <2>1 DEF GroupsCreate, Call, ApiStep
<1>2. ASSUME NEW n \in Node, GroupsDelete(n) PROVE TypeOK'
  BY <1>2 DEF GroupsDelete, Call, ApiStep
<1>3. ASSUME NEW n \in Node, NEW role \in {"owner", "member"}, AddMember(n, role)
      PROVE  TypeOK'
  <2>1. [role |-> role, posture |-> "active"] \in Member
    BY DEF Member, Posture
  <2> QED
    BY <1>3, <2>1 DEF AddMember, Call
<1>4. ASSUME NEW n \in Node, RemoveMember(n) PROVE TypeOK'
  <2>1. [member[n] EXCEPT !.posture = "removed"] \in Member
    BY DEF Member, Posture
  <2> QED
    BY <1>4, <2>1 DEF RemoveMember, Call
<1>5. ASSUME NEW n \in Node, NEW posture \in {"active", "silent"}, UpdatePosture(n, posture)
      PROVE  TypeOK'
  <2>1. [member[n] EXCEPT !.posture = posture] \in Member
    BY DEF Member, Posture
  <2> QED
    BY <1>5, <2>1 DEF UpdatePosture, Call
<1>6. ASSUME NEW n \in Node, ApiStepOf(n) PROVE TypeOK'
  <2>1. CASE ShareGroup(n)
    BY <2>1 DEF ShareGroup, ApiStep
  <2>2. CASE TombstoneGroup(n)
    <3>1. WriteGroup(row[n], Tombstone, clock) \in Row
      BY WriteGroupType, Zenon DEF AnyCulture
    <3> QED
      BY <2>2, <3>1 DEF TombstoneGroup, ApiStep
  <2>3. CASE RemoveMembers(n)
    BY <2>3, SoftRemoveType DEF RemoveMembers, ApiStep
  <2>4. CASE UnshareGroup(n)
    BY <2>4 DEF UnshareGroup, ApiStep
  <2> QED
    BY <1>6, <2>1, <2>2, <2>3, <2>4 DEF ApiStepOf
<1>7. ASSUME NEW n \in Node, SwarmStepOf(n) PROVE TypeOK'
  <2>t. swarm[n] \in Task
    OBVIOUS
  <2>i. Idle \in Task /\ Unsharing \in Task
    BY DEF Task, Unsharing, Idle
  <2>1. CASE Respond(n)
    <3>1. swarm[n].peer \in Node /\ swarm[n].tombstoned \in BOOLEAN
      BY <2>1, <2>t, TaskKinds DEF Respond
    <3>2. swarm' \in [Node -> Task]
      <4>1. BuildDescriptors(n, swarm[n].peer, FALSE, swarm[n].tombstoned)
        BY <2>1, Zenon DEF Respond
      <4> HIDE DEF TypeOK
      <4> QED
        BY <3>1, <4>1, BuildType, ZenonT(30)
    <3> QED
      BY <2>1, <3>2 DEF Respond
  <2>2. CASE SendExchange(n)
    <3>1. /\ swarm[n].peer \in Node /\ swarm[n].request \in BOOLEAN
          /\ swarm[n].desc \in Row \cup {NoRow} /\ swarm[n].sign \in BOOLEAN
          /\ swarm[n].sign => swarm[n].desc \in Row
      BY <2>2, <2>t, TaskKinds DEF SendExchange
    <3>2. net' \subseteq Message
      BY <2>2, <3>1 DEF SendExchange, Message
    <3>3. swarm' \in [Node -> Task]
      BY <2>2, <2>i DEF SendExchange
    <3>4. swarm[n].sign => swarm[n].desc.sig \in Signature
      BY <3>1 DEF Row
    <3> QED
      BY <2>2, <3>2, <3>3, <3>4, WriteGroupSignatureType DEF SendExchange
  <2>3. CASE MergeWrite(n)
    <3>1. swarm[n] \in [at : {"write", "sign"}, peer : Node, request : BOOLEAN, desc : Row]
      BY <2>3, <2>t, TaskKinds DEF MergeWrite
    <3>2. [swarm[n] EXCEPT !.at = "sign"] \in Task
      BY <3>1, Zenon DEF Task
    <3>3. WriteGroup(row[n], swarm[n].desc.culture, swarm[n].desc.born) \in Row
      BY <3>1, WriteGroupType DEF Row
    <3> QED
      BY <2>3, <3>2, <3>3 DEF MergeWrite
  <2>4. CASE MergeSign(n)
    <3>1. swarm[n] \in [at : {"write", "sign"}, peer : Node, request : BOOLEAN, desc : Row]
      BY <2>4, <2>t, TaskKinds DEF MergeSign
    <3>2. [at |-> "members", peer |-> swarm[n].peer, request |-> swarm[n].request] \in Task
      BY <3>1, Zenon DEF Task
    <3>3. Merged(swarm[n].peer, swarm[n].request, FALSE) \in Task
      BY <3>1, MergedType, Zenon
    <3>4. swarm' \in [Node -> Task]
      BY <2>4, <3>2, <3>3, Zenon DEF MergeSign
    <3>5. swarm[n].desc.sig \in Signature
      BY <3>1 DEF Row
    <3>6. row' \in [Node -> Row \cup {NoRow}]
      BY <2>4, <3>5, WriteGroupSignatureType DEF MergeSign
    <3> QED
      BY <2>4, <3>4, <3>6, Zenon DEF MergeSign
  <2>5. CASE MergeMembers(n)
    <3>1. Merged(swarm[n].peer, swarm[n].request, TRUE) \in Task
      BY <2>5, <2>t, TaskKinds, MergedType, Zenon DEF MergeMembers
    <3> QED
      BY <2>5, <3>1, SoftRemoveType, Zenon DEF MergeMembers
  <2>6. CASE Unshare(n)
    BY <2>6, <2>i DEF Unshare
  <2> QED
    BY <1>7, <2>1, <2>2, <2>3, <2>4, <2>5, <2>6 DEF SwarmStepOf
<1>8. ASSUME NEW n \in Node, PurgeDeletedGroup(n) PROVE TypeOK'
  <2>1. NoMember \in Member
    BY DEF NoMember, Member, Posture
  <2> QED
    BY <1>8, <2>1 DEF PurgeDeletedGroup
<1>9. ASSUME NEW n \in Node, Restart(n) PROVE TypeOK'
  <2>1. Seeded(n, row[n]) \in Row \cup {NoRow}
    BY WriteGroupType, Zenon DEF Seeded, AnyCulture
  <2>2. (Seeded(n, row[n]) # NoRow) \in BOOLEAN
    OBVIOUS
  <2>3. Idle \in Task
    BY DEF Task
  <2>4. shared' \in [Node -> BOOLEAN]
    BY <1>9, <2>2 DEF Restart
  <2> QED
    BY <1>9, <2>1, <2>3, <2>4 DEF Restart, ApiStep
<1>10. ASSUME NEW n \in Node, NEW m \in Node, StartExchange(n, m) PROVE TypeOK'
  <2>1. swarm' \in [Node -> Task]
    BY <1>10, BuildType, Zenon DEF StartExchange
  <2> QED
    BY <1>10, <2>1 DEF StartExchange
<1>11. ASSUME NEW x \in net, ReceiveExchange(x) PROVE TypeOK'
  <2>1. /\ x.to \in Node /\ x.from \in Node /\ x.request \in BOOLEAN
        /\ x.desc \in Row \cup {NoRow}
    BY DEF Message
  <2>2. Acceptable(x.to, x.desc) =>
           [at |-> "write", peer |-> x.from, request |-> x.request, desc |-> x.desc] \in Task
    BY <2>1, Zenon DEF Acceptable, Task
  <2>3. Merged(x.from, x.request, FALSE) \in Task
    BY <2>1, MergedType, Zenon
  <2>4. swarm' \in [Node -> Task]
    BY <1>11, <2>1, <2>2, <2>3, Zenon DEF ReceiveExchange
  <2> QED
    BY <1>11, <2>4, Zenon DEF ReceiveExchange
<1>12. ASSUME NEW x \in net, LoseMessage(x) PROVE TypeOK'
  BY <1>12 DEF LoseMessage
<1>13. CASE Advance
  BY <1>13 DEF Advance, Time
<1>14. CASE UNCHANGED vars
  BY <1>14 DEF vars
<1> QED
  BY <1>1, <1>2, <1>3, <1>4, <1>5, <1>6, <1>7, <1>8, <1>9, <1>10, <1>11, <1>12,
     <1>13, <1>14 DEF Next

\* Every reachable state is well typed: what the swarm task keeps between two
\* storage calls is always a task of one of its kinds, with the row it carries.
THEOREM TypeCorrect == Spec => []TypeOK
  BY InitTypeOK, NextTypeOK, PTL DEF Spec
-----------------------------------------------------------------------------
(* Owners.                                                                 *)

HasSig(n) == row[n] # NoRow /\ row[n].sig # None

\* What the swarm task knows of the row it judged, while it waits for its next
\* storage call: a merge it accepted is by the owner of the row, if the row
\* (still) has one, and a signature it is about to store meets no other.  Only
\* this task stores signatures, so clients cannot make it untrue.
Judged(n) ==
    /\ swarm[n].at \in {"write", "sign"} /\ HasSig(n) =>
          swarm[n].desc.sig # None /\ swarm[n].desc.sig.by = row[n].sig.by
    /\ swarm[n].at = "send" /\ swarm[n].sign => ~ HasSig(n)

\* OwnerFixed is a property of steps; this is the state it needs.
OwnersJudged == TypeOK /\ \A n \in Node : Judged(n)

\* The signature of a row as the step leaves it, where clients, purges and
\* restarts act: kept, or gone with the row, or none on a new row.
Keeps(n) ==
    HasSig(n)' => HasSig(n) /\ row'[n].sig = row[n].sig

LEMMA JudgedStays ==
    ASSUME OwnersJudged, TypeOK', NEW n \in Node, swarm'[n] = swarm[n], Keeps(n)
    PROVE  Judged(n)'
  BY DEF OwnersJudged, Judged, Keeps, HasSig

LEMMA IdleJudged ==
    ASSUME NEW n \in Node, swarm'[n].at \notin {"write", "sign", "send"}
    PROVE  Judged(n)'
  BY DEF Judged

LEMMA MergedAt ==
    ASSUME NEW peer, NEW request, NEW tombstoned
    PROVE  Merged(peer, request, tombstoned).at \notin {"write", "sign", "send"}
  BY DEF Merged, Idle, Unsharing
\* What OwnerFixed says of a step and a node.
FixedStep(n) ==
    HasSig(n) /\ row'[n] # NoRow => row'[n].sig # None /\ row'[n].sig.by = row[n].sig.by

Good == OwnersJudged' /\ \A n \in Node : FixedStep(n)

\* A step of one node leaves the others alone.
LEMMA OneNode ==
    ASSUME OwnersJudged, TypeOK', NEW n \in Node,
           \A k \in Node \ {n} : swarm'[k] = swarm[k] /\ row'[k] = row[k],
           Judged(n)', FixedStep(n)
    PROVE  Good
<1>1. ASSUME NEW k \in Node \ {n} PROVE Judged(k)' /\ FixedStep(k)
  <2>1. Keeps(k)
    BY DEF Keeps, HasSig
  <2> QED
    BY <2>1, JudgedStays DEF FixedStep, HasSig
<1> QED
  BY <1>1 DEF Good, OwnersJudged

\* A step that leaves the swarm tasks and all signatures alone.
LEMMA Kept ==
    ASSUME OwnersJudged, TypeOK', swarm' = swarm, \A n \in Node : Keeps(n) /\ FixedStep(n)
    PROVE  Good
  BY JudgedStays DEF Good, OwnersJudged

LEMMA SameRow ==
    ASSUME NEW n \in Node, row'[n] = row[n]
    PROVE  Keeps(n) /\ FixedStep(n)
  BY DEF Keeps, FixedStep, HasSig

LEMMA RowWritten ==
    ASSUME NEW n \in Node, NEW culture, NEW born, row'[n] = WriteGroup(row[n], culture, born)
    PROVE  Keeps(n) /\ FixedStep(n)
  BY DEF Keeps, FixedStep, HasSig, WriteGroup

LEMMA NextOwners == OwnersJudged /\ [Next]_vars => Good
<1> SUFFICES ASSUME OwnersJudged, [Next]_vars PROVE Good
  OBVIOUS
<1>t. TypeOK /\ TypeOK'
  BY NextTypeOK DEF OwnersJudged
<1>r. row \in [Node -> Row \cup {NoRow}] /\ swarm \in [Node -> Task]
  BY <1>t DEF TypeOK
<1> USE DEF dbVars
<1>1. ASSUME NEW n \in Node, NEW culture \in Culture, GroupsCreate(n, culture) PROVE Good
  BY <1>1, <1>t, <1>r, Kept, SameRow, RowWritten DEF GroupsCreate
<1>2. ASSUME NEW n \in Node, GroupsDelete(n) PROVE Good
  BY <1>2, <1>t, Kept, SameRow DEF GroupsDelete
<1>3. ASSUME NEW n \in Node, NEW role \in {"owner", "member"}, AddMember(n, role) PROVE Good
  BY <1>3, <1>t, Kept, SameRow DEF AddMember
<1>4. ASSUME NEW n \in Node, RemoveMember(n) PROVE Good
  BY <1>4, <1>t, Kept, SameRow DEF RemoveMember
<1>5. ASSUME NEW n \in Node, NEW posture \in {"active", "silent"}, UpdatePosture(n, posture)
      PROVE  Good
  BY <1>5, <1>t, Kept, SameRow DEF UpdatePosture
<1>6. ASSUME NEW n \in Node, ApiStepOf(n) PROVE Good
  <2>1. CASE TombstoneGroup(n)
    BY <2>1, <1>t, <1>r, Kept, SameRow, RowWritten DEF TombstoneGroup
  <2>2. CASE ShareGroup(n) \/ RemoveMembers(n) \/ UnshareGroup(n)
    BY <2>2, <1>t, Kept, SameRow DEF ShareGroup, RemoveMembers, UnshareGroup
  <2> QED
    BY <1>6, <2>1, <2>2 DEF ApiStepOf
<1>7. ASSUME NEW n \in Node, NEW peer \in Node, NEW request \in BOOLEAN,
             NEW tombstoned \in BOOLEAN,
             BuildDescriptors(n, peer, request, tombstoned), row' = row
      PROVE  Good
  <2>1. swarm'[n] = [at |-> "send", peer |-> peer, request |-> request,
                     desc |-> IF MustSign(n) THEN Signed(n) ELSE row[n],
                     sign |-> MustSign(n), tombstoned |-> tombstoned]
    BY <1>7, <1>r DEF BuildDescriptors
  <2>2. MustSign(n) => ~ HasSig(n)
    BY DEF MustSign, HasSig
  <2>3. Judged(n)'
    BY <1>7, <2>1, <2>2 DEF Judged, HasSig
  <2>4. FixedStep(n)
    BY <1>7, SameRow
  <2>5. \A k \in Node \ {n} : swarm'[k] = swarm[k] /\ row'[k] = row[k]
    BY <1>7, <1>r DEF BuildDescriptors
  <2> QED
    BY <1>t, <2>3, <2>4, <2>5, OneNode
<1>8. ASSUME NEW n \in Node, SwarmStepOf(n) PROVE Good
  <2>t. swarm[n] \in Task
    BY <1>r
  <2>1. CASE Respond(n)
    <3>1. swarm[n].peer \in Node /\ swarm[n].tombstoned \in BOOLEAN
      BY <2>1, <2>t, TaskKinds DEF Respond
    <3> QED
      BY <2>1, <3>1, <1>7, Zenon DEF Respond
  <2>2. CASE SendExchange(n)
    <3>1. swarm'[n].at \notin {"write", "sign", "send"}
      BY <2>2, <1>r DEF SendExchange, Idle, Unsharing
    <3>2. FixedStep(n)
      <4>1. HasSig(n) => ~ swarm[n].sign
        BY <2>2, Zenon DEF SendExchange, OwnersJudged, Judged
      <4>2. HasSig(n) => row' = row
        BY <2>2, <4>1, Zenon DEF SendExchange
      <4> QED
        BY <4>2 DEF FixedStep, HasSig
    <3>3. \A k \in Node \ {n} : swarm'[k] = swarm[k] /\ row'[k] = row[k]
      BY <2>2, <1>r DEF SendExchange
    <3> QED
      BY <1>t, <3>1, <3>2, <3>3, IdleJudged, OneNode
  <2>3. CASE MergeWrite(n)
    <3>1. Keeps(n) /\ FixedStep(n)
      BY <2>3, <1>r, RowWritten DEF MergeWrite
    <3>2. swarm'[n].at = "sign" /\ swarm'[n].desc = swarm[n].desc
      BY <2>3, <2>t, <1>r, TaskKinds DEF MergeWrite
    <3>3. Judged(n)'
      BY <2>3, <3>1, <3>2 DEF MergeWrite, OwnersJudged, Judged, Keeps, HasSig
    <3>4. \A k \in Node \ {n} : swarm'[k] = swarm[k] /\ row'[k] = row[k]
      BY <2>3, <1>r DEF MergeWrite
    <3> QED
      BY <1>t, <3>1, <3>3, <3>4, OneNode
  <2>4. CASE MergeSign(n)
    <3>1. swarm'[n].at \notin {"write", "sign", "send"}
      BY <2>4, <1>r, MergedAt, Zenon DEF MergeSign
    <3>2. row'[n] = IF swarm[n].desc.sig = None THEN row[n]
                    ELSE WriteGroupSignature(row[n], swarm[n].desc.sig)
      BY <2>4, <1>r DEF MergeSign
    <3>3. FixedStep(n)
      BY <2>4, <3>2, <1>r DEF MergeSign, OwnersJudged, Judged, FixedStep, HasSig,
         WriteGroupSignature, Row
    <3>4. \A k \in Node \ {n} : swarm'[k] = swarm[k] /\ row'[k] = row[k]
      BY <2>4, <1>r DEF MergeSign
    <3> QED
      BY <1>t, <3>1, <3>3, <3>4, IdleJudged, OneNode
  <2>5. CASE MergeMembers(n)
    <3>1. swarm'[n].at \notin {"write", "sign", "send"}
      BY <2>5, <1>r, MergedAt, Zenon DEF MergeMembers
    <3>2. \A k \in Node \ {n} : swarm'[k] = swarm[k] /\ row'[k] = row[k]
      BY <2>5, <1>r DEF MergeMembers
    <3>3. FixedStep(n)
      BY <2>5, SameRow DEF MergeMembers
    <3> QED
      BY <1>t, <3>1, <3>2, <3>3, IdleJudged, OneNode
  <2>6. CASE Unshare(n)
    <3>1. swarm'[n].at \notin {"write", "sign", "send"}
      BY <2>6, <1>r DEF Unshare, Idle
    <3>2. \A k \in Node \ {n} : swarm'[k] = swarm[k] /\ row'[k] = row[k]
      BY <2>6, <1>r DEF Unshare
    <3>3. FixedStep(n)
      BY <2>6, SameRow DEF Unshare
    <3> QED
      BY <1>t, <3>1, <3>2, <3>3, IdleJudged, OneNode
  <2> QED
    BY <1>8, <2>1, <2>2, <2>3, <2>4, <2>5, <2>6 DEF SwarmStepOf
<1>9. ASSUME NEW n \in Node, PurgeDeletedGroup(n) PROVE Good
  <2>1. row'[n] = NoRow /\ \A k \in Node \ {n} : row'[k] = row[k]
    BY <1>9, <1>r DEF PurgeDeletedGroup
  <2>2. Keeps(n) /\ FixedStep(n)
    BY <2>1 DEF Keeps, FixedStep, HasSig
  <2> QED
    BY <1>9, <1>t, <2>1, <2>2, Kept, SameRow DEF PurgeDeletedGroup
<1>10. ASSUME NEW n \in Node, Restart(n) PROVE Good
  <2>1. swarm'[n].at \notin {"write", "sign", "send"}
    BY <1>10, <1>r DEF Restart, Idle
  <2>2. row'[n] = row[n] \/ row'[n] = WriteGroup(row[n], Default, clock)
    BY <1>10, <1>r DEF Restart, Seeded
  <2>3. FixedStep(n)
    BY <2>2, SameRow, RowWritten
  <2>4. \A k \in Node \ {n} : swarm'[k] = swarm[k] /\ row'[k] = row[k]
    BY <1>10, <1>r DEF Restart
  <2> QED
    BY <1>t, <2>1, <2>3, <2>4, IdleJudged, OneNode
<1>11. ASSUME NEW n \in Node, NEW m \in Node, StartExchange(n, m) PROVE Good
  BY <1>11, <1>7, Zenon DEF StartExchange
<1>12. ASSUME NEW x \in net, ReceiveExchange(x) PROVE Good
  <2>1. x.to \in Node
    BY <1>t DEF TypeOK, Message
  <2>2. CASE Acceptable(x.to, x.desc)
    <3>1. swarm'[x.to].at = "write" /\ swarm'[x.to].desc = x.desc /\ row' = row
      BY <1>12, <1>r, <2>1, <2>2 DEF ReceiveExchange
    <3>2. HasSig(x.to) => x.desc.sig # None /\ x.desc.sig.by = row[x.to].sig.by
      BY <2>2 DEF Acceptable, MayReplace, HasSig
    <3> QED
      BY <3>1, <3>2 , <1>12, <1>t, <1>r, <2>1, OneNode, SameRow, Zenon
      DEF ReceiveExchange, Judged, HasSig
  <2>3. CASE ~ Acceptable(x.to, x.desc)
    <3>1. swarm'[x.to].at \notin {"write", "sign", "send"}
      BY <1>12, <1>r, <2>1, <2>3, MergedAt, Zenon DEF ReceiveExchange
    <3>2. \A k \in Node \ {x.to} : swarm'[k] = swarm[k] /\ row'[k] = row[k]
      BY <1>12, <1>r, Zenon DEF ReceiveExchange
    <3>3. FixedStep(x.to)
      BY <1>12, <2>1, SameRow DEF ReceiveExchange
    <3> QED
      BY <1>t, <2>1, <3>1, <3>2, <3>3, IdleJudged, OneNode
  <2> QED
    BY <2>2, <2>3
<1>13. ASSUME NEW x \in net, LoseMessage(x) PROVE Good
  BY <1>13, <1>t, Kept, SameRow DEF LoseMessage
<1>14. CASE Advance
  BY <1>14, <1>t, Kept, SameRow DEF Advance
<1>15. CASE UNCHANGED vars
  BY <1>15, <1>t, Kept, SameRow DEF vars
<1> QED
  BY <1>1, <1>2, <1>3, <1>4, <1>5, <1>6, <1>8, <1>9, <1>10, <1>11, <1>12, <1>13,
     <1>14, <1>15 DEF Next

\* The owner of a signed group never changes while the row exists, although
\* merge_descriptors reads and judges the row in one storage call, writes it in
\* a second and its signature in a third, while clients, the purge and restarts
\* change the row in between.
THEOREM OwnersFixed == Spec => OwnerFixed
<1>1. Init => OwnersJudged
  <2> SUFFICES ASSUME Init PROVE OwnersJudged
    OBVIOUS
  <2>1. \A n \in Node : swarm[n].at = "idle"
    BY DEF Init, Idle
  <2> QED
    BY <2>1, InitTypeOK DEF OwnersJudged, Judged
<1>2. OwnersJudged /\ [Next]_vars => OwnersJudged'
  BY NextOwners DEF Good
<1>3. OwnersJudged /\ [Next]_vars =>
        [\A n \in Node :
          (row[n] # NoRow /\ row[n].sig # None /\ row'[n] # NoRow)
             => row'[n].sig # None /\ row'[n].sig.by = row[n].sig.by]_vars
  BY NextOwners DEF Good, FixedStep, HasSig
<1> QED
  BY <1>1, <1>2, <1>3, PTL DEF Spec, OwnerFixed
-----------------------------------------------------------------------------
(* Signed cultures.                                                        *)

\* On a node without clients only the swarm task writes the row.  Between the
\* two writes of a merge the new culture stands beside the old signature; the
\* descriptor that the task still holds says what the culture is, and that its
\* signature fits was checked when it arrived.
Faithful(n) ==
    /\ api[n] = "idle"
    /\ member[n].posture = "none"
    /\ swarm[n].at = "send" => swarm[n].sign = FALSE
    /\ swarm[n].at \in {"write", "sign"} => SignatureOk(swarm[n].desc)
    /\ swarm[n].at = "sign" /\ row[n] # NoRow => row[n].culture = swarm[n].desc.culture
    /\ swarm[n].at # "sign" /\ HasSig(n) => row[n].culture = row[n].sig.culture

CulturesFaithful == OwnersJudged /\ \A n \in Node \ Admin : Faithful(n)

LEMMA FaithfulStays ==
    ASSUME NEW n \in Node, Faithful(n), api'[n] = api[n], member'[n] = member[n],
           swarm'[n] = swarm[n], row'[n] = row[n]
    PROVE  Faithful(n)'
  BY DEF Faithful, HasSig, SignatureOk

\* A step of one node: the others stay faithful, and so does a node whose
\* clients are none of this property's business.
LEMMA OneFaithful ==
    ASSUME CulturesFaithful, OwnersJudged', NEW n \in Node,
           \A k \in Node \ {n} : /\ api'[k] = api[k] /\ member'[k] = member[k]
                                 /\ swarm'[k] = swarm[k] /\ row'[k] = row[k],
           n \notin Admin => Faithful(n)'
    PROVE  CulturesFaithful'
  BY FaithfulStays DEF CulturesFaithful

LEMMA NextFaithful == MaxRestarts = 0 /\ CulturesFaithful /\ [Next]_vars => CulturesFaithful'
<1> SUFFICES ASSUME MaxRestarts = 0, CulturesFaithful, [Next]_vars PROVE CulturesFaithful'
  OBVIOUS
<1>o. OwnersJudged /\ OwnersJudged'
  BY NextOwners DEF CulturesFaithful, Good
<1>r. /\ row \in [Node -> Row \cup {NoRow}] /\ swarm \in [Node -> Task]
      /\ member \in [Node -> Member] /\ api \in [Node -> ApiStep] /\ restarts \in Nat
  BY <1>o, GroupAssumption DEF OwnersJudged, TypeOK
<1> USE DEF dbVars
<1>1. ASSUME NEW n \in Node,
             \/ \E culture \in Culture : GroupsCreate(n, culture)
             \/ GroupsDelete(n)
             \/ \E role \in {"owner", "member"} : AddMember(n, role)
             \/ RemoveMember(n)
             \/ \E posture \in {"active", "silent"} : UpdatePosture(n, posture)
      PROVE  CulturesFaithful'
  <2>1. n \in Admin
    BY <1>1 DEF GroupsCreate, GroupsDelete, AddMember, RemoveMember, UpdatePosture, Call
  <2>2. \A k \in Node \ {n} : /\ api'[k] = api[k] /\ member'[k] = member[k]
                              /\ swarm'[k] = swarm[k] /\ row'[k] = row[k]
    BY <1>1, <1>r, ZenonT(30) DEF GroupsCreate, GroupsDelete, AddMember, RemoveMember, UpdatePosture
  <2> QED
    BY <1>o, <2>1, <2>2, OneFaithful
<1>2. ASSUME NEW n \in Node, ApiStepOf(n) PROVE CulturesFaithful'
  <2>1. n \in Admin
    BY <1>2 DEF CulturesFaithful, Faithful, ApiStepOf, ShareGroup, TombstoneGroup,
       RemoveMembers, UnshareGroup
  <2>2. \A k \in Node \ {n} : /\ api'[k] = api[k] /\ member'[k] = member[k]
                              /\ swarm'[k] = swarm[k] /\ row'[k] = row[k]
    BY <1>2, <1>r DEF ApiStepOf, ShareGroup, TombstoneGroup, RemoveMembers, UnshareGroup
  <2> QED
    BY <1>o, <2>1, <2>2, OneFaithful
<1>3. ASSUME NEW n \in Node, NEW peer, NEW request, NEW tombstoned,
             BuildDescriptors(n, peer, request, tombstoned),
             UNCHANGED <<api, member, row>>, swarm[n].at # "sign"
      PROVE  CulturesFaithful'
  <2>1. \A k \in Node \ {n} : swarm'[k] = swarm[k]
    BY <1>3, <1>r DEF BuildDescriptors
  <2>2. swarm'[n].at = "send" /\ swarm'[n].sign = MustSign(n)
    BY <1>3, <1>r DEF BuildDescriptors
  <2>3. member[n].posture = "none" => MustSign(n) = FALSE
    BY DEF MustSign
  <2>4. n \notin Admin => Faithful(n)'
    BY <1>3, <2>2, <2>3 DEF CulturesFaithful, Faithful, HasSig
  <2> QED
    BY <1>3, <1>o, <2>1, <2>4, OneFaithful
<1>4. ASSUME NEW n \in Node, SwarmStepOf(n) PROVE CulturesFaithful'
  <2>t. swarm[n] \in Task
    BY <1>r
  <2>k. \A k \in Node \ {n} : /\ api'[k] = api[k] /\ member'[k] = member[k]
                              /\ swarm'[k] = swarm[k] /\ row'[k] = row[k]
    BY <1>4, <1>r, Zenon DEF SwarmStepOf, Respond, BuildDescriptors, SendExchange, MergeWrite,
       MergeSign, MergeMembers, Unshare
  <2> SUFFICES ASSUME n \notin Admin PROVE Faithful(n)'
    BY <1>o, <2>k, OneFaithful
  <2>f. Faithful(n)
    BY DEF CulturesFaithful
  <2>1. CASE Respond(n)
    BY <2>1, <1>3, Zenon DEF Respond, CulturesFaithful
  <2>2. CASE SendExchange(n)
    <3>1. swarm'[n].at \notin {"write", "sign", "send"}
      BY <2>2, <1>r DEF SendExchange, Idle, Unsharing
    <3>2. swarm[n].sign = FALSE
      BY <2>2, <2>f DEF SendExchange, Faithful
    <3>3. row' = row /\ UNCHANGED <<api, member>>
      BY <2>2, <3>2 DEF SendExchange
    <3> QED
      BY <2>2, <2>f, <3>1, <3>3 DEF SendExchange, Faithful, HasSig
  <2>3. CASE MergeWrite(n)
    <3>1. swarm[n].desc \in Row
      BY <2>3, <2>t, TaskKinds DEF MergeWrite
    <3>2. swarm'[n].at = "sign" /\ swarm'[n].desc = swarm[n].desc
      BY <2>3, <2>t, <1>r, TaskKinds DEF MergeWrite
    <3>3. row'[n].culture = swarm[n].desc.culture
      BY <2>3, <1>r DEF MergeWrite, WriteGroup
    <3> QED
      BY <2>3, <2>f, <3>2, <3>3 DEF MergeWrite, Faithful, SignatureOk
  <2>4. CASE MergeSign(n)
    <3>1. swarm'[n].at \notin {"write", "sign", "send"}
      BY <2>4, <1>r, MergedAt, Zenon DEF MergeSign
    <3>2. row'[n] = IF swarm[n].desc.sig = None THEN row[n]
                    ELSE WriteGroupSignature(row[n], swarm[n].desc.sig)
      BY <2>4, <1>r DEF MergeSign
    <3>3. CASE swarm[n].desc.sig = None
      <4>1. ~ HasSig(n)
        BY <2>4, <3>3 DEF MergeSign, CulturesFaithful, OwnersJudged, Judged
      <4>2. ~ HasSig(n)'
        BY <3>2, <3>3, <4>1 DEF HasSig
      <4> QED
        BY <2>4, <2>f, <3>1, <4>2, Zenon DEF MergeSign, Faithful
    <3>4. CASE swarm[n].desc.sig # None
      <4>1. swarm[n].desc.culture = swarm[n].desc.sig.culture
        BY <2>4, <2>f, <3>4 DEF MergeSign, Faithful, SignatureOk
      <4>2. HasSig(n)' => row'[n].culture = row'[n].sig.culture
        <5>1. CASE row[n] = NoRow
          BY <3>2, <3>4, <5>1 DEF HasSig, WriteGroupSignature
        <5>2. CASE row[n] # NoRow
          <6>1. row[n] \in Row /\ row'[n] = [row[n] EXCEPT !.sig = swarm[n].desc.sig]
            BY <1>r, <3>2, <3>4, <5>2 DEF WriteGroupSignature
          <6>2. row'[n].sig = swarm[n].desc.sig /\ row'[n].culture = row[n].culture
            BY <6>1 DEF Row
          <6>3. row[n].culture = swarm[n].desc.culture
            BY <2>4, <2>f, <5>2 DEF MergeSign, Faithful
          <6> QED
            BY <4>1, <6>2, <6>3
        <5> QED
          BY <5>1, <5>2
      <4> QED
        BY <2>4, <2>f, <3>1, <4>2, Zenon DEF MergeSign, Faithful
    <3> QED
      BY <3>3, <3>4
  <2>5. CASE MergeMembers(n)
    <3>1. swarm'[n].at \notin {"write", "sign", "send"}
      BY <2>5, <1>r, MergedAt, Zenon DEF MergeMembers
    <3>2. member'[n] = member[n]
      BY <2>5, <2>f, <1>r, ZenonT(30) DEF MergeMembers, SoftRemove, Faithful
    <3> QED
      BY <2>5, <2>f, <3>1, <3>2, Zenon DEF MergeMembers, Faithful, HasSig
  <2>6. CASE Unshare(n)
    <3>1. swarm'[n].at \notin {"write", "sign", "send"}
      BY <2>6, <1>r DEF Unshare, Idle
    <3> QED
      BY <2>6, <2>f, <3>1 DEF Unshare, Faithful, HasSig
  <2> QED
    BY <1>4, <2>1, <2>2, <2>3, <2>4, <2>5, <2>6 DEF SwarmStepOf
<1>5. ASSUME NEW n \in Node, PurgeDeletedGroup(n) PROVE CulturesFaithful'
  <2>1. \A k \in Node \ {n} : /\ api'[k] = api[k] /\ member'[k] = member[k]
                              /\ swarm'[k] = swarm[k] /\ row'[k] = row[k]
    BY <1>5, <1>r DEF PurgeDeletedGroup
  <2>2. row'[n] = NoRow /\ member'[n].posture = "none" /\ UNCHANGED <<api, swarm>>
    BY <1>5, <1>r DEF PurgeDeletedGroup, NoMember
  <2>3. n \notin Admin => Faithful(n)'
    BY <2>2 DEF CulturesFaithful, Faithful, HasSig, SignatureOk
  <2> QED
    BY <1>o, <2>1, <2>3, OneFaithful
<1>6. ASSUME NEW n \in Node, Restart(n) PROVE CulturesFaithful'
  BY <1>6, <1>r DEF Restart
<1>7. ASSUME NEW n \in Node, NEW m \in Node, StartExchange(n, m) PROVE CulturesFaithful'
  <2>1. swarm[n].at # "sign"
    BY <1>7 DEF StartExchange, Idle
  <2> QED
    BY <1>7, <2>1, <1>3, Zenon DEF StartExchange
<1>8. ASSUME NEW x \in net, ReceiveExchange(x) PROVE CulturesFaithful'
  <2>1. x.to \in Node
    BY <1>o DEF OwnersJudged, TypeOK, Message
  <2>2. \A k \in Node \ {x.to} : /\ api'[k] = api[k] /\ member'[k] = member[k]
                                 /\ swarm'[k] = swarm[k] /\ row'[k] = row[k]
    BY <1>8, <1>r, Zenon DEF ReceiveExchange
  <2>3. swarm[x.to].at = "idle" /\ UNCHANGED <<api, member, row>>
    BY <1>8 DEF ReceiveExchange, Idle
  <2>4. \/ /\ swarm'[x.to].at = "write" /\ swarm'[x.to].desc = x.desc
           /\ SignatureOk(x.desc)
        \/ swarm'[x.to].at \notin {"write", "sign", "send"}
    BY <1>8, <1>r, <2>1, MergedAt, Zenon DEF ReceiveExchange, Acceptable
  <2>5. x.to \notin Admin => Faithful(x.to)'
    BY <2>1, <2>3, <2>4, Zenon DEF CulturesFaithful, Faithful, HasSig, SignatureOk
  <2> QED
    BY <1>o, <2>1, <2>2, <2>5, OneFaithful
<1>9. CASE Advance \/ (\E x \in net : LoseMessage(x)) \/ UNCHANGED vars
  <2>1. UNCHANGED <<api, member, swarm, row>>
    BY <1>9 DEF Advance, LoseMessage, vars
  <2> QED
    BY <1>o, <2>1, FaithfulStays DEF CulturesFaithful
<1> QED
  BY <1>1, <1>2, <1>4, <1>5, <1>6, <1>7, <1>8, <1>9 DEF Next

\* Without restarts, a node on which no client changes the group has, whenever
\* its swarm task is idle, the culture under a signature that was signed: the
\* window between write_group and write_group_signature closes again, and what
\* a purge or a late message does in it does no harm.
THEOREM SignedCultures == MaxRestarts = 0 => (Spec => []SignedCultureIsOwners)
<1> SUFFICES ASSUME MaxRestarts = 0 PROVE Spec => []SignedCultureIsOwners
  OBVIOUS
<1>1. Init => CulturesFaithful
  <2> SUFFICES ASSUME Init PROVE CulturesFaithful
    OBVIOUS
  <2>1. \A n \in Node : /\ swarm[n].at = "idle" /\ api[n] = "idle"
                       /\ member[n].posture = "none"
    BY DEF Init, Idle, NoMember
  <2>2. \A n \in Node : ~ HasSig(n)
    BY DEF Init, HasSig
  <2> QED
    BY <2>1, <2>2, InitTypeOK DEF CulturesFaithful, OwnersJudged, Judged, Faithful
<1>2. CulturesFaithful /\ [Next]_vars => CulturesFaithful'
  BY NextFaithful
<1>3. CulturesFaithful => SignedCultureIsOwners
  BY DEF CulturesFaithful, Faithful, SignedCultureIsOwners, HasSig, Idle
<1> QED
  BY <1>1, <1>2, <1>3, PTL DEF Spec
-----------------------------------------------------------------------------
(* Deleted groups leave shared_groups.                                     *)

\* What the swarm task still has to do for a deletion it has written.
WillUnshare(s) ==
    \/ s.at = "sign" /\ IsTombstone(s.desc)
    \/ s.at = "members"
    \/ s.at \in {"respond", "send"} /\ s.tombstoned
    \/ s.at = "unshare"

Tombstoned(n) == row[n] # NoRow /\ IsTombstone(row[n])

\* A node without clients shares a deleted group only while its task is on the
\* way to unsharing it.
Leaving(n) ==
    /\ api[n] = "idle"
    /\ Tombstoned(n) /\ shared[n] => WillUnshare(swarm[n])

DeletesFollowed == TypeOK /\ \A n \in Node \ Admin : Leaving(n)

LEMMA LeavingStays ==
    ASSUME NEW n \in Node, Leaving(n), api'[n] = api[n], shared'[n] = shared[n],
           swarm'[n] = swarm[n], row'[n] = row[n]
    PROVE  Leaving(n)'
  BY Zenon DEF Leaving, Tombstoned, WillUnshare, IsTombstone

\* A step of one node.
LEMMA OneLeaving ==
    ASSUME DeletesFollowed, TypeOK', NEW n \in Node,
           \A k \in Node \ {n} : /\ api'[k] = api[k] /\ shared'[k] = shared[k]
                                 /\ swarm'[k] = swarm[k] /\ row'[k] = row[k],
           n \notin Admin => Leaving(n)'
    PROVE  DeletesFollowed'
  BY LeavingStays DEF DeletesFollowed

\* What the task does after a merge remembers the tombstone.
LEMMA MergedUnshares ==
    ASSUME NEW peer, NEW request
    PROVE  WillUnshare(Merged(peer, request, TRUE))
  BY DEF Merged, WillUnshare, Unsharing

LEMMA SwarmLeaves ==
    ASSUME DeletesFollowed, NEW n \in Node \ Admin, SwarmStepOf(n)
    PROVE  Leaving(n)'
<1>r. /\ row \in [Node -> Row \cup {NoRow}] /\ swarm \in [Node -> Task]
      /\ shared \in [Node -> BOOLEAN] /\ swarm[n] \in Task
  BY DEF DeletesFollowed, TypeOK
<1>f. Leaving(n)
  BY DEF DeletesFollowed
<1>1. CASE Respond(n)
  <2>1. swarm'[n].at = "send" /\ swarm'[n].tombstoned = swarm[n].tombstoned
    BY <1>1, <1>r DEF Respond, BuildDescriptors
  <2>2. UNCHANGED <<row, shared, api>> /\ swarm[n].at = "respond"
    BY <1>1 DEF Respond, dbVars
  <2> QED
    BY <1>f, <2>1, <2>2 DEF Leaving, Tombstoned, WillUnshare
<1>2. CASE SendExchange(n)
  <2>1. Tombstoned(n)' => Tombstoned(n)
    <3>1. row'[n] = row[n] \/ row'[n] = WriteGroupSignature(row[n], swarm[n].desc.sig)
      BY <1>2, <1>r, Zenon DEF SendExchange
    <3> QED
      BY <3>1, <1>r DEF WriteGroupSignature, Tombstoned, IsTombstone, Row
  <2>2. swarm[n].at = "send" /\ (swarm[n].tombstoned => swarm'[n] = Unsharing)
    BY <1>2, <1>r, Zenon DEF SendExchange
  <2>3. UNCHANGED <<shared, api>>
    BY <1>2 DEF SendExchange
  <2> QED
    BY <1>f, <2>1, <2>2, <2>3 DEF Leaving, WillUnshare, Unsharing
<1>3. CASE MergeWrite(n)
  <2>1. swarm[n].at = "write" /\ UNCHANGED <<shared, api>>
    BY <1>3 DEF MergeWrite
  <2>2. swarm'[n].at = "sign" /\ swarm'[n].desc = swarm[n].desc
    BY <1>3, <1>r, TaskKinds DEF MergeWrite
  <2>3. row'[n].culture = swarm[n].desc.culture
    BY <1>3, <1>r DEF MergeWrite, WriteGroup
  <2> QED
    BY <1>f, <2>1, <2>2, <2>3 DEF Leaving, Tombstoned, IsTombstone, WillUnshare
<1>4. CASE MergeSign(n)
  <2>1. Tombstoned(n)' => Tombstoned(n)
    <3>1. row'[n] = row[n] \/ row'[n] = WriteGroupSignature(row[n], swarm[n].desc.sig)
      BY <1>4, <1>r, Zenon DEF MergeSign
    <3> QED
      BY <3>1, <1>r DEF WriteGroupSignature, Tombstoned, IsTombstone, Row
  <2>2. swarm[n].at = "sign" /\ (IsTombstone(swarm[n].desc) => swarm'[n].at = "members")
    BY <1>4, <1>r, Zenon DEF MergeSign
  <2>3. UNCHANGED <<shared, api>>
    BY <1>4 DEF MergeSign
  <2> QED
    BY <1>f, <2>1, <2>2, <2>3 DEF Leaving, WillUnshare
<1>5. CASE MergeMembers(n)
  <2>1. WillUnshare(swarm'[n])
    BY <1>5, <1>r, MergedUnshares, Zenon DEF MergeMembers
  <2> QED
    BY <1>5, <1>f, <2>1, Zenon DEF MergeMembers, Leaving, Tombstoned, WillUnshare, IsTombstone
<1>6. CASE Unshare(n)
  <2>1. shared'[n] = FALSE /\ UNCHANGED api
    BY <1>6, <1>r DEF Unshare
  <2> QED
    BY <1>f, <2>1 DEF Leaving
<1> QED
  BY <1>1, <1>2, <1>3, <1>4, <1>5, <1>6 DEF SwarmStepOf

LEMMA NextDeletes == MaxRestarts = 0 /\ DeletesFollowed /\ [Next]_vars => DeletesFollowed'
<1> SUFFICES ASSUME MaxRestarts = 0, DeletesFollowed, [Next]_vars PROVE DeletesFollowed'
  OBVIOUS
<1>t. TypeOK /\ TypeOK'
  BY NextTypeOK DEF DeletesFollowed
<1>r. /\ row \in [Node -> Row \cup {NoRow}] /\ swarm \in [Node -> Task]
      /\ shared \in [Node -> BOOLEAN] /\ api \in [Node -> ApiStep] /\ restarts \in Nat
  BY <1>t, GroupAssumption DEF TypeOK
<1> USE DEF dbVars
<1>1. ASSUME NEW n \in Node,
             \/ \E culture \in Culture : GroupsCreate(n, culture)
             \/ GroupsDelete(n)
             \/ \E role \in {"owner", "member"} : AddMember(n, role)
             \/ RemoveMember(n)
             \/ \E posture \in {"active", "silent"} : UpdatePosture(n, posture)
      PROVE  DeletesFollowed'
  <2>1. n \in Admin
    BY <1>1 DEF GroupsCreate, GroupsDelete, AddMember, RemoveMember, UpdatePosture, Call
  <2>2. \A k \in Node \ {n} : /\ api'[k] = api[k] /\ shared'[k] = shared[k]
                              /\ swarm'[k] = swarm[k] /\ row'[k] = row[k]
    BY <1>1, <1>r, ZenonT(30) DEF GroupsCreate, GroupsDelete, AddMember, RemoveMember, UpdatePosture
  <2> QED
    BY <1>t, <2>1, <2>2, OneLeaving
<1>2. ASSUME NEW n \in Node, ApiStepOf(n) PROVE DeletesFollowed'
  <2>1. n \in Admin
    BY <1>2 DEF DeletesFollowed, Leaving, ApiStepOf, ShareGroup, TombstoneGroup,
       RemoveMembers, UnshareGroup
  <2>2. \A k \in Node \ {n} : /\ api'[k] = api[k] /\ shared'[k] = shared[k]
                              /\ swarm'[k] = swarm[k] /\ row'[k] = row[k]
    BY <1>2, <1>r, ZenonT(30) DEF ApiStepOf, ShareGroup, TombstoneGroup, RemoveMembers, UnshareGroup
  <2> QED
    BY <1>t, <2>1, <2>2, OneLeaving
<1>3. ASSUME NEW n \in Node, SwarmStepOf(n) PROVE DeletesFollowed'
  <2>1. \A k \in Node \ {n} : /\ api'[k] = api[k] /\ shared'[k] = shared[k]
                              /\ swarm'[k] = swarm[k] /\ row'[k] = row[k]
    BY <1>3, <1>r, ZenonT(30) DEF SwarmStepOf, Respond, BuildDescriptors, SendExchange, MergeWrite,
       MergeSign, MergeMembers, Unshare
  <2> QED
    BY <1>3, <1>t, <2>1, SwarmLeaves, OneLeaving
<1>4. ASSUME NEW n \in Node, PurgeDeletedGroup(n) PROVE DeletesFollowed'
  <2>1. \A k \in Node \ {n} : /\ api'[k] = api[k] /\ shared'[k] = shared[k]
                              /\ swarm'[k] = swarm[k] /\ row'[k] = row[k]
    BY <1>4, <1>r DEF PurgeDeletedGroup
  <2>2. row'[n] = NoRow /\ UNCHANGED api
    BY <1>4, <1>r DEF PurgeDeletedGroup
  <2>3. n \notin Admin => Leaving(n)'
    BY <2>2 DEF DeletesFollowed, Leaving, Tombstoned
  <2> QED
    BY <1>t, <2>1, <2>3, OneLeaving
<1>5. ASSUME NEW n \in Node, Restart(n) PROVE DeletesFollowed'
  BY <1>5, <1>r DEF Restart
<1>6. ASSUME NEW n \in Node, swarm[n] = Idle, UNCHANGED <<row, shared, api>>,
             \A k \in Node \ {n} : swarm'[k] = swarm[k]
      PROVE  DeletesFollowed'
  <2>1. n \notin Admin => ~ (Tombstoned(n) /\ shared[n])
    BY <1>6 DEF DeletesFollowed, Leaving, WillUnshare, Idle
  <2>2. n \notin Admin => Leaving(n)'
    BY <1>6, <2>1 DEF DeletesFollowed, Leaving, Tombstoned
  <2> QED
    BY <1>6, <1>t, <2>2, OneLeaving
<1>7. ASSUME NEW n \in Node, NEW m \in Node, StartExchange(n, m) PROVE DeletesFollowed'
  <2>1. swarm[n] = Idle /\ UNCHANGED <<row, shared, api>>
    BY <1>7 DEF StartExchange
  <2>2. \A k \in Node \ {n} : swarm'[k] = swarm[k]
    BY <1>7, <1>r, Zenon DEF StartExchange, BuildDescriptors
  <2> QED
    BY <1>6, <2>1, <2>2
<1>8. ASSUME NEW x \in net, ReceiveExchange(x) PROVE DeletesFollowed'
  <2>1. x.to \in Node
    BY <1>t DEF TypeOK, Message
  <2>2. swarm[x.to] = Idle /\ UNCHANGED <<row, shared, api>>
    BY <1>8 DEF ReceiveExchange
  <2>3. \A k \in Node \ {x.to} : swarm'[k] = swarm[k]
    BY <1>8, <1>r, Zenon DEF ReceiveExchange
  <2> QED
    BY <1>6, <2>1, <2>2, <2>3
<1>9. CASE Advance \/ (\E x \in net : LoseMessage(x)) \/ UNCHANGED vars
  <2>1. UNCHANGED <<api, shared, swarm, row>>
    BY <1>9 DEF Advance, LoseMessage, vars
  <2> QED
    BY <1>t, <2>1, LeavingStays DEF DeletesFollowed
<1> QED
  BY <1>1, <1>2, <1>3, <1>4, <1>5, <1>7, <1>8, <1>9 DEF Next

\* Without restarts, on a node whose clients leave the group alone, a group
\* whose deletion has been merged is out of shared_groups whenever the swarm
\* task is idle, whether the deletion came in a request or in a response and
\* whatever was merged or purged before; GroupsRestart is about a restart, which
\* brings the group back.
THEOREM DeletesUnshared == MaxRestarts = 0 => (Spec => []DeletesUnshare)
<1> SUFFICES ASSUME MaxRestarts = 0 PROVE Spec => []DeletesUnshare
  OBVIOUS
<1>1. Init => DeletesFollowed
  <2> SUFFICES ASSUME Init PROVE DeletesFollowed
    OBVIOUS
  <2>1. \A n \in Node : ~ Tombstoned(n) /\ api[n] = "idle"
    BY GroupAssumption DEF Init, Tombstoned, IsTombstone
  <2> QED
    BY <2>1, InitTypeOK DEF DeletesFollowed, Leaving
<1>2. DeletesFollowed /\ [Next]_vars => DeletesFollowed'
  BY NextDeletes
<1>3. DeletesFollowed => DeletesUnshare
  BY DEF DeletesFollowed, Leaving, Tombstoned, DeletesUnshare, WillUnshare, Idle
<1> QED
  BY <1>1, <1>2, <1>3, PTL DEF Spec
=============================================================================
