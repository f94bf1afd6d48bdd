-------------------------- MODULE AntiEntropyProofs --------------------------
(***************************************************************************)
(* Proofs about the composition of anti-entropy with eager push, for every *)
(* set of nodes and groups, every finite set of items, every configuration *)
(* and topology and all bounds.                                            *)
(*                                                                         *)
(* SyncLineage extends Lineage by the contents of the rounds under way:    *)
(* what was fetched goes back to an API call (RoundOK), and every item the *)
(* peer listed is in the database already, on its way, deleted or also     *)
(* written into another group (Covered).                                   *)
(***************************************************************************)
EXTENDS AntiEntropy, ItemReplicationProofs, WellFoundedInduction

\* A relay accepts by push the groups it shares, and has no HTTP clients of
\* its own.  Otherwise it pulls what it would not accept: current_groups
\* contains the shared and the stored groups, whatever its posture admits.
PullsAdmitted ==
    \A n \in Node : IsRelay(n) => /\ Config[n].shared \subseteq Readers[n]
                                  /\ n \notin Clients

GoodFetched(W, c) ==
    {x \in Payload : InLog(W, x.id, x.blob, x.group) /\ NotLater(x.at, c)}

\* Among the headers one is as late as any.
HasLatest(S) == S = {} \/ \E h \in S : \A k \in S : StampLeq(k.at, h.at)

RoundOK(n) ==
    /\ tick[n].groups \subseteq Readers[n]
    /\ tick[n].due \subseteq tick[n].groups
    /\ round[n].accepts \subseteq Readers[n]
    /\ round[n].phase # "idle" => round[n].group \in round[n].accepts
    /\ HasLatest(round[n].headers)
    /\ round[n].items \subseteq GoodFetched(written, clock)
    /\ round[n].writing \subseteq GoodFetched(written, clock)
    /\ \A x \in round[n].writing : x.group \in round[n].accepts
    /\ \A x, y \in round[n].writing : x = y

Settled(n, g, i) ==
    \/ Present(store[n][i])
    \/ i \in deleted
    \/ ~ StaysIn(i, g)

\* An item that a peer listed is with the peer until it is deleted.
AtPeer(p, i) == Present(store[p][i]) \/ i \in deleted

Covered(n) ==
    \A h \in round[n].headers :
        /\ round[n].phase = "diff" => AtPeer(round[n].peer, h.id)
        /\ round[n].phase = "fetch" =>
              \/ Settled(n, round[n].group, h.id)
              \/ h.id \in round[n].needed /\ AtPeer(round[n].peer, h.id)
        /\ round[n].phase = "apply" =>
              \/ Settled(n, round[n].group, h.id)
              \/ \E x \in round[n].items \cup round[n].writing : x.id = h.id

Authors == \A k \in 1 .. Len(written) : written[k].author \in Clients

\* A row without a payload has no group either.
Blank == \A n \in Node, i \in Item :
            Present(store[n][i]) \/ store[n][i].group = NoGroup

SyncLineage ==
    /\ Lineage
    /\ Authors
    /\ Blank
    /\ SyncTypeOK
    /\ \A n \in Node : RoundOK(n) /\ Covered(n)

-----------------------------------------------------------------------------
(* The latest stamp of finitely many headers.                              *)

LEMMA LeastNat ==
    ASSUME NEW T, T \subseteq Nat, T # {}
    PROVE  \E x \in T : \A y \in T : x <= y
<1> DEFINE R == {ss \in Nat \X Nat : ss[1] < ss[2]}
<1>1. IsWellFoundedOn(R, Nat)
  BY NatLessThanWellFounded DEF OpToRel
<1>2. \E x \in T : \A y \in T : ~ (<<y, x>> \in R)
  <2> HIDE DEF R
  <2> QED BY <1>1, WFMin, Zenon
<1>3. ASSUME NEW x \in Nat, NEW y \in Nat, ~ (<<y, x>> \in R)
      PROVE  x <= y
  <2>1. <<y, x>> \in Nat \X Nat
    OBVIOUS
  <2>2. <<y, x>>[1] = y /\ <<y, x>>[2] = x
    OBVIOUS
  <2>3. ~ (y < x)
    BY <1>3, <2>1, <2>2
  <2> QED BY <2>3
<1> HIDE DEF R
<1> QED BY <1>2, <1>3, Zenon

LEMMA StampTotal ==
    ASSUME NEW s \in Stamp, NEW t \in Stamp
    PROVE  StampLeq(s, s) /\ (StampLeq(s, t) \/ StampLeq(t, s))
BY DEF Stamp, StampLeq, StampLess, Space, LetterT

\* Finitely many items, with a header each: going through them one by one, the
\* latest so far or the next one is the latest of both.
LEMMA LatestExists ==
    ASSUME NEW S \in SUBSET ItemHeader, \A h, k \in S : h.id = k.id => h = k
    PROVE  HasLatest(S)
<1>1. PICK q \in Seq(Item) : \A i \in Item : \E j \in 1 .. Len(q) : q[j] = i
  BY SyncAssumption, ZenonT(30) DEF IsFiniteSet
<1> DEFINE Upto(j) == {h \in S : \E m \in 1 .. j : q[m] = h.id}
           T == {j \in 0 .. Len(q) : ~ HasLatest(Upto(j))}
<1>t. /\ Len(q) \in Nat
      /\ \A h \in S : h.id \in Item /\ h.at \in Stamp
  BY DEF ItemHeader
<1>2. ASSUME NEW j \in Nat, HasLatest(Upto(j))
      PROVE  HasLatest(Upto(j + 1))
  <2>1. \A h \in Upto(j + 1) : h \in S /\ (h \in Upto(j) \/ h.id = q[j + 1])
    OBVIOUS
  <2>2. Upto(j) \subseteq Upto(j + 1)
    OBVIOUS
  <2>3. CASE \A h \in Upto(j + 1) : h \in Upto(j)
    <3>1. Upto(j + 1) = Upto(j)
      BY <2>2, <2>3
    <3> QED BY <1>2, <3>1, Zenon
  <2>4. ASSUME NEW n \in Upto(j + 1), n \notin Upto(j)
        PROVE  HasLatest(Upto(j + 1))
    <3>1. \A h \in Upto(j + 1) : h = n \/ h \in Upto(j)
      BY <2>1, <2>4
    <3>2. n \in S /\ Upto(j) \subseteq S
      BY <2>1
    <3> HIDE DEF Upto
    <3>3. CASE Upto(j) = {}
      <4>1. \A h \in Upto(j + 1) : StampLeq(h.at, n.at)
        BY <1>t, <3>1, <3>2, <3>3, StampTotal
      <4> QED BY <2>4, <4>1 DEF HasLatest
    <3>4. ASSUME NEW l \in Upto(j), \A h \in Upto(j) : StampLeq(h.at, l.at)
          PROVE  HasLatest(Upto(j + 1))
      <4>t. l.at \in Stamp /\ n.at \in Stamp /\ \A h \in Upto(j) : h.at \in Stamp
        BY <1>t, <3>2
      <4>1. CASE StampLeq(n.at, l.at)
        <5>1. l \in Upto(j + 1) /\ \A h \in Upto(j + 1) : StampLeq(h.at, l.at)
          BY <2>2, <3>1, <3>4, <4>1
        <5> QED BY <5>1 DEF HasLatest
      <4>2. CASE StampLeq(l.at, n.at)
        <5>1. \A h \in Upto(j + 1) : StampLeq(h.at, n.at)
          BY <3>1, <3>4, <4>2, <4>t, StampTotal, StampOrder, ZenonT(30)
        <5> QED BY <2>4, <5>1 DEF HasLatest
      <4> QED BY <4>1, <4>2, <4>t, StampTotal
    <3> QED BY <1>2, <3>3, <3>4 DEF HasLatest
  <2> QED BY <2>3, <2>4, Zenon
<1>3. HasLatest(Upto(0))
  BY DEF HasLatest
<1>4. Upto(Len(q)) = S
  <2>1. ASSUME NEW h \in S PROVE h \in Upto(Len(q))
    <3>1. \E m \in 1 .. Len(q) : q[m] = h.id
      BY <1>1, <1>t, Zenon
    <3> QED BY <3>1, Zenon
  <2> QED BY <2>1, Zenon
<1>5. T = {}
  <2> HIDE DEF Upto
  <2> SUFFICES ASSUME T # {} PROVE FALSE
    OBVIOUS
  <2>1. T \subseteq Nat
    BY <1>t
  <2>2. PICK j \in T : \A k \in T : j <= k
    BY <2>1, LeastNat, Zenon
  <2>3. j \in Nat /\ j <= Len(q) /\ ~ HasLatest(Upto(j)) /\ j # 0
    BY <1>3, <1>t
  <2>4. j - 1 \in Nat /\ j - 1 \notin T /\ j - 1 \in 0 .. Len(q) /\ (j - 1) + 1 = j
    BY <1>t, <2>1, <2>2, <2>3
  <2>5. HasLatest(Upto(j - 1))
    BY <2>4
  <2> QED BY <1>2, <2>3, <2>4, <2>5
<1>6. Len(q) \notin T => HasLatest(Upto(Len(q)))
  BY <1>t
<1> QED BY <1>4, <1>5, <1>6, Zenon

LEMMA LatestTyped ==
    ASSUME NEW S \in SUBSET ItemHeader, HasLatest(S),
           NEW old \in Stamp \cup {NoStamp}
    PROVE  Latest(S, old) \in Stamp \cup {NoStamp}
<1>1. CASE S = {}
  BY <1>1 DEF Latest
<1>2. CASE S # {}
  <2> DEFINE h == CHOOSE h \in S : \A k \in S : StampLeq(k.at, h.at)
  <2>1. h \in S
    BY <1>2 DEF HasLatest
  <2>2. h.at \in Stamp
    BY <2>1 DEF ItemHeader
  <2> QED BY <1>2, <2>2 DEF Latest
<1> QED BY <1>1, <1>2

\* What list_group_items answers: rows of the group, hence with a payload.
LEMMA Listed ==
    ASSUME SyncLineage, NEW n \in Node, NEW g \in Group, NEW since,
           NEW S \in ListGroupItems(n, g, since)
    PROVE  /\ S \subseteq ItemHeader
           /\ HasLatest(S)
           /\ \A h \in S : store[n][h.id].group = g /\ Present(store[n][h.id])
<1> DEFINE J == {j \in Item : store[n][j].group = g
                              /\ StampLess(since, store[n][j].at)}
           hd(i) == [id |-> i, blob |-> store[n][i].blob, at |-> store[n][i].at]
           rows == {hd(i) : i \in J}
<1>1. S \subseteq rows
  BY DEF ListGroupItems
<1>2. \A i \in Item : store[n][i] \in Row
  BY DEF SyncLineage, Lineage, Places
<1>3. \A i \in J : hd(i) \in ItemHeader /\ hd(i).id = i
  BY <1>2, Zenon DEF Row, ItemHeader
<1>4. \A i \in J : store[n][i].group = g /\ Present(store[n][i])
  BY NoGroupAssumption DEF SyncLineage, Blank
<1>5. \A h \in S : \E i \in J : h = hd(i)
  BY <1>1
<1>6. S \subseteq ItemHeader /\ \A h, k \in S : h.id = k.id => h = k
  <2> HIDE DEF J, hd
  <2> QED BY <1>3, <1>5
<1>7. HasLatest(S)
  BY <1>6, LatestExists
<1>8. \A h \in S : store[n][h.id].group = g /\ Present(store[n][h.id])
  <2> HIDE DEF J, hd
  <2> QED BY <1>3, <1>4, <1>5
<1> QED BY <1>6, <1>7, <1>8, ZenonT(30)

-----------------------------------------------------------------------------
(* What the steps of ItemReplication do to rows and history.               *)

\* A row stays, is written, or is removed, and then its item was deleted.
RowFate ==
    \A n \in Node, i \in Item :
        \/ store'[n][i] = store[n][i]
        \/ Present(store'[n][i])
        \/ store'[n][i] = NoRow /\ (Present(store[n][i]) => i \in deleted')

\* One row is replaced.
LEMMA OneRow ==
    ASSUME Lineage, NEW n \in Node, NEW i \in Item, NEW row,
           store' = [store EXCEPT ![n][i] = row],
           Present(row) \/ (row = NoRow /\ (Present(store[n][i]) => i \in deleted'))
    PROVE  RowFate
<1>1. store \in [Node -> [Item -> Row]]
  BY DEF Lineage, Places
<1>2. \A m \in Node, j \in Item :
          store'[m][j] = IF m = n /\ j = i THEN row ELSE store[m][j]
  BY <1>1
<1> QED BY <1>2 DEF RowFate

LEMMA RowsFate ==
    ASSUME Lineage, [Next]_vars
    PROVE  RowFate
<1>0. \/ \E n \in Node : ApiStep(n) \/ JudgeItem(n) \/ StoreItem(n)
      \/ UNCHANGED store
  BY Zenon DEF Next, ReplStep, SwarmStep, Environment, IdleTick, OnLocalWrite,
         FlushWrites, RetryPush, ReceivePush, FinishPush, LosePush,
         TogglePeer, Crash, Tick, vars
<1>1. ASSUME NEW n \in Node, NEW i \in Item, NEW g \in MaybeGroup,
             L2Write(n, i, g)
      PROVE  RowFate
  <2> DEFINE row == [blob |-> Len(written) + 1, group |-> g,
                     at |-> DatetimeNow(clock)]
  <2>1. store' = [store EXCEPT ![n][i] = row]
    BY <1>1 DEF L2Write
  <2>2. Present(row)
    BY DEF Present, Lineage, History
  <2> HIDE DEF row
  <2> QED BY <2>1, <2>2, OneRow, Zenon
<1>2. ASSUME NEW n \in Node, NEW h \in api[n], L2DeleteRow(n, h)
      PROVE  RowFate
  <2>1. h.notif.id \in Item
    BY DEF Lineage, Places, GoodHandler, Handler, WriteNotification
  <2>2. store' = [store EXCEPT ![n][h.notif.id] = NoRow]
    BY <1>2 DEF L2DeleteRow
  <2>3. Present(store[n][h.notif.id]) => h.notif.id \in deleted'
    BY <1>2 DEF L2DeleteRow
  <2> QED BY <2>1, <2>2, <2>3, OneRow, Zenon
<1>3. ASSUME NEW n \in Node, JudgeItem(n)
      PROVE  RowFate
  <2> DEFINE item == Head(rx[n].todo)
             outcome == OnReceive(store[n][item.id], item, rx[n].accepts)
  <2>1. item \in GoodItem(written, deleted, clock)
    <3>1. /\ rx[n].todo \in Seq(GoodItem(written, deleted, clock))
          /\ rx[n].todo # <<>>
      BY <1>3, Zenon DEF Lineage, Places, GoodRx, JudgeItem
    <3> QED BY <3>1, SMTT(30)
  <2>2. deleted' = deleted
    BY <1>3, ZenonT(30) DEF JudgeItem, apiVars
  <2>3. store' = IF outcome = "delete"
                 THEN [store EXCEPT ![n][item.id] = NoRow] ELSE store
    BY <1>3, ZenonT(30) DEF JudgeItem
  <2>4. item.id \in Item /\ (outcome = "delete" => item.id \in deleted)
    BY <2>1 DEF GoodItem, FetchedItem, OnReceive
  <2> HIDE DEF item, outcome
  <2>5. CASE outcome = "delete"
    BY <2>2, <2>3, <2>4, <2>5, OneRow, Zenon
  <2>6. CASE outcome # "delete"
    BY <2>3, <2>6 DEF RowFate
  <2> QED BY <2>5, <2>6
<1>4. ASSUME NEW n \in Node, StoreItem(n)
      PROVE  RowFate
  <2> DEFINE item == Head(rx[n].todo)
  <2>1. /\ item \in GoodItem(written, deleted, clock)
        /\ item.id \in Item
        /\ ~ item.tombstone
    BY <1>4, StoreItemRow
  <2>2. store' = [store EXCEPT ![n][item.id] = RowOf(item)]
    BY <1>4, ZenonT(30) DEF StoreItem
  <2>3. Present(RowOf(item))
    BY <2>1 DEF GoodItem, InLog, RowOf, Present
  <2> HIDE DEF item
  <2> QED BY <2>1, <2>2, <2>3, OneRow, ZenonT(30)
<1>5. ASSUME NEW n \in Node, ApiStep(n)
      PROVE  RowFate
  <2>1. ASSUME NEW i \in Item, L2DeleteRead(n, i) PROVE RowFate
    BY <2>1 DEF L2DeleteRead, RowFate
  <2>2. ASSUME NEW h \in api[n], SendNotification(n, h) PROVE RowFate
    BY <2>2 DEF SendNotification, RowFate
  <2> QED BY <1>1, <1>2, <1>5, <2>1, <2>2, ConfigAssumption, ZenonT(30) DEF ApiStep
<1>6. CASE UNCHANGED store
  BY <1>6 DEF RowFate
<1> QED BY <1>0, <1>3, <1>4, <1>5, <1>6, ZenonT(30)

\* The log of writes stays or is extended by a client's node.
LEMMA LogFate ==
    ASSUME Lineage, [Next]_vars
    PROVE  \/ written' = written
           \/ \E w \in Write : w.author \in Clients /\ written' = Append(written, w)
<1>1. \/ \E n \in Node, i \in Item, g \in WriteGroups : L2Write(n, i, g)
      \/ UNCHANGED written
  BY ZenonT(30) DEF Next, ApiStep, ReplStep, SwarmStep, Environment, IdleTick,
         L2DeleteRead, L2DeleteRow, SendNotification, OnLocalWrite,
         FlushWrites, RetryPush, ReceivePush, JudgeItem, StoreItem, FinishPush,
         LosePush, TogglePeer, Crash, Tick, apiVars, vars
<1>2. ASSUME NEW n \in Node, NEW i \in Item, NEW g \in WriteGroups,
             L2Write(n, i, g)
      PROVE  \E w \in Write : w.author \in Clients /\ written' = Append(written, w)
  <2> DEFINE w == [id |-> i, group |-> g, author |-> n]
  <2>1. w \in Write /\ w.author = n
    BY ConfigAssumption DEF Write
  <2>2. n \in Clients /\ written' = Append(written, w)
    BY <1>2 DEF L2Write
  <2> HIDE DEF w
  <2> QED BY <2>1, <2>2
<1> QED BY <1>1, <1>2

\* History and clock only grow.
LEMMA StepGrows ==
    ASSUME Lineage, [Next]_vars
    PROVE  /\ Grows
           /\ written' \in Seq(Write)
           /\ Authors => Authors'
<1>0. written \in Seq(Write) /\ Lineage'
  BY LineageNext DEF Lineage, History
<1>1. written' \in Seq(Write)
  BY <1>0 DEF Lineage, History
<1>2. /\ Len(written) <= Len(written')
      /\ \A k \in 1 .. Len(written) : written'[k] = written[k]
      /\ Authors => Authors'
  <2>1. CASE written' = written
    BY <1>0, <2>1 DEF Authors
  <2>2. ASSUME NEW w \in Write, w.author \in Clients,
               written' = Append(written, w)
        PROVE  /\ Len(written) <= Len(written')
               /\ \A k \in 1 .. Len(written) : written'[k] = written[k]
               /\ Authors => Authors'
    <3>1. /\ Len(written') = Len(written) + 1
          /\ \A k \in 1 .. Len(written) : written'[k] = written[k]
          /\ written'[Len(written) + 1] = w
      BY <1>0, <2>2
    <3>2. ASSUME Authors PROVE Authors'
      <4> SUFFICES ASSUME NEW k \in 1 .. Len(written')
                   PROVE  written'[k].author \in Clients
        BY DEF Authors
      <4>1. CASE k = Len(written) + 1
        BY <2>2, <3>1, <4>1
      <4>2. CASE k # Len(written) + 1
        BY <1>0, <3>1, <3>2, <4>2 DEF Authors
      <4> QED BY <4>1, <4>2
    <3> QED BY <1>0, <3>1, <3>2
  <2> QED BY <2>1, <2>2, LogFate
<1>3. deleted \subseteq deleted'
  <2>1. \/ UNCHANGED deleted
        \/ \E n \in Node : \E h \in api[n] : L2DeleteRow(n, h)
    BY ZenonT(30) DEF Next, ApiStep, ReplStep, SwarmStep, Environment, IdleTick, L2Write,
           L2DeleteRead, SendNotification, OnLocalWrite, FlushWrites,
           RetryPush, ReceivePush, JudgeItem, StoreItem, FinishPush,
           LosePush, TogglePeer, Crash, Tick, apiVars, vars
  <2> QED BY <2>1 DEF L2DeleteRow
<1>4. \A s \in Stamp : NotLater(s, clock) => NotLater(s, clock')
  <2>1. UNCHANGED clock \/ Tick
    BY ZenonT(30) DEF Next, ApiStep, ReplStep, SwarmStep, Environment, IdleTick, L2Write,
           L2DeleteRead, L2DeleteRow, SendNotification, OnLocalWrite, FlushWrites,
           RetryPush, ReceivePush, JudgeItem, StoreItem, FinishPush,
           LosePush, TogglePeer, Crash, apiVars, vars
  <2>2. CASE Tick
    BY <2>2, TickGrows DEF Grows
  <2> QED BY <2>1, <2>2
<1> QED BY <1>1, <1>2, <1>3, <1>4 DEF Grows

-----------------------------------------------------------------------------
(* A round that is left alone keeps its invariant.                         *)

LEMMA SettledStays ==
    ASSUME Lineage, written' \in Seq(Write), Grows, RowFate,
           NEW n \in Node, NEW i \in Item
    PROVE  /\ \A g : Settled(n, g, i) => Settled(n, g, i)'
           /\ AtPeer(n, i) => AtPeer(n, i)'
<1>1. written \in Seq(Write) /\ deleted \subseteq deleted'
  BY DEF Lineage, History, Grows
<1>2. Present(store[n][i]) => Present(store'[n][i]) \/ i \in deleted'
  BY DEF RowFate
<1>3. ASSUME NEW g, ~ StaysIn(i, g) PROVE ~ StaysIn(i, g)'
  <2>1. PICK k \in DOMAIN written : written[k].id = i /\ written[k].group # g
    BY <1>3 DEF StaysIn
  <2>2. k \in 1 .. Len(written) /\ k \in DOMAIN written'
    BY <1>1, <2>1 DEF Grows
  <2>3. written'[k] = written[k]
    BY <2>2 DEF Grows
  <2> QED BY <2>1, <2>2, <2>3 DEF StaysIn
<1> QED BY <1>1, <1>2, <1>3 DEF Settled, AtPeer

LEMMA FetchedStays ==
    ASSUME Lineage, written' \in Seq(Write), Grows
    PROVE  GoodFetched(written, clock) \subseteq GoodFetched(written', clock')
<1>1. \A i, b, g : InLog(written, i, b, g) => InLog(written', i, b, g)
  BY DEF InLog, Lineage, History, Grows
<1>2. \A x \in Payload : x.at \in Stamp
  BY DEF Payload, FetchedItem
<1> QED BY <1>1, <1>2 DEF GoodFetched, Grows

\* Rounds hold ids of items and names of nodes.
LEMMA RoundTyped ==
    ASSUME SyncTypeOK, NEW n \in Node
    PROVE  /\ round[n] \in Round
           /\ round[n].phase \in Phase
           /\ round[n].group \in MaybeGroup
           /\ round[n].peer \in Node
           /\ round[n].since \in Stamp \cup {NoStamp}
           /\ round[n].accepts \in SUBSET Group
           /\ round[n].headers \in SUBSET ItemHeader
           /\ round[n].needed \in SUBSET Item
           /\ round[n].items \in SUBSET Payload
           /\ round[n].writing \in SUBSET Payload
           /\ \A h \in round[n].headers : h.id \in Item
<1>1. round[n] \in Round
  BY DEF SyncTypeOK
<1>2. \A h \in ItemHeader : h.id \in Item
  BY DEF ItemHeader
<1> QED BY <1>1, <1>2 DEF Round

LEMMA RoundStays ==
    ASSUME SyncLineage, written' \in Seq(Write), Grows, RowFate,
           NEW n \in Node, round'[n] = round[n], tick'[n] = tick[n]
    PROVE  RoundOK(n)' /\ Covered(n)'
<1>1. RoundOK(n)'
  <2>1. GoodFetched(written, clock) \subseteq GoodFetched(written', clock')
    BY FetchedStays, ZenonT(30) DEF SyncLineage
  <2>2. RoundOK(n)
    BY ZenonT(30) DEF SyncLineage
  <2> QED BY <2>1, <2>2, ZenonT(30) DEF RoundOK
<1>2. Covered(n)'
  <2>0. PICK g, p : g = round[n].group /\ p = round[n].peer
    BY Zenon
  <2>1. ASSUME NEW h \in round[n].headers
        PROVE  /\ \A q : Settled(n, q, h.id) => Settled(n, q, h.id)'
               /\ AtPeer(p, h.id) => AtPeer(p, h.id)'
    <3>1. h.id \in Item /\ p \in Node
      BY <2>0, RoundTyped, ZenonT(30) DEF SyncLineage
    <3> QED BY <3>1, SettledStays, ZenonT(30) DEF SyncLineage
  <2>2. Covered(n)
    BY ZenonT(30) DEF SyncLineage
  <2>3. \A h \in round[n].headers :
            /\ round[n].phase = "diff" => AtPeer(p, h.id)'
            /\ round[n].phase = "fetch" =>
                  \/ Settled(n, g, h.id)'
                  \/ h.id \in round[n].needed /\ AtPeer(p, h.id)'
            /\ round[n].phase = "apply" =>
                  \/ Settled(n, g, h.id)'
                  \/ \E x \in round[n].items \cup round[n].writing : x.id = h.id
    BY <2>0, <2>1, <2>2, ZenonT(30) DEF Covered
  <2> QED BY <2>0, <2>3 DEF Covered, Settled, AtPeer, StaysIn
<1> QED BY <1>1, <1>2, ZenonT(30)

LEMMA BlankStays ==
    ASSUME Blank, RowFate
    PROVE  Blank'
BY DEF Blank, RowFate, NoRow

\* A step of ItemReplication under which no round moves.
LEMMA ItemStep ==
    ASSUME SyncLineage, [Next]_vars, UNCHANGED syncVars
    PROVE  SyncLineage'
<1>1. Lineage' /\ Grows /\ written' \in Seq(Write) /\ Authors' /\ RowFate
  BY LineageNext, StepGrows, RowsFate, ZenonT(30) DEF SyncLineage
<1>2. SyncTypeOK'
  BY DEF SyncLineage, SyncTypeOK, syncVars
<1>3. \A n \in Node : RoundOK(n)' /\ Covered(n)'
  BY <1>1, RoundStays, ZenonT(30) DEF syncVars
<1> QED BY <1>1, <1>2, <1>3, BlankStays, ZenonT(30) DEF SyncLineage

\* A step that changes the round or the tick of one node and no row.
LEMMA RoundStep ==
    ASSUME SyncLineage, NEW n \in Node, UNCHANGED <<itemVars, store>>,
           \A m \in Node \ {n} : round'[m] = round[m] /\ tick'[m] = tick[m],
           SyncTypeOK', RoundOK(n)', Covered(n)'
    PROVE  SyncLineage'
<1>1. UNCHANGED vars
  BY DEF itemVars, vars, apiVars, replVars
<1>2. Lineage' /\ Grows /\ written' \in Seq(Write) /\ Authors' /\ RowFate
  BY <1>1, LineageNext, StepGrows, RowsFate, ZenonT(30) DEF SyncLineage
<1>3. \A m \in Node \ {n} : RoundOK(m)' /\ Covered(m)'
  BY <1>2, RoundStays
<1> QED BY <1>2, <1>3, BlankStays, ZenonT(30) DEF SyncLineage

LEMMA NoRoundFine ==
    ASSUME NEW n \in Node
    PROVE  /\ NoRound(n) \in Round
           /\ NoRound(n).phase = "idle"
           /\ NoRound(n).accepts = {}
           /\ NoRound(n).headers = {}
           /\ NoRound(n).items = {}
           /\ NoRound(n).writing = {}
BY ZenonT(30) DEF NoRound, Round, MaybeGroup, Phase

LEMMA RoundOver ==
    ASSUME SyncLineage, NEW n \in Node, round'[n] = NoRound(n),
           \/ tick'[n] = tick[n]
           \/ tick'[n] = NoTick
           \/ tick'[n].groups = tick[n].groups /\ tick'[n].due \subseteq tick[n].due
    PROVE  RoundOK(n)' /\ Covered(n)'
<1>1. /\ tick'[n].groups \subseteq Readers[n]
      /\ tick'[n].due \subseteq tick'[n].groups
  <2>1. tick[n].groups \subseteq Readers[n] /\ tick[n].due \subseteq tick[n].groups
    BY Zenon DEF SyncLineage, RoundOK
  <2>2. CASE tick'[n] = NoTick
    BY <2>2 DEF NoTick
  <2>3. CASE tick'[n] # NoTick
    BY <2>1, <2>3
  <2> QED BY <2>2, <2>3
<1> QED BY <1>1, NoRoundFine, ZenonT(30) DEF RoundOK, HasLatest, Covered

LEMMA SyncLineageInit == SyncInit => SyncLineage
<1> SUFFICES ASSUME SyncInit PROVE SyncLineage
  OBVIOUS
<1>1. Lineage
  BY LineageInit, ZenonT(30) DEF SyncInit
<1>2. Authors /\ Blank
  BY DEF SyncInit, Init, Authors, Blank, NoRow
<1>3. SyncTypeOK
  <2>1. tick \in [Node -> [groups : SUBSET Group, due : SUBSET Group]]
    BY Zenon DEF SyncInit, NoTick
  <2>2. round \in [Node -> Round]
    BY NoRoundFine, Zenon DEF SyncInit
  <2>3. 0 \in 0 .. FullSyncEvery - 1
    BY SyncAssumption
  <2>4. sync_cycle_count \in [Node -> [Group -> 0 .. FullSyncEvery - 1]]
    BY <2>3, Zenon DEF SyncInit
  <2>5. last_sync_at \in [Node -> [Group -> Stamp \cup {NoStamp}]]
    BY Zenon DEF SyncInit
  <2>6. bootstrap \subseteq Bootstraps /\ failures \in Nat
    BY DEF SyncInit
  <2> QED BY <2>1, <2>2, <2>4, <2>5, <2>6, Zenon DEF SyncTypeOK
<1>4. ASSUME NEW n \in Node PROVE RoundOK(n) /\ Covered(n)
  BY NoRoundFine, Zenon DEF RoundOK, HasLatest, Covered, SyncInit, NoTick
<1> QED BY <1>1, <1>2, <1>3, <1>4, ZenonT(30) DEF SyncLineage

-----------------------------------------------------------------------------
(* The steps of a sync tick and its rounds.                                *)

\* The groups a node goes through are groups it accepts.
LEMMA CurrentAdmitted ==
    ASSUME PullsAdmitted, SyncLineage, NEW n \in Node
    PROVE  CurrentGroups(n) \subseteq Readers[n]
<1>1. Config[n].posture \in Posture
  BY ConfigAssumption
<1>2. Readers[n] = UNION AcceptedSnapshots(n)
  BY DEF Readers
<1>3. CASE Config[n].posture = "none"
  BY <1>2, <1>3, ZenonT(30) DEF CurrentGroups, OurGroups, IsRelay, AcceptedSnapshots
<1>4. CASE Config[n].posture # "none"
  <2>1. Config[n].shared \subseteq Readers[n] /\ n \notin Clients
    BY <1>4 DEF PullsAdmitted, IsRelay
  <2>2. Config[n].posture = "dynamic"
            => Config[n].accepted \ Config[n].blocked \subseteq Readers[n]
    BY <1>2, ZenonT(30) DEF AcceptedSnapshots
  <2>3. StoredGroups(n) \subseteq Readers[n]
    <3> SUFFICES ASSUME NEW i \in Item, Present(store[n][i])
                 PROVE  store[n][i].group \in Readers[n]
      BY DEF StoredGroups
    <3>1. /\ InLog(written, i, store[n][i].blob, store[n][i].group)
          /\ \/ written[store[n][i].blob].author = n
             \/ store[n][i].group \in Readers[n]
      BY ZenonT(30) DEF SyncLineage, Lineage, Places, GoodRow
    <3>2. written[store[n][i].blob].author \in Clients
      BY <3>1, ZenonT(30) DEF InLog, SyncLineage, Authors
    <3> QED BY <2>1, <3>1, <3>2, ZenonT(30)
  <2> QED BY <2>1, <2>2, <2>3 DEF CurrentGroups, OurGroups
<1> QED BY <1>3, <1>4

LEMMA SyncTickStep ==
    ASSUME PullsAdmitted, SyncLineage, NEW n \in Node, NEW due, SyncTick(n, due)
    PROVE  SyncLineage'
<1>1. tick' = [tick EXCEPT ![n] = [groups |-> CurrentGroups(n), due |-> due]]
          /\ due \subseteq CurrentGroups(n)
  BY DEF SyncTick
<1>2. CurrentGroups(n) \subseteq Readers[n] /\ Readers[n] \subseteq Group
  BY CurrentAdmitted, ReadersFact
<1>3. UNCHANGED <<itemVars, store, round, last_sync_at, sync_cycle_count,
                  bootstrap, failures>>
  BY DEF SyncTick
<1>t. SyncTypeOK
  BY ZenonT(30) DEF SyncLineage
<1>4. tick' \in [Node -> [groups : SUBSET Group, due : SUBSET Group]]
          /\ \A m \in Node \ {n} : tick'[m] = tick[m]
          /\ tick'[n] = [groups |-> CurrentGroups(n), due |-> due]
  BY <1>1, <1>2, <1>t, ZenonT(30) DEF SyncTypeOK
<1>5. SyncTypeOK'
  BY <1>3, <1>4, <1>t DEF SyncTypeOK
<1>6. clock' = clock /\ written' = written /\ deleted' = deleted
  BY <1>3, ZenonT(30) DEF itemVars, apiVars
<1>7. RoundOK(n)'
  <2>1. RoundOK(n)
    BY DEF SyncLineage
  <2> QED BY <1>1, <1>2, <1>3, <1>4, <1>6, <2>1, ZenonT(30) DEF RoundOK
<1>8. Covered(n)'
  <2>1. Covered(n)
    BY DEF SyncLineage
  <2> QED BY <1>3, <1>6, <2>1, ZenonT(30) DEF Covered, Settled, AtPeer, StaysIn
<1> QED BY <1>3, <1>4, <1>5, <1>7, <1>8, RoundStep, ZenonT(30)

\* A round that has asked and knows nothing yet.
LEMMA AskFine ==
    ASSUME NEW n \in Node, NEW g \in Group, NEW p \in Node,
           NEW since \in Stamp \cup {NoStamp}, NEW accepts \in SUBSET Group,
           NEW r, r = Ask(n, g, p, since, accepts)
    PROVE  /\ r \in Round
           /\ r.phase = "sync"
           /\ r.group = g
           /\ r.accepts = accepts
           /\ r.headers = {}
           /\ r.items = {}
           /\ r.writing = {}
BY Zenon DEF Ask, NoRound, Round, MaybeGroup, Phase

LEMMA PeersAreNodes ==
    ASSUME SyncLineage, NEW n \in Node, NEW g
    PROVE  SyncPeers(n, g) \subseteq Node
<1>1. peers[n] \subseteq Node
  BY DEF SyncLineage, Lineage, History
<1> QED BY <1>1 DEF SyncPeers

LEMMA AskedOK ==
    ASSUME SyncLineage, NEW n \in Node, NEW g \in Group, NEW p \in Node,
           NEW since \in Stamp \cup {NoStamp}, NEW accepts \in SUBSET Group,
           accepts \subseteq Readers[n], g \in accepts,
           round'[n] = Ask(n, g, p, since, accepts),
           tick'[n].groups = tick[n].groups, tick'[n].due \subseteq tick[n].due
    PROVE  RoundOK(n)' /\ Covered(n)'
<1>1. /\ tick'[n].groups \subseteq Readers[n]
      /\ tick'[n].due \subseteq tick'[n].groups
  BY ZenonT(30) DEF SyncLineage, RoundOK
<1>2. /\ round'[n].phase = "sync"
      /\ round'[n].group = g
      /\ round'[n].accepts = accepts
      /\ round'[n].headers = {}
      /\ round'[n].items = {}
      /\ round'[n].writing = {}
  BY AskFine
<1> QED BY <1>1, <1>2, ZenonT(30) DEF RoundOK, HasLatest, Covered

\* An idle round is nobody's.
LEMMA IdleOK ==
    ASSUME SyncLineage, NEW n \in Node, round[n].phase = "idle",
           round'[n] = round[n], clock' = clock, written' = written,
           tick'[n].groups = tick[n].groups, tick'[n].due \subseteq tick[n].due
    PROVE  RoundOK(n)' /\ Covered(n)'
<1>1. RoundOK(n)
  BY ZenonT(30) DEF SyncLineage
<1>2. RoundOK(n)'
  BY <1>1 DEF RoundOK
<1> QED BY <1>2, Zenon DEF Covered

LEMMA StartRoundStep ==
    ASSUME SyncLineage, NEW n \in Node, NEW g \in Group, StartRound(n, g)
    PROVE  SyncLineage'
<1> DEFINE cycle == (sync_cycle_count[n][g] + 1) % FullSyncEvery
<1>1. /\ round[n].phase = "idle"
      /\ g \in tick[n].due
      /\ tick' = [tick EXCEPT ![n].due = @ \ {g}]
      /\ sync_cycle_count' = [sync_cycle_count EXCEPT ![n][g] = cycle]
      /\ UNCHANGED <<itemVars, store, last_sync_at, bootstrap, failures>>
  BY DEF StartRound
<1>t. SyncTypeOK
  BY DEF SyncLineage
<1>2. /\ tick' \in [Node -> [groups : SUBSET Group, due : SUBSET Group]]
      /\ \A m \in Node \ {n} : tick'[m] = tick[m]
      /\ tick'[n].groups = tick[n].groups
      /\ tick'[n].due \subseteq tick[n].due
  BY <1>1, <1>t, Zenon DEF SyncTypeOK
<1>3. sync_cycle_count' \in [Node -> [Group -> 0 .. FullSyncEvery - 1]]
  <2>1. cycle \in 0 .. FullSyncEvery - 1
    <3>1. sync_cycle_count[n][g] \in Nat
      BY <1>t DEF SyncTypeOK
    <3> QED BY <3>1, SyncAssumption
  <2> HIDE DEF cycle
  <2> QED BY <1>1, <1>t, <2>1, ZenonT(30) DEF SyncTypeOK
<1>4. clock' = clock /\ written' = written /\ UNCHANGED <<itemVars, store>>
  BY <1>1, ZenonT(30) DEF itemVars, apiVars
<1>5. CASE UNCHANGED round
  <2>1. SyncTypeOK'
    BY <1>1, <1>2, <1>3, <1>5, <1>t, Zenon DEF SyncTypeOK
  <2>2. RoundOK(n)' /\ Covered(n)'
    BY <1>1, <1>2, <1>4, <1>5, IdleOK, ZenonT(30)
  <2> QED BY <1>2, <1>4, <1>5, <2>1, <2>2, RoundStep, ZenonT(30)
<1>6. ASSUME NEW p \in SyncPeers(n, g),
             round' = [round EXCEPT ![n] =
                          Ask(n, g, p, Since(n, g, cycle), tick[n].groups)]
      PROVE  SyncLineage'
  <2>1. p \in Node
    BY PeersAreNodes
  <2>2. Since(n, g, cycle) \in Stamp \cup {NoStamp}
    BY <1>t DEF Since, SyncTypeOK
  <2>3. /\ tick[n].groups \in SUBSET Group
        /\ tick[n].groups \subseteq Readers[n]
        /\ g \in tick[n].groups
    BY <1>1, <1>t DEF SyncLineage, RoundOK, SyncTypeOK
  <2> DEFINE r == Ask(n, g, p, Since(n, g, cycle), tick[n].groups)
  <2>4. r \in Round
    BY <2>1, <2>2, <2>3, AskFine, ZenonT(30)
  <2>5. round' \in [Node -> Round] /\ round'[n] = r
            /\ \A m \in Node \ {n} : round'[m] = round[m]
    <3> HIDE DEF r
    <3>1. round' = [round EXCEPT ![n] = r]
      BY <1>6, ZenonT(30) DEF r
    <3> QED BY <1>t, <2>4, <3>1 DEF SyncTypeOK
  <2>6. SyncTypeOK'
    BY <1>1, <1>2, <1>3, <1>t, <2>5, ZenonT(30) DEF SyncTypeOK
  <2>7. RoundOK(n)' /\ Covered(n)'
    <3>1. PICK s, a : s = Since(n, g, cycle) /\ a = tick[n].groups
      BY Zenon
    <3>2. round'[n] = Ask(n, g, p, s, a)
      BY <2>5, <3>1, Zenon
    <3> HIDE DEF r, cycle
    <3>3. /\ s \in Stamp \cup {NoStamp} /\ a \in SUBSET Group
          /\ a \subseteq Readers[n] /\ g \in a
      BY <2>2, <2>3, <3>1, Zenon
    <3> QED BY <1>2, <2>1, <3>2, <3>3, AskedOK, Zenon
  <2> QED BY <1>2, <1>4, <2>5, <2>6, <2>7, RoundStep, ZenonT(30)
<1> QED BY <1>5, <1>6 DEF StartRound

LEMMA BootstrapSyncStep ==
    ASSUME PullsAdmitted, SyncLineage, NEW n \in Node, NEW g \in Group,
           BootstrapSync(n, g)
    PROVE  SyncLineage'
<1>1. /\ ~ Syncing(n)
      /\ <<n, g>> \in bootstrap
      /\ bootstrap' = bootstrap \ {<<n, g>>}
      /\ last_sync_at' = [last_sync_at EXCEPT ![n][g] = NoStamp]
      /\ sync_cycle_count' = [sync_cycle_count EXCEPT ![n][g] = 0]
      /\ UNCHANGED <<itemVars, store, tick, failures>>
  BY DEF BootstrapSync
<1>t. SyncTypeOK
  BY ZenonT(30) DEF SyncLineage
<1>2. /\ last_sync_at' \in [Node -> [Group -> Stamp \cup {NoStamp}]]
      /\ sync_cycle_count' \in [Node -> [Group -> 0 .. FullSyncEvery - 1]]
      /\ bootstrap' \subseteq Bootstraps
  BY <1>1, <1>t, SyncAssumption DEF SyncTypeOK
<1>3. clock' = clock /\ written' = written /\ UNCHANGED <<itemVars, store>>
  BY <1>1 DEF itemVars, apiVars
<1>4. round[n].phase = "idle"
  BY <1>1 DEF Syncing
<1>5. CASE UNCHANGED round
  <2>1. SyncTypeOK'
    BY <1>1, <1>2, <1>5, <1>t, ZenonT(30) DEF SyncTypeOK
  <2>2. RoundOK(n)' /\ Covered(n)'
    BY <1>1, <1>3, <1>4, <1>5, IdleOK, ZenonT(30)
  <2> QED BY <1>1, <1>3, <1>5, <2>1, <2>2, RoundStep, ZenonT(30)
<1>6. ASSUME NEW p \in SyncPeers(n, g),
             round' = [round EXCEPT ![n] = Ask(n, g, p, NoStamp, Config[n].shared)]
      PROVE  SyncLineage'
  <2>1. p \in Node
    BY PeersAreNodes
  <2>2. Config[n].shared \in SUBSET Group /\ Config[n].shared \subseteq Readers[n]
    <3>1. CASE IsRelay(n)
      BY <3>1, ConfigAssumption, ZenonT(30) DEF PullsAdmitted
    <3>2. CASE ~ IsRelay(n)
      BY <3>2, ConfigAssumption, ZenonT(30) DEF IsRelay, Readers, AcceptedSnapshots
    <3> QED BY <3>1, <3>2, ZenonT(30)
  <2>3. g \in Config[n].shared
    <3>1. <<n, g>> \in Bootstraps /\ <<n, g>>[1] = n /\ <<n, g>>[2] = g
      BY <1>1, <1>t, ZenonT(30) DEF SyncTypeOK
    <3> QED BY <3>1, SyncAssumption
  <2> DEFINE r == Ask(n, g, p, NoStamp, Config[n].shared)
  <2>4. r \in Round
    BY <2>1, <2>2, AskFine
  <2>5. round' \in [Node -> Round] /\ round'[n] = r
            /\ \A m \in Node \ {n} : round'[m] = round[m]
    <3> HIDE DEF r
    <3>1. round' = [round EXCEPT ![n] = r]
      BY <1>6 DEF r
    <3> QED BY <1>t, <2>4, <3>1 DEF SyncTypeOK
  <2>6. SyncTypeOK'
    BY <1>1, <1>2, <1>t, <2>5, ZenonT(30) DEF SyncTypeOK
  <2>7. RoundOK(n)' /\ Covered(n)'
    BY <1>1, <2>1, <2>2, <2>3, <2>5, AskedOK, ZenonT(30)
  <2> QED BY <1>1, <1>3, <2>5, <2>6, <2>7, RoundStep, ZenonT(30)
<1> QED BY <1>5, <1>6, ZenonT(30) DEF BootstrapSync

LEMMA HandleSyncRequestStep ==
    ASSUME SyncLineage, NEW n \in Node, HandleSyncRequest(n)
    PROVE  SyncLineage'
<1>1. /\ round[n].phase = "sync"
      /\ UNCHANGED <<itemVars, store, tick, last_sync_at, sync_cycle_count,
                     bootstrap, failures>>
  BY DEF HandleSyncRequest
<1>2. PICK S \in ListGroupItems(round[n].peer, round[n].group, round[n].since) :
          round' = [round EXCEPT ![n].phase = "diff", ![n].headers = S]
  BY Zenon DEF HandleSyncRequest
<1>t. SyncTypeOK /\ RoundOK(n)
  BY DEF SyncLineage
<1>3. round[n].peer \in Node /\ round[n].group \in Group
  BY <1>1, <1>t, RoundTyped, ZenonT(30) DEF RoundOK
<1>4. /\ S \subseteq ItemHeader
      /\ HasLatest(S)
      /\ \A h \in S : Present(store[round[n].peer][h.id])
  BY <1>2, <1>3, Listed
<1>5. /\ round' \in [Node -> Round]
      /\ \A m \in Node \ {n} : round'[m] = round[m]
      /\ round'[n].phase = "diff"
      /\ round'[n].headers = S
      /\ round'[n].peer = round[n].peer
      /\ round'[n].group = round[n].group
      /\ round'[n].accepts = round[n].accepts
      /\ round'[n].items = round[n].items
      /\ round'[n].writing = round[n].writing
  <2> DEFINE q == [round[n] EXCEPT !.phase = "diff", !.headers = S]
  <2>1. round' = [round EXCEPT ![n] = q]
    BY <1>2, <1>t, Zenon DEF SyncTypeOK
  <2>2. round[n] \in Round /\ "diff" \in Phase
    BY <1>t DEF SyncTypeOK, Phase
  <2>3. /\ q \in Round
        /\ q.phase = "diff" /\ q.headers = S /\ q.peer = round[n].peer
        /\ q.group = round[n].group /\ q.accepts = round[n].accepts
        /\ q.items = round[n].items /\ q.writing = round[n].writing
    BY <1>4, <2>2, ZenonT(30) DEF Round
  <2> HIDE DEF q
  <2> QED BY <1>t, <2>1, <2>3, ZenonT(30) DEF SyncTypeOK
<1>6. SyncTypeOK'
  BY <1>1, <1>5, <1>t DEF SyncTypeOK
<1>7. clock' = clock /\ written' = written /\ UNCHANGED <<itemVars, store, tick>>
  BY <1>1, ZenonT(30) DEF itemVars, apiVars
<1>8. RoundOK(n)'
  BY <1>1, <1>4, <1>5, <1>7, <1>t, ZenonT(30) DEF RoundOK
<1>9. Covered(n)'
  BY <1>4, <1>5, <1>7, ZenonT(30) DEF Covered, AtPeer
<1> QED BY <1>5, <1>6, <1>7, <1>8, <1>9, RoundStep, ZenonT(30)

\* The end of a round, with or without a fetch.
LEMMA FinishStep ==
    ASSUME SyncLineage, NEW n \in Node, round[n].phase # "idle", Finish(n),
           UNCHANGED <<itemVars, store, tick, sync_cycle_count, bootstrap, failures>>
    PROVE  SyncLineage'
<1>t. SyncTypeOK /\ RoundOK(n)
  BY DEF SyncLineage
<1>1. /\ last_sync_at' = [last_sync_at EXCEPT ![n][round[n].group] =
                             Latest(round[n].headers, last_sync_at[n][round[n].group])]
      /\ round' = [round EXCEPT ![n] = NoRound(n)]
  BY DEF Finish
<1>2. round[n].group \in Group
  BY <1>t, RoundTyped, ZenonT(30) DEF RoundOK
<1>3. Latest(round[n].headers, last_sync_at[n][round[n].group]) \in Stamp \cup {NoStamp}
  <2>1. last_sync_at[n][round[n].group] \in Stamp \cup {NoStamp}
    BY <1>2, <1>t, ZenonT(30) DEF SyncTypeOK
  <2> QED BY <1>t, <2>1, RoundTyped, LatestTyped, ZenonT(30) DEF RoundOK
<1>4. last_sync_at' \in [Node -> [Group -> Stamp \cup {NoStamp}]]
  BY <1>1, <1>2, <1>3, <1>t, ZenonT(30) DEF SyncTypeOK
<1>5. /\ round' \in [Node -> Round]
      /\ round'[n] = NoRound(n)
      /\ \A m \in Node \ {n} : round'[m] = round[m]
  BY <1>1, <1>t, NoRoundFine, ZenonT(30) DEF SyncTypeOK
<1>6. SyncTypeOK'
  BY <1>4, <1>5, <1>t DEF SyncTypeOK
<1>7. RoundOK(n)' /\ Covered(n)'
  BY <1>5, RoundOver, ZenonT(30)
<1> QED BY <1>5, <1>6, <1>7, RoundStep, ZenonT(30)

\* A header the node's own list has too is settled.
LEMMA DiffSettles ==
    ASSUME SyncLineage, NEW n \in Node, round[n].phase = "diff",
           NEW mine \in ListGroupItems(n, round[n].group, round[n].since),
           NEW h \in round[n].headers,
           \E y \in mine : y.id = h.id /\ y.blob = h.blob
    PROVE  Present(store[n][h.id])
<1>1. round[n].group \in Group
  BY RoundTyped, Zenon DEF SyncLineage, RoundOK
<1>2. PICK y \in mine : y.id = h.id
  BY Zenon
<1>3. Present(store[n][y.id])
  BY <1>1, Listed
<1> QED BY <1>2, <1>3, Zenon

Needed(n, mine) ==
    {h.id : h \in {x \in round[n].headers :
                      ~ \E y \in mine : y.id = x.id /\ y.blob = x.blob}}

LEMMA DiffHeadersCases ==
    ASSUME NEW n \in Node, DiffHeaders(n)
    PROVE  \E mine \in ListGroupItems(n, round[n].group, round[n].since) :
              \/ Needed(n, mine) = {} /\ Finish(n)
              \/ /\ round' = [round EXCEPT ![n].phase = "fetch",
                                           ![n].needed = Needed(n, mine)]
                 /\ UNCHANGED last_sync_at
BY DEF DiffHeaders, Needed

LEMMA DiffHeadersStep ==
    ASSUME SyncLineage, NEW n \in Node, DiffHeaders(n)
    PROVE  SyncLineage'
<1>1. /\ round[n].phase = "diff"
      /\ UNCHANGED <<itemVars, store, tick, sync_cycle_count, bootstrap, failures>>
  BY DEF DiffHeaders
<1>2. CASE Finish(n)
  BY <1>1, <1>2, FinishStep, ZenonT(30)
<1>3. ASSUME NEW mine \in ListGroupItems(n, round[n].group, round[n].since),
             round' = [round EXCEPT ![n].phase = "fetch",
                                    ![n].needed = Needed(n, mine)],
             UNCHANGED last_sync_at
      PROVE  SyncLineage'
  <2>t. SyncTypeOK /\ RoundOK(n) /\ Covered(n)
    BY DEF SyncLineage
  <2>1. Needed(n, mine) \subseteq Item
    BY <2>t, RoundTyped, ZenonT(30) DEF Needed
  <2>2. /\ round' \in [Node -> Round]
        /\ \A m \in Node \ {n} : round'[m] = round[m]
        /\ round'[n].phase = "fetch"
        /\ round'[n].needed = Needed(n, mine)
        /\ round'[n].headers = round[n].headers
        /\ round'[n].peer = round[n].peer
        /\ round'[n].group = round[n].group
        /\ round'[n].accepts = round[n].accepts
        /\ round'[n].items = round[n].items
        /\ round'[n].writing = round[n].writing
    <3> DEFINE q == [round[n] EXCEPT !.phase = "fetch", !.needed = Needed(n, mine)]
    <3>1. round' = [round EXCEPT ![n] = q]
      BY <1>3, <2>t, Zenon DEF SyncTypeOK
    <3>2. round[n] \in Round /\ "fetch" \in Phase
      BY <2>t DEF SyncTypeOK, Phase
    <3>3. /\ q \in Round
          /\ q.phase = "fetch" /\ q.needed = Needed(n, mine) /\ q.peer = round[n].peer
          /\ q.group = round[n].group /\ q.accepts = round[n].accepts
          /\ q.headers = round[n].headers
          /\ q.items = round[n].items /\ q.writing = round[n].writing
      BY <2>1, <3>2, Zenon DEF Round
    <3> HIDE DEF q
    <3> QED BY <2>t, <3>1, <3>3 DEF SyncTypeOK
  <2>3. SyncTypeOK'
    BY <1>1, <1>3, <2>2, <2>t, ZenonT(30) DEF SyncTypeOK
  <2>4. /\ clock' = clock /\ written' = written /\ deleted' = deleted
        /\ UNCHANGED <<itemVars, store, tick>>
    BY <1>1 DEF itemVars, apiVars
  <2>5. RoundOK(n)'
    BY <1>1, <2>2, <2>4, <2>t, ZenonT(30) DEF RoundOK
  <2>6. ASSUME NEW h \in round[n].headers
        PROVE  \/ Present(store[n][h.id])
               \/ h.id \in Needed(n, mine) /\ AtPeer(round[n].peer, h.id)
    <3>1. AtPeer(round[n].peer, h.id)
      BY <1>1, <2>t, ZenonT(30) DEF Covered
    <3>2. h.id \in Needed(n, mine) \/ \E y \in mine : y.id = h.id /\ y.blob = h.blob
      BY DEF Needed
    <3> QED BY <1>1, <3>1, <3>2, DiffSettles, ZenonT(30)
  <2>7. Covered(n)'
    <3>1. \A h \in round[n].headers :
              \/ Present(store'[n][h.id])
              \/ /\ h.id \in round'[n].needed
                 /\ Present(store'[round'[n].peer][h.id]) \/ h.id \in deleted'
      BY <2>2, <2>4, <2>6 DEF AtPeer
    <3> QED BY <2>2, <3>1, ZenonT(30) DEF Covered, Settled, AtPeer
  <2> QED BY <2>2, <2>3, <2>4, <2>5, <2>7, RoundStep, ZenonT(30)
<1> QED BY <1>2, <1>3, DiffHeadersCases

LEMMA HandleFetchRequestStep ==
    ASSUME SyncLineage, NEW n \in Node, HandleFetchRequest(n)
    PROVE  SyncLineage'
<1> DEFINE p == round[n].peer
           item(i) == [id |-> i, tombstone |-> FALSE, blob |-> store[p][i].blob,
                       group |-> store[p][i].group, at |-> store[p][i].at]
           J == {j \in round[n].needed : Present(store[p][j])}
           items == {item(i) : i \in J}
<1>1. /\ round[n].phase = "fetch"
      /\ round' = [round EXCEPT ![n].phase = "apply", ![n].items = items]
      /\ UNCHANGED <<itemVars, store, tick, last_sync_at, sync_cycle_count,
                     bootstrap, failures>>
  BY DEF HandleFetchRequest
<1>t. SyncTypeOK /\ RoundOK(n) /\ Covered(n)
  BY DEF SyncLineage
<1>2. p \in Node /\ round[n].needed \subseteq Item
  BY <1>t, RoundTyped, ZenonT(30)
<1>3. ASSUME NEW i \in J
      PROVE  item(i) \in GoodFetched(written, clock) /\ item(i).id = i
  <2>1. i \in Item /\ Present(store[p][i])
    BY <1>2
  <2>2. store[p][i] \in Row /\ store[p][i] \in GoodRow(written, clock, p, i)
    BY <1>2, <2>1, ZenonT(30) DEF SyncLineage, Lineage, Places
  <2>3. item(i) \in Payload
    <3>1. /\ store[p][i].blob \in Nat
          /\ store[p][i].blob # 0
          /\ store[p][i].group \in MaybeGroup
          /\ store[p][i].at \in Stamp
      BY <2>1, <2>2, ZenonT(30) DEF Row, Present
    <3> QED BY <2>1, <3>1, ZenonT(30) DEF Payload, FetchedItem
  <2>4. InLog(written, i, store[p][i].blob, store[p][i].group)
            /\ NotLater(store[p][i].at, clock)
    BY <2>1, <2>2, ZenonT(30) DEF GoodRow
  <2> QED BY <2>3, <2>4, Zenon DEF GoodFetched
<1>4. items \subseteq GoodFetched(written, clock) /\ items \subseteq Payload
          /\ \A i \in J : \E x \in items : x.id = i
  BY <1>3, ZenonT(30) DEF GoodFetched
<1>5. \A h \in round[n].headers :
          Settled(n, round[n].group, h.id) \/ \E x \in items : x.id = h.id
  <2> SUFFICES ASSUME NEW h \in round[n].headers,
                      ~ Settled(n, round[n].group, h.id)
               PROVE  \E x \in items : x.id = h.id
    BY ZenonT(30)
  <2>1. h.id \in round[n].needed /\ AtPeer(p, h.id)
    BY <1>1, <1>t DEF Covered
  <2>2. h.id \in J
    BY <2>1, ZenonT(30) DEF AtPeer, Settled
  <2> QED BY <1>4, <2>2, ZenonT(30)
<1> HIDE DEF items
<1>6. /\ round' \in [Node -> Round]
      /\ \A m \in Node \ {n} : round'[m] = round[m]
      /\ round'[n].phase = "apply"
      /\ round'[n].items = items
      /\ round'[n].headers = round[n].headers
      /\ round'[n].group = round[n].group
      /\ round'[n].accepts = round[n].accepts
      /\ round'[n].writing = round[n].writing
  <2> DEFINE q == [round[n] EXCEPT !.phase = "apply", !.items = items]
  <2>1. round' = [round EXCEPT ![n] = q]
    BY <1>1, <1>t, Zenon DEF SyncTypeOK
  <2>2. round[n] \in Round /\ "apply" \in Phase
    BY <1>t DEF SyncTypeOK, Phase
  <2>3. /\ q \in Round
        /\ q.phase = "apply" /\ q.items = items
        /\ q.group = round[n].group /\ q.accepts = round[n].accepts
        /\ q.headers = round[n].headers /\ q.writing = round[n].writing
    BY <1>4, <2>2, Zenon DEF Round
  <2> HIDE DEF q
  <2> QED BY <1>t, <2>1, <2>3 DEF SyncTypeOK
<1>7. SyncTypeOK'
  BY <1>1, <1>6, <1>t DEF SyncTypeOK
<1>8. /\ clock' = clock /\ written' = written /\ deleted' = deleted
      /\ UNCHANGED <<itemVars, store, tick>>
  BY <1>1 DEF itemVars, apiVars
<1>9. RoundOK(n)'
  BY <1>1, <1>4, <1>6, <1>8, <1>t, ZenonT(30) DEF RoundOK
<1>10. Covered(n)'
  BY <1>5, <1>6, <1>8, ZenonT(30) DEF Covered, Settled, StaysIn
<1> QED BY <1>6, <1>7, <1>8, <1>9, <1>10, RoundStep, ZenonT(30)

\* on_receive stores a fetched item of an accepted group unless there is a row.
LEMMA JudgeSettles ==
    ASSUME SyncLineage, NEW n \in Node,
           NEW item \in round[n].items, JudgeFetched(n, item),
           OnReceive(store[n][item.id], item, round[n].accepts) # "store"
    PROVE  Settled(n, round[n].group, item.id)
<1>1. round[n].phase = "apply" /\ RoundOK(n)
  BY DEF JudgeFetched, SyncLineage
<1>2. item \in GoodFetched(written, clock) /\ ~ item.tombstone
  BY <1>1, ZenonT(30) DEF RoundOK, GoodFetched, Payload
<1>3. CASE item.group \in round[n].accepts
  BY <1>2, <1>3, ZenonT(30) DEF OnReceive, LastWriterWins, Settled
<1>4. CASE item.group \notin round[n].accepts
  <2>1. round[n].group # item.group
    BY <1>1, <1>4 DEF RoundOK
  <2>2. /\ item.blob \in DOMAIN written
        /\ written[item.blob].id = item.id
        /\ written[item.blob].group = item.group
    <3>1. InLog(written, item.id, item.blob, item.group)
      BY <1>2, Zenon DEF GoodFetched
    <3>2. written \in Seq(Write)
      BY Zenon DEF SyncLineage, Lineage, History
    <3>3. DOMAIN written = 1 .. Len(written)
      BY <3>2
    <3> QED BY <3>1, <3>3, Zenon DEF InLog
  <2> QED BY <2>1, <2>2, ZenonT(30) DEF Settled, StaysIn
<1> QED BY <1>3, <1>4

LEMMA JudgeFetchedStep ==
    ASSUME SyncLineage, NEW n \in Node, NEW item \in round[n].items,
           JudgeFetched(n, item)
    PROVE  SyncLineage'
<1> DEFINE keeps == OnReceive(store[n][item.id], item, round[n].accepts) = "store"
           W == IF keeps THEN {item} ELSE {}
           rest == round[n].items \ {item}
<1>1. /\ round[n].phase = "apply"
      /\ round[n].writing = {}
      /\ round' = [round EXCEPT ![n].items = @ \ {item}, ![n].writing = W]
      /\ UNCHANGED <<itemVars, store, tick, last_sync_at, sync_cycle_count,
                     bootstrap, failures>>
  BY DEF JudgeFetched
<1>t. SyncTypeOK /\ RoundOK(n) /\ Covered(n)
  BY DEF SyncLineage
<1>2. /\ item \in GoodFetched(written, clock)
      /\ item \in Payload
      /\ keeps => item.group \in round[n].accepts
  BY <1>t, ZenonT(30) DEF RoundOK, GoodFetched, OnReceive
<1>3. ~ keeps => Settled(n, round[n].group, item.id)
  BY JudgeSettles, ZenonT(30)
<1> HIDE DEF keeps
<1>4. W \in SUBSET Payload /\ rest \in SUBSET Payload
  BY <1>2, <1>t, RoundTyped, ZenonT(30)
<1>5. \A h \in round[n].headers :
          Settled(n, round[n].group, h.id) \/ \E x \in rest \cup W : x.id = h.id
  <2> SUFFICES ASSUME NEW h \in round[n].headers,
                      ~ Settled(n, round[n].group, h.id)
               PROVE  \E x \in rest \cup W : x.id = h.id
    OBVIOUS
  <2>1. PICK x \in round[n].items : x.id = h.id
    BY <1>1, <1>t, ZenonT(30) DEF Covered
  <2>2. CASE x = item
    BY <1>3, <2>1, <2>2, ZenonT(30)
  <2>3. CASE x # item
    BY <2>1, <2>3
  <2> QED BY <2>2, <2>3, ZenonT(30)
<1>6. /\ W \subseteq GoodFetched(written, clock)
      /\ rest \subseteq GoodFetched(written, clock)
      /\ \A x \in W : x.group \in round[n].accepts
      /\ \A x, y \in W : x = y
  BY <1>2, <1>t, ZenonT(30) DEF RoundOK
<1>7. round' = [round EXCEPT ![n].items = rest, ![n].writing = W]
  BY <1>1
<1> HIDE DEF W, rest
<1>8. /\ round' \in [Node -> Round]
      /\ \A m \in Node \ {n} : round'[m] = round[m]
      /\ round'[n].phase = "apply"
      /\ round'[n].items = rest
      /\ round'[n].writing = W
      /\ round'[n].headers = round[n].headers
      /\ round'[n].group = round[n].group
      /\ round'[n].accepts = round[n].accepts
  <2> DEFINE q == [round[n] EXCEPT !.items = rest, !.writing = W]
  <2>1. round' = [round EXCEPT ![n] = q]
    BY <1>7, <1>t, Zenon DEF SyncTypeOK
  <2>2. round[n] \in Round
    BY <1>t DEF SyncTypeOK
  <2>3. /\ q \in Round
        /\ q.phase = round[n].phase /\ q.items = rest /\ q.writing = W
        /\ q.group = round[n].group /\ q.accepts = round[n].accepts
        /\ q.headers = round[n].headers
    BY <1>4, <2>2, ZenonT(30) DEF Round
  <2>4. q.phase = "apply"
    BY <1>1, <2>3, ZenonT(30)
  <2> HIDE DEF q
  <2> QED BY <1>t, <2>1, <2>3, <2>4, ZenonT(30) DEF SyncTypeOK
<1>9. SyncTypeOK'
  BY <1>1, <1>8, <1>t, ZenonT(30) DEF SyncTypeOK
<1>10. /\ clock' = clock /\ written' = written /\ deleted' = deleted
       /\ UNCHANGED <<itemVars, store, tick>>
  BY <1>1, ZenonT(30) DEF itemVars, apiVars
<1>11. RoundOK(n)'
  BY <1>1, <1>6, <1>8, <1>10, <1>t, ZenonT(30) DEF RoundOK
<1>12. Covered(n)'
  BY <1>5, <1>8, <1>10, ZenonT(30) DEF Covered, Settled, StaysIn
<1> QED BY <1>8, <1>9, <1>10, <1>11, <1>12, RoundStep, ZenonT(30)

\* What write_l2_item of a fetched item puts into the database.
LEMMA FetchedRow ==
    ASSUME SyncLineage, NEW n \in Node, NEW item \in round[n].writing
    PROVE  /\ item.id \in Item
           /\ RowOf(item) \in Row
           /\ RowOf(item) \in GoodRow(written, clock, n, item.id)
           /\ Present(RowOf(item))
           /\ RowOf(item).blob = item.blob
           /\ InLog(written, item.id, item.blob, item.group)
           /\ item.group \in Readers[n]
<1>1. item \in GoodFetched(written, clock) /\ item.group \in Readers[n]
  BY ZenonT(30) DEF SyncLineage, RoundOK
<1>2. /\ item.id \in Item /\ item.blob \in Nat /\ item.blob # 0
      /\ item.group \in MaybeGroup /\ item.at \in Stamp
      /\ InLog(written, item.id, item.blob, item.group)
      /\ NotLater(item.at, clock)
  BY <1>1, ZenonT(30) DEF GoodFetched, Payload, FetchedItem
<1>3. RowOf(item) \in Row /\ Present(RowOf(item)) /\ RowOf(item).blob = item.blob
          /\ RowOf(item).group = item.group /\ RowOf(item).at = item.at
  BY <1>2 DEF RowOf, Row, Present
<1>4. RowOf(item) \in GoodRow(written, clock, n, item.id)
  BY <1>1, <1>2, <1>3, ZenonT(30) DEF GoodRow
<1> QED BY <1>1, <1>2, <1>3, <1>4, ZenonT(30)

LEMMA WriteFetchedStep ==
    ASSUME SyncLineage, NEW n \in Node, NEW item \in round[n].writing,
           WriteFetched(n, item)
    PROVE  SyncLineage'
<1>1. /\ store' = [store EXCEPT ![n][item.id] = RowOf(item)]
      /\ round' = [round EXCEPT ![n].writing = {}]
      /\ UNCHANGED <<itemVars, tick, last_sync_at, sync_cycle_count, bootstrap,
                     failures>>
  BY ZenonT(30) DEF WriteFetched
<1>t. Lineage /\ SyncTypeOK /\ RoundOK(n) /\ Covered(n)
  BY DEF SyncLineage
<1>2. /\ clock' = clock /\ written' = written /\ deleted' = deleted /\ tick' = tick
      /\ UNCHANGED <<api, notify, buffer, pending, rx, peers, net, crashes>>
  BY <1>1, ZenonT(30) DEF itemVars, apiVars, replVars
<1>3. /\ item.id \in Item
      /\ RowOf(item) \in Row
      /\ RowOf(item) \in GoodRow(written, clock, n, item.id)
      /\ Present(RowOf(item))
  BY FetchedRow
<1>4. RowFate
  BY <1>1, <1>3, <1>t, OneRow, ZenonT(30)
<1>5. /\ store' \in [Node -> [Item -> Row]]
      /\ \A m \in Node, j \in Item : store'[m][j] \in GoodRow(written, clock, m, j)
      /\ store'[n][item.id] = RowOf(item)
  BY <1>1, <1>3, <1>t, ZenonT(30) DEF Lineage, Places
<1>6. Lineage'
  <2>1. Places(written, deleted, clock)'
    BY <1>2, <1>5, <1>t, ZenonT(30) DEF Lineage, Places
  <2> QED BY <1>2, <1>t, <2>1, ZenonT(30) DEF Lineage, History, RxOK
<1>7. Grows /\ written' \in Seq(Write) /\ Authors'
  BY <1>2, <1>t DEF Grows, Lineage, History, SyncLineage, Authors
<1>8. /\ round' \in [Node -> Round]
      /\ \A m \in Node \ {n} : round'[m] = round[m]
      /\ round'[n].phase = round[n].phase
      /\ round'[n].items = round[n].items
      /\ round'[n].writing = {}
      /\ round'[n].headers = round[n].headers
      /\ round'[n].group = round[n].group
      /\ round'[n].accepts = round[n].accepts
      /\ round'[n].needed = round[n].needed
      /\ round'[n].peer = round[n].peer
  <2> DEFINE q == [round[n] EXCEPT !.writing = {}]
  <2>1. round' = [round EXCEPT ![n] = q]
    BY <1>1, <1>t, ZenonT(30) DEF SyncTypeOK
  <2>2. round[n] \in Round
    BY <1>t, Zenon DEF SyncTypeOK
  <2>3. /\ q \in Round
        /\ q.phase = round[n].phase /\ q.items = round[n].items /\ q.writing = {}
        /\ q.group = round[n].group /\ q.accepts = round[n].accepts
        /\ q.headers = round[n].headers /\ q.needed = round[n].needed
        /\ q.peer = round[n].peer
    BY <2>2 DEF Round
  <2> HIDE DEF q
  <2> QED BY <1>t, <2>1, <2>3, ZenonT(30) DEF SyncTypeOK
<1>9. SyncTypeOK'
  BY <1>1, <1>8, <1>t, ZenonT(30) DEF SyncTypeOK
<1>10. \A m \in Node \ {n} : RoundOK(m)' /\ Covered(m)'
  BY <1>2, <1>4, <1>7, <1>8, RoundStays, ZenonT(30)
<1>11. RoundOK(n)'
  BY <1>2, <1>8, <1>t, ZenonT(30) DEF RoundOK
<1>12. Covered(n)'
  <2>0. PICK g, p : g = round[n].group /\ p = round[n].peer
    BY ZenonT(30)
  <2>1. ASSUME NEW h \in round[n].headers
        PROVE  /\ Settled(n, g, h.id) => Settled(n, g, h.id)'
               /\ AtPeer(p, h.id) => AtPeer(p, h.id)'
    <3>1. h.id \in Item /\ p \in Node
      BY <1>t, <2>0, RoundTyped, ZenonT(30)
    <3> QED BY <1>4, <1>7, <1>t, <3>1, SettledStays, ZenonT(30)
  <2>2. \A h : h.id = item.id => Settled(n, g, h.id)'
    BY <1>3, <1>5, ZenonT(30) DEF Settled
  <2>3. \A x \in round[n].writing : x = item
    BY <1>t, ZenonT(30) DEF RoundOK
  <2>4. \A h \in round[n].headers :
            /\ round[n].phase = "diff" => AtPeer(p, h.id)'
            /\ round[n].phase = "fetch" =>
                  \/ Settled(n, g, h.id)'
                  \/ h.id \in round[n].needed /\ AtPeer(p, h.id)'
            /\ round[n].phase = "apply" =>
                  \/ Settled(n, g, h.id)'
                  \/ \E x \in round[n].items : x.id = h.id
    BY <1>t, <2>0, <2>1, <2>2, <2>3, ZenonT(30) DEF Covered
  <2> QED BY <1>8, <2>0, <2>4 DEF Covered, Settled, AtPeer, StaysIn
<1> QED BY <1>4, <1>6, <1>7, <1>9, <1>10, <1>11, <1>12, BlankStays, ZenonT(30) DEF SyncLineage

LEMMA FailRoundStep ==
    ASSUME SyncLineage, NEW n \in Node, FailRound(n)
    PROVE  SyncLineage'
<1>t. SyncTypeOK
  BY DEF SyncLineage
<1>1. /\ round' = [round EXCEPT ![n] = NoRound(n)]
      /\ failures' = failures + 1
      /\ UNCHANGED <<itemVars, store, tick, last_sync_at, sync_cycle_count, bootstrap>>
  BY ZenonT(30) DEF FailRound
<1>2. /\ round' \in [Node -> Round]
      /\ round'[n] = NoRound(n)
      /\ \A m \in Node \ {n} : round'[m] = round[m]
  BY <1>1, <1>t, NoRoundFine, ZenonT(30) DEF SyncTypeOK
<1>3. SyncTypeOK'
  BY <1>1, <1>2, <1>t DEF SyncTypeOK
<1>4. RoundOK(n)' /\ Covered(n)'
  BY <1>1, <1>2, RoundOver, ZenonT(30)
<1> QED BY <1>1, <1>2, <1>3, <1>4, RoundStep, ZenonT(30)

LEMMA CrashAllStep ==
    ASSUME SyncLineage, NEW n \in Node, CrashAll(n)
    PROVE  SyncLineage'
<1>t. SyncTypeOK
  BY DEF SyncLineage
<1>1. [Next]_vars
  BY DEF CrashAll, Next, Environment
<1>2. Lineage' /\ Grows /\ written' \in Seq(Write) /\ Authors' /\ RowFate
  BY <1>1, LineageNext, StepGrows, RowsFate, ZenonT(30) DEF SyncLineage
<1>3. /\ tick' = [tick EXCEPT ![n] = NoTick]
      /\ \A m \in Node : round'[m] = NoRound(m) \/ (m # n /\ round'[m] = round[m])
      /\ round' \in [Node -> Round]
  BY <1>t, NoRoundFine, ZenonT(30) DEF CrashAll, SyncTypeOK
<1>4. /\ tick' \in [Node -> [groups : SUBSET Group, due : SUBSET Group]]
      /\ tick'[n] = NoTick
      /\ \A m \in Node \ {n} : tick'[m] = tick[m]
  BY <1>3, <1>t, ZenonT(30) DEF SyncTypeOK, NoTick
<1>5. /\ last_sync_at' \in [Node -> [Group -> Stamp \cup {NoStamp}]]
      /\ sync_cycle_count' \in [Node -> [Group -> 0 .. FullSyncEvery - 1]]
      /\ bootstrap' \subseteq Bootstraps
      /\ failures' \in Nat
  <2>1. [g \in Group |-> NoStamp] \in [Group -> Stamp \cup {NoStamp}]
    OBVIOUS
  <2>2. [g \in Group |-> 0] \in [Group -> 0 .. FullSyncEvery - 1]
    BY SyncAssumption
  <2> QED BY <1>t, <2>1, <2>2 DEF CrashAll, SyncTypeOK
<1>6. SyncTypeOK'
  BY <1>3, <1>4, <1>5, ZenonT(30) DEF SyncTypeOK
<1>7. ASSUME NEW m \in Node PROVE RoundOK(m)' /\ Covered(m)'
  <2>1. CASE round'[m] = NoRound(m)
    BY <1>4, <2>1, RoundOver, ZenonT(30)
  <2>2. CASE m # n /\ round'[m] = round[m]
    BY <1>2, <1>4, <2>2, RoundStays, ZenonT(30)
  <2> QED BY <1>3, <2>1, <2>2, ZenonT(30)
<1> QED BY <1>2, <1>6, <1>7, BlankStays, ZenonT(30) DEF SyncLineage

LEMMA SyncLineageNext ==
    ASSUME PullsAdmitted, SyncLineage, [SyncNext]_allVars
    PROVE  SyncLineage'
<1>1. ASSUME [Next]_vars, UNCHANGED syncVars PROVE SyncLineage'
  BY <1>1, ItemStep, ZenonT(30)
<1>2. ASSUME NEW n \in Node, ReplicationTask(n) PROVE SyncLineage'
  <2>1. CASE ~ Syncing(n) /\ ReplStep(n) /\ UNCHANGED syncVars
    BY <1>1, <2>1, ZenonT(30) DEF Next
  <2>2. ASSUME EndRound(n) PROVE SyncLineage'
    BY <2>2, FinishStep, ZenonT(30) DEF EndRound
  <2> QED BY <1>2, <2>1, <2>2, SyncTickStep, StartRoundStep, BootstrapSyncStep,
             DiffHeadersStep, JudgeFetchedStep, WriteFetchedStep, ZenonT(30)
          DEF ReplicationTask
<1>3. CASE UNCHANGED allVars
  BY <1>1, <1>3, ZenonT(30) DEF allVars
<1>4. ASSUME \/ \E n \in Node : ApiStep(n) \/ SwarmStep(n)
             \/ \E m \in net : LosePush(m)
             \/ \E n, m \in Node : TogglePeer(n, m)
             \/ Tick
      PROVE  Next
  BY <1>4 DEF Next, Environment
<1> QED BY <1>1, <1>2, <1>3, <1>4, HandleSyncRequestStep, HandleFetchRequestStep,
           FailRoundStep, CrashAllStep, ZenonT(30) DEF SyncNext

\* SyncLineage holds in every reachable state.
LEMMA SyncLineageInvariant == PullsAdmitted => (SyncSpec => []SyncLineage)
<1> SUFFICES ASSUME PullsAdmitted PROVE SyncSpec => []SyncLineage
  OBVIOUS
<1>1. SyncInit => SyncLineage
  BY SyncLineageInit
<1>2. SyncLineage /\ [SyncNext]_allVars => SyncLineage'
  BY SyncLineageNext
<1> QED
  BY <1>1, <1>2, PTL DEF SyncSpec

-----------------------------------------------------------------------------
(* What SyncLineage says in the terms of the specification.                *)

\* Ticks, rounds and watermarks have their types: in particular latest_ts is
\* always the updated_at of a header, or the watermark there was before.
THEOREM SyncTypeCorrect == PullsAdmitted => (SyncSpec => []SyncTypeOK)
<1> SUFFICES ASSUME PullsAdmitted PROVE SyncSpec => []SyncTypeOK
  OBVIOUS
<1>1. SyncSpec => []SyncLineage
  BY SyncLineageInvariant
<1>2. SyncLineage => SyncTypeOK
  BY ZenonT(30) DEF SyncLineage
<1> QED
  BY <1>1, <1>2, PTL

\* Pulling keeps what the push path promises: what is stored, queued or pushed
\* goes back to an API call also when it came by a fetch, was pushed on or was
\* pulled from a node that had pulled it itself.
THEOREM SyncNothingInvented == PullsAdmitted => (SyncSpec => []NoInvention)
<1> SUFFICES ASSUME PullsAdmitted PROVE SyncSpec => []NoInvention
  OBVIOUS
<1>1. SyncSpec => []SyncLineage
  BY SyncLineageInvariant
<1>2. SyncLineage => NoInvention
  BY LineageGenuine, Zenon DEF SyncLineage
<1> QED
  BY <1>1, <1>2, PTL

\* Neither pushes nor pulls bring an item to a node that does not accept its
\* group: run_anti_entropy asks for groups, and checks what comes back, by sets
\* that under PullsAdmitted are within what the node accepts by push.
THEOREM SyncReadersOnly == PullsAdmitted => (SyncSpec => []OnlyReadersHold)
<1> SUFFICES ASSUME PullsAdmitted PROVE SyncSpec => []OnlyReadersHold
  OBVIOUS
<1>1. SyncSpec => []SyncLineage
  BY SyncLineageInvariant
<1>2. SyncLineage => OnlyReadersHold
  BY LineageReaders, Zenon DEF SyncLineage
<1> QED
  BY <1>1, <1>2, PTL

\* No stamp gets ahead of the clock when rows, with SQLite's stamps, are
\* fetched beside pushes, with chrono's.
THEOREM SyncNoStampAhead == PullsAdmitted => (SyncSpec => []StampsNotAhead)
<1> SUFFICES ASSUME PullsAdmitted PROVE SyncSpec => []StampsNotAhead
  OBVIOUS
<1>1. SyncSpec => []SyncLineage
  BY SyncLineageInvariant
<1>2. SyncLineage => StampsNotAhead
  BY LineageStamps, Zenon DEF SyncLineage
<1> QED
  BY <1>1, <1>2, PTL

\* A fetched item that is written is a version taken over.
LEMMA FetchedAdopted ==
    ASSUME SyncLineage, NEW n \in Node, NEW item \in round[n].writing,
           WriteFetched(n, item)
    PROVE  Memory!MemNext
<1>1. /\ store' = [store EXCEPT ![n][item.id] = RowOf(item)]
      /\ UNCHANGED <<written, deleted>>
  BY ZenonT(30) DEF WriteFetched, itemVars, apiVars
<1>2. /\ item.id \in Item
      /\ RowOf(item) \in Row
      /\ RowOf(item).blob = item.blob
      /\ InLog(written, item.id, item.blob, item.group)
      /\ item.group \in Readers[n]
  BY FetchedRow, ZenonT(30)
<1>3. mem' = [mem EXCEPT ![n][item.id] = item.blob]
  <2>0. Lineage
    BY ZenonT(30) DEF SyncLineage
  <2>1. PICK i \in Item, row \in Row : i = item.id /\ row = RowOf(item)
    BY <1>2, ZenonT(30)
  <2>2. store' = [store EXCEPT ![n][i] = row]
    BY <1>1, <2>1
  <2>3. mem' = [mem EXCEPT ![n][i] = row.blob]
    BY <2>0, <2>2, RowChange, ZenonT(30)
  <2> QED BY <1>2, <2>1, <2>3, ZenonT(30)
<1>4. PICK i \in Item, b \in 1 .. Len(written) : i = item.id /\ b = item.blob
  BY <1>2, ZenonT(30) DEF InLog
<1>5. Memory!Adopt(n, i, b)
  BY <1>1, <1>2, <1>3, <1>4, ZenonT(30) DEF InLog, Memory!Adopt, mem
<1> QED BY <1>5 DEF Memory!MemNext

LEMMA SyncMemoryNext ==
    ASSUME SyncLineage, [SyncNext]_allVars
    PROVE  [Memory!MemNext]_(Memory!memVars)
<1>1. \/ [Next]_vars
      \/ \E n \in Node : \E item \in round[n].writing : WriteFetched(n, item)
  <2>1. ASSUME UNCHANGED <<itemVars, store>> PROVE UNCHANGED vars
    BY <2>1, ZenonT(30) DEF itemVars, vars, apiVars, replVars
  <2>2. ASSUME NEW n \in Node, ReplicationTask(n)
        PROVE  \/ [Next]_vars
               \/ \E item \in round[n].writing : WriteFetched(n, item)
    <3>1. ASSUME \/ \E due \in SUBSET Group : SyncTick(n, due)
                 \/ \E g \in Group : StartRound(n, g) \/ BootstrapSync(n, g)
                 \/ DiffHeaders(n)
                 \/ \E item \in round[n].items : JudgeFetched(n, item)
                 \/ EndRound(n)
          PROVE  UNCHANGED <<itemVars, store>>
      BY <3>1, Zenon DEF SyncTick, StartRound, BootstrapSync, DiffHeaders,
                  JudgeFetched, EndRound
    <3>2. ReplStep(n) => Next
      BY DEF Next
    <3> QED BY <2>1, <2>2, <3>1, <3>2, Zenon DEF ReplicationTask
  <2>3. ASSUME NEW n \in Node,
               HandleSyncRequest(n) \/ HandleFetchRequest(n) \/ FailRound(n)
        PROVE  UNCHANGED <<itemVars, store>>
    BY <2>3, Zenon DEF HandleSyncRequest, HandleFetchRequest, FailRound
  <2>4. ASSUME NEW n \in Node, CrashAll(n) PROVE Next
    BY <2>4 DEF CrashAll, Next, Environment
  <2>5. ASSUME \/ \E n \in Node : ApiStep(n) \/ SwarmStep(n)
               \/ \E m \in net : LosePush(m)
               \/ \E n, m \in Node : TogglePeer(n, m)
               \/ Tick
        PROVE  Next
    BY <2>5 DEF Next, Environment
  <2>6. UNCHANGED allVars => UNCHANGED vars
    BY DEF allVars
  <2> QED BY <2>1, <2>2, <2>3, <2>4, <2>5, <2>6, ZenonT(30) DEF SyncNext
<1>2. CASE [Next]_vars
  BY <1>2, MemoryNext, ZenonT(30) DEF SyncLineage
<1>3. ASSUME NEW n \in Node, NEW item \in round[n].writing, WriteFetched(n, item)
      PROVE  Memory!MemNext
  BY <1>3, FetchedAdopted
<1> QED BY <1>1, <1>2, <1>3, ZenonT(30)

\* Pushing and pulling together, with crashes and failed requests, change the
\* databases only as GroupMemory promises.
THEOREM SyncImplements == PullsAdmitted => (SyncSpec => SyncImplementsGroupMemory)
<1> SUFFICES ASSUME PullsAdmitted PROVE SyncSpec => SyncImplementsGroupMemory
  OBVIOUS
<1>1. SyncSpec => []SyncLineage
  BY SyncLineageInvariant
<1>2. SyncLineage /\ [SyncNext]_allVars => [Memory!MemNext]_(Memory!memVars)
  BY SyncMemoryNext
<1>3. SyncInit => Memory!MemInit
  BY MemoryInit, ZenonT(30) DEF SyncInit
<1> QED
  BY <1>1, <1>2, <1>3, PTL DEF SyncSpec, SyncImplementsGroupMemory

-----------------------------------------------------------------------------
(* The watermark.                                                          *)

\* Every header of the round of n is settled.
AllSettled(n, g) ==
    \A h \in round[n].headers :
        \/ Present(store[n][h.id])
        \/ h.id \in deleted
        \/ ~ StaysIn(h.id, g)

Moves(n, g) == last_sync_at'[n][g] # last_sync_at[n][g]

\* Finish moves the watermark of its own node and group.
LEMMA FinishMoves ==
    ASSUME SyncTypeOK, NEW m \in Node, Finish(m),
           NEW n \in Node, NEW g \in Group, Moves(n, g)
    PROVE  n = m /\ g = round[m].group
<1>1. last_sync_at' = [last_sync_at EXCEPT ![m][round[m].group] =
                          Latest(round[m].headers, last_sync_at[m][round[m].group])]
  BY ZenonT(30) DEF Finish
<1>2. last_sync_at \in [Node -> [Group -> Stamp \cup {NoStamp}]]
  BY ZenonT(30) DEF SyncTypeOK
<1> QED BY <1>1, <1>2, ZenonT(30) DEF Moves

LEMMA WatermarkStep ==
    ASSUME SyncLineage, [SyncNext]_allVars,
           NEW n \in Node, NEW g \in Group, Moves(n, g)
    PROVE  last_sync_at'[n][g] = NoStamp \/ AllSettled(n, g)
<1>t. SyncTypeOK /\ last_sync_at \in [Node -> [Group -> Stamp \cup {NoStamp}]]
  BY ZenonT(30) DEF SyncLineage, SyncTypeOK
<1>1. \/ \E m \in Node, k \in Group : BootstrapSync(m, k)
      \/ \E m \in Node : DiffHeaders(m) /\ ~ UNCHANGED last_sync_at
      \/ \E m \in Node : EndRound(m)
      \/ \E m \in Node : CrashAll(m)
  <2>1. ~ UNCHANGED last_sync_at
    BY DEF Moves
  <2>2. ASSUME NEW m \in Node, ReplicationTask(m)
        PROVE  \/ \E k \in Group : BootstrapSync(m, k)
               \/ DiffHeaders(m)
               \/ EndRound(m)
    BY <2>1, <2>2, Zenon DEF ReplicationTask, SyncTick, StartRound, JudgeFetched,
                      WriteFetched, syncVars
  <2>3. ASSUME NEW m \in Node,
               HandleSyncRequest(m) \/ HandleFetchRequest(m) \/ FailRound(m)
        PROVE  UNCHANGED last_sync_at
    BY <2>3 DEF HandleSyncRequest, HandleFetchRequest, FailRound
  <2>4. UNCHANGED syncVars \/ UNCHANGED allVars => UNCHANGED last_sync_at
    BY DEF syncVars, allVars
  <2> QED BY <2>1, <2>2, <2>3, <2>4, ZenonT(30) DEF SyncNext
<1>2. ASSUME NEW m \in Node, NEW k \in Group, BootstrapSync(m, k)
      PROVE  last_sync_at'[n][g] = NoStamp
  BY <1>2, <1>t, ZenonT(30) DEF BootstrapSync, Moves
<1>3. ASSUME NEW m \in Node, CrashAll(m)
      PROVE  last_sync_at'[n][g] = NoStamp
  BY <1>3, <1>t, ZenonT(30) DEF CrashAll, Moves
<1>4. ASSUME NEW m \in Node, EndRound(m)
      PROVE  AllSettled(n, g)
  <2>1. n = m /\ g = round[n].group
    BY <1>4, <1>t, FinishMoves, ZenonT(30) DEF EndRound
  <2>2. /\ round[n].phase = "apply"
        /\ round[n].items = {}
        /\ round[n].writing = {}
    BY <1>4, <2>1, ZenonT(30) DEF EndRound
  <2>3. Covered(n)
    BY ZenonT(30) DEF SyncLineage
  <2> QED BY <2>1, <2>2, <2>3, ZenonT(30) DEF Covered, Settled, AllSettled
<1>5. ASSUME NEW m \in Node, DiffHeaders(m), ~ UNCHANGED last_sync_at
      PROVE  AllSettled(n, g)
  <2>1. PICK mine \in ListGroupItems(m, round[m].group, round[m].since) :
            Needed(m, mine) = {} /\ Finish(m)
    BY <1>5, DiffHeadersCases, Zenon
  <2>2. n = m /\ round[n].phase = "diff"
    BY <1>5, <1>t, <2>1, FinishMoves, ZenonT(30) DEF DiffHeaders
  <2>3. \A h \in round[n].headers : \E y \in mine : y.id = h.id /\ y.blob = h.blob
    BY <2>1, <2>2, Zenon DEF Needed
  <2> QED BY <2>1, <2>2, <2>3, DiffSettles, Zenon DEF AllSettled
<1> QED BY <1>1, <1>2, <1>3, <1>4, <1>5, ZenonT(30)

\* A watermark moves only past items that are in the node's database, deleted
\* or also written into another group: however the round was interleaved with
\* pushes, API calls and crashes, no item is skipped.
THEOREM WatermarkSafe == PullsAdmitted => (SyncSpec => WatermarkCovers)
<1> SUFFICES ASSUME PullsAdmitted PROVE SyncSpec => WatermarkCovers
  OBVIOUS
<1>1. SyncSpec => []SyncLineage
  BY SyncLineageInvariant
<1>2. SyncLineage /\ [SyncNext]_allVars =>
          [\A n \in Node, g \in Group :
              last_sync_at'[n][g] # last_sync_at[n][g]
                  => \/ last_sync_at'[n][g] = NoStamp
                     \/ \A h \in round[n].headers :
                           \/ Present(store[n][h.id])
                           \/ h.id \in deleted
                           \/ ~ StaysIn(h.id, g)]_allVars
  BY WatermarkStep DEF Moves, AllSettled
<1> QED
  BY <1>1, <1>2, PTL DEF SyncSpec, WatermarkCovers

=============================================================================
