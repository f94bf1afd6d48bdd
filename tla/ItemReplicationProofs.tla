----------------------- MODULE ItemReplicationProofs -----------------------
(***************************************************************************)
(* Proofs about ItemReplication, for every set of nodes, items and groups, *)
(* every configuration, topology and bound.                                *)
(*                                                                         *)
(* The inductive invariant Lineage says of every place an item can be in   *)
(* (HTTP handler, channel, buffer, retry queue, network, swarm task, row)  *)
(* that what is there goes back to an API call and carries no stamp of the *)
(* future.  Its parts are sets that depend on the history and the clock    *)
(* only, and both only grow: what is good stays good (lemma GoodStays), so *)
(* an action has to be examined only for what it puts somewhere.           *)
(***************************************************************************)
EXTENDS ItemReplication, TLAPS

InLog(W, i, b, g) == b \in 1 .. Len(W) /\ W[b].id = i /\ W[b].group = g

NotLater(s, c) == StampLeq(s, ToRfc3339(c))

GoodItem(W, D, c) ==
    {x \in FetchedItem :
        /\ x.group \in Group
        /\ x.tombstone => x.id \in D
        /\ ~ x.tombstone => InLog(W, x.id, x.blob, x.group)
        /\ NotLater(x.at, c)}

GoodNotif(W, D) ==
    {x \in WriteNotification :
        /\ x.tombstone => x.id \in D
        /\ ~ x.tombstone => InLog(W, x.id, x.blob, x.group)}

GoodHandler(W, D) ==
    {h \in Handler :
        /\ h.step = "notify" => h.notif \in GoodNotif(W, D)
        /\ h.step = "delete" => h.notif.tombstone}

GoodPending(W, D, c) ==
    [items : Seq(GoodItem(W, D, c)), group : Group,
     attempt : 0 .. PushRetryCount - 1]

GoodPush(W, D, c) == [src : Node, dst : Node, items : Seq(GoodItem(W, D, c))]

GoodRx(W, D, c) ==
    [busy : BOOLEAN, src : Node, accepts : SUBSET Group,
     all : Seq(GoodItem(W, D, c)), todo : Seq(GoodItem(W, D, c)),
     write : BOOLEAN, stored : BOOLEAN]

GoodRow(W, c, n, i) ==
    {row \in Row :
        /\ Present(row) => /\ InLog(W, i, row.blob, row.group)
                           /\ \/ W[row.blob].author = n
                              \/ row.group \in Readers[n]
        /\ NotLater(row.at, c)}

\* The swarm task judges by the groups its node accepts, and writes only an
\* item it has accepted.
RxOK(n) ==
    /\ rx[n].accepts \subseteq Readers[n]
    /\ rx[n].write => /\ rx[n].todo # <<>>
                      /\ ~ Head(rx[n].todo).tombstone
                      /\ Head(rx[n].todo).group \in rx[n].accepts

Places(W, D, c) ==
    /\ store \in [Node -> [Item -> Row]]
    /\ \A n \in Node, i \in Item : store[n][i] \in GoodRow(W, c, n, i)
    /\ api \in [Node -> SUBSET GoodHandler(W, D)]
    /\ notify \in [Node -> Seq(GoodNotif(W, D))]
    /\ buffer \in [Node -> [Group -> Seq(GoodItem(W, D, c))]]
    /\ pending \in [Node -> SUBSET GoodPending(W, D, c)]
    /\ rx \in [Node -> GoodRx(W, D, c)]
    /\ net \in SUBSET GoodPush(W, D, c)

History ==
    /\ clock \in Clock
    /\ written \in Seq(Write)
    /\ deleted \in SUBSET Item
    /\ peers \in [Node -> SUBSET Node]
    /\ crashes \in Nat

Lineage ==
    /\ History
    /\ Places(written, deleted, clock)
    /\ \A n \in Node : RxOK(n)

-----------------------------------------------------------------------------
(* Stamps are compared transitively, and the clock only moves forward.     *)

LEMMA StampOrder ==
    ASSUME NEW s \in Stamp, NEW t \in Stamp, NEW u \in Stamp,
           StampLeq(s, t), StampLeq(t, u)
    PROVE  StampLeq(s, u)
BY DEF Stamp, StampLeq, StampLess, Space, LetterT

LEMMA StampsTyped ==
    ASSUME NEW c \in Clock
    PROVE  /\ ToRfc3339(c) \in Stamp
           /\ DatetimeNow(c) \in Stamp
           /\ NotLater(ToRfc3339(c), c)
           /\ NotLater(DatetimeNow(c), c)
           /\ Epoch \in Stamp
           /\ NotLater(Epoch, c)
BY DEF Clock, Stamp, ToRfc3339, DatetimeNow, Epoch, NotLater, StampLeq,
       StampLess, Space, LetterT

LEMMA SeqMono ==
    ASSUME NEW S, NEW T, S \subseteq T
    PROVE  Seq(S) \subseteq Seq(T)
OBVIOUS

\* Every action leaves the history and the clock as they are, or extends them.
Grows ==
    /\ Len(written) <= Len(written')
    /\ \A k \in 1 .. Len(written) : written'[k] = written[k]
    /\ deleted \subseteq deleted'
    /\ \A s \in Stamp : NotLater(s, clock) => NotLater(s, clock')

\* What is good stays good.
LEMMA GoodStays ==
    ASSUME History, written' \in Seq(Write), Grows
    PROVE  /\ GoodItem(written, deleted, clock)
                  \subseteq GoodItem(written', deleted', clock')
           /\ GoodNotif(written, deleted) \subseteq GoodNotif(written', deleted')
           /\ GoodHandler(written, deleted)
                  \subseteq GoodHandler(written', deleted')
           /\ \A n \in Node, i \in Item :
                  GoodRow(written, clock, n, i)
                      \subseteq GoodRow(written', clock', n, i)
<1>1. \A i, b, g : InLog(written, i, b, g) => InLog(written', i, b, g)
  BY DEF InLog, History, Grows
<1>2. GoodItem(written, deleted, clock)
          \subseteq GoodItem(written', deleted', clock')
  BY <1>1 DEF GoodItem, FetchedItem, Grows
<1>3. GoodNotif(written, deleted) \subseteq GoodNotif(written', deleted')
  BY <1>1 DEF GoodNotif, WriteNotification, Grows
<1>4. GoodHandler(written, deleted) \subseteq GoodHandler(written', deleted')
  BY <1>3 DEF GoodHandler
<1>5. ASSUME NEW n \in Node, NEW i \in Item
      PROVE  GoodRow(written, clock, n, i) \subseteq GoodRow(written', clock', n, i)
  <2> SUFFICES ASSUME NEW row \in GoodRow(written, clock, n, i)
               PROVE  row \in GoodRow(written', clock', n, i)
    OBVIOUS
  <2>1. row \in Row /\ row.at \in Stamp
    BY DEF GoodRow, Row
  <2>2. NotLater(row.at, clock')
    BY <2>1 DEF GoodRow, Grows
  <2>3. ASSUME Present(row)
        PROVE  /\ InLog(written', i, row.blob, row.group)
               /\ \/ written'[row.blob].author = n
                  \/ row.group \in Readers[n]
    <3>1. InLog(written, i, row.blob, row.group)
      BY <2>3 DEF GoodRow
    <3>2. written'[row.blob] = written[row.blob]
      BY <3>1 DEF InLog, Grows
    <3> QED BY <1>1, <2>3, <3>1, <3>2 DEF GoodRow
  <2> QED BY <2>1, <2>2, <2>3 DEF GoodRow
<1> QED BY <1>2, <1>3, <1>4, <1>5

\* So every place keeps its invariant when only history and clock move.
LEMMA PlacesStay ==
    ASSUME History, written' \in Seq(Write), Grows,
           Places(written, deleted, clock)
    PROVE  Places(written', deleted', clock')
<1>1. /\ Seq(GoodItem(written, deleted, clock))
            \subseteq Seq(GoodItem(written', deleted', clock'))
      /\ Seq(GoodNotif(written, deleted))
            \subseteq Seq(GoodNotif(written', deleted'))
  BY GoodStays, SeqMono
<1>2. GoodPending(written, deleted, clock)
          \subseteq GoodPending(written', deleted', clock')
  BY <1>1 DEF GoodPending
<1>3. GoodPush(written, deleted, clock)
          \subseteq GoodPush(written', deleted', clock')
  BY <1>1 DEF GoodPush
<1>4. GoodRx(written, deleted, clock) \subseteq GoodRx(written', deleted', clock')
  BY <1>1 DEF GoodRx
<1>5. api \in [Node -> SUBSET GoodHandler(written', deleted')]
  BY GoodStays DEF Places
<1>6. notify \in [Node -> Seq(GoodNotif(written', deleted'))]
  BY <1>1 DEF Places
<1>7. buffer \in [Node -> [Group -> Seq(GoodItem(written', deleted', clock'))]]
  BY <1>1 DEF Places
<1>8. pending \in [Node -> SUBSET GoodPending(written', deleted', clock')]
  BY <1>2 DEF Places
<1>9. rx \in [Node -> GoodRx(written', deleted', clock')]
  BY <1>4 DEF Places
<1>10. net \in SUBSET GoodPush(written', deleted', clock')
  BY <1>3 DEF Places
<1>11. \A n \in Node, i \in Item : store[n][i] \in GoodRow(written', clock', n, i)
  BY GoodStays DEF Places
<1> QED BY <1>5, <1>6, <1>7, <1>8, <1>9, <1>10, <1>11 DEF Places

-----------------------------------------------------------------------------
(* Lineage holds initially, and every action preserves it.                 *)

LEMMA ReadersFact ==
    ASSUME NEW n \in Node
    PROVE  /\ Readers[n] \subseteq Group
           /\ \A s \in AcceptedSnapshots(n) : s \subseteq Readers[n]
<1>1. Readers[n] = UNION AcceptedSnapshots(n)
  BY DEF Readers
<1>2. Config[n].posture \in Posture /\ Config[n].shared \subseteq Group
          /\ Config[n].accepted \subseteq Group
  BY ConfigAssumption
<1>3. \A s \in AcceptedSnapshots(n) : s \subseteq Group
  BY <1>2 DEF AcceptedSnapshots, Posture
<1> QED BY <1>1, <1>3

LEMMA LineageInit == Init => Lineage
<1> SUFFICES ASSUME Init PROVE Lineage
  OBVIOUS
<1>1. History
  BY ConfigAssumption DEF Init, History, Clock
<1>2. \A n \in Node, i \in Item :
          NoRow \in Row /\ NoRow \in GoodRow(written, clock, n, i)
  BY <1>1, StampsTyped DEF History, NoRow, Row, MaybeGroup, GoodRow, Present
<1>3. \A n \in Node : Idle(n) \in GoodRx(written, deleted, clock)
  BY DEF Idle, GoodRx
<1>4. Places(written, deleted, clock)
  BY <1>2, <1>3 DEF Init, Places
<1>5. \A n \in Node : RxOK(n)
  BY DEF Init, RxOK, Idle
<1> QED BY <1>1, <1>4, <1>5 DEF Lineage

\* An action that leaves history and clock alone lets them grow trivially.
LEMMA Still ==
    ASSUME Lineage, UNCHANGED <<clock, written, deleted>>
    PROVE  /\ Grows
           /\ written' \in Seq(Write)
           /\ Places(written', deleted', clock')
BY DEF Lineage, History, Grows

LEMMA L2WriteStep ==
    ASSUME Lineage, NEW n \in Node, NEW i \in Item, NEW g \in MaybeGroup,
           L2Write(n, i, g)
    PROVE  Lineage'
<1> DEFINE blob == Len(written) + 1
           w == [id |-> i, group |-> g, author |-> n]
           notif == [id |-> i, tombstone |-> FALSE, blob |-> blob, group |-> g]
           row == [blob |-> blob, group |-> g, at |-> DatetimeNow(clock)]
<1>1. /\ w \in Write
      /\ written' = Append(written, w)
      /\ written' \in Seq(Write)
      /\ Len(written') = blob
      /\ written'[blob] = w
      /\ blob \in Nat \ {0}
  BY DEF L2Write, Write, Lineage, History
<1>2. Grows
  BY <1>1 DEF Grows, L2Write, Lineage, History
<1>3. History'
  BY <1>1 DEF L2Write, Lineage, History
<1>4. Places(written', deleted', clock')
  BY <1>1, <1>2, PlacesStay DEF Lineage
<1>5. InLog(written', i, blob, g)
  BY <1>1 DEF InLog
<1>6. [step |-> "notify", notif |-> notif] \in GoodHandler(written', deleted')
  BY <1>1, <1>5, Zenon DEF GoodHandler, Handler, GoodNotif, WriteNotification
<1>7. row \in Row /\ row \in GoodRow(written', clock', n, i)
  <2>1. DatetimeNow(clock) \in Stamp /\ NotLater(DatetimeNow(clock), clock)
    BY StampsTyped DEF Lineage, History
  <2>2. clock' = clock
    BY DEF L2Write
  <2> QED BY <1>1, <1>5, <2>1, <2>2, SMTT(30) DEF Row, GoodRow
<1>8. store' = [store EXCEPT ![n][i] = row]
  BY DEF L2Write
<1>9. /\ store' \in [Node -> [Item -> Row]]
      /\ \A m \in Node, j \in Item : store'[m][j] \in GoodRow(written', clock', m, j)
  BY <1>4, <1>7, <1>8 DEF Places
<1>10. api' \in [Node -> SUBSET GoodHandler(written', deleted')]
  BY <1>4, <1>6, ZenonT(30) DEF Places, L2Write
<1>11. Places(written, deleted, clock)'
  BY <1>4, <1>9, <1>10 DEF Places, L2Write, replVars
<1>12. \A m \in Node : RxOK(m)'
  BY ZenonT(30) DEF L2Write, Lineage, RxOK
<1> QED BY <1>3, <1>11, <1>12 DEF Lineage

LEMMA L2DeleteReadStep ==
    ASSUME Lineage, NEW n \in Node, NEW i \in Item, L2DeleteRead(n, i)
    PROVE  Lineage'
<1> DEFINE notif == [id |-> i, tombstone |-> TRUE, blob |-> 0,
                     group |-> store[n][i].group]
<1>1. Places(written', deleted', clock')
  BY Still DEF L2DeleteRead
<1>2. store[n][i].group \in MaybeGroup
  BY DEF Lineage, Places, Row
<1>3. [step |-> "delete", notif |-> notif] \in GoodHandler(written', deleted')
  BY <1>2 DEF GoodHandler, Handler, WriteNotification
<1>4. api' \in [Node -> SUBSET GoodHandler(written', deleted')]
  BY <1>1, <1>3, Zenon DEF Places, L2DeleteRead
<1>5. Places(written, deleted, clock)'
  BY <1>1, <1>4 DEF Places, L2DeleteRead, replVars
<1> QED BY <1>5 DEF Lineage, History, L2DeleteRead, RxOK

LEMMA NoRowGood ==
    ASSUME NEW W, NEW c \in Clock, NEW n, NEW i
    PROVE  NoRow \in Row /\ NoRow \in GoodRow(W, c, n, i)
BY StampsTyped DEF NoRow, Row, MaybeGroup, GoodRow, Present

LEMMA L2DeleteRowStep ==
    ASSUME Lineage, NEW n \in Node, NEW h \in api[n], L2DeleteRow(n, h)
    PROVE  Lineage'
<1> DEFINE i == h.notif.id
<1>1. h \in Handler /\ h.notif \in WriteNotification /\ i \in Item
          /\ h.step = "delete" /\ h.notif.tombstone
  BY DEF L2DeleteRow, Lineage, Places, GoodHandler, Handler, WriteNotification
<1>2. Grows /\ written' \in Seq(Write) /\ History'
  BY <1>1 DEF L2DeleteRow, Lineage, History, Grows
<1>3. Places(written', deleted', clock')
  BY <1>2, PlacesStay DEF Lineage
<1>4. store' = [store EXCEPT ![n][i] = NoRow]
  BY DEF L2DeleteRow
<1>5. /\ store' \in [Node -> [Item -> Row]]
      /\ \A m \in Node, j \in Item : store'[m][j] \in GoodRow(written', clock', m, j)
  BY <1>1, <1>2, <1>3, <1>4, NoRowGood DEF Places, History
<1>6. ASSUME Present(store[n][i])
      PROVE  [h EXCEPT !.step = "notify"] \in GoodHandler(written', deleted')
  <2>1. i \in deleted'
    BY <1>6 DEF L2DeleteRow
  <2>2. h.notif \in GoodNotif(written', deleted')
    BY <1>1, <2>1 DEF GoodNotif
  <2>3. [h EXCEPT !.step = "notify"] \in Handler
            /\ [h EXCEPT !.step = "notify"].notif = h.notif
            /\ [h EXCEPT !.step = "notify"].step = "notify"
    BY <1>1 DEF Handler
  <2> QED BY <2>2, <2>3, Zenon DEF GoodHandler
<1>7. api' \in [Node -> SUBSET GoodHandler(written', deleted')]
  BY <1>3, <1>6, ZenonT(60) DEF Places, L2DeleteRow
<1>8. Places(written, deleted, clock)'
  BY <1>3, <1>5, <1>7, Zenon DEF Places, L2DeleteRow, replVars
<1> QED BY <1>2, <1>8 DEF Lineage, L2DeleteRow, RxOK

LEMMA SendNotificationStep ==
    ASSUME Lineage, NEW n \in Node, NEW h \in api[n], SendNotification(n, h)
    PROVE  Lineage'
<1>1. Places(written', deleted', clock')
  BY Still DEF SendNotification
<1>2. h.notif \in GoodNotif(written', deleted')
  BY <1>1 DEF SendNotification, Places, GoodHandler
<1> DEFINE kept == IF Len(notify[n]) = NotifyCap THEN Tail(notify[n]) ELSE notify[n]
<1>3. notify[n] \in Seq(GoodNotif(written', deleted'))
  BY <1>1 DEF Places
<1>4. kept \in Seq(GoodNotif(written', deleted'))
  BY <1>3, BoundAssumption
<1>5. notify' = [notify EXCEPT ![n] = Append(kept, h.notif)]
  BY DEF SendNotification
<1>6. notify' \in [Node -> Seq(GoodNotif(written', deleted'))]
  BY <1>1, <1>2, <1>4, <1>5 DEF Places
<1>7. api' \in [Node -> SUBSET GoodHandler(written', deleted')]
  BY <1>1 DEF Places, SendNotification
<1>8. Places(written, deleted, clock)'
  BY <1>1, <1>6, <1>7, ZenonT(30) DEF Places, SendNotification, replVars
<1> QED BY <1>8 DEF Lineage, History, SendNotification, RxOK

LEMMA OnLocalWriteStep ==
    ASSUME Lineage, NEW n \in Node, OnLocalWrite(n)
    PROVE  Lineage'
<1> DEFINE notif == Head(notify[n])
           g == notif.group
           item == BroadcastItem(notif, clock)
<1>1. Places(written', deleted', clock') /\ clock \in Clock /\ clock' = clock
  BY Still DEF OnLocalWrite, apiVars, Lineage, History
<1>2. /\ notif \in GoodNotif(written', deleted')
      /\ Tail(notify[n]) \in Seq(GoodNotif(written', deleted'))
  <2>1. notify[n] \in Seq(GoodNotif(written', deleted')) /\ notify[n] # <<>>
    BY <1>1, ZenonT(30) DEF OnLocalWrite, Places
  <2> QED BY <2>1
<1>3. notify' \in [Node -> Seq(GoodNotif(written', deleted'))]
  BY <1>1, <1>2 DEF OnLocalWrite, Places
<1>4. ASSUME g # NoGroup
      PROVE  g \in Group /\ item \in GoodItem(written', deleted', clock')
  <2>1. g \in Group
    BY <1>2, <1>4 DEF GoodNotif, WriteNotification, MaybeGroup
  <2>2. ToRfc3339(clock) \in Stamp /\ NotLater(ToRfc3339(clock), clock')
    BY <1>1, StampsTyped
  <2>3. item \in FetchedItem
    BY <1>2, <2>2 DEF GoodNotif, WriteNotification, BroadcastItem, FetchedItem
  <2> QED BY <1>2, <2>1, <2>2, <2>3 DEF GoodNotif, BroadcastItem, GoodItem
<1>5. buffer' \in [Node -> [Group -> Seq(GoodItem(written', deleted', clock'))]]
  <2>1. buffer \in [Node -> [Group -> Seq(GoodItem(written', deleted', clock'))]]
    BY <1>1, ZenonT(30) DEF Places
  <2>2. CASE g # NoGroup /\ Culture[g] = "EagerPush"
    <3>1. buffer' = [buffer EXCEPT ![n][g] = Append(buffer[n][g], item)]
      BY <2>2, ZenonT(30) DEF OnLocalWrite
    <3> QED BY <1>4, <2>1, <2>2, <3>1
  <2>3. CASE ~ (g # NoGroup /\ Culture[g] = "EagerPush")
    BY <2>1, <2>3, ZenonT(30) DEF OnLocalWrite
  <2> QED BY <2>2, <2>3
<1>6. Places(written, deleted, clock)'
  BY <1>1, <1>3, <1>5 DEF Places, OnLocalWrite, apiVars
<1> QED BY <1>6, ZenonT(30) DEF Lineage, History, OnLocalWrite, apiVars, RxOK

\* The batches of a list of good items are lists of good items.
LEMMA BatchesTyped ==
    ASSUME NEW S, NEW items \in Seq(S)
    PROVE  SplitIntoBatches(items) \subseteq Seq(S)
<1> DEFINE end(k) == IF k + BatchItems - 1 < Len(items)
                    THEN k + BatchItems - 1 ELSE Len(items)
<1>1. ASSUME NEW k \in 1 .. Len(items)
      PROVE  SubSeq(items, k, end(k)) \in Seq(S)
  <2>1. end(k) \in Int /\ end(k) <= Len(items)
    BY BoundAssumption
  <2>2. \A j \in k .. end(k) : items[j] \in S
    BY <2>1
  <2> HIDE DEF end
  <2> QED BY <2>1, <2>2
<1>2. SplitIntoBatches(items) =
          {SubSeq(items, k, end(k)) :
              k \in {j \in 1 .. Len(items) : (j - 1) % BatchItems = 0}}
  BY DEF SplitIntoBatches
<1> HIDE DEF end
<1> QED BY <1>1, <1>2, Zenon

\* What a flush or a retry sends is good if the queued items are.
LEMMA PushesGood ==
    ASSUME Lineage, NEW n \in Node, NEW g \in Group,
           NEW items \in Seq(GoodItem(written, deleted, clock))
    PROVE  Pushes(n, g, items) \subseteq GoodPush(written, deleted, clock)
<1>1. SplitIntoBatches(items) \subseteq Seq(GoodItem(written, deleted, clock))
  BY BatchesTyped
<1>2. PushTargets(n, g) \subseteq Node
  BY ZenonT(30) DEF PushTargets, Lineage, History
<1> QED BY <1>1, <1>2 DEF Pushes, GoodPush

LEMMA FlushWritesStep ==
    ASSUME Lineage, NEW n \in Node, FlushWrites(n)
    PROVE  Lineage'
<1> DEFINE full == {g \in Group : buffer[n][g] # <<>>}
           new == {[items |-> buffer[n][g], group |-> g, attempt |-> 0] : g \in full}
           GI == GoodItem(written, deleted, clock)
<1>0. UNCHANGED <<clock, written, deleted>>
  BY DEF FlushWrites, apiVars
<1>1. Places(written, deleted, clock)
  BY DEF Lineage
<1>2. \A g \in full : buffer[n][g] \in Seq(GI)
  BY <1>1, ZenonT(30) DEF Places
<1>3. new \subseteq GoodPending(written, deleted, clock)
  <2>1. 0 \in 0 .. PushRetryCount - 1
    BY BoundAssumption
  <2> QED BY <1>2, <2>1 DEF GoodPending
<1>4. UNION {Pushes(n, g, buffer[n][g]) : g \in full}
          \subseteq GoodPush(written, deleted, clock)
  BY <1>2, PushesGood, ZenonT(30)
<1>5. net' \in SUBSET GoodPush(written, deleted, clock)
  BY <1>1, <1>4, ZenonT(30) DEF FlushWrites, Places
<1>6. pending' \in [Node -> SUBSET GoodPending(written, deleted, clock)]
  BY <1>1, <1>3, ZenonT(30) DEF FlushWrites, Places
<1>7. buffer' \in [Node -> [Group -> Seq(GI)]]
  <2>1. [g \in Group |-> <<>>] \in [Group -> Seq(GI)]
    OBVIOUS
  <2> QED BY <1>1, <2>1, Zenon DEF FlushWrites, Places
<1>8. Places(written, deleted, clock)'
  BY <1>0, <1>1, <1>5, <1>6, <1>7, Zenon DEF Places, FlushWrites, apiVars
<1> QED BY <1>8 DEF Lineage, History, FlushWrites, apiVars, RxOK

LEMMA RetryPushStep ==
    ASSUME Lineage, NEW n \in Node, NEW p \in pending[n], RetryPush(n, p)
    PROVE  Lineage'
<1> DEFINE next == [p EXCEPT !.attempt = @ + 1]
           GP == GoodPending(written, deleted, clock)
<1>0. UNCHANGED <<clock, written, deleted>>
  BY DEF RetryPush, apiVars
<1>1. Places(written, deleted, clock)
  BY DEF Lineage
<1>2. p \in GP
  BY <1>1 DEF Places
<1>3. ASSUME ~ (next.attempt >= PushRetryCount)
      PROVE  next \in GP
  BY <1>2, <1>3, BoundAssumption DEF GoodPending
<1>4. pending' \in [Node -> SUBSET GP]
  BY <1>1, <1>3, Zenon DEF RetryPush, Places
<1>5. Pushes(n, p.group, p.items) \subseteq GoodPush(written, deleted, clock)
  BY <1>2, PushesGood DEF GoodPending
<1>6. net' \in SUBSET GoodPush(written, deleted, clock)
  BY <1>1, <1>5 DEF RetryPush, Places
<1>8. Places(written, deleted, clock)'
  BY <1>0, <1>1, <1>4, <1>6 DEF Places, RetryPush, apiVars
<1> QED BY <1>8 DEF Lineage, History, RetryPush, apiVars, RxOK

LEMMA ReceivePushStep ==
    ASSUME Lineage, NEW m \in net, ReceivePush(m)
    PROVE  Lineage'
<1> DEFINE n == m.dst
<1>0. UNCHANGED <<clock, written, deleted>>
  BY DEF ReceivePush, apiVars
<1>1. Places(written, deleted, clock)
  BY ZenonT(30) DEF Lineage
<1>2. m \in GoodPush(written, deleted, clock) /\ n \in Node
  BY <1>1 DEF Places, GoodPush
<1>3. PICK s \in AcceptedSnapshots(n) :
          rx' = [rx EXCEPT ![n] =
                    [busy |-> TRUE, src |-> m.src, accepts |-> s,
                     all |-> m.items, todo |-> m.items,
                     write |-> FALSE, stored |-> FALSE]]
  BY Zenon DEF ReceivePush
<1>4. s \subseteq Readers[n] /\ s \subseteq Group
  BY <1>2, <1>3, ReadersFact
<1>5. [busy |-> TRUE, src |-> m.src, accepts |-> s, all |-> m.items,
       todo |-> m.items, write |-> FALSE, stored |-> FALSE]
          \in GoodRx(written, deleted, clock)
  BY <1>2, <1>4 DEF GoodPush, GoodRx
<1>6. rx' \in [Node -> GoodRx(written, deleted, clock)]
  BY <1>1, <1>2, <1>3, <1>5, ZenonT(30) DEF Places
<1>7. Places(written, deleted, clock)'
  BY <1>0, <1>1, <1>6 DEF Places, ReceivePush, apiVars, replVars
<1>8. \A k \in Node : RxOK(k)'
  <2> SUFFICES ASSUME NEW k \in Node PROVE RxOK(k)'
    OBVIOUS
  <2>1. CASE k = n
    <3>1. rx'[k].accepts = s /\ rx'[k].write = FALSE
      BY <1>1, <1>2, <1>3, <2>1 DEF Places
    <3> QED BY <1>4, <2>1, <3>1 DEF RxOK
  <2>2. CASE k # n
    <3>1. rx'[k] = rx[k]
      BY <1>1, <1>2, <1>3, <2>2 DEF Places
    <3> QED BY <3>1 DEF RxOK, Lineage
  <2> QED BY <2>1, <2>2
<1> QED BY <1>0, <1>7, <1>8 DEF Lineage, History, ReceivePush

LEMMA JudgeItemStep ==
    ASSUME Lineage, NEW n \in Node, JudgeItem(n)
    PROVE  Lineage'
<1> DEFINE item == Head(rx[n].todo)
           outcome == OnReceive(store[n][item.id], item, rx[n].accepts)
           GI == GoodItem(written, deleted, clock)
<1>0. UNCHANGED <<clock, written, deleted>>
  BY Zenon DEF JudgeItem, apiVars
<1>1. Places(written, deleted, clock)
  BY DEF Lineage
<1>2. rx[n] \in GoodRx(written, deleted, clock)
  BY <1>1 DEF Places
<1>3. item \in GI /\ item.id \in Item /\ Tail(rx[n].todo) \in Seq(GI)
  <2>1. rx[n].todo \in Seq(GI) /\ rx[n].todo # <<>>
    BY <1>2, Zenon DEF JudgeItem, GoodRx
  <2>2. item \in GI /\ Tail(rx[n].todo) \in Seq(GI)
    BY <2>1
  <2> QED BY <2>2 DEF GoodItem, FetchedItem
<1>4. rx' = [rx EXCEPT ![n].write = outcome = "store",
                       ![n].todo = IF outcome = "store" THEN @ ELSE Tail(@),
                       ![n].stored = @ \/ outcome = "delete"]
  BY ZenonT(30) DEF JudgeItem
<1>5. store' = IF outcome = "delete"
               THEN [store EXCEPT ![n][item.id] = NoRow] ELSE store
  BY Zenon DEF JudgeItem
<1>6. outcome = "store" => item.group \in rx[n].accepts /\ ~ item.tombstone
  BY <1>3 DEF OnReceive, GoodItem, FetchedItem
<1> HIDE DEF outcome
<1>7. /\ rx'[n] \in GoodRx(written, deleted, clock)
      /\ rx'[n].accepts = rx[n].accepts
      /\ rx'[n].write => outcome = "store" /\ rx'[n].todo = rx[n].todo
      /\ \A k \in Node \ {n} : rx'[k] = rx[k]
      /\ rx' \in [Node -> GoodRx(written, deleted, clock)]
  BY <1>1, <1>2, <1>3, <1>4, ZenonT(30) DEF GoodRx, Places
<1>8. /\ store' \in [Node -> [Item -> Row]]
      /\ \A m \in Node, j \in Item : store'[m][j] \in GoodRow(written, clock, m, j)
  BY <1>1, <1>3, <1>5, NoRowGood, Zenon DEF Places, Lineage, History
<1>9. Places(written, deleted, clock)'
  BY <1>0, <1>1, <1>7, <1>8, Zenon DEF Places, JudgeItem, apiVars, replVars
<1>10. RxOK(n)'
  <2>1. rx[n].todo # <<>>
    BY Zenon DEF JudgeItem
  <2> QED BY <1>6, <1>7, <2>1 DEF RxOK, Lineage
<1>11. \A k \in Node : RxOK(k)'
  BY <1>7, <1>10, ZenonT(30) DEF RxOK, Lineage
<1> QED BY <1>0, <1>9, <1>11, ZenonT(30) DEF Lineage, History, JudgeItem

\* The item the swarm task writes is good, accepted here and no tombstone.
LEMMA StoreItemRow ==
    ASSUME Lineage, NEW n \in Node, StoreItem(n)
    PROVE  LET item == Head(rx[n].todo) IN
           /\ item \in GoodItem(written, deleted, clock)
           /\ item.id \in Item
           /\ ~ item.tombstone
           /\ item.group \in Readers[n]
           /\ RowOf(item) \in Row
           /\ RowOf(item) \in GoodRow(written, clock, n, item.id)
           /\ Tail(rx[n].todo) \in Seq(GoodItem(written, deleted, clock))
<1> DEFINE item == Head(rx[n].todo)
<1>1. rx[n] \in GoodRx(written, deleted, clock) /\ RxOK(n) /\ rx[n].write
  BY DEF Lineage, Places, StoreItem
<1>2. /\ item \in GoodItem(written, deleted, clock)
      /\ Tail(rx[n].todo) \in Seq(GoodItem(written, deleted, clock))
  BY <1>1 DEF GoodRx, RxOK
<1>3. ~ item.tombstone /\ item.group \in Readers[n]
  BY <1>1 DEF RxOK
<1>4. item.id \in Item /\ RowOf(item) \in Row
  BY <1>2, ZenonT(30) DEF GoodItem, FetchedItem, RowOf, Row
<1>5. RowOf(item) \in GoodRow(written, clock, n, item.id)
  BY <1>2, <1>3, <1>4 DEF GoodItem, GoodRow, RowOf
<1> QED BY <1>2, <1>3, <1>4, <1>5

LEMMA StoreItemStep ==
    ASSUME Lineage, NEW n \in Node, StoreItem(n)
    PROVE  Lineage'
<1> DEFINE item == Head(rx[n].todo)
<1>0. UNCHANGED <<clock, written, deleted>>
  BY DEF StoreItem, apiVars
<1>1. Places(written, deleted, clock)
  BY DEF Lineage
<1>2. store' = [store EXCEPT ![n][item.id] = RowOf(item)]
  BY ZenonT(30) DEF StoreItem
<1>3. /\ store' \in [Node -> [Item -> Row]]
      /\ \A m \in Node, j \in Item : store'[m][j] \in GoodRow(written, clock, m, j)
  BY <1>1, <1>2, StoreItemRow DEF Places
<1>4. /\ rx'[n].accepts = rx[n].accepts
      /\ rx'[n].write = FALSE
      /\ \A k \in Node \ {n} : rx'[k] = rx[k]
      /\ rx' \in [Node -> GoodRx(written, deleted, clock)]
  <2>1. rx \in [Node -> GoodRx(written, deleted, clock)]
    BY <1>1 DEF Places
  <2>2. Tail(rx[n].todo) \in Seq(GoodItem(written, deleted, clock))
    BY StoreItemRow
  <2>3. rx' = [rx EXCEPT ![n].write = FALSE, ![n].todo = Tail(@),
                         ![n].stored = TRUE]
    BY DEF StoreItem
  <2> QED BY <2>1, <2>2, <2>3 DEF GoodRx
<1>5. Places(written, deleted, clock)'
  BY <1>0, <1>1, <1>3, <1>4 DEF Places, StoreItem, apiVars, replVars
<1>6. \A k \in Node : RxOK(k)'
  BY <1>4 DEF RxOK, Lineage
<1> QED BY <1>0, <1>5, <1>6 DEF Lineage, History, StoreItem

LEMMA IdleGood ==
    ASSUME NEW n \in Node
    PROVE  Idle(n) \in GoodRx(written, deleted, clock)
<1>1. <<>> \in Seq(GoodItem(written, deleted, clock))
  OBVIOUS
<1> QED BY <1>1 DEF Idle, GoodRx

LEMMA FinishPushStep ==
    ASSUME Lineage, NEW n \in Node, FinishPush(n)
    PROVE  Lineage'
<1> DEFINE fwd == {[src |-> n, dst |-> m, items |-> rx[n].all] :
                      m \in peers[n] \ {rx[n].src}}
<1>0. UNCHANGED <<clock, written, deleted>>
  BY ZenonT(30) DEF FinishPush, apiVars
<1>1. Places(written, deleted, clock)
  BY DEF Lineage
<1>2. fwd \subseteq GoodPush(written, deleted, clock)
  <2>1. rx[n].all \in Seq(GoodItem(written, deleted, clock))
    BY <1>1 DEF Places, GoodRx
  <2>2. peers[n] \subseteq Node
    BY ZenonT(30) DEF Lineage, History
  <2> QED BY <2>1, <2>2, SMTT(30) DEF GoodPush
<1>3. net' \in SUBSET GoodPush(written, deleted, clock)
  BY <1>1, <1>2, ZenonT(30) DEF FinishPush, Places
<1>4. rx' = [rx EXCEPT ![n] = Idle(n)]
          /\ Idle(n) \in GoodRx(written, deleted, clock)
  BY IdleGood DEF FinishPush
<1>5. rx' \in [Node -> GoodRx(written, deleted, clock)]
  BY <1>1, <1>4, ZenonT(30) DEF Places
<1>6. Places(written, deleted, clock)'
  BY <1>0, <1>1, <1>3, <1>5, ZenonT(30) DEF Places, FinishPush, apiVars, replVars
<1>7. \A k \in Node : RxOK(k)'
  BY <1>1, <1>4, Zenon DEF RxOK, Lineage, Idle, Places
<1> QED BY <1>0, <1>6, <1>7, ZenonT(30) DEF Lineage, History, FinishPush

LEMMA CrashStep ==
    ASSUME Lineage, NEW n \in Node, Crash(n)
    PROVE  Lineage'
<1>1. Places(written, deleted, clock)
  BY DEF Lineage
<1>2. rx' = [rx EXCEPT ![n] = Idle(n)]
          /\ Idle(n) \in GoodRx(written, deleted, clock)
  BY IdleGood DEF Crash
<1>3. rx' \in [Node -> GoodRx(written, deleted, clock)]
  BY <1>1, <1>2 DEF Places
<1>4. buffer' \in [Node -> [Group -> Seq(GoodItem(written, deleted, clock))]]
  <2>1. [g \in Group |-> <<>>]
            \in [Group -> Seq(GoodItem(written, deleted, clock))]
    OBVIOUS
  <2> QED BY <1>1, <2>1 DEF Crash, Places
<1>5. api' \in [Node -> SUBSET GoodHandler(written, deleted)]
  BY <1>1 DEF Crash, Places
<1>6. notify' \in [Node -> Seq(GoodNotif(written, deleted))]
  BY <1>1 DEF Crash, Places
<1>7. pending' \in [Node -> SUBSET GoodPending(written, deleted, clock)]
  BY <1>1, ZenonT(30) DEF Crash, Places
<1>8. Places(written, deleted, clock)'
  BY <1>1, <1>3, <1>4, <1>5, <1>6, <1>7, ZenonT(30) DEF Places, Crash
<1>9. \A k \in Node : RxOK(k)'
  BY <1>1, <1>2, Zenon DEF RxOK, Lineage, Idle, Places
<1> QED BY <1>8, <1>9 DEF Lineage, History, Crash

LEMMA TickGrows ==
    ASSUME Lineage, Tick
    PROVE  /\ Grows
           /\ written' \in Seq(Write)
           /\ History'
<1>1. clock' \in Clock /\ StampLeq(ToRfc3339(clock), ToRfc3339(clock'))
  <2>0. clock \in Clock /\ clock.day \in Nat /\ clock.sec \in Nat /\ clock.sub \in Nat
    BY ZenonT(30) DEF Lineage, History, Clock
  <2>1. ASSUME NEW d \in Nat, NEW s \in Nat, NEW u \in Nat,
               clock' = [day |-> d, sec |-> s, sub |-> u],
               \/ d > clock.day
               \/ d = clock.day /\ s > clock.sec
               \/ d = clock.day /\ s = clock.sec /\ u > clock.sub
        PROVE  clock' \in Clock /\ StampLeq(ToRfc3339(clock), ToRfc3339(clock'))
    <3>1. clock' \in Clock
      BY <2>1, ZenonT(30) DEF Clock
    <3>2. /\ ToRfc3339(clock).day = clock.day /\ ToRfc3339(clock').day = d
          /\ ToRfc3339(clock).sep = 1 /\ ToRfc3339(clock').sep = 1
          /\ ToRfc3339(clock).sec = clock.sec /\ ToRfc3339(clock').sec = s
          /\ ToRfc3339(clock).sub = clock.sub /\ ToRfc3339(clock').sub = u
      BY <2>1 DEF ToRfc3339, LetterT
    <3> QED BY <2>0, <2>1, <3>1, <3>2 DEF StampLeq, StampLess
  <2> QED BY <2>0, <2>1 DEF Tick
<1>2. \A s \in Stamp : NotLater(s, clock) => NotLater(s, clock')
  BY <1>1, StampOrder, StampsTyped, ZenonT(30) DEF NotLater, Lineage, History
<1> QED
  BY <1>1, <1>2 DEF Grows, Tick, apiVars, Lineage, History

LEMMA TickStep ==
    ASSUME Lineage, Tick
    PROVE  Lineage'
<1>1. Places(written', deleted', clock')
  BY TickGrows, PlacesStay, ZenonT(30) DEF Lineage
<1>2. Places(written, deleted, clock)'
  BY <1>1, ZenonT(30) DEF Places, Tick, apiVars, replVars
<1> QED BY <1>2, TickGrows, Zenon DEF Lineage, Tick, RxOK

LEMMA LineageNext == Lineage /\ [Next]_vars => Lineage'
<1> SUFFICES ASSUME Lineage, [Next]_vars PROVE Lineage'
  BY ZenonT(30)
<1>1. ASSUME NEW n \in Node, ApiStep(n) PROVE Lineage'
  BY <1>1, L2WriteStep, L2DeleteReadStep, L2DeleteRowStep, SendNotificationStep,
     ConfigAssumption, ZenonT(30)
  DEF ApiStep
<1>2. ASSUME NEW n \in Node, ReplStep(n) PROVE Lineage'
  BY <1>2, OnLocalWriteStep, FlushWritesStep, RetryPushStep DEF ReplStep
<1>3. ASSUME NEW n \in Node, SwarmStep(n) PROVE Lineage'
  BY <1>3, ReceivePushStep, JudgeItemStep, StoreItemStep, FinishPushStep, ZenonT(30)
  DEF SwarmStep
<1>4. ASSUME NEW m \in net, LosePush(m) PROVE Lineage'
  <2>1. Places(written, deleted, clock)'
    BY <1>4, ZenonT(30) DEF LosePush, Lineage, Places, apiVars, replVars
  <2> QED BY <1>4, <2>1, ZenonT(30) DEF LosePush, Lineage, History, RxOK, apiVars
<1>5. ASSUME NEW n \in Node, NEW m \in Node, TogglePeer(n, m) PROVE Lineage'
  <2>1. Places(written, deleted, clock)'
    BY <1>5 DEF TogglePeer, Lineage, Places, apiVars, replVars
  <2>2. peers' \in [Node -> SUBSET Node]
    BY <1>5, ZenonT(30) DEF TogglePeer, Lineage, History
  <2> QED BY <1>5, <2>1, <2>2, ZenonT(30) DEF TogglePeer, Lineage, History, RxOK, apiVars
<1>6. CASE UNCHANGED vars
  <2>1. Places(written, deleted, clock)'
    BY <1>6 DEF vars, Lineage, Places
  <2> QED BY <1>6, <2>1, ZenonT(30) DEF vars, Lineage, History, RxOK
<1> QED BY <1>1, <1>2, <1>3, <1>4, <1>5, <1>6, CrashStep, TickStep, Zenon
        DEF Next, Environment, IdleTick

\* Lineage holds in every reachable state.
THEOREM LineageInvariant == Spec => []Lineage
BY LineageInit, LineageNext, PTL DEF Spec

-----------------------------------------------------------------------------
(* What Lineage says in the terms of the specification.                    *)

\* Every queue, message and row has its type: in particular the attempt
\* number that indexes push_retry_backoffs stays below push_retry_count.
THEOREM TypeCorrect == Spec => []TypeOK
<1>1. Lineage => TypeOK
  <2> SUFFICES ASSUME Lineage PROVE TypeOK
    OBVIOUS
  <2> DEFINE GI == GoodItem(written, deleted, clock)
  <2>1. GI \subseteq FetchedItem /\ GoodNotif(written, deleted) \subseteq WriteNotification
    BY DEF GoodItem, GoodNotif
  <2>2. Seq(GI) \subseteq Seq(FetchedItem)
            /\ Seq(GoodNotif(written, deleted)) \subseteq Seq(WriteNotification)
    BY <2>1, SeqMono
  <2>3. GoodHandler(written, deleted) \subseteq Handler
    BY DEF GoodHandler
  <2>4. GoodPending(written, deleted, clock) \subseteq PendingPush
    BY <2>2 DEF GoodPending, PendingPush
  <2>5. GoodPush(written, deleted, clock) \subseteq PushRequest
    BY <2>2 DEF GoodPush, PushRequest
  <2>6. GoodRx(written, deleted, clock) \subseteq Receiving
    BY <2>2, ZenonT(30) DEF GoodRx, Receiving
  <2>7. api \in [Node -> SUBSET Handler] /\ pending \in [Node -> SUBSET PendingPush]
    BY <2>3, <2>4, ZenonT(30) DEF Lineage, Places
  <2>8. rx \in [Node -> Receiving] /\ net \in SUBSET PushRequest
    BY <2>5, <2>6 DEF Lineage, Places
  <2>9. notify \in [Node -> Seq(WriteNotification)]
            /\ buffer \in [Node -> [Group -> Seq(FetchedItem)]]
    BY <2>2 DEF Lineage, Places
  <2> QED BY <2>7, <2>8, <2>9 DEF TypeOK, Lineage, History, Places
<1> QED BY <1>1, LineageInvariant, PTL

\* Everything outside a database is a good item.
LEMMA OnTheWayGood ==
    ASSUME Lineage
    PROVE  OnTheWay \subseteq GoodItem(written, deleted, clock)
<1> DEFINE GI == GoodItem(written, deleted, clock)
<1>1. \A s \in Seq(GI) : Elems(s) \subseteq GI
  BY DEF Elems
<1>2. \A m \in net : m.items \in Seq(GI)
  BY DEF Lineage, Places, GoodPush
<1>3. \A n \in Node, g \in Group : buffer[n][g] \in Seq(GI)
  BY DEF Lineage, Places
<1>4. \A n \in Node : \A p \in pending[n] : p.items \in Seq(GI)
  BY DEF Lineage, Places, GoodPending
<1>5. \A n \in Node : rx[n].all \in Seq(GI) /\ rx[n].todo \in Seq(GI)
  BY DEF Lineage, Places, GoodRx
<1> HIDE DEF GI
<1>6. ASSUME NEW n \in Node, NEW x \in Queued(n)
      PROVE  x \in GI
  <2>1. \/ \E g \in Group : x \in Elems(buffer[n][g])
        \/ \E p \in pending[n] : x \in Elems(p.items)
        \/ x \in Elems(rx[n].all)
        \/ x \in Elems(rx[n].todo)
    BY <1>6 DEF Queued
  <2> QED BY <1>1, <1>3, <1>4, <1>5, <2>1
<1>7. ASSUME NEW x \in OnTheWay
      PROVE  x \in GI
  <2>1. \/ \E m \in net : x \in Elems(m.items)
        \/ \E n \in Node : x \in Queued(n)
    BY <1>7 DEF OnTheWay
  <2> QED BY <1>1, <1>2, <1>6, <2>1
<1> QED BY <1>7 DEF GI

\* Lineage describes every place an item can be in by where it comes from.
LEMMA LineageGenuine == Lineage => NoInvention
<1> SUFFICES ASSUME Lineage PROVE NoInvention
  OBVIOUS
<1>1. \A item \in OnTheWay : Genuine(item)
  BY OnTheWayGood, ZenonT(30) DEF GoodItem, Genuine, InLog, IsWrite
<1>2. \A n \in Node, i \in Item :
          Present(store[n][i]) => IsWrite(i, store[n][i].blob, store[n][i].group)
  BY ZenonT(30) DEF Lineage, Places, GoodRow, InLog, IsWrite
<1> QED BY <1>1, <1>2 DEF NoInvention

LEMMA LineageReaders == Lineage => OnlyReadersHold
BY Zenon DEF Lineage, Places, GoodRow, OnlyReadersHold

LEMMA LineageStamps == Lineage => StampsNotAhead
<1> SUFFICES ASSUME Lineage PROVE StampsNotAhead
  OBVIOUS
<1>1. \A item \in OnTheWay : StampLeq(item.at, ToRfc3339(clock))
  BY OnTheWayGood, ZenonT(30) DEF GoodItem, NotLater
<1>2. \A n \in Node, i \in Item : StampLeq(store[n][i].at, ToRfc3339(clock))
  BY Zenon DEF Lineage, Places, GoodRow, NotLater
<1> QED BY <1>1, <1>2 DEF StampsNotAhead

\* No node stores, buffers, sends or forwards an item that no API call wrote,
\* nor a tombstone of an item that no API call deleted, nor a private item.
THEOREM NothingInvented == Spec => []NoInvention
BY LineageGenuine, LineageInvariant, PTL

\* A node holds other nodes' items only of groups it accepts.
THEOREM ReadersOnly == Spec => []OnlyReadersHold
BY LineageReaders, LineageInvariant, PTL

\* No stamp is ahead of the clock, in either format.
THEOREM NoStampAhead == Spec => []StampsNotAhead
BY LineageStamps, LineageInvariant, PTL

-----------------------------------------------------------------------------
(* The databases implement GroupMemory.                                    *)

mem == [n \in Node |-> [i \in Item |-> store[n][i].blob]]

\* A step that changes one row changes one entry of the abstract memory.
LEMMA RowChange ==
    ASSUME Lineage, NEW n \in Node, NEW i \in Item, NEW row \in Row,
           store' = [store EXCEPT ![n][i] = row]
    PROVE  mem' = [mem EXCEPT ![n][i] = row.blob]
<1>1. store \in [Node -> [Item -> Row]]
  BY DEF Lineage, Places
<1>2. mem' = [m \in Node |-> [j \in Item |-> store'[m][j].blob]]
  BY DEF mem
<1>3. \A m \in Node, j \in Item :
          store'[m][j] = IF m = n /\ j = i THEN row ELSE store[m][j]
  BY <1>1
<1>4. [mem EXCEPT ![n][i] = row.blob]
          = [m \in Node |-> [j \in Item |->
                IF m = n /\ j = i THEN row.blob ELSE store[m][j].blob]]
  BY Zenon DEF mem
<1>5. \A m \in Node, j \in Item :
          store'[m][j].blob = IF m = n /\ j = i THEN row.blob ELSE store[m][j].blob
  BY <1>3
<1> QED BY <1>2, <1>4, <1>5

LEMMA MemoryInit == Init => Memory!MemInit
BY DEF Init, Memory!MemInit, NoRow

LEMMA MemoryNext == Lineage /\ [Next]_vars => [Memory!MemNext]_(Memory!memVars)
<1> SUFFICES ASSUME Lineage, [Next]_vars,
                    ~ UNCHANGED <<written, deleted, mem>>
             PROVE  Memory!MemNext
  BY DEF Memory!memVars, mem
<1>0. \/ \E n \in Node : ApiStep(n) \/ JudgeItem(n) \/ StoreItem(n)
      \/ UNCHANGED <<written, deleted, store>>
  BY ZenonT(30) DEF Next, ReplStep, SwarmStep, Environment, IdleTick, OnLocalWrite,
         FlushWrites, RetryPush, ReceivePush, FinishPush, LosePush,
         TogglePeer, Crash, Tick, apiVars, vars
<1>1. ASSUME NEW n \in Node, NEW i \in Item, NEW g \in MaybeGroup,
             L2Write(n, i, g)
      PROVE  Memory!WriteItem(n, i, g)
  <2> DEFINE row == [blob |-> Len(written) + 1, group |-> g,
                     at |-> DatetimeNow(clock)]
  <2>1. row \in Row /\ row.blob = Len(written) + 1
    BY StampsTyped DEF Row, Lineage, History
  <2>2. mem' = [mem EXCEPT ![n][i] = Len(written) + 1]
    BY <1>1, <2>1, RowChange, ZenonT(30) DEF L2Write
  <2> QED BY <1>1, <2>2 DEF L2Write, Memory!WriteItem, mem
<1>2. ASSUME NEW n \in Node, NEW h \in api[n], L2DeleteRow(n, h)
      PROVE  h.notif.id \in Item /\ Memory!DeleteItem(n, h.notif.id)
  <2>1. h.notif.id \in Item
    BY DEF Lineage, Places, GoodHandler, Handler, WriteNotification
  <2>2. NoRow \in Row /\ NoRow.blob = 0
    BY StampsTyped DEF NoRow, Row, MaybeGroup, Lineage, History
  <2>3. mem' = [mem EXCEPT ![n][h.notif.id] = 0]
    <3>1. store' = [store EXCEPT ![n][h.notif.id] = NoRow]
      BY <1>2 DEF L2DeleteRow
    <3> QED BY <2>1, <2>2, <3>1, RowChange, ZenonT(60)
  <2>4. Present(store[n][h.notif.id])
    <3>1. ASSUME ~ Present(store[n][h.notif.id])
          PROVE  UNCHANGED <<written, deleted>>
      BY <1>2, <3>1 DEF L2DeleteRow
    <3>2. ASSUME ~ Present(store[n][h.notif.id])
          PROVE  mem[n][h.notif.id] = 0
      BY <2>1, <3>2 DEF Present, mem
    <3>3. ASSUME mem[n][h.notif.id] = 0
          PROVE  [mem EXCEPT ![n][h.notif.id] = 0] = mem
      BY <2>1, <3>3, ZenonT(30) DEF mem
    <3> QED BY <2>3, <3>1, <3>2, <3>3
  <2> QED BY <1>2, <2>1, <2>3, <2>4, ZenonT(30)
          DEF L2DeleteRow, Memory!DeleteItem, Present, mem
<1>3. ASSUME NEW n \in Node, JudgeItem(n)
      PROVE  \E i \in Item : Memory!Forget(n, i)
  <2> DEFINE item == Head(rx[n].todo)
             outcome == OnReceive(store[n][item.id], item, rx[n].accepts)
  <2>1. item \in GoodItem(written, deleted, clock)
    <3>1. /\ rx[n].todo \in Seq(GoodItem(written, deleted, clock))
          /\ rx[n].todo # <<>>
      BY <1>3 DEF Lineage, Places, GoodRx, JudgeItem
    <3> QED BY <3>1, SMTT(30)
  <2>2. UNCHANGED <<written, deleted>>
    BY <1>3, Zenon DEF JudgeItem, apiVars
  <2>3. outcome = "delete" /\ store' = [store EXCEPT ![n][item.id] = NoRow]
    BY <1>3, <2>2, Zenon DEF JudgeItem, mem
  <2>4. item.id \in Item /\ item.id \in deleted
    BY <2>1, <2>3 DEF GoodItem, FetchedItem, OnReceive
  <2>5. NoRow \in Row /\ NoRow.blob = 0
    BY StampsTyped DEF NoRow, Row, MaybeGroup, Lineage, History
  <2>6. mem' = [mem EXCEPT ![n][item.id] = 0]
    BY <2>3, <2>4, <2>5, RowChange, ZenonT(60)
  <2> HIDE DEF item
  <2> QED BY <2>2, <2>4, <2>6, ZenonT(30) DEF Memory!Forget, mem
<1>4. ASSUME NEW n \in Node, StoreItem(n)
      PROVE  \E i \in Item : \E b \in 1 .. Len(written) : Memory!Adopt(n, i, b)
  <2> DEFINE item == Head(rx[n].todo)
  <2>1. /\ item \in GoodItem(written, deleted, clock)
        /\ item.id \in Item
        /\ ~ item.tombstone
        /\ item.group \in Readers[n]
        /\ RowOf(item) \in Row
    BY <1>4, StoreItemRow
  <2>2. /\ store' = [store EXCEPT ![n][item.id] = RowOf(item)]
        /\ UNCHANGED <<written, deleted>>
    BY <1>4 DEF StoreItem, apiVars
  <2> HIDE DEF item
  <2>3. InLog(written, item.id, item.blob, item.group)
    BY <2>1 DEF GoodItem
  <2>4. RowOf(item).blob = item.blob
    BY DEF RowOf
  <2>5. mem' = [mem EXCEPT ![n][item.id] = item.blob]
    <3>1. mem' = [mem EXCEPT ![n][item.id] = RowOf(item).blob]
      BY <2>1, <2>2, RowChange, ZenonT(30)
    <3> QED BY <2>4, <3>1
  <2>6. PICK i \in Item, b \in 1 .. Len(written) : i = item.id /\ b = item.blob
    BY <2>1, <2>3 DEF InLog
  <2>7. Memory!Adopt(n, i, b)
    BY <2>1, <2>2, <2>3, <2>5, <2>6, ZenonT(30) DEF InLog, Memory!Adopt, mem
  <2> QED BY <2>7
<1>5. ASSUME NEW n \in Node, ApiStep(n)
      PROVE  Memory!MemNext
  <2>1. ASSUME NEW i \in Item, L2DeleteRead(n, i) PROVE FALSE
    BY <2>1 DEF L2DeleteRead, mem
  <2>2. ASSUME NEW h \in api[n], SendNotification(n, h) PROVE FALSE
    BY <2>2 DEF SendNotification, mem
  <2> QED BY <1>1, <1>2, <1>5, <2>1, <2>2, ConfigAssumption, ZenonT(30)
          DEF ApiStep, Memory!MemNext, MaybeGroup
<1> QED BY <1>0, <1>3, <1>4, <1>5 DEF Memory!MemNext, mem

\* The databases of the nodes, seen without queues, messages and stamps,
\* behave as GroupMemory promises: only API calls create or destroy versions,
\* a receive takes over a written version of an accepted group or forgets an
\* item that an API call deleted.
THEOREM DatabasesImplementMemory == Spec => ImplementsGroupMemory
BY MemoryInit, MemoryNext, LineageInvariant, PTL
DEF Spec, ImplementsGroupMemory, Memory!MemSpec

=============================================================================
