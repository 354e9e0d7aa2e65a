------------------------ MODULE DataCenterBusProofs ------------------------
(***************************************************************************)
(* Theorems about publication and subscription, for any sets of            *)
(* connections, tags, subscribers and requests and any queue bound: what a *)
(* subscriber is given of a tag goes forward, nothing falls between the    *)
(* snapshot and the live updates, a full queue never costs the newest      *)
(* update, and no latest value outlives a connection it speaks of.         *)
(***************************************************************************)
EXTENDS DataCenterBus, DataCenterStoreProofs, SequenceTheorems, FiniteSetTheorems,
        WellFoundedInduction

-----------------------------------------------------------------------------
(* Numbers: induction and largest elements. *)

\* Induction, said of a set, so that no operator is a parameter.
LEMMA SetInduction ==
    ASSUME NEW S, 0 \in S, \A n \in Nat : n \in S => n + 1 \in S
    PROVE  Nat \subseteq S
<1> SUFFICES ASSUME Nat \ S # {} PROVE FALSE
  OBVIOUS
<1>1. IsWellFoundedOn(OpToRel(<, Nat), Nat)
  BY NatLessThanWellFounded
<1>2. PICK x \in Nat \ S : \A y \in Nat \ S : ~(<<y, x>> \in OpToRel(<, Nat))
  BY <1>1, WFMin
<1>3. x \in Nat /\ x \notin S
  OBVIOUS
<1>4. x - 1 \in Nat /\ x - 1 < x /\ x - 1 + 1 = x
  BY <1>3
<1>5. <<x - 1, x>> \in OpToRel(<, Nat)
  BY <1>3, <1>4 DEF OpToRel
<1>6. x - 1 \in S
  BY <1>2, <1>4, <1>5
<1> QED BY <1>3, <1>4, <1>6

LEMMA LargestExists ==
    ASSUME NEW S, S \subseteq Nat, S # {}, NEW b \in Nat, \A x \in S : x <= b
    PROVE  \E m \in S : \A x \in S : x <= m
<1> DEFINE T == {k \in Nat : \A x \in S : x <= k}
<1>1. IsWellFoundedOn(OpToRel(<, Nat), Nat)
  BY NatLessThanWellFounded
<1>2. T \subseteq Nat /\ T # {}
  BY DEF T
<1>3. PICK m \in T : \A y \in T : ~(<<y, m>> \in OpToRel(<, Nat))
  BY <1>1, <1>2, WFMin
<1>4. m \in Nat /\ \A x \in S : x <= m
  BY <1>3
<1>5. m \in S
  <2> SUFFICES ASSUME m \notin S PROVE FALSE
    OBVIOUS
  <2>1. \A x \in S : x \in Nat /\ x <= m /\ x # m
    BY <1>4
  <2>2. \A x \in S : x \in Nat /\ x < m
    BY <1>4, <2>1
  <2>3. m - 1 \in Nat /\ \A x \in S : x <= m - 1
    <3>1. PICK x \in S : TRUE
      OBVIOUS
    <3>2. m > 0
      BY <1>4, <2>2, <3>1
    <3> QED BY <1>4, <2>2, <3>2
  <2>4. m - 1 \in T /\ <<m - 1, m>> \in OpToRel(<, Nat)
    BY <1>4, <2>3 DEF OpToRel
  <2> QED BY <1>3, <2>4
<1> QED BY <1>4, <1>5

-----------------------------------------------------------------------------
(* One publication, as the core applies it. *)

\* An update is that of its target point, and is not newer than the core.
LatestIsTarget ==
    \A p \in Points : latestByDst[p] # NoUpdate =>
        /\ latestByDst[p].dstId = p[1] /\ latestByDst[p].dstTag = p[2]
        /\ latestByDst[p].val \in 1..sourceSequence

\* A batch gives every update a value of its own point, newer than all before.
LEMMA RoutedUpdatesLemma ==
    ASSUME StoreInv, NEW points \in PublishRequests, Publishable(points),
           NEW u \in AllRoutedUpdates(points)
    PROVE  /\ u \in Updates
           /\ u.val \in (sourceSequence + 1)..(sourceSequence + Len(points))
           /\ connections[u.srcId] # NoKey /\ connections[u.dstId] # NoKey
           /\ \A v \in AllRoutedUpdates(points) :
                 u.val = v.val /\ u.dstId = v.dstId /\ u.dstTag = v.dstTag => u = v
<1> DEFINE n == sourceSequence
<1>1. points \in Seq(Points) /\ n \in 0..MaxSequence /\ MaxSequence \in Nat
  BY BusAssumption, CoreAssumption DEF StoreInv, CoreInv, CoreTypeOK
<1>2. /\ Len(points) \in Nat /\ DOMAIN points = 1..Len(points)
      /\ \A i \in 1..Len(points) : points[i] \in Points
  BY <1>1, LenProperties, ElementOfSeq
<1>3. n + Len(points) <= MaxSequence
  BY <1>1, <1>2 DEF Publishable
<1>4. ASSUME NEW v \in AllRoutedUpdates(points)
      PROVE  \E i \in 1..Len(points), d \in Endpoints :
                /\ d \in DstsOf(SourceEndpoint(points[i]))
                /\ v = [srcId |-> points[i][1], srcTag |-> points[i][2],
                        dstId |-> connIdsByKey[d.key], dstTag |-> d.tag, val |-> n + i]
  <2>1. PICK i \in DOMAIN points : v \in RoutedUpdates(points, i)
    BY DEF AllRoutedUpdates
  <2>2. PICK d \in DstsOf(SourceEndpoint(points[i])) : v = UpdateFor(points, i, d)
    BY <2>1 DEF RoutedUpdates
  <2>3. d \in Endpoints
    BY DEF DstsOf, StoreInv, CoreInv, CoreTypeOK, Routes
  <2> QED BY <1>2, <2>1, <2>2, <2>3 DEF UpdateFor
<1>5. PICK i \in 1..Len(points), d \in Endpoints :
        /\ d \in DstsOf(SourceEndpoint(points[i]))
        /\ u = [srcId |-> points[i][1], srcTag |-> points[i][2],
                dstId |-> connIdsByKey[d.key], dstTag |-> d.tag, val |-> n + i]
  BY <1>4
<1>6. /\ points[i] \in Points /\ connections[points[i][1]] # NoKey
      /\ d.key \in Keys /\ d.tag \in Tags /\ connIdsByKey[d.key] # 0
  BY <1>2, <1>5 DEF Publishable, Registered, Endpoints
<1>7. /\ connIdsByKey[d.key] \in ConnIds
      /\ connections[connIdsByKey[d.key]] = d.key
  BY <1>6 DEF StoreInv, CoreInv, CoreTypeOK, RegistryConsistent
<1>8. n + i \in 1..MaxSequence /\ n + i \in (n + 1)..(n + Len(points))
  BY <1>1, <1>2, <1>3
<1>9. u \in Updates
  BY <1>5, <1>6, <1>7, <1>8 DEF Updates, Values, Points
<1>10. connections[u.srcId] # NoKey /\ connections[u.dstId] # NoKey
  BY <1>5, <1>6, <1>7, CoreAssumption
<1>11. ASSUME NEW v \in AllRoutedUpdates(points),
              u.val = v.val, u.dstId = v.dstId, u.dstTag = v.dstTag
       PROVE  u = v
  <2>1. PICK j \in 1..Len(points), e \in Endpoints :
          v = [srcId |-> points[j][1], srcTag |-> points[j][2],
               dstId |-> connIdsByKey[e.key], dstTag |-> e.tag, val |-> n + j]
    BY <1>4
  <2>2. n + i = n + j /\ connIdsByKey[d.key] = connIdsByKey[e.key] /\ d.tag = e.tag
    BY <1>5, <1>11, <2>1
  <2>3. i = j
    BY <1>1, <1>2, <2>2
  <2> QED BY <1>5, <2>1, <2>2, <2>3
<1> QED BY <1>5, <1>8, <1>9, <1>10, <1>11

\* What a publication leaves in a target point: the newest of its own updates
\* for that point, or what was there.
LEMMA LastForLemma ==
    ASSUME StoreInv, NEW points \in PublishRequests, Publishable(points), NEW p \in Points
    PROVE  LET us == AllRoutedUpdates(points)
               u  == LastFor(p, us)
           IN \/ u = latestByDst[p] /\ \A v \in us : <<v.dstId, v.dstTag>> # p
              \/ /\ u \in us /\ u.dstId = p[1] /\ u.dstTag = p[2]
                 /\ \A v \in us : <<v.dstId, v.dstTag>> = p => v.val <= u.val
<1> DEFINE us   == AllRoutedUpdates(points)
           mine == {u \in us : <<u.dstId, u.dstTag>> = p}
           top  == sourceSequence + Len(points)
<1>1. CASE mine = {}
  BY <1>1 DEF LastFor
<1>2. CASE mine # {}
  <2>1. \A u \in mine : u.val \in Nat /\ u.val <= top
    <3>1. \A u \in mine : u.val \in (sourceSequence + 1)..top
      BY RoutedUpdatesLemma
    <3>2. sourceSequence \in Nat /\ top \in Nat
      BY BusAssumption, CoreAssumption, LenProperties DEF StoreInv, CoreInv, CoreTypeOK
    <3> QED BY <3>1, <3>2
  <2>2. top \in Nat
    BY BusAssumption, CoreAssumption, LenProperties DEF StoreInv, CoreInv, CoreTypeOK
  <2> DEFINE S == {u.val : u \in mine}
  <2> HIDE DEF mine, top
  <2>3. S \subseteq Nat /\ S # {} /\ \A x \in S : x <= top
    BY <1>2, <2>1
  <2>4. \E m \in S : \A x \in S : x <= m
    BY <2>2, <2>3, LargestExists
  <2>5. \E u \in mine : \A v \in mine : v.val <= u.val
    BY <2>4
  <2>6. LastFor(p, us) = CHOOSE u \in mine : \A v \in mine : v.val <= u.val
    BY <1>2 DEF LastFor, mine
  <2>7. LastFor(p, us) \in mine /\ \A v \in mine : v.val <= LastFor(p, us).val
    BY <2>5, <2>6
  <2> QED BY <2>7 DEF mine, Points
<1> QED BY <1>1, <1>2

\* A publication keeps the core right: types, and what a latest value speaks of.
LEMMA PublishLemma ==
    ASSUME StoreInv, LatestIsOfRegistered, LatestIsTarget,
           NEW points \in PublishRequests, PublishPoints(points), UNCHANGED storeVars
    PROVE  /\ StoreInv' /\ LatestIsOfRegistered' /\ LatestIsTarget'
           /\ sourceSequence <= sourceSequence'
<1> DEFINE us == AllRoutedUpdates(points)
           n  == sourceSequence
<1>1. points \in Seq(Points) /\ n \in 0..MaxSequence /\ MaxSequence \in Nat
  BY BusAssumption, CoreAssumption DEF StoreInv, CoreInv, CoreTypeOK
<1>2. /\ Len(points) \in Nat /\ DOMAIN points = 1..Len(points)
      /\ \A i \in 1..Len(points) : points[i] \in Points
  BY <1>1, LenProperties, ElementOfSeq
<1>3. /\ n + Len(points) <= MaxSequence
      /\ \A i \in 1..Len(points) : connections[points[i][1]] # NoKey
  BY <1>1, <1>2 DEF Publishable, PublishPoints
<1>4. sourceSequence' = n + Len(points) /\ sourceSequence' \in 0..MaxSequence
  BY <1>1, <1>2, <1>3 DEF PublishPoints
<1>5. \A u \in us : /\ u \in Updates
                    /\ u.val \in (n + 1)..(n + Len(points))
                    /\ connections[u.srcId] # NoKey /\ connections[u.dstId] # NoKey
  BY RoutedUpdatesLemma DEF PublishPoints
<1>6. latestByDst' = [p \in Points |-> LastFor(p, us)]
  BY DEF PublishPoints
<1>7. ASSUME NEW p \in Points
      PROVE  \/ LastFor(p, us) = latestByDst[p]
             \/ LastFor(p, us) \in us /\ LastFor(p, us).dstId = p[1] /\ LastFor(p, us).dstTag = p[2]
  BY LastForLemma DEF PublishPoints
<1>8. latestByDst' \in [Points -> Updates \cup {NoUpdate}]
  BY <1>5, <1>6, <1>7 DEF StoreInv, CoreInv, CoreTypeOK
<1>9. ASSUME NEW p \in Points
      PROVE  /\ latestBySrc'[p] \in 0..MaxSequence
             /\ latestBySrc'[p] # 0 => connections[p[1]] # NoKey
  <2> DEFINE mine == {i \in DOMAIN points : points[i] = p}
  <2>1. latestBySrc'[p] = IF mine = {} THEN latestBySrc[p]
                          ELSE n + CHOOSE i \in mine : \A j \in mine : j <= i
    BY DEF PublishPoints
  <2>2. CASE mine = {}
    BY <2>1, <2>2 DEF StoreInv, CoreInv, CoreTypeOK, LatestIsOfRegistered
  <2>3. CASE mine # {}
    <3>1. mine \subseteq Nat /\ \A x \in mine : x <= Len(points)
      BY <1>2
    <3>2. \E m \in mine : \A x \in mine : x <= m
      BY <1>2, <2>3, <3>1, LargestExists
    <3>3. PICK m \in mine : latestBySrc'[p] = n + m
      BY <2>1, <2>3, <3>2
    <3>4. m \in 1..Len(points) /\ points[m] = p
      BY <1>2, <3>3
    <3> QED BY <1>1, <1>2, <1>3, <3>3, <3>4
  <2> QED BY <2>2, <2>3
<1>10. latestBySrc' \in [Points -> 0..MaxSequence]
  BY <1>9 DEF PublishPoints
<1>11. StoreInv'
  BY <1>4, <1>8, <1>10, StoreInvFrame DEF PublishPoints
<1>12. connections' = connections
  BY DEF PublishPoints, configVars
<1>13. LatestIsOfRegistered'
  <2> SUFFICES ASSUME NEW p \in Points, latestByDst'[p] # NoUpdate
               PROVE  connections[latestByDst'[p].srcId] # NoKey /\ connections[p[1]] # NoKey
    BY <1>9, <1>12 DEF LatestIsOfRegistered
  <2> QED BY <1>5, <1>6, <1>7 DEF LatestIsOfRegistered
<1>14. LatestIsTarget'
  <2> SUFFICES ASSUME NEW p \in Points, latestByDst'[p] # NoUpdate
               PROVE  /\ latestByDst'[p].dstId = p[1] /\ latestByDst'[p].dstTag = p[2]
                      /\ latestByDst'[p].val \in 1..sourceSequence'
    BY DEF LatestIsTarget
  <2>1. CASE latestByDst'[p] = latestByDst[p]
    BY <1>1, <1>2, <1>4, <2>1 DEF LatestIsTarget
  <2>2. CASE latestByDst'[p] # latestByDst[p]
    BY <1>1, <1>2, <1>4, <1>5, <1>6, <1>7, <2>2
  <2> QED BY <2>1, <2>2
<1> QED BY <1>1, <1>2, <1>4, <1>11, <1>13, <1>14

-----------------------------------------------------------------------------
(* The queue of one subscriber while the updates of a call are offered.    *)

SubRecords ==
    [phase : {"idle", "writing", "ending"}, registered : BOOLEAN, closed : BOOLEAN,
     cancelled : BOOLEAN, id : {0} \cup ConnIds, filter : Filters \cup {{}},
     wantsSnapshot : BOOLEAN, snapshot : SUBSET Updates, queue : Seq(Updates),
     dropped : Nat, seen : [Tags -> 0..MaxSequence]]

\* All of a subscriber but its queue.
SameButQueue(x, y) ==
    /\ y.phase = x.phase /\ y.registered = x.registered /\ y.closed = x.closed
    /\ y.cancelled = x.cancelled /\ y.id = x.id /\ y.filter = x.filter
    /\ y.wantsSnapshot = x.wantsSnapshot /\ y.snapshot = x.snapshot /\ y.seen = x.seen

\* The new update is at the end; the others stay or move up by one.
LEMMA EnqueuedLemma ==
    ASSUME NEW x \in SubRecords, ~x.closed, Len(x.queue) <= QueueCap, NEW u \in Updates
    PROVE  LET y == Enqueued(x, u) IN
           /\ y \in SubRecords /\ SameButQueue(x, y)
           /\ Len(y.queue) \in 1..QueueCap /\ y.queue[Len(y.queue)] = u
           /\ \/ /\ y.dropped = x.dropped /\ Len(y.queue) = Len(x.queue) + 1
                 /\ \A i \in 1..Len(x.queue) : y.queue[i] = x.queue[i]
              \/ /\ y.dropped = x.dropped + 1 /\ Len(y.queue) = Len(x.queue)
                 /\ \A i \in 1..(Len(x.queue) - 1) : y.queue[i] = x.queue[i + 1]
<1> DEFINE y == Enqueued(x, u)
           q == x.queue
<1>1. q \in Seq(Updates) /\ Len(q) \in Nat /\ QueueCap \in Nat \ {0} /\ x.dropped \in Nat
  BY BusAssumption, LenProperties DEF SubRecords
<1>2. CASE Len(q) < QueueCap
  <2>1. y = [x EXCEPT !.queue = Append(q, u)]
    BY <1>2 DEF Enqueued
  <2>2. /\ Append(q, u) \in Seq(Updates) /\ Len(Append(q, u)) = Len(q) + 1
        /\ \A i \in 1..Len(q) : Append(q, u)[i] = q[i]
        /\ Append(q, u)[Len(q) + 1] = u
    BY <1>1, AppendProperties
  <2>3. y \in SubRecords /\ SameButQueue(x, y) /\ y.queue = Append(q, u) /\ y.dropped = x.dropped
    BY <2>1, <2>2 DEF SubRecords, SameButQueue
  <2> QED BY <1>1, <1>2, <2>2, <2>3
<1>3. CASE ~(Len(q) < QueueCap)
  <2> DEFINE t == Tail(q)
  <2>1. y = [x EXCEPT !.queue = Append(t, u), !.dropped = x.dropped + 1]
    BY <1>3 DEF Enqueued
  <2>2. Len(q) = QueueCap /\ q # <<>>
    BY <1>1, <1>3, EmptySeq
  <2>3. /\ t \in Seq(Updates) /\ Len(t) = Len(q) - 1
        /\ \A i \in 1..Len(t) : t[i] = q[i + 1]
    BY <1>1, <2>2, HeadTailProperties
  <2> HIDE DEF t
  <2>4. /\ Append(t, u) \in Seq(Updates) /\ Len(Append(t, u)) = Len(t) + 1
        /\ \A i \in 1..Len(t) : Append(t, u)[i] = t[i]
        /\ Append(t, u)[Len(t) + 1] = u
    BY <2>3, AppendProperties
  <2>5. /\ y \in SubRecords /\ SameButQueue(x, y)
        /\ y.queue = Append(t, u) /\ y.dropped = x.dropped + 1
    <3> DEFINE a == Append(t, u)
               d == x.dropped + 1
    <3>1. a \in Seq(Updates) /\ d \in Nat /\ y = [x EXCEPT !.queue = a, !.dropped = d]
      BY <1>1, <2>1, <2>4
    <3> HIDE DEF a, d, y
    <3>2. y \in SubRecords /\ SameButQueue(x, y) /\ y.queue = a /\ y.dropped = d
      BY <3>1 DEF SubRecords, SameButQueue
    <3> QED BY <3>2 DEF a, d
  <2>6. Len(t) + 1 = Len(q) /\ Len(Append(t, u)) = Len(q)
    BY <1>1, <2>3, <2>4
  <2>7. \A i \in 1..(Len(q) - 1) : y.queue[i] = q[i + 1]
    BY <2>3, <2>4, <2>5
  <2> QED BY <1>1, <2>2, <2>4, <2>5, <2>6, <2>7
<1> QED BY <1>2, <1>3

\* Offered is a chain of steps, one for each update.
OfferedOne(sub, x, u) == IF Matches(sub, u) THEN Enqueued(x, u) ELSE x

LEMMA OfferedChain ==
    ASSUME NEW sub, NEW us, Len(us) \in Nat
    PROVE  \E after :
             /\ after[0] = sub
             /\ \A i \in 1..Len(us) : after[i] = OfferedOne(sub, after[i - 1], us[i])
             /\ Offered(sub, us) = after[Len(us)]
<1> DEFINE Body(g, n) == [i \in 0..n |->
                            IF i = 0 THEN sub
                            ELSE IF Matches(sub, us[i]) THEN Enqueued(g[i - 1], us[i])
                            ELSE g[i - 1]]
           S == {n \in Nat : \E g : g = Body(g, n)}
<1>1. 0 \in S
  <2>1. [i \in 0..0 |-> sub] = Body([i \in 0..0 |-> sub], 0)
    OBVIOUS
  <2> QED BY <2>1
<1>2. ASSUME NEW n \in Nat, n \in S PROVE n + 1 \in S
  <2>1. PICK g : g = Body(g, n)
    BY <1>2
  <2> DEFINE h == [i \in 0..(n + 1) |-> IF i <= n THEN g[i] ELSE OfferedOne(sub, g[n], us[n + 1])]
  <2>2. ASSUME NEW i \in 0..(n + 1) PROVE h[i] = Body(h, n + 1)[i]
    <3>1. CASE i = 0
      BY <2>1, <3>1
    <3>2. CASE i \in 1..n
      <4>1. i - 1 \in 0..n /\ i \in 0..n /\ i # 0 /\ i \in 0..(n + 1) /\ i - 1 \in 0..(n + 1)
        BY <3>2
      <4>2. h[i - 1] = g[i - 1] /\ h[i] = g[i]
        BY <4>1
      <4>3. g[i] = Body(g, n)[i]
        BY <2>1
      <4> HIDE DEF h
      <4> QED BY <4>1, <4>2, <4>3
    <3>3. CASE i = n + 1
      <4>1. h[i] = OfferedOne(sub, g[n], us[i]) /\ h[n] = g[n] /\ i - 1 = n /\ i # 0
        BY <3>3
      <4> HIDE DEF h
      <4> QED BY <4>1 DEF OfferedOne
    <3> QED BY <3>1, <3>2, <3>3
  <2>3. h = Body(h, n + 1)
    <3> DEFINE b == Body(h, n + 1)
    <3>1. h = [i \in 0..(n + 1) |-> h[i]] /\ b = [i \in 0..(n + 1) |-> b[i]]
      OBVIOUS
    <3> HIDE DEF h, b
    <3> QED BY <2>2, <3>1 DEF b
  <2> HIDE DEF h, Body
  <2> QED BY <2>3
<1>3. Len(us) \in S
  <2> HIDE DEF S
  <2>1. Nat \subseteq S
    BY <1>1, <1>2, SetInduction
  <2> QED BY <2>1
<1> DEFINE f == CHOOSE g : g = Body(g, Len(us))
<1>4. f = Body(f, Len(us))
  <2> HIDE DEF Body
  <2> QED BY <1>3
<1>5. Offered(sub, us) = f[Len(us)]
  BY DEF Offered
<1> HIDE DEF f
<1>6. f[0] = sub
  BY <1>4
<1>7. ASSUME NEW i \in 1..Len(us) PROVE f[i] = OfferedOne(sub, f[i - 1], us[i])
  <2>1. i \in 0..Len(us) /\ i # 0
    OBVIOUS
  <2>2. Body(f, Len(us))[i] = OfferedOne(sub, f[i - 1], us[i])
    BY <2>1 DEF OfferedOne
  <2> HIDE DEF Body
  <2> QED BY <1>4, <2>2
<1> QED BY <1>5, <1>6, <1>7

\* The updates of a call in an order the core may produce, all newer than n.
InOrderAfter(us, n) ==
    /\ us \in Seq(Updates)
    /\ \A i \in 1..Len(us) : us[i].val \in Nat /\ n < us[i].val
    /\ \A i, j \in 1..Len(us) : i < j =>
          /\ us[i].val <= us[j].val
          /\ us[i].dstId = us[j].dstId /\ us[i].dstTag = us[j].dstTag => us[i].val < us[j].val

QueueOrdered(x) ==
    \A a, b \in 1..Len(x.queue) : a < b /\ x.queue[a].dstTag = x.queue[b].dstTag =>
        x.queue[a].val < x.queue[b].val

\* x is the subscriber sub after the first i updates of us were offered to it.
OfferedUpTo(sub, us, i, x) ==
    /\ x \in SubRecords /\ SameButQueue(sub, x)
    /\ Len(x.queue) <= QueueCap
    /\ sub.dropped <= x.dropped
    /\ QueueOrdered(x)
    /\ \A a \in 1..Len(x.queue) :
          \/ \E b \in 1..Len(sub.queue) : x.queue[a] = sub.queue[b]
          \/ \E j \in 1..i : Matches(sub, us[j]) /\ x.queue[a] = us[j]
    /\ x.dropped = sub.dropped =>
          /\ \A b \in 1..Len(sub.queue) : \E a \in 1..Len(x.queue) : x.queue[a] = sub.queue[b]
          /\ \A j \in 1..i : Matches(sub, us[j]) =>
                \E a \in 1..Len(x.queue) : x.queue[a] = us[j]
    /\ \A j \in 1..i : Matches(sub, us[j]) =>
          \E a \in 1..Len(x.queue) : us[j].val <= x.queue[a].val
    /\ (\A j \in 1..i : ~Matches(sub, us[j])) => x = sub

LEMMA OfferedOneLemma ==
    ASSUME NEW sub \in SubRecords, NEW us, NEW n \in Nat, InOrderAfter(us, n),
           sub.registered => ~sub.closed,
           \A b \in 1..Len(sub.queue) : sub.queue[b].val \in Nat /\ sub.queue[b].val <= n,
           NEW i \in Nat, i + 1 \in 1..Len(us), NEW x, OfferedUpTo(sub, us, i, x)
    PROVE  OfferedUpTo(sub, us, i + 1, OfferedOne(sub, x, us[i + 1]))
<1> DEFINE u == us[i + 1]
           y == OfferedOne(sub, x, u)
<1>1. /\ us \in Seq(Updates) /\ Len(us) \in Nat /\ u \in Updates
      /\ u.val \in Nat /\ n < u.val
  BY LenProperties, ElementOfSeq DEF InOrderAfter
<1>2. \A j \in 1..(i + 1) : j \in 1..i \/ j = i + 1
  OBVIOUS
<1>3. 1..i \subseteq 1..(i + 1) /\ 1..(i + 1) \subseteq 1..Len(us)
  BY <1>1
<1>4. CASE ~Matches(sub, u)
  <2>1. y = x
    BY <1>4 DEF OfferedOne
  <2> HIDE DEF y
  <2>2. \A j \in 1..(i + 1) : Matches(sub, us[j]) => j \in 1..i
    BY <1>2, <1>4
  <2>3. \A j \in 1..i : j \in 1..(i + 1)
    BY <1>3
  <2>4. OfferedUpTo(sub, us, i + 1, x)
    BY <2>2, <2>3 DEF OfferedUpTo
  <2> QED BY <2>1, <2>4 DEF y
<1>5. CASE Matches(sub, u)
  <2>1. ~x.closed /\ x \in SubRecords /\ Len(x.queue) <= QueueCap /\ SameButQueue(sub, x)
    BY <1>5 DEF Matches, OfferedUpTo, SameButQueue
  <2>2. y = Enqueued(x, u)
    BY <1>5 DEF OfferedOne
  <2>3. /\ y \in SubRecords /\ SameButQueue(x, y)
        /\ Len(y.queue) \in 1..QueueCap /\ y.queue[Len(y.queue)] = u
        /\ \/ /\ y.dropped = x.dropped /\ Len(y.queue) = Len(x.queue) + 1
              /\ \A k \in 1..Len(x.queue) : y.queue[k] = x.queue[k]
           \/ /\ y.dropped = x.dropped + 1 /\ Len(y.queue) = Len(x.queue)
              /\ \A k \in 1..(Len(x.queue) - 1) : y.queue[k] = x.queue[k + 1]
    BY <1>1, <2>1, <2>2, EnqueuedLemma
  <2> HIDE DEF y, u
  <2>4. /\ Len(x.queue) \in Nat /\ Len(y.queue) \in Nat /\ QueueCap \in Nat
        /\ x.dropped \in Nat /\ y.dropped \in Nat /\ sub.dropped \in Nat
    BY <2>1, <2>3, BusAssumption, LenProperties DEF SubRecords
  <2>5. PICK shift \in {0, 1} :
          \A k \in 1..(Len(y.queue) - 1) : k + shift \in 1..Len(x.queue)
                                           /\ y.queue[k] = x.queue[k + shift]
    <3>1. CASE Len(y.queue) = Len(x.queue) + 1 /\ \A k \in 1..Len(x.queue) : y.queue[k] = x.queue[k]
      <4>1. \A k \in 1..(Len(y.queue) - 1) : k + 0 \in 1..Len(x.queue) /\ k + 0 = k
        BY <2>4, <3>1
      <4>2. \A k \in 1..(Len(y.queue) - 1) : y.queue[k] = x.queue[k + 0]
        BY <3>1, <4>1
      <4> QED BY <4>1, <4>2
    <3>2. CASE /\ Len(y.queue) = Len(x.queue)
               /\ \A k \in 1..(Len(x.queue) - 1) : y.queue[k] = x.queue[k + 1]
      <4>1. \A k \in 1..(Len(y.queue) - 1) : k + 1 \in 1..Len(x.queue)
        BY <2>4, <3>2
      <4> QED BY <3>2, <4>1
    <3> QED BY <2>3, <3>1, <3>2
  <2>6. SameButQueue(sub, y)
    BY <2>1, <2>3 DEF SameButQueue
  <2>7. \A a \in 1..Len(x.queue) :
           /\ x.queue[a].val \in Nat
           /\ x.queue[a].dstTag = u.dstTag => x.queue[a].val < u.val
    <3> SUFFICES ASSUME NEW a \in 1..Len(x.queue)
                 PROVE  /\ x.queue[a].val \in Nat
                        /\ x.queue[a].dstTag = u.dstTag => x.queue[a].val < u.val
      OBVIOUS
    <3>1. CASE \E b \in 1..Len(sub.queue) : x.queue[a] = sub.queue[b]
      BY <1>1, <3>1
    <3>2. CASE \E j \in 1..i : Matches(sub, us[j]) /\ x.queue[a] = us[j]
      <4>1. PICK j \in 1..i : Matches(sub, us[j]) /\ x.queue[a] = us[j]
        BY <3>2
      <4>2. j \in 1..Len(us) /\ i + 1 \in 1..Len(us) /\ j < i + 1
        BY <1>3
      <4>3. us[j].dstId = u.dstId
        BY <1>5, <4>1 DEF Matches
      <4> QED BY <4>1, <4>2, <4>3 DEF InOrderAfter, u
    <3> QED BY <3>1, <3>2 DEF OfferedUpTo
  <2>8. QueueOrdered(y)
    <3> SUFFICES ASSUME NEW a \in 1..Len(y.queue), NEW b \in 1..Len(y.queue), a < b,
                        y.queue[a].dstTag = y.queue[b].dstTag
                 PROVE  y.queue[a].val < y.queue[b].val
      BY DEF QueueOrdered
    <3>1. /\ a \in 1..(Len(y.queue) - 1)
          /\ a + shift \in 1..Len(x.queue) /\ y.queue[a] = x.queue[a + shift]
      BY <2>4, <2>5
    <3>2. CASE b = Len(y.queue)
      BY <2>3, <2>7, <3>1, <3>2
    <3>3. CASE b # Len(y.queue)
      <4>1. b + shift \in 1..Len(x.queue) /\ y.queue[b] = x.queue[b + shift] /\ a + shift < b + shift
        BY <2>4, <2>5, <3>3
      <4> QED BY <3>1, <4>1 DEF OfferedUpTo, QueueOrdered
    <3> QED BY <3>2, <3>3
  <2>9. ASSUME NEW a \in 1..Len(y.queue)
        PROVE  \/ \E b \in 1..Len(sub.queue) : y.queue[a] = sub.queue[b]
               \/ \E j \in 1..(i + 1) : Matches(sub, us[j]) /\ y.queue[a] = us[j]
    <3>1. CASE a = Len(y.queue)
      BY <1>5, <2>3, <3>1 DEF u
    <3>2. CASE a # Len(y.queue)
      <4>1. a + shift \in 1..Len(x.queue) /\ y.queue[a] = x.queue[a + shift]
        BY <2>4, <2>5, <3>2
      <4> QED BY <1>3, <4>1 DEF OfferedUpTo
    <3> QED BY <3>1, <3>2
  <2>10. ASSUME y.dropped = sub.dropped
         PROVE  /\ \A b \in 1..Len(sub.queue) :
                      \E a \in 1..Len(y.queue) : y.queue[a] = sub.queue[b]
                /\ \A j \in 1..(i + 1) : Matches(sub, us[j]) =>
                      \E a \in 1..Len(y.queue) : y.queue[a] = us[j]
    <3>1. /\ x.dropped = sub.dropped
          /\ \A k \in 1..Len(x.queue) : k \in 1..Len(y.queue) /\ y.queue[k] = x.queue[k]
      BY <2>3, <2>4, <2>10 DEF OfferedUpTo
    <3>2. Len(y.queue) \in 1..Len(y.queue) /\ y.queue[Len(y.queue)] = us[i + 1]
      BY <2>3, <2>4 DEF u
    <3> QED BY <1>2, <3>1, <3>2 DEF OfferedUpTo
  <2>11. ASSUME NEW j \in 1..(i + 1), Matches(sub, us[j])
         PROVE  \E a \in 1..Len(y.queue) : us[j].val <= y.queue[a].val
    <3>1. us[j].val <= u.val
      BY <1>1, <1>2, <1>3, <2>11 DEF InOrderAfter, u
    <3>2. Len(y.queue) \in 1..Len(y.queue)
      BY <2>3, <2>4
    <3> QED BY <2>3, <3>1, <3>2
  <2>12. sub.dropped <= y.dropped /\ Len(y.queue) <= QueueCap
    BY <2>3, <2>4 DEF OfferedUpTo
  <2>13. ~(\A j \in 1..(i + 1) : ~Matches(sub, us[j]))
    BY <1>5 DEF u
  <2>14. OfferedUpTo(sub, us, i + 1, y)
    BY <2>3, <2>6, <2>8, <2>9, <2>10, <2>11, <2>12, <2>13 DEF OfferedUpTo
  <2> QED BY <2>14 DEF y, u
<1> QED BY <1>4, <1>5

\* What Offered makes of a subscriber, by induction over the updates.
LEMMA OfferedLemma ==
    ASSUME NEW sub \in SubRecords, NEW us, NEW n \in Nat, InOrderAfter(us, n),
           Len(sub.queue) <= QueueCap, QueueOrdered(sub),
           sub.registered => ~sub.closed,
           \A b \in 1..Len(sub.queue) : sub.queue[b].val \in Nat /\ sub.queue[b].val <= n
    PROVE  OfferedUpTo(sub, us, Len(us), Offered(sub, us))
<1>1. Len(us) \in Nat
  BY LenProperties DEF InOrderAfter
<1>2. PICK after : /\ after[0] = sub
                   /\ \A i \in 1..Len(us) : after[i] = OfferedOne(sub, after[i - 1], us[i])
                   /\ Offered(sub, us) = after[Len(us)]
  BY <1>1, OfferedChain
<1> DEFINE S == {i \in Nat : i <= Len(us) => OfferedUpTo(sub, us, i, after[i])}
<1>3. 0 \in S
  <2>1. OfferedUpTo(sub, us, 0, sub)
    BY DEF OfferedUpTo, SameButQueue, SubRecords
  <2> QED BY <1>2, <2>1
<1>4. ASSUME NEW i \in Nat, i \in S PROVE i + 1 \in S
  <2> SUFFICES ASSUME i + 1 <= Len(us) PROVE OfferedUpTo(sub, us, i + 1, after[i + 1])
    OBVIOUS
  <2>1. OfferedUpTo(sub, us, i, after[i]) /\ i + 1 \in 1..Len(us) /\ i + 1 - 1 = i
    BY <1>1, <1>4
  <2>2. after[i + 1] = OfferedOne(sub, after[i], us[i + 1])
    BY <1>2, <2>1
  <2> QED BY <2>1, <2>2, OfferedOneLemma
<1> HIDE DEF S
<1>5. Len(us) \in S
  BY <1>1, <1>3, <1>4, SetInduction
<1> QED BY <1>1, <1>2, <1>5 DEF S

-----------------------------------------------------------------------------
(* One subscriber.  n is the number of the newest publication.             *)

SubOK(sub, n) ==
    /\ sub \in SubRecords
    /\ Len(sub.queue) <= QueueCap
    /\ sub.registered => ~sub.closed
    /\ \A u \in PendingOf(sub) : u.val \in 1..n /\ sub.seen[u.dstTag] < u.val
    /\ \A t \in Tags : sub.seen[t] <= n
    /\ \A u, v \in sub.snapshot : u.dstTag = v.dstTag => u = v
    /\ \A u \in sub.snapshot : \A a \in 1..Len(sub.queue) :
          u.dstTag = sub.queue[a].dstTag => u.val < sub.queue[a].val
    /\ QueueOrdered(sub)

\* The two promises about the latest values us of the subscription.
MissesNothing(sub, us) ==
    sub.registered /\ sub.wantsSnapshot /\ sub.dropped = 0 =>
        \A u \in us : /\ u.val \in ValuesOf(sub, u.dstTag)
                      /\ \A v \in ValuesOf(sub, u.dstTag) : v <= u.val

KeepsNewest(sub, us) ==
    sub.registered /\ sub.wantsSnapshot =>
        \A u \in us : \E t \in Tags : \E v \in ValuesOf(sub, t) : u.val <= v

LEMMA QueueDomain ==
    ASSUME NEW sub \in SubRecords
    PROVE  /\ sub.queue \in Seq(Updates)
           /\ DOMAIN sub.queue = 1..Len(sub.queue) /\ Len(sub.queue) \in Nat
           /\ \A a \in 1..Len(sub.queue) : sub.queue[a] \in Updates
           /\ PendingOf(sub) \subseteq Updates
<1>1. sub.queue \in Seq(Updates) /\ sub.snapshot \subseteq Updates
  BY DEF SubRecords
<1>2. /\ DOMAIN sub.queue = 1..Len(sub.queue) /\ Len(sub.queue) \in Nat
      /\ \A a \in 1..Len(sub.queue) : sub.queue[a] \in Updates
  BY <1>1, LenProperties, ElementOfSeq
<1> QED BY <1>1, <1>2 DEF PendingOf

LEMMA IdleLemma ==
    ASSUME NEW n \in Nat, NEW us
    PROVE  SubOK(IdleSub, n) /\ MissesNothing(IdleSub, us) /\ KeepsNewest(IdleSub, us)
<1>1. IdleSub \in SubRecords
  BY CoreAssumption DEF IdleSub, SubRecords
<1>2. IdleSub.queue = <<>> /\ IdleSub.snapshot = {} /\ ~IdleSub.registered
  BY DEF IdleSub
<1>3. Len(IdleSub.queue) = 0 /\ PendingOf(IdleSub) = {}
  BY <1>1, <1>2, QueueDomain DEF PendingOf
<1>4. \A t \in Tags : IdleSub.seen[t] <= n
  BY DEF IdleSub
<1> QED BY <1>1, <1>2, <1>3, <1>4, BusAssumption
        DEF SubOK, MissesNothing, KeepsNewest, QueueOrdered

\* Nothing a subscriber says is lost when the core goes on.
LEMMA SubLater ==
    ASSUME NEW sub, NEW n \in Nat, NEW m \in Nat, n <= m, SubOK(sub, n)
    PROVE  SubOK(sub, m)
<1>1. \A u \in PendingOf(sub) : u.val \in 1..m
  BY DEF SubOK
<1>2. \A t \in Tags : sub.seen[t] <= m
  <2>1. \A t \in Tags : sub.seen[t] \in Nat
    BY CoreAssumption DEF SubOK, SubRecords
  <2> QED BY <2>1 DEF SubOK
<1> QED BY <1>1, <1>2 DEF SubOK

\* An update that was pending is written: what the client may still come to
\* know of a tag loses nothing but what it had seen before.
LEMMA WrittenLemma ==
    ASSUME NEW x, NEW y, NEW n \in Nat, NEW us, \A w \in us : w.val \in Nat,
           SubOK(x, n), NEW u \in PendingOf(x),
           y.registered = x.registered, y.wantsSnapshot = x.wantsSnapshot,
           y.dropped = x.dropped, y.seen = [x.seen EXCEPT ![u.dstTag] = u.val],
           PendingOf(y) \cup {u} = PendingOf(x)
    PROVE  /\ MissesNothing(x, us) => MissesNothing(y, us)
           /\ KeepsNewest(x, us) => KeepsNewest(y, us)
<1>1. u \in Updates /\ u.dstTag \in Tags /\ x.seen \in [Tags -> 0..MaxSequence]
  <2>1. x \in SubRecords
    BY DEF SubOK
  <2>2. u \in Updates
    BY <2>1, QueueDomain
  <2> QED BY <2>1, <2>2 DEF Updates, SubRecords
<1>2. x.seen[u.dstTag] \in Nat /\ u.val \in Nat /\ x.seen[u.dstTag] < u.val
  BY <1>1, CoreAssumption DEF SubOK
<1>3. /\ y.seen[u.dstTag] = u.val
      /\ \A t \in Tags : t # u.dstTag => y.seen[t] = x.seen[t]
  BY <1>1
<1>4. \A t \in Tags : ValuesOf(y, t) \subseteq ValuesOf(x, t)
  BY <1>3 DEF ValuesOf
<1>5. \A t \in Tags : \A v \in ValuesOf(x, t) :
         v \in ValuesOf(y, t) \/ (t = u.dstTag /\ v = x.seen[t])
  BY <1>3 DEF ValuesOf
<1>6. u.val \in ValuesOf(x, u.dstTag) /\ u.val \in ValuesOf(y, u.dstTag)
  BY <1>3 DEF ValuesOf
<1>7. ASSUME MissesNothing(x, us) PROVE MissesNothing(y, us)
  <2> SUFFICES ASSUME x.registered /\ x.wantsSnapshot /\ x.dropped = 0, NEW w \in us
               PROVE  /\ w.val \in ValuesOf(y, w.dstTag)
                      /\ \A v \in ValuesOf(y, w.dstTag) : v <= w.val
    BY DEF MissesNothing
  <2>1. /\ w.val \in ValuesOf(x, w.dstTag)
        /\ \A v \in ValuesOf(x, w.dstTag) : v <= w.val
    BY <1>7 DEF MissesNothing
  <2>2. CASE w.dstTag = u.dstTag
    <3>1. w.val # x.seen[u.dstTag]
      BY <1>2, <1>6, <2>1, <2>2
    <3> QED BY <1>1, <1>4, <1>5, <2>1, <2>2, <3>1
  <2>3. CASE w.dstTag # u.dstTag
    <3>1. ValuesOf(y, w.dstTag) = ValuesOf(x, w.dstTag)
      <4>1. y.seen[w.dstTag] = x.seen[w.dstTag]
        BY <1>1, <2>3
      <4> QED BY <2>3, <4>1 DEF ValuesOf
    <3> QED BY <2>1, <3>1
  <2> QED BY <2>2, <2>3
<1>8. ASSUME KeepsNewest(x, us), x.registered, x.wantsSnapshot, NEW w \in us
      PROVE  \E t \in Tags : \E v \in ValuesOf(y, t) : w.val <= v
  <2>1. PICK t \in Tags : \E v \in ValuesOf(x, t) : w.val <= v
    BY <1>8 DEF KeepsNewest
  <2>2. PICK v \in ValuesOf(x, t) : w.val <= v
    BY <2>1
  <2>3. CASE v \in ValuesOf(y, t)
    BY <2>2, <2>3
  <2>4. CASE t = u.dstTag /\ v = x.seen[t]
    <3>1. w.val <= u.val
      BY <1>2, <2>2, <2>4
    <3> QED BY <1>1, <1>6, <3>1
  <2> QED BY <1>5, <2>3, <2>4
<1> QED BY <1>7, <1>8 DEF KeepsNewest

LEMMA WriteSnapshotLemma ==
    ASSUME NEW x, NEW n \in Nat, SubOK(x, n), NEW u \in x.snapshot
    PROVE  LET y == [x EXCEPT !.snapshot = @ \ {u}, !.seen[u.dstTag] = u.val] IN
           /\ SubOK(y, n)
           /\ PendingOf(y) \cup {u} = PendingOf(x)
           /\ y.seen = [x.seen EXCEPT ![u.dstTag] = u.val]
           /\ y.dropped = x.dropped
<1> SUFFICES ASSUME NEW y, y = [x EXCEPT !.snapshot = @ \ {u}, !.seen[u.dstTag] = u.val]
             PROVE  /\ SubOK(y, n)
                    /\ PendingOf(y) \cup {u} = PendingOf(x)
                    /\ y.seen = [x.seen EXCEPT ![u.dstTag] = u.val]
                    /\ y.dropped = x.dropped
  OBVIOUS
<1>1. /\ x \in SubRecords /\ u \in Updates /\ u \in PendingOf(x) /\ u.val \in 1..n
      /\ u.val \in 0..MaxSequence
  <2>1. x \in SubRecords /\ u \in Updates /\ u \in PendingOf(x)
    BY DEF SubOK, SubRecords, PendingOf
  <2>2. u.val \in Values /\ u.val \in 1..n
    BY <2>1 DEF SubOK, Updates
  <2> QED BY <2>1, <2>2, CoreAssumption DEF Values
<1>2. /\ y \in SubRecords
      /\ y.queue = x.queue /\ y.dropped = x.dropped /\ y.registered = x.registered
      /\ y.closed = x.closed
      /\ y.snapshot = x.snapshot \ {u}
      /\ y.seen = [x.seen EXCEPT ![u.dstTag] = u.val]
  BY <1>1 DEF SubRecords
<1>3. PendingOf(y) \cup {u} = PendingOf(x)
  BY <1>2 DEF PendingOf
<1>4. /\ x.queue \in Seq(Updates) /\ DOMAIN x.queue = 1..Len(x.queue)
      /\ \A a \in 1..Len(x.queue) : x.queue[a] \in Updates
      /\ PendingOf(x) \subseteq Updates
  BY <1>1, QueueDomain
<1>5. \A w \in PendingOf(y) : w.dstTag = u.dstTag => u.val < w.val
  <2> SUFFICES ASSUME NEW w \in PendingOf(y), w.dstTag = u.dstTag PROVE u.val < w.val
    OBVIOUS
  <2>1. CASE w \in y.snapshot
    BY <1>2, <2>1 DEF SubOK
  <2>2. CASE \E a \in 1..Len(x.queue) : w = x.queue[a]
    BY <2>2 DEF SubOK
  <2> QED BY <1>2, <1>4, <2>1, <2>2 DEF PendingOf
<1>6. \A w \in PendingOf(y) : w.val \in 1..n /\ y.seen[w.dstTag] < w.val
  <2> SUFFICES ASSUME NEW w \in PendingOf(y) PROVE w.val \in 1..n /\ y.seen[w.dstTag] < w.val
    OBVIOUS
  <2>1. w \in PendingOf(x) /\ w.dstTag \in Tags /\ u.dstTag \in Tags
    BY <1>1, <1>3, <1>4 DEF Updates
  <2>2. x.seen \in [Tags -> 0..MaxSequence]
    BY <1>1 DEF SubRecords
  <2> QED BY <1>2, <1>5, <2>1, <2>2 DEF SubOK
<1>7. \A t \in Tags : y.seen[t] <= n
  <2>1. x.seen \in [Tags -> 0..MaxSequence] /\ u.val <= n
    BY <1>1 DEF SubRecords
  <2> QED BY <1>2, <2>1 DEF SubOK
<1>8. QueueOrdered(y)
  BY <1>2 DEF SubOK, QueueOrdered
<1> QED BY <1>2, <1>3, <1>6, <1>7, <1>8 DEF SubOK

LEMMA DeliverLemma ==
    ASSUME NEW x, NEW n \in Nat, SubOK(x, n), x.snapshot = {}, x.queue # <<>>
    PROVE  LET u == Head(x.queue)
               y == [x EXCEPT !.queue = Tail(@), !.seen[u.dstTag] = u.val] IN
           /\ u \in PendingOf(x)
           /\ SubOK(y, n)
           /\ PendingOf(y) \cup {u} = PendingOf(x)
           /\ y.seen = [x.seen EXCEPT ![u.dstTag] = u.val]
           /\ y.dropped = x.dropped
<1> SUFFICES ASSUME NEW u, u = Head(x.queue),
                    NEW y, y = [x EXCEPT !.queue = Tail(@), !.seen[u.dstTag] = u.val]
             PROVE  /\ u \in PendingOf(x)
                    /\ SubOK(y, n)
                    /\ PendingOf(y) \cup {u} = PendingOf(x)
                    /\ y.seen = [x.seen EXCEPT ![u.dstTag] = u.val]
                    /\ y.dropped = x.dropped
  OBVIOUS
<1> DEFINE q == x.queue
           t == Tail(q)
<1>1. /\ x \in SubRecords
      /\ q \in Seq(Updates) /\ DOMAIN q = 1..Len(q) /\ Len(q) \in Nat
      /\ \A a \in 1..Len(q) : q[a] \in Updates
      /\ PendingOf(x) \subseteq Updates
  <2>1. x \in SubRecords
    BY DEF SubOK
  <2> QED BY <2>1, QueueDomain
<1>2. /\ t \in Seq(Updates) /\ Len(t) = Len(q) - 1
      /\ \A a \in 1..Len(t) : t[a] = q[a + 1]
  BY <1>1, HeadTailProperties
<1>3. Len(q) # 0
  BY <1>1, EmptySeq
<1>4. u = q[1] /\ 1 \in 1..Len(q)
  BY <1>1, <1>3
<1>5. u \in PendingOf(x) /\ u \in Updates /\ u.val \in 1..n /\ u.val \in 0..MaxSequence
  <2>1. u \in PendingOf(x) /\ u \in Updates
    BY <1>1, <1>4 DEF PendingOf
  <2>2. u.val \in Values /\ u.val \in 1..n
    BY <2>1 DEF SubOK, Updates
  <2> QED BY <2>1, <2>2, CoreAssumption DEF Values
<1> HIDE DEF t
<1>6. y = [x EXCEPT !.queue = t, !.seen[u.dstTag] = u.val]
  BY DEF t
<1>7. /\ y \in SubRecords
      /\ y.queue = t /\ y.dropped = x.dropped /\ y.registered = x.registered
      /\ y.closed = x.closed /\ y.snapshot = {}
      /\ y.seen = [x.seen EXCEPT ![u.dstTag] = u.val]
  <2> DEFINE g == [x.seen EXCEPT ![u.dstTag] = u.val]
  <2>1. g \in [Tags -> 0..MaxSequence]
    BY <1>1, <1>5 DEF SubRecords
  <2>2. y = [x EXCEPT !.queue = t, !.seen = g]
    BY <1>6
  <2> HIDE DEF g
  <2>3. /\ y \in SubRecords /\ y.queue = t /\ y.seen = g /\ y.dropped = x.dropped
        /\ y.registered = x.registered /\ y.closed = x.closed /\ y.snapshot = x.snapshot
    BY <1>1, <1>2, <2>1, <2>2 DEF SubRecords
  <2> QED BY <2>3 DEF g
<1>8. PendingOf(y) = {t[a] : a \in 1..Len(t)} /\ PendingOf(x) = {q[a] : a \in 1..Len(q)}
  BY <1>1, <1>2, <1>7, LenProperties DEF PendingOf
<1>9. \A a \in 1..Len(t) : a + 1 \in 1..Len(q) /\ 1 < a + 1
  BY <1>1, <1>2
<1>10. PendingOf(y) \cup {u} = PendingOf(x)
  <2>1. \A a \in 1..Len(q) : a = 1 \/ (a - 1 \in 1..Len(t) /\ a - 1 + 1 = a)
    BY <1>1, <1>2
  <2>2. \A a \in 1..Len(q) : q[a] = u \/ \E b \in 1..Len(t) : q[a] = t[b]
    BY <1>2, <1>4, <2>1
  <2>3. \A w \in PendingOf(y) : w \in PendingOf(x)
    BY <1>2, <1>8, <1>9
  <2>4. \A w \in PendingOf(x) : w = u \/ w \in PendingOf(y)
    BY <1>8, <2>2
  <2> QED BY <1>5, <2>3, <2>4
<1>11. \A w \in PendingOf(y) : w.dstTag = u.dstTag => u.val < w.val
  <2> SUFFICES ASSUME NEW w \in PendingOf(y), w.dstTag = u.dstTag PROVE u.val < w.val
    OBVIOUS
  <2>1. PICK a \in 1..Len(t) : w = q[a + 1]
    BY <1>2, <1>8
  <2>2. a + 1 \in 1..Len(q) /\ 1 < a + 1
    BY <1>9
  <2> QED BY <1>4, <2>1, <2>2 DEF SubOK, QueueOrdered
<1>12. \A w \in PendingOf(y) : w.val \in 1..n /\ y.seen[w.dstTag] < w.val
  <2> SUFFICES ASSUME NEW w \in PendingOf(y) PROVE w.val \in 1..n /\ y.seen[w.dstTag] < w.val
    OBVIOUS
  <2>1. w \in PendingOf(x) /\ w.dstTag \in Tags /\ u.dstTag \in Tags
    BY <1>1, <1>5, <1>10 DEF Updates
  <2>2. x.seen \in [Tags -> 0..MaxSequence]
    BY <1>1 DEF SubRecords
  <2> QED BY <1>7, <1>11, <2>1, <2>2 DEF SubOK
<1>13. \A g \in Tags : y.seen[g] <= n
  <2>1. x.seen \in [Tags -> 0..MaxSequence] /\ u.val <= n
    BY <1>1, <1>5 DEF SubRecords
  <2> QED BY <1>7, <2>1 DEF SubOK
<1>14. QueueOrdered(y)
  <2>1. y.queue = t
    BY <1>7
  <2>2. ASSUME NEW a \in 1..Len(y.queue), NEW b \in 1..Len(y.queue), a < b,
               y.queue[a].dstTag = y.queue[b].dstTag
        PROVE  y.queue[a].val < y.queue[b].val
    <3>1. a + 1 < b + 1 /\ t[a] = q[a + 1] /\ t[b] = q[b + 1]
      BY <1>2, <2>1, <2>2
    <3> QED BY <1>9, <2>1, <2>2, <3>1 DEF SubOK, QueueOrdered
  <2> QED BY <2>2 DEF QueueOrdered
<1>15. Len(y.queue) <= QueueCap
  BY <1>1, <1>2, <1>7, BusAssumption DEF SubOK
<1> QED BY <1>5, <1>7, <1>10, <1>12, <1>13, <1>14, <1>15 DEF SubOK

\* The latest values of a subscription, one for a tag.
LEMMA LatestForLemma ==
    ASSUME StoreInv, LatestIsTarget, NEW id \in {0} \cup ConnIds, NEW filter
    PROVE  /\ \A u \in LatestFor(id, filter) :
                 /\ u \in Updates /\ u.dstId = id /\ u.dstTag \in Tags
                 /\ filter = {} \/ u.dstTag \in filter
                 /\ id \in ConnIds /\ u = latestByDst[<<id, u.dstTag>>]
                 /\ u.val \in 1..sourceSequence
           /\ \A u, v \in LatestFor(id, filter) : u.dstTag = v.dstTag => u = v
<1>1. ASSUME NEW u \in LatestFor(id, filter)
      PROVE  /\ u \in Updates /\ u.dstId = id /\ u.dstTag \in Tags
             /\ filter = {} \/ u.dstTag \in filter
             /\ id \in ConnIds /\ u = latestByDst[<<id, u.dstTag>>]
             /\ u.val \in 1..sourceSequence
  <2>1. PICK p \in Points : /\ p[1] = id /\ latestByDst[p] # NoUpdate
                            /\ filter = {} \/ p[2] \in filter
                            /\ u = latestByDst[p]
    BY DEF LatestFor
  <2>2. u \in Updates
    BY <2>1 DEF StoreInv, CoreInv, CoreTypeOK
  <2>3. p = <<p[1], p[2]>> /\ p[1] \in ConnIds /\ p[2] \in Tags
    BY DEF Points
  <2> QED BY <2>1, <2>2, <2>3 DEF LatestIsTarget
<1> QED BY <1>1

LEMMA SubscribeLemma ==
    ASSUME StoreInv, LatestIsTarget, NEW id \in ConnIds, NEW filter \in Filters, NEW b \in BOOLEAN,
           NEW y,
           y = [phase |-> "writing", registered |-> TRUE, closed |-> FALSE, cancelled |-> FALSE,
                id |-> id, filter |-> filter, wantsSnapshot |-> b,
                snapshot |-> IF b THEN LatestFor(id, filter) ELSE {},
                queue |-> <<>>, dropped |-> 0, seen |-> [t \in Tags |-> 0]]
    PROVE  /\ SubOK(y, sourceSequence)
           /\ MissesNothing(y, LatestFor(y.id, y.filter))
           /\ KeepsNewest(y, LatestFor(y.id, y.filter))
<1> DEFINE us == LatestFor(id, filter)
           n  == sourceSequence
<1>1. /\ \A u \in us : u \in Updates /\ u.dstTag \in Tags /\ u.val \in 1..n
      /\ \A u, v \in us : u.dstTag = v.dstTag => u = v
      /\ n \in Nat
  <2>1. id \in {0} \cup ConnIds
    OBVIOUS
  <2>2. n \in Nat
    BY CoreAssumption DEF StoreInv, CoreInv, CoreTypeOK
  <2> QED BY <2>1, <2>2, LatestForLemma
<1> HIDE DEF us
<1>2. /\ y \in SubRecords
      /\ y.queue = <<>> /\ y.closed = FALSE /\ y.wantsSnapshot = b
      /\ y.id = id /\ y.filter = filter
      /\ y.snapshot = IF b THEN us ELSE {}
      /\ y.seen = [t \in Tags |-> 0]
  <2> DEFINE snap == IF b THEN us ELSE {}
             g == [t \in Tags |-> 0]
  <2>1. snap \in SUBSET Updates /\ <<>> \in Seq(Updates)
    BY <1>1, EmptySeq
  <2>2. g \in [Tags -> 0..MaxSequence]
    BY CoreAssumption
  <2>3. y = [phase |-> "writing", registered |-> TRUE, closed |-> FALSE, cancelled |-> FALSE,
             id |-> id, filter |-> filter, wantsSnapshot |-> b,
             snapshot |-> snap, queue |-> <<>>, dropped |-> 0, seen |-> g]
    BY DEF us
  <2> HIDE DEF snap, g
  <2>4. /\ y \in SubRecords
        /\ y.queue = <<>> /\ y.closed = FALSE /\ y.wantsSnapshot = b
        /\ y.id = id /\ y.filter = filter /\ y.snapshot = snap /\ y.seen = g
    <3>1. /\ y.queue = <<>> /\ y.closed = FALSE /\ y.wantsSnapshot = b
          /\ y.id = id /\ y.filter = filter /\ y.snapshot = snap /\ y.seen = g
      BY <2>3
    <3>2. id \in {0} \cup ConnIds /\ filter \in Filters \cup {{}} /\ 0 \in Nat
      OBVIOUS
    <3>3. y \in SubRecords
      BY <2>1, <2>2, <2>3, <3>2 DEF SubRecords
    <3> QED BY <3>1, <3>3
  <2> QED BY <2>4 DEF snap, g
<1>3. Len(y.queue) = 0 /\ PendingOf(y) = y.snapshot
  <2>1. DOMAIN y.queue = 1..Len(y.queue) /\ Len(y.queue) = 0
    BY <1>2, QueueDomain
  <2> QED BY <2>1 DEF PendingOf
<1>4. SubOK(y, n)
  <2>1. \A u \in y.snapshot : u \in us
    BY <1>2
  <2>2. \A u \in PendingOf(y) : u.val \in 1..n /\ y.seen[u.dstTag] < u.val
    BY <1>1, <1>2, <1>3, <2>1
  <2>3. \A t \in Tags : y.seen[t] <= n
    BY <1>1, <1>2
  <2>4. /\ \A u, v \in y.snapshot : u.dstTag = v.dstTag => u = v
        /\ \A a \in 1..Len(y.queue) : FALSE
        /\ Len(y.queue) <= QueueCap
    BY <1>1, <1>3, <2>1, BusAssumption
  <2> HIDE DEF n
  <2> QED BY <1>2, <2>2, <2>3, <2>4 DEF SubOK, QueueOrdered
<1>5. CASE b
  <2>1. ASSUME NEW u \in us
        PROVE  u.val \in ValuesOf(y, u.dstTag) /\ \A v \in ValuesOf(y, u.dstTag) : v <= u.val
    <3>1. ValuesOf(y, u.dstTag) = {0, u.val}
      <4>1. y.seen[u.dstTag] = 0 /\ PendingOf(y) = us
        BY <1>1, <1>2, <1>3, <1>5
      <4>2. {v \in us : v.dstTag = u.dstTag} = {u}
        BY <1>1
      <4> QED BY <4>1, <4>2 DEF ValuesOf
    <3>2. u.val \in 1..n
      BY <1>1
    <3>3. 0 <= u.val /\ u.val <= u.val
      BY <1>1, <3>2
    <3> QED BY <3>1, <3>3
  <2>2. \A u \in us : u.val <= u.val
    BY <1>1
  <2> QED BY <1>1, <1>2, <1>4, <2>1, <2>2 DEF MissesNothing, KeepsNewest, us
<1>6. CASE ~b
  BY <1>2, <1>4, <1>6 DEF MissesNothing, KeepsNewest
<1> QED BY <1>5, <1>6

-----------------------------------------------------------------------------
(* A publication, for one subscriber.                                      *)

LEMMA UpdateSeqsLemma ==
    ASSUME StoreInv, NEW points \in PublishRequests, Publishable(points),
           NEW us \in UpdateSeqs(AllRoutedUpdates(points))
    PROVE  /\ InOrderAfter(us, sourceSequence)
           /\ \A i \in 1..Len(us) : us[i] \in AllRoutedUpdates(points)
           /\ \A u \in AllRoutedUpdates(points) : \E i \in 1..Len(us) : us[i] = u
<1> DEFINE all == AllRoutedUpdates(points)
           c   == Cardinality(all)
<1>1. /\ all \subseteq Updates
      /\ \A u \in all : u.val \in (sourceSequence + 1)..(sourceSequence + Len(points))
      /\ \A u, v \in all : u.val = v.val /\ u.dstId = v.dstId /\ u.dstTag = v.dstTag => u = v
  BY RoutedUpdatesLemma
<1>2. c \in Nat
  BY <1>1, BusAssumption, FS_Subset, FS_CardinalityType
<1>3. /\ us \in [1..c -> all]
      /\ \A u \in all : \E i \in DOMAIN us : us[i] = u
      /\ \A i, j \in DOMAIN us : i < j => us[i] # us[j] /\ us[i].val <= us[j].val
  BY DEF UpdateSeqs
<1> HIDE DEF c, all
<1>4. us \in Seq(Updates)
  <2>1. us \in [1..c -> Updates]
    BY <1>1, <1>3
  <2> QED BY <1>2, <2>1, SeqDef
<1>5. DOMAIN us = 1..Len(us) /\ DOMAIN us = 1..c /\ Len(us) \in Nat
  BY <1>3, <1>4, LenProperties
<1>6. \A i \in 1..Len(us) : us[i] \in all
  BY <1>3, <1>5
<1>7. sourceSequence \in Nat /\ Len(points) \in Nat
  BY BusAssumption, CoreAssumption, LenProperties DEF StoreInv, CoreInv, CoreTypeOK
<1>8. \A i \in 1..Len(us) : us[i].val \in Nat /\ sourceSequence < us[i].val
  BY <1>1, <1>6, <1>7
<1>9. ASSUME NEW i \in 1..Len(us), NEW j \in 1..Len(us), i < j
      PROVE  /\ us[i].val <= us[j].val
             /\ us[i].dstId = us[j].dstId /\ us[i].dstTag = us[j].dstTag => us[i].val < us[j].val
  <2>1. us[i] # us[j] /\ us[i].val <= us[j].val /\ us[i] \in all /\ us[j] \in all
    BY <1>3, <1>5, <1>6, <1>9
  <2>2. us[i].val \in Nat /\ us[j].val \in Nat
    BY <1>8
  <2> QED BY <1>1, <2>1, <2>2
<1> QED BY <1>3, <1>4, <1>5, <1>6, <1>8, <1>9 DEF InOrderAfter, all

\* The order and the bounds of what a subscriber has to write, after a call.
LEMMA OfferedOK ==
    ASSUME NEW x, NEW n \in Nat, NEW m \in Nat, n <= m, SubOK(x, n), NEW us, InOrderAfter(us, n),
           \A i \in 1..Len(us) : us[i].val <= m, NEW y, y = Offered(x, us)
    PROVE  SubOK(y, m) /\ OfferedUpTo(x, us, Len(us), y)
<1>1. x \in SubRecords /\ us \in Seq(Updates) /\ Len(us) \in Nat
  BY LenProperties DEF SubOK, InOrderAfter
<1>2. /\ DOMAIN x.queue = 1..Len(x.queue)
      /\ \A b \in 1..Len(x.queue) : x.queue[b] \in PendingOf(x)
      /\ PendingOf(x) \subseteq Updates
  <2>1. DOMAIN x.queue = 1..Len(x.queue) /\ PendingOf(x) \subseteq Updates
    BY <1>1, QueueDomain
  <2> QED BY <2>1 DEF PendingOf
<1>3. \A b \in 1..Len(x.queue) : x.queue[b].val \in Nat /\ x.queue[b].val <= n
  BY <1>2 DEF SubOK
<1>4. OfferedUpTo(x, us, Len(us), y)
  BY <1>1, <1>3, OfferedLemma DEF SubOK
<1>5. /\ y \in SubRecords /\ SameButQueue(x, y) /\ Len(y.queue) <= QueueCap /\ QueueOrdered(y)
      /\ \A a \in 1..Len(y.queue) :
            \/ \E b \in 1..Len(x.queue) : y.queue[a] = x.queue[b]
            \/ \E j \in 1..Len(us) : y.queue[a] = us[j]
  BY <1>4 DEF OfferedUpTo
<1>6. DOMAIN y.queue = 1..Len(y.queue)
  BY <1>5, QueueDomain
<1>7. \A w \in PendingOf(y) : w \in PendingOf(x) \/ \E j \in 1..Len(us) : w = us[j]
  <2> SUFFICES ASSUME NEW w \in PendingOf(y)
               PROVE  w \in PendingOf(x) \/ \E j \in 1..Len(us) : w = us[j]
    OBVIOUS
  <2>1. y.snapshot = x.snapshot
    BY <1>5 DEF SameButQueue
  <2>2. CASE w \in y.snapshot
    BY <2>1, <2>2 DEF PendingOf
  <2>3. CASE \E a \in 1..Len(y.queue) : w = y.queue[a]
    BY <1>2, <1>5, <2>3
  <2> QED BY <1>6, <2>2, <2>3 DEF PendingOf
<1>8. /\ \A t \in Tags : x.seen[t] \in Nat /\ x.seen[t] <= n
      /\ y.seen = x.seen
  <2>1. x.seen \in [Tags -> 0..MaxSequence]
    BY <1>1 DEF SubRecords
  <2> QED BY <1>5, <2>1, CoreAssumption DEF SubOK, SameButQueue
<1>9. \A w \in PendingOf(y) : w.val \in 1..m /\ y.seen[w.dstTag] < w.val
  <2> SUFFICES ASSUME NEW w \in PendingOf(y) PROVE w.val \in 1..m /\ y.seen[w.dstTag] < w.val
    OBVIOUS
  <2>1. CASE w \in PendingOf(x)
    BY <1>8, <2>1 DEF SubOK
  <2>2. CASE \E j \in 1..Len(us) : w = us[j]
    <3>1. PICK j \in 1..Len(us) : w = us[j]
      BY <2>2
    <3>2. w \in Updates /\ w.dstTag \in Tags
      <4>1. us[j] \in Updates
        BY <1>1, ElementOfSeq
      <4> QED BY <3>1, <4>1 DEF Updates
    <3>3. w.val \in Nat /\ n < w.val /\ w.val <= m
      BY <3>1 DEF InOrderAfter
    <3> QED BY <1>8, <3>2, <3>3
  <2> QED BY <1>7, <2>1, <2>2
<1>10. ASSUME NEW u \in y.snapshot, NEW a \in 1..Len(y.queue), u.dstTag = y.queue[a].dstTag
       PROVE  u.val < y.queue[a].val
  <2>1. u \in x.snapshot /\ u.val \in 1..n
    BY <1>5 DEF SubOK, PendingOf, SameButQueue
  <2>2. CASE \E b \in 1..Len(x.queue) : y.queue[a] = x.queue[b]
    BY <1>10, <2>1, <2>2 DEF SubOK
  <2>3. CASE \E j \in 1..Len(us) : y.queue[a] = us[j]
    BY <2>1, <2>3 DEF InOrderAfter
  <2> QED BY <1>5, <2>2, <2>3
<1>11. \A t \in Tags : y.seen[t] <= m
  BY <1>8
<1>12. y.registered => ~y.closed
  BY <1>5 DEF SubOK, SameButQueue
<1>13. \A u, v \in y.snapshot : u.dstTag = v.dstTag => u = v
  BY <1>5 DEF SubOK, SameButQueue
<1> QED BY <1>4, <1>5, <1>9, <1>10, <1>11, <1>12, <1>13 DEF SubOK

\* A registration sees every later publication, and no drop loses the newest.
LEMMA OfferedCoverage ==
    ASSUME StoreInv, LatestIsTarget, NEW points \in PublishRequests, PublishPoints(points),
           NEW us \in UpdateSeqs(AllRoutedUpdates(points)),
           NEW x, SubOK(x, sourceSequence),
           MissesNothing(x, LatestFor(x.id, x.filter)), KeepsNewest(x, LatestFor(x.id, x.filter)),
           NEW y, OfferedUpTo(x, us, Len(us), y)
    PROVE  /\ MissesNothing(y, LatestFor(y.id, y.filter)')
           /\ KeepsNewest(y, LatestFor(y.id, y.filter)')
<1> DEFINE n   == sourceSequence
           all == AllRoutedUpdates(points)
<1>1. /\ InOrderAfter(us, n)
      /\ \A i \in 1..Len(us) : us[i] \in all
      /\ \A u \in all : \E i \in 1..Len(us) : us[i] = u
  BY UpdateSeqsLemma DEF PublishPoints
<1>2. n \in Nat
  BY CoreAssumption DEF StoreInv, CoreInv, CoreTypeOK
<1>3. /\ x \in SubRecords /\ y \in SubRecords /\ SameButQueue(x, y)
      /\ x.dropped \in Nat /\ y.dropped \in Nat /\ x.dropped <= y.dropped
  BY DEF OfferedUpTo, SubOK, SubRecords
<1>4. /\ DOMAIN x.queue = 1..Len(x.queue) /\ DOMAIN y.queue = 1..Len(y.queue)
      /\ PendingOf(x) \subseteq Updates
      /\ \A a \in 1..Len(y.queue) : y.queue[a] \in Updates
  BY <1>3, QueueDomain
<1>5. ASSUME NEW t \in Tags, NEW v \in ValuesOf(x, t)
      PROVE  v \in Nat /\ v <= n
  <2>1. CASE v = x.seen[t]
    <3>1. x.seen \in [Tags -> 0..MaxSequence]
      BY <1>3 DEF SubRecords
    <3> QED BY <2>1, <3>1, CoreAssumption DEF SubOK
  <2>2. CASE \E w \in PendingOf(x) : v = w.val
    BY <1>2, <2>2 DEF SubOK
  <2> QED BY <2>1, <2>2 DEF ValuesOf
<1>6. ASSUME NEW t \in Tags, NEW v \in ValuesOf(y, t)
      PROVE  \/ v \in ValuesOf(x, t)
             \/ \E j \in 1..Len(us) : Matches(x, us[j]) /\ us[j].dstTag = t /\ v = us[j].val
  <2>1. CASE v = y.seen[t]
    BY <1>3, <2>1 DEF ValuesOf, SameButQueue
  <2>2. CASE \E w \in y.snapshot : w.dstTag = t /\ v = w.val
    BY <1>3, <2>2 DEF ValuesOf, SameButQueue, PendingOf
  <2>3. CASE \E a \in 1..Len(y.queue) : y.queue[a].dstTag = t /\ v = y.queue[a].val
    <3>1. PICK a \in 1..Len(y.queue) : y.queue[a].dstTag = t /\ v = y.queue[a].val
      BY <2>3
    <3>2. CASE \E b \in 1..Len(x.queue) : y.queue[a] = x.queue[b]
      BY <1>4, <3>1, <3>2 DEF ValuesOf, PendingOf
    <3>3. CASE \E j \in 1..Len(us) : Matches(x, us[j]) /\ y.queue[a] = us[j]
      BY <3>1, <3>3
    <3> QED BY <3>2, <3>3 DEF OfferedUpTo
  <2> QED BY <1>4, <2>1, <2>2, <2>3 DEF ValuesOf, PendingOf
<1>7. \A a \in 1..Len(y.queue) : /\ y.queue[a].dstTag \in Tags
                                 /\ y.queue[a].val \in ValuesOf(y, y.queue[a].dstTag)
  BY <1>4 DEF ValuesOf, PendingOf, Updates
<1>8. ASSUME y.dropped = x.dropped, NEW t \in Tags PROVE ValuesOf(x, t) \subseteq ValuesOf(y, t)
  <2> SUFFICES ASSUME NEW v \in ValuesOf(x, t) PROVE v \in ValuesOf(y, t)
    OBVIOUS
  <2>1. CASE v = x.seen[t]
    BY <1>3, <2>1 DEF ValuesOf, SameButQueue
  <2>2. CASE \E w \in x.snapshot : w.dstTag = t /\ v = w.val
    BY <1>3, <2>2 DEF ValuesOf, SameButQueue, PendingOf
  <2>3. CASE \E b \in 1..Len(x.queue) : x.queue[b].dstTag = t /\ v = x.queue[b].val
    <3>1. PICK b \in 1..Len(x.queue) : x.queue[b].dstTag = t /\ v = x.queue[b].val
      BY <2>3
    <3>2. PICK a \in 1..Len(y.queue) : y.queue[a] = x.queue[b]
      BY <1>8 DEF OfferedUpTo
    <3> QED BY <1>7, <3>1, <3>2
  <2> QED BY <1>4, <2>1, <2>2, <2>3 DEF ValuesOf, PendingOf
<1>9. ASSUME x.registered, NEW w \in LatestFor(y.id, y.filter)'
      PROVE  /\ w.dstTag \in Tags
             /\ \/ /\ w \in LatestFor(x.id, x.filter)
                   /\ \A j \in 1..Len(us) : ~(us[j].dstId = x.id /\ us[j].dstTag = w.dstTag)
                \/ \E k \in 1..Len(us) :
                      /\ Matches(x, us[k]) /\ w = us[k]
                      /\ \A j \in 1..Len(us) :
                            us[j].dstId = x.id /\ us[j].dstTag = w.dstTag => us[j].val <= w.val
  <2>1. PICK p \in Points : /\ p[1] = x.id /\ latestByDst'[p] # NoUpdate
                            /\ x.filter = {} \/ p[2] \in x.filter
                            /\ w = latestByDst'[p]
    BY <1>3 DEF LatestFor, SameButQueue
  <2>2. w = LastFor(p, all)
    BY <2>1 DEF PublishPoints
  <2>3. p = <<p[1], p[2]>> /\ p[2] \in Tags
    BY DEF Points
  <2>4. CASE w = latestByDst[p] /\ \A v \in all : <<v.dstId, v.dstTag>> # p
    <3>1. w.dstTag = p[2] /\ w \in LatestFor(x.id, x.filter)
      BY <2>1, <2>4 DEF LatestIsTarget, LatestFor
    <3>2. \A j \in 1..Len(us) : <<us[j].dstId, us[j].dstTag>> # p
      BY <1>1, <2>4
    <3> QED BY <2>1, <2>3, <3>1, <3>2
  <2>5. CASE /\ w \in all /\ w.dstId = p[1] /\ w.dstTag = p[2]
             /\ \A v \in all : <<v.dstId, v.dstTag>> = p => v.val <= w.val
    <3>1. PICK k \in 1..Len(us) : us[k] = w
      BY <1>1, <2>5
    <3>2. Matches(x, us[k])
      BY <1>9, <2>1, <2>5, <3>1 DEF Matches, Passes
    <3>3. \A j \in 1..Len(us) : us[j].dstId = x.id /\ us[j].dstTag = w.dstTag => us[j].val <= w.val
      BY <1>1, <2>1, <2>3, <2>5
    <3> QED BY <2>3, <2>5, <3>1, <3>2, <3>3
  <2> QED BY <2>2, <2>4, <2>5, LastForLemma DEF PublishPoints
<1>10. ASSUME y.registered, y.wantsSnapshot, y.dropped = 0, NEW w \in LatestFor(y.id, y.filter)'
       PROVE  /\ w.val \in ValuesOf(y, w.dstTag)
              /\ \A v \in ValuesOf(y, w.dstTag) : v <= w.val
  <2>1. x.registered /\ x.wantsSnapshot /\ x.dropped = 0 /\ y.dropped = x.dropped
    BY <1>3, <1>10 DEF SameButQueue
  <2>2. w.dstTag \in Tags
    BY <1>9, <2>1
  <2>3. CASE /\ w \in LatestFor(x.id, x.filter)
             /\ \A j \in 1..Len(us) : ~(us[j].dstId = x.id /\ us[j].dstTag = w.dstTag)
    <3>1. /\ w.val \in ValuesOf(x, w.dstTag)
          /\ \A v \in ValuesOf(x, w.dstTag) : v <= w.val
      BY <2>1, <2>3 DEF MissesNothing
    <3>2. \A v \in ValuesOf(y, w.dstTag) : v \in ValuesOf(x, w.dstTag)
      BY <1>6, <2>2, <2>3 DEF Matches
    <3> QED BY <1>8, <2>1, <2>2, <3>1, <3>2
  <2>4. CASE \E k \in 1..Len(us) :
                /\ Matches(x, us[k]) /\ w = us[k]
                /\ \A j \in 1..Len(us) :
                      us[j].dstId = x.id /\ us[j].dstTag = w.dstTag => us[j].val <= w.val
    <3>1. PICK k \in 1..Len(us) :
                /\ Matches(x, us[k]) /\ w = us[k]
                /\ \A j \in 1..Len(us) :
                      us[j].dstId = x.id /\ us[j].dstTag = w.dstTag => us[j].val <= w.val
      BY <2>4
    <3>2. PICK a \in 1..Len(y.queue) : y.queue[a] = us[k]
      BY <2>1, <3>1 DEF OfferedUpTo
    <3>3. w.val \in ValuesOf(y, w.dstTag)
      BY <1>7, <3>1, <3>2
    <3>4. w.val \in Nat /\ n < w.val
      BY <1>1, <3>1 DEF InOrderAfter
    <3>5. \A v \in ValuesOf(y, w.dstTag) : v <= w.val
      <4> SUFFICES ASSUME NEW v \in ValuesOf(y, w.dstTag) PROVE v <= w.val
        OBVIOUS
      <4>1. CASE v \in ValuesOf(x, w.dstTag)
        <5>1. v \in Nat /\ v <= n
          BY <1>5, <2>2, <4>1
        <5> QED BY <1>2, <3>4, <5>1
      <4>2. CASE \E j \in 1..Len(us) :
                    Matches(x, us[j]) /\ us[j].dstTag = w.dstTag /\ v = us[j].val
        BY <3>1, <4>2 DEF Matches
      <4> QED BY <1>6, <2>2, <4>1, <4>2
    <3> QED BY <3>3, <3>5
  <2> QED BY <1>9, <2>1, <2>3, <2>4
<1>11. ASSUME y.registered, y.wantsSnapshot, NEW w \in LatestFor(y.id, y.filter)'
       PROVE  \E t \in Tags : \E v \in ValuesOf(y, t) : w.val <= v
  <2>1. x.registered /\ x.wantsSnapshot
    BY <1>3, <1>11 DEF SameButQueue
  <2>2. CASE w \in LatestFor(x.id, x.filter)
    <3>1. PICK t \in Tags : \E v \in ValuesOf(x, t) : w.val <= v
      BY <2>1, <2>2 DEF KeepsNewest
    <3>2. PICK v \in ValuesOf(x, t) : w.val <= v
      BY <3>1
    <3>3. CASE \E j \in 1..Len(us) : Matches(x, us[j])
      <4>1. PICK j \in 1..Len(us) : Matches(x, us[j])
        BY <3>3
      <4>2. PICK a \in 1..Len(y.queue) : us[j].val <= y.queue[a].val
        BY <4>1 DEF OfferedUpTo
      <4>3. us[j].val \in Nat /\ n < us[j].val
        BY <1>1 DEF InOrderAfter
      <4>4. v \in Nat /\ v <= n
        BY <1>5, <3>2
      <4>5. w.val \in Nat
        <5>1. x.id \in {0} \cup ConnIds
          BY <1>3 DEF SubRecords
        <5>2. \A u \in LatestFor(x.id, x.filter) : u.val \in 1..sourceSequence
          BY <5>1, LatestForLemma
        <5> QED BY <1>2, <2>2, <5>2
      <4>6. y.queue[a].val \in Nat
        <5>1. y.queue[a].val \in ValuesOf(y, y.queue[a].dstTag) /\ y.queue[a].dstTag \in Tags
          BY <1>7
        <5>2. CASE y.queue[a].val \in ValuesOf(x, y.queue[a].dstTag)
          BY <1>5, <5>1, <5>2
        <5>3. CASE \E i \in 1..Len(us) : y.queue[a].val = us[i].val
          BY <1>1, <5>3 DEF InOrderAfter
        <5> QED BY <1>6, <5>1, <5>2, <5>3
      <4>7. w.val <= y.queue[a].val
        BY <1>2, <3>2, <4>2, <4>3, <4>4, <4>5, <4>6
      <4> QED BY <1>7, <4>7
    <3>4. CASE \A j \in 1..Len(us) : ~Matches(x, us[j])
      <4>1. y = x
        BY <3>4 DEF OfferedUpTo
      <4> QED BY <3>2, <4>1
    <3> QED BY <3>3, <3>4
  <2>3. CASE \E k \in 1..Len(us) : Matches(x, us[k]) /\ w = us[k]
    <3>1. PICK a \in 1..Len(y.queue) : w.val <= y.queue[a].val
      BY <2>3 DEF OfferedUpTo
    <3> QED BY <1>7, <3>1
  <2> QED BY <1>9, <2>1, <2>2, <2>3
<1> QED BY <1>10, <1>11 DEF MissesNothing, KeepsNewest

-----------------------------------------------------------------------------
(* The theorems of the specification.                                      *)

SubInv(sub) ==
    /\ SubOK(sub, sourceSequence)
    /\ MissesNothing(sub, LatestFor(sub.id, sub.filter))
    /\ KeepsNewest(sub, LatestFor(sub.id, sub.filter))

BusInv ==
    /\ StoreInv /\ LatestIsOfRegistered /\ LatestIsTarget
    /\ subs \in [Subs -> SubRecords]
    /\ \A s \in Subs : SubInv(subs[s])

LEMMA BusInitLemma == BusInit => BusInv
<1> SUFFICES ASSUME BusInit PROVE BusInv
  OBVIOUS
<1>1. StoreInv /\ sourceSequence = 0
  BY StoreInitLemma DEF BusInit, StoreInit, CoreInit
<1>2. LatestIsOfRegistered /\ LatestIsTarget
  BY DEF BusInit, StoreInit, CoreInit, LatestIsOfRegistered, LatestIsTarget
<1>3. SubInv(IdleSub)
  BY <1>1, IdleLemma DEF SubInv
<1>4. IdleSub \in SubRecords
  BY <1>3 DEF SubInv, SubOK
<1> QED BY <1>1, <1>2, <1>3, <1>4 DEF BusInv, BusInit

\* An edit of the configuration unregisters no id.
LEMMA EditKeepsIds ==
    ASSUME StoreInv, EditConfigRpc, NEW i \in ConnIds, connections[i] # NoKey
    PROVE  connections'[i] # NoKey
<1> USE CoreAssumption DEF StoreInv, CoreInv, CoreTypeOK
<1>1. ASSUME NEW id \in ConnIds, NEW old, NEW k \in Keys, MoveConnection(id, old, k)
      PROVE  connections'[i] # NoKey
  BY <1>1 DEF MoveConnection
<1>2. ASSUME NEW k \in Keys, GetOrCreateConnectionRpc(k) PROVE connections'[i] # NoKey
  BY <1>2 DEF GetOrCreateConnectionRpc, AllocateConnection, FreeIds, ConnIds, coreVars
<1>3. ASSUME NEW id \in ConnIds, NEW k \in Keys, UpsertConnectionRpc(id, k)
      PROVE  connections'[i] # NoKey
  BY <1>1, <1>3 DEF UpsertConnectionRpc, UpsertConnection, coreVars
<1>4. ASSUME NEW old \in Keys, NEW k \in Keys, RenameConnectionRpc(old, k)
      PROVE  connections'[i] # NoKey
  BY <1>1, <1>4 DEF RenameConnectionRpc, RenameConnection, Registered, coreVars
<1>5. ASSUME \/ \E id \in ConnIds, ts \in TagRequests, b \in BOOLEAN : UpsertConnTagsRpc(id, ts, b)
             \/ \E rs \in RouteRequests, b \in BOOLEAN : UpsertRoutesRpc(rs, b)
             \/ \E rs \in RouteRequests : DeleteRoutesRpc(rs)
      PROVE  connections' = connections
  BY <1>5 DEF UpsertConnTagsRpc, UpsertRoutesRpc, DeleteRoutesRpc, UpsertConnTags, UpsertRoutes,
        DeleteRoutes, registryVars
<1> QED BY <1>2, <1>3, <1>4, <1>5 DEF EditConfigRpc

\* A deletion takes every latest value that speaks of the connection.
LEMMA DeleteLatest ==
    ASSUME StoreInv, LatestIsOfRegistered, LatestIsTarget, NEW k \in Keys, DeleteConnectionRpc(k)
    PROVE  /\ LatestIsOfRegistered' /\ LatestIsTarget'
           /\ sourceSequence' = sourceSequence
           /\ \A p \in Points : latestByDst'[p] \in {NoUpdate, latestByDst[p]}
<1> DEFINE id == connIdsByKey[k]
<1>1. /\ connections' = [connections EXCEPT ![id] = NoKey]
      /\ latestByDst' = [p \in Points |->
             IF p[1] = id \/ Mentions(latestByDst[p], id) THEN NoUpdate ELSE latestByDst[p]]
      /\ latestBySrc' = [p \in Points |-> IF p[1] = id THEN 0 ELSE latestBySrc[p]]
      /\ sourceSequence' = sourceSequence
  BY DEF DeleteConnectionRpc, DeleteConnection
<1>2. connections \in [ConnIds -> Keys \cup {NoKey}]
  BY DEF StoreInv, CoreInv, CoreTypeOK
<1> HIDE DEF id
<1>3. \A i \in ConnIds : i # id => connections'[i] = connections[i]
  BY <1>1, <1>2
<1>4. \A p \in Points : p[1] \in ConnIds /\ (latestByDst[p] # NoUpdate => latestByDst[p].srcId \in ConnIds)
  BY DEF StoreInv, CoreInv, CoreTypeOK, Points, Updates
<1>5. LatestIsOfRegistered'
  <2>1. ASSUME NEW p \in Points, latestBySrc'[p] # 0 PROVE connections'[p[1]] # NoKey
    BY <1>1, <1>3, <1>4, <2>1 DEF LatestIsOfRegistered
  <2>2. ASSUME NEW p \in Points, latestByDst'[p] # NoUpdate
        PROVE  connections'[latestByDst'[p].srcId] # NoKey /\ connections'[p[1]] # NoKey
    <3>1. /\ latestByDst'[p] = latestByDst[p] /\ p[1] # id /\ latestByDst[p].srcId # id
      BY <1>1, <2>2 DEF Mentions
    <3> QED BY <1>3, <1>4, <2>2, <3>1 DEF LatestIsOfRegistered
  <2> QED BY <2>1, <2>2 DEF LatestIsOfRegistered
<1>6. LatestIsTarget'
  BY <1>1 DEF LatestIsTarget
<1> QED BY <1>1, <1>5, <1>6

\* Subscribers that stay as they are stay right when latest values are taken.
LEMMA SubKept ==
    ASSUME NEW sub, SubInv(sub), sourceSequence' = sourceSequence,
           \A p \in Points : latestByDst'[p] \in {NoUpdate, latestByDst[p]}
    PROVE  SubInv(sub)'
<1>1. LatestFor(sub.id, sub.filter)' \subseteq LatestFor(sub.id, sub.filter)
  BY DEF LatestFor
<1>2. MissesNothing(sub, LatestFor(sub.id, sub.filter)') /\ KeepsNewest(sub, LatestFor(sub.id, sub.filter)')
  BY <1>1 DEF SubInv, MissesNothing, KeepsNewest
<1> QED BY <1>2 DEF SubInv

\* A step of the configuration, with the subscribers it leaves or closes.
LEMMA ConfigStep ==
    ASSUME BusInv, (EditConfigRpc /\ UNCHANGED subs) \/ \E k \in Keys : DeleteConnectionBusRpc(k)
    PROVE  BusInv'
<1> USE DEF BusInv
<1>1. CASE EditConfigRpc /\ UNCHANGED subs
  <2>1. StoreInv' /\ latestByDst' = latestByDst /\ latestBySrc' = latestBySrc
        /\ sourceSequence' = sourceSequence
    BY <1>1, StoreStepLemma, EditLeavesLatest DEF StoreNext, latestVars
  <2>2. \A p \in Points : p[1] \in ConnIds /\ (latestByDst[p] # NoUpdate => latestByDst[p].srcId \in ConnIds)
    BY DEF StoreInv, CoreInv, CoreTypeOK, Points, Updates
  <2>3. LatestIsOfRegistered' /\ LatestIsTarget'
    BY <1>1, <2>1, <2>2, EditKeepsIds DEF LatestIsOfRegistered, LatestIsTarget
  <2>4. \A s \in Subs : SubInv(subs[s])'
    BY <1>1, <2>1 DEF SubInv, LatestFor
  <2> QED BY <1>1, <2>1, <2>3, <2>4
<1>2. ASSUME NEW k \in Keys, DeleteConnectionBusRpc(k) PROVE BusInv'
  <2>1. DeleteConnectionRpc(k)
        /\ subs' = [s \in Subs |->
             IF subs[s].registered /\ subs[s].id = connIdsByKey[k]
             THEN [subs[s] EXCEPT !.registered = FALSE, !.closed = TRUE] ELSE subs[s]]
    BY <1>2 DEF DeleteConnectionBusRpc
  <2>2. StoreInv'
    BY <2>1, StoreStepLemma DEF StoreNext
  <2>3. /\ LatestIsOfRegistered' /\ LatestIsTarget'
        /\ sourceSequence' = sourceSequence
        /\ \A p \in Points : latestByDst'[p] \in {NoUpdate, latestByDst[p]}
    BY <2>1, DeleteLatest
  <2>4. ASSUME NEW s \in Subs PROVE subs'[s] \in SubRecords /\ SubInv(subs[s])'
    <3>1. PICK x \in SubRecords : x = subs[s]
      OBVIOUS
    <3>2. SubInv(x) /\ SubInv(x)'
      BY <2>3, <3>1, SubKept
    <3>3. PICK y : y = subs'[s]
      OBVIOUS
    <3>4. y = x \/ y = [x EXCEPT !.registered = FALSE, !.closed = TRUE]
      BY <2>1, <3>1, <3>3
    <3>5. ASSUME y = [x EXCEPT !.registered = FALSE, !.closed = TRUE]
          PROVE  y \in SubRecords /\ SubInv(y)'
      <4>1. /\ y \in SubRecords /\ ~y.registered
            /\ y.snapshot = x.snapshot /\ y.queue = x.queue /\ y.seen = x.seen
        BY <3>1, <3>5 DEF SubRecords
      <4>2. SubOK(y, sourceSequence')
        BY <3>2, <4>1 DEF SubInv, SubOK, PendingOf, QueueOrdered
      <4>3. SubInv(y)'
        BY <4>1, <4>2 DEF SubInv, MissesNothing, KeepsNewest
      <4> QED BY <4>1, <4>3
    <3>6. y \in SubRecords /\ SubInv(y)'
      BY <3>2, <3>4, <3>5
    <3> QED BY <3>3, <3>6 DEF SubInv
  <2> QED BY <2>1, <2>2, <2>3, <2>4
<1> QED BY <1>1, <1>2

\* A step of one subscriber's handler or of its client.
LEMMA SubStep ==
    ASSUME BusInv, NEW s \in Subs, Serve(s) \/ ClientGone(s)
    PROVE  subs'[s] \in SubRecords /\ SubInv(subs'[s])
<1> DEFINE us == LatestFor(subs[s].id, subs[s].filter)
<1>1. PICK x \in SubRecords : x = subs[s]
  BY DEF BusInv
<1>2. /\ SubOK(x, sourceSequence)
      /\ MissesNothing(x, LatestFor(x.id, x.filter)) /\ KeepsNewest(x, LatestFor(x.id, x.filter))
  BY <1>1 DEF BusInv, SubInv
<1>3. sourceSequence \in Nat
  BY CoreAssumption DEF BusInv, StoreInv, CoreInv, CoreTypeOK
<1>4. \A w \in LatestFor(x.id, x.filter) : w.val \in Nat
  <2>1. x.id \in {0} \cup ConnIds
    BY DEF SubRecords
  <2>2. \A w \in LatestFor(x.id, x.filter) : w.val \in 1..sourceSequence
    BY <2>1, LatestForLemma DEF BusInv
  <2> QED BY <1>3, <2>2
<1>5. PICK y : y = subs'[s]
  OBVIOUS
<1>6. subs \in [Subs -> SubRecords]
  BY DEF BusInv
<1>7. CASE WriteSnapshot(s)
  <2>1. PICK u \in x.snapshot : y = [x EXCEPT !.snapshot = @ \ {u}, !.seen[u.dstTag] = u.val]
    BY <1>1, <1>5, <1>6, <1>7 DEF WriteSnapshot
  <2>2. /\ SubOK(y, sourceSequence)
        /\ PendingOf(y) \cup {u} = PendingOf(x)
        /\ y.seen = [x.seen EXCEPT ![u.dstTag] = u.val]
        /\ y.dropped = x.dropped
    BY <1>2, <1>3, <2>1, WriteSnapshotLemma
  <2>3. /\ y.registered = x.registered /\ y.wantsSnapshot = x.wantsSnapshot
        /\ y.id = x.id /\ y.filter = x.filter
    BY <2>1 DEF SubRecords
  <2>4. /\ MissesNothing(y, LatestFor(x.id, x.filter)) /\ KeepsNewest(y, LatestFor(x.id, x.filter))
    BY <1>2, <1>3, <1>4, <2>2, <2>3, WrittenLemma
  <2> QED BY <1>5, <2>2, <2>3, <2>4 DEF SubInv, SubOK
<1>8. CASE Deliver(s)
  <2>1. PICK u : u = Head(x.queue)
    OBVIOUS
  <2>2. /\ x.snapshot = {} /\ x.queue # <<>>
        /\ y = [x EXCEPT !.queue = Tail(@), !.seen[u.dstTag] = u.val]
    BY <1>1, <1>5, <1>6, <1>8, <2>1 DEF Deliver
  <2>3. /\ u \in PendingOf(x)
        /\ SubOK(y, sourceSequence)
        /\ PendingOf(y) \cup {u} = PendingOf(x)
        /\ y.seen = [x.seen EXCEPT ![u.dstTag] = u.val]
        /\ y.dropped = x.dropped
    BY <1>2, <1>3, <2>1, <2>2, DeliverLemma
  <2>4. /\ y.registered = x.registered /\ y.wantsSnapshot = x.wantsSnapshot
        /\ y.id = x.id /\ y.filter = x.filter
    BY <2>2 DEF SubRecords
  <2>5. /\ MissesNothing(y, LatestFor(x.id, x.filter)) /\ KeepsNewest(y, LatestFor(x.id, x.filter))
    BY <1>2, <1>3, <1>4, <2>3, <2>4, WrittenLemma
  <2> QED BY <1>5, <2>3, <2>4, <2>5 DEF SubInv, SubOK
<1>9. CASE RemoveSubscriber(s) \/ ClientGone(s)
  <2>1. /\ y \in SubRecords
        /\ y.queue = x.queue /\ y.snapshot = x.snapshot /\ y.seen = x.seen
        /\ y.id = x.id /\ y.filter = x.filter /\ y.closed = x.closed
        /\ y.wantsSnapshot = x.wantsSnapshot /\ y.dropped = x.dropped
        /\ y.registered => x.registered
    <3>1. CASE RemoveSubscriber(s)
      <4>1. y = [x EXCEPT !.phase = "ending", !.registered = FALSE]
        BY <1>1, <1>5, <1>6, <3>1 DEF RemoveSubscriber
      <4>2. y \in SubRecords
        BY <4>1 DEF SubRecords
      <4> QED BY <4>1, <4>2 DEF SubRecords
    <3>2. CASE ClientGone(s)
      <4>1. y = [x EXCEPT !.cancelled = TRUE]
        BY <1>1, <1>5, <1>6, <3>2 DEF ClientGone
      <4>2. y \in SubRecords
        BY <4>1 DEF SubRecords
      <4> QED BY <4>1, <4>2 DEF SubRecords
    <3> QED BY <1>9, <3>1, <3>2
  <2>2. PendingOf(y) = PendingOf(x) /\ \A t \in Tags : ValuesOf(y, t) = ValuesOf(x, t)
    BY <2>1 DEF ValuesOf, PendingOf
  <2>3. SubOK(y, sourceSequence)
    BY <1>2, <2>1, <2>2 DEF SubOK, QueueOrdered
  <2>4. MissesNothing(y, LatestFor(x.id, x.filter)) /\ KeepsNewest(y, LatestFor(x.id, x.filter))
    BY <1>2, <2>1, <2>2 DEF MissesNothing, KeepsNewest, ValuesOf
  <2> QED BY <1>5, <2>1, <2>3, <2>4 DEF SubInv
<1>10. CASE MarkClosed(s)
  <2>1. y = IdleSub
    BY <1>5, <1>6, <1>10 DEF MarkClosed
  <2> QED BY <1>3, <1>5, <2>1, IdleLemma DEF SubInv, SubOK
<1> QED BY <1>7, <1>8, <1>9, <1>10 DEF Serve

LEMMA BusStepLemma == BusInv /\ [BusNext]_busVars => BusInv'
<1> SUFFICES ASSUME BusInv, [BusNext]_busVars PROVE BusInv'
  OBVIOUS
<1> USE DEF BusInv
<1>0. sourceSequence \in Nat
  BY CoreAssumption DEF StoreInv, CoreInv, CoreTypeOK
<1>1. CASE (EditConfigRpc /\ UNCHANGED subs) \/ \E k \in Keys : DeleteConnectionBusRpc(k)
  BY <1>1, ConfigStep
<1>2. ASSUME UNCHANGED <<coreVars, storeVars>>, NEW s \in Subs,
             subs' = [subs EXCEPT ![s] = subs'[s]],
             subs'[s] \in SubRecords, SubInv(subs'[s])
      PROVE  BusInv'
  <2>1. StoreInv'
    BY <1>2, StoreStepLemma DEF storeAndCoreVars
  <2>2. LatestIsOfRegistered' /\ LatestIsTarget'
    BY <1>2 DEF coreVars, LatestIsOfRegistered, LatestIsTarget
  <2>3. subs' \in [Subs -> SubRecords]
    BY <1>2
  <2>4. ASSUME NEW x, SubInv(x) PROVE SubInv(x)'
    BY <1>2, <2>4 DEF coreVars, SubInv, LatestFor
  <2>5. \A z \in Subs : SubInv(subs[z])'
    <3> SUFFICES ASSUME NEW z \in Subs PROVE SubInv(subs[z])'
      OBVIOUS
    <3>1. PICK x : x = subs'[z]
      OBVIOUS
    <3>2. SubInv(x)
      BY <1>2, <3>1
    <3>3. SubInv(x)'
      BY <2>4, <3>2
    <3> QED BY <3>1, <3>3 DEF SubInv
  <2> QED BY <2>1, <2>2, <2>3, <2>5
<1>3. ASSUME NEW s \in Subs, Serve(s) \/ ClientGone(s) PROVE BusInv'
  <2>1. UNCHANGED <<coreVars, storeVars>> /\ subs' = [subs EXCEPT ![s] = subs'[s]]
    BY <1>3 DEF Serve, WriteSnapshot, Deliver, RemoveSubscriber, MarkClosed, ClientGone
  <2> QED BY <1>2, <1>3, <2>1, SubStep
<1>4. ASSUME NEW s \in Subs, NEW id \in ConnIds, NEW f \in Filters, NEW b \in BOOLEAN,
             Subscribe(s, id, f, b)
      PROVE  BusInv'
  <2>1. PICK y : y = subs'[s]
    OBVIOUS
  <2>2. /\ UNCHANGED <<coreVars, storeVars>> /\ subs' = [subs EXCEPT ![s] = y]
        /\ y = [phase |-> "writing", registered |-> TRUE, closed |-> FALSE, cancelled |-> FALSE,
                id |-> id, filter |-> f, wantsSnapshot |-> b,
                snapshot |-> IF b THEN LatestFor(id, f) ELSE {},
                queue |-> <<>>, dropped |-> 0, seen |-> [t \in Tags |-> 0]]
    BY <1>4, <2>1 DEF Subscribe, IdleSub
  <2>3. SubInv(y) /\ y \in SubRecords
    BY <2>2, SubscribeLemma DEF SubInv, SubOK
  <2> QED BY <1>2, <2>1, <2>2, <2>3
<1>5. ASSUME NEW points \in PublishRequests, PublishRpc(points) PROVE BusInv'
  <2>1. PICK us \in UpdateSeqs(AllRoutedUpdates(points)) :
          /\ PublishPoints(points) /\ UNCHANGED storeVars
          /\ subs' = [s \in Subs |-> Offered(subs[s], us)]
    BY <1>5 DEF PublishRpc
  <2>2. /\ StoreInv' /\ LatestIsOfRegistered' /\ LatestIsTarget'
        /\ sourceSequence <= sourceSequence'
    BY <2>1, PublishLemma
  <2>3. sourceSequence' \in Nat
    BY <2>2, CoreAssumption DEF StoreInv, CoreInv, CoreTypeOK
  <2>4. /\ InOrderAfter(us, sourceSequence)
        /\ \A i \in 1..Len(us) : us[i].val <= sourceSequence'
    <3>1. InOrderAfter(us, sourceSequence) /\ \A i \in 1..Len(us) : us[i] \in AllRoutedUpdates(points)
      BY <2>1, UpdateSeqsLemma DEF PublishPoints
    <3>2. \A u \in AllRoutedUpdates(points) :
             u.val \in (sourceSequence + 1)..(sourceSequence + Len(points))
      BY <2>1, RoutedUpdatesLemma DEF PublishPoints
    <3>3. sourceSequence' = sourceSequence + Len(points) /\ Len(points) \in Nat
      BY <2>1, BusAssumption, LenProperties DEF PublishPoints
    <3> QED BY <1>0, <3>1, <3>2, <3>3
  <2>5. ASSUME NEW s \in Subs PROVE subs'[s] \in SubRecords /\ SubInv(subs[s])'
    <3>1. PICK x : x = subs[s]
      OBVIOUS
    <3>2. /\ SubOK(x, sourceSequence)
          /\ MissesNothing(x, LatestFor(x.id, x.filter)) /\ KeepsNewest(x, LatestFor(x.id, x.filter))
      BY <3>1 DEF SubInv
    <3>3. PICK y : y = Offered(x, us)
      OBVIOUS
    <3>4. SubOK(y, sourceSequence') /\ OfferedUpTo(x, us, Len(us), y)
      BY <1>0, <2>2, <2>3, <2>4, <3>2, <3>3, OfferedOK
    <3>5. /\ MissesNothing(y, LatestFor(y.id, y.filter)')
          /\ KeepsNewest(y, LatestFor(y.id, y.filter)')
      BY <2>1, <3>2, <3>4, OfferedCoverage
    <3>6. SubInv(y)' /\ y \in SubRecords
      BY <3>4, <3>5 DEF SubInv, SubOK
    <3>7. y = subs'[s]
      BY <2>1, <3>1, <3>3
    <3> QED BY <3>6, <3>7 DEF SubInv
  <2>6. subs' \in [Subs -> SubRecords]
    BY <2>1, <2>5
  <2> QED BY <2>2, <2>5, <2>6
<1>6. CASE RestartBus
  <2>1. StoreInv'
    BY <1>6, RestartLoadedLemma, RestartEmptyLemma DEF RestartBus
  <2>2. /\ latestByDst' = [p \in Points |-> NoUpdate] /\ latestBySrc' = [p \in Points |-> 0]
        /\ sourceSequence' = 0
    BY <1>6 DEF RestartBus, RestartLoaded, RestartEmpty, ForgetLatest
  <2>3. LatestIsOfRegistered' /\ LatestIsTarget'
    BY <2>2 DEF LatestIsOfRegistered, LatestIsTarget
  <2>4. SubInv(IdleSub)' /\ IdleSub \in SubRecords
    BY <2>2, IdleLemma DEF SubInv, SubOK
  <2>5. subs' = [s \in Subs |-> IdleSub]
    BY <1>6 DEF RestartBus
  <2> QED BY <2>1, <2>3, <2>4, <2>5 DEF SubInv
<1>7. CASE UNCHANGED busVars
  <2>1. UNCHANGED <<coreVars, storeVars, subs>>
    BY <1>7 DEF busVars
  <2>2. StoreInv'
    BY <2>1, StoreStepLemma DEF storeAndCoreVars
  <2> QED BY <2>1, <2>2 DEF coreVars, LatestIsOfRegistered, LatestIsTarget, SubInv, LatestFor
<1> QED BY <1>1, <1>3, <1>4, <1>5, <1>6, <1>7 DEF BusNext

LEMMA BusInvariant == BusSpec => []BusInv
<1> QED BY BusInitLemma, BusStepLemma, PTL DEF BusSpec

\* No latest value, and no memory of a publication, outlives the connections
\* it speaks of, whatever is renamed, deleted, saved or lost.
THEOREM LatestAlwaysOfRegistered == BusSpec => []LatestIsOfRegistered
<1>1. BusInv => LatestIsOfRegistered
  BY DEF BusInv
<1> QED BY <1>1, BusInvariant, PTL

\* No publication falls between the snapshot and the live updates.
THEOREM NoUpdateEverMissed == BusSpec => []NoUpdateMissed
<1>1. BusInv => NoUpdateMissed
  BY DEF BusInv, SubInv, NoUpdateMissed, MissesNothing
<1> QED BY <1>1, BusInvariant, PTL

\* A client sees each tag go forward, through a bounded queue that drops, and
\* the newest update is never the one that is lost.
THEOREM BusIsSafe == BusSpec => []BusSafe
<1>1. BusInv => BusSafe
  <2> SUFFICES ASSUME BusInv PROVE BusSafe
    OBVIOUS
  <2>1. ASSUME NEW s \in Subs PROVE SubTypeOK(subs[s])
    <3>1. subs[s] \in SubRecords /\ Len(subs[s].queue) <= QueueCap
      BY DEF BusInv, SubInv, SubOK
    <3> QED BY <3>1 DEF SubRecords, SubTypeOK
  <2>2. DeliveredInOrder
    <3> SUFFICES ASSUME NEW s \in Subs, NEW sub, sub = subs[s]
                 PROVE  /\ \A u \in PendingOf(sub) : sub.seen[u.dstTag] < u.val
                        /\ \A u, v \in sub.snapshot : u.dstTag = v.dstTag => u = v
                        /\ \A u \in sub.snapshot, i \in DOMAIN sub.queue :
                              u.dstTag = sub.queue[i].dstTag => u.val < sub.queue[i].val
                        /\ \A i, j \in DOMAIN sub.queue :
                              i < j /\ sub.queue[i].dstTag = sub.queue[j].dstTag =>
                                  sub.queue[i].val < sub.queue[j].val
      BY DEF DeliveredInOrder
    <3>1. SubOK(sub, sourceSequence)
      BY DEF BusInv, SubInv
    <3>2. DOMAIN sub.queue = 1..Len(sub.queue)
      BY <3>1, QueueDomain DEF SubOK
    <3> QED BY <3>1, <3>2 DEF SubOK, QueueOrdered
  <2>3. NewestKept
    BY DEF BusInv, SubInv, NewestKept, KeepsNewest
  <2>4. StoreTypeOK
    BY DEF BusInv, StoreInv
  <2> QED BY <2>1, <2>2, <2>3, <2>4 DEF BusSafe, BusTypeOK
<1> QED BY <1>1, BusInvariant, PTL
=============================================================================
