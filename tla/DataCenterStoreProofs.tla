------------------------ MODULE DataCenterStoreProofs -----------------------
(***************************************************************************)
(* Theorems about the configuration of DataCenter, for any sets of keys,   *)
(* tags and requests: the registry and the configuration stay consistent   *)
(* under every sequence of edits, failed saves, crashes and starts, what   *)
(* is not flagged as unsaved is on disk, and a saved id is not used again. *)
(***************************************************************************)
EXTENDS DataCenterStore, TLAPS

CoreInv == CoreTypeOK /\ RegistryConsistent /\ AllocatorAhead /\ NoDanglingConfig

\* What an edit does to the allocator: it never goes back.
AllocatorForward ==
    nextConnId' # 0 => nextConnId # 0 /\ nextConnId <= nextConnId'

-----------------------------------------------------------------------------
(* The operations of the core preserve its invariant. *)

LEMMA AllocateLemma ==
    ASSUME CoreInv, NEW k \in Keys, AllocateConnection(k)
    PROVE  CoreInv' /\ AllocatorForward
<1> USE CoreAssumption DEF CoreInv, CoreTypeOK, ConnIds
<1>1. PICK id \in FreeIds :
        /\ nextConnId' = IF id = MaxConnId THEN 0 ELSE id + 1
        /\ connections' = [connections EXCEPT ![id] = k]
        /\ connIdsByKey' = [connIdsByKey EXCEPT ![k] = id]
        /\ UNCHANGED <<connTags, routes, latestVars>>
  BY DEF AllocateConnection
<1>2. /\ nextConnId # 0 /\ nextConnId <= id /\ id \in ConnIds
      /\ connections[id] = NoKey
  BY DEF FreeIds
<1>3. CoreTypeOK'
  BY <1>1, <1>2 DEF latestVars
<1>4. connIdsByKey[k] = 0
  BY DEF AllocateConnection, Registered
<1>5. RegistryConsistent'
  BY <1>1, <1>2, <1>4 DEF RegistryConsistent
<1>6. AllocatorAhead'
  BY <1>1, <1>2 DEF AllocatorAhead
<1>7. NoDanglingConfig'
  BY <1>1, <1>2 DEF NoDanglingConfig, Registered, Routes, Endpoints
<1> QED BY <1>1, <1>2, <1>3, <1>5, <1>6, <1>7 DEF AllocatorForward

LEMMA MoveLemma ==
    ASSUME CoreInv, NEW id \in ConnIds, NEW old \in Keys, NEW new \in Keys, old # new,
           connections[id] = old, connIdsByKey[new] \in {0, id},
           MoveConnection(id, old, new)
    PROVE  CoreInv' /\ AllocatorForward
<1> USE CoreAssumption DEF CoreInv, CoreTypeOK, ConnIds
<1>1. connIdsByKey[old] = id
  BY DEF RegistryConsistent
<1>2. connIdsByKey[new] = 0
  <2>1. connIdsByKey[new] = id => connections[id] = new
    BY DEF RegistryConsistent
  <2> QED BY <2>1
<1>3. RekeyedRoutes(old, new) \subseteq Routes
  <2>1. \A e \in Endpoints : Rekeyed(e, old, new) \in Endpoints
    BY DEF Rekeyed, Endpoints
  <2>2. \A r \in routes : r.src \in Endpoints /\ r.dst \in Endpoints
    BY DEF Routes
  <2> QED BY <2>1, <2>2 DEF RekeyedRoutes, Routes
<1>4. CoreTypeOK'
  <2>1. /\ connections' \in [ConnIds -> Keys \cup {NoKey}]
        /\ connIdsByKey' \in [Keys -> {0} \cup ConnIds]
        /\ nextConnId' \in {0} \cup ConnIds
    BY DEF MoveConnection
  <2>2. connTags' \in [Keys -> {NoTable} \cup SUBSET Tags]
    BY DEF MoveConnection
  <2>3. routes' \subseteq Routes
    BY <1>3 DEF MoveConnection
  <2>4. UNCHANGED latestVars
    BY DEF MoveConnection
  <2> QED BY <2>1, <2>2, <2>3, <2>4 DEF latestVars
<1>5. RegistryConsistent'
  <2>1. /\ connections' = [connections EXCEPT ![id] = new]
        /\ connIdsByKey' = [connIdsByKey EXCEPT ![old] = 0, ![new] = id]
    BY DEF MoveConnection
  <2>2. ASSUME NEW k \in Keys, connIdsByKey'[k] # 0
        PROVE  connections'[connIdsByKey'[k]] = k
    <3>1. CASE k = new
      BY <2>1, <3>1
    <3>2. CASE k # new
      <4>1. k # old /\ connIdsByKey'[k] = connIdsByKey[k]
        BY <2>1, <2>2, <3>2
      <4>2. connIdsByKey[k] \in ConnIds /\ connections[connIdsByKey[k]] = k
        BY <2>2, <4>1 DEF RegistryConsistent
      <4> QED BY <2>1, <4>1, <4>2
    <3> QED BY <3>1, <3>2
  <2>3. ASSUME NEW i \in ConnIds, connections'[i] # NoKey
        PROVE  connIdsByKey'[connections'[i]] = i
    <3>1. CASE i = id
      BY <2>1, <3>1
    <3>2. CASE i # id
      <4>1. connections'[i] = connections[i] /\ connections[i] \in Keys
        BY <2>1, <2>3, <3>2
      <4>2. connIdsByKey[connections[i]] = i
        BY <2>3, <4>1 DEF RegistryConsistent
      <4>3. connections[i] # old /\ connections[i] # new
        BY <1>1, <1>2, <3>2, <4>2
      <4> QED BY <2>1, <4>1, <4>2, <4>3
    <3> QED BY <3>1, <3>2
  <2> QED BY <2>2, <2>3 DEF RegistryConsistent
<1>6. AllocatorAhead' /\ AllocatorForward
  BY DEF MoveConnection, AllocatorAhead, AllocatorForward
<1>7. \A k \in Keys : connIdsByKey[k] # 0 /\ k # old => connIdsByKey'[k] # 0
  BY DEF MoveConnection
<1>8. connIdsByKey'[new] # 0
  BY DEF MoveConnection
<1>9. \A k \in Keys : connTags'[k] # NoTable => Registered(k)'
  BY <1>7, <1>8 DEF MoveConnection, NoDanglingConfig, Registered
<1>10. \A r \in routes' : Registered(r.src.key)' /\ Registered(r.dst.key)'
  <2>1. \A e \in Endpoints : Registered(e.key) => Registered(Rekeyed(e, old, new).key)'
    BY <1>7, <1>8 DEF Rekeyed, Endpoints, Registered
  <2>2. \A r \in routes : /\ r.src \in Endpoints /\ Registered(r.src.key)
                          /\ r.dst \in Endpoints /\ Registered(r.dst.key)
    BY DEF NoDanglingConfig, Routes
  <2>3. routes' = RekeyedRoutes(old, new)
    BY DEF MoveConnection
  <2> QED BY <2>1, <2>2, <2>3 DEF RekeyedRoutes
<1> QED BY <1>4, <1>5, <1>6, <1>9, <1>10 DEF NoDanglingConfig

LEMMA RenameLemma ==
    ASSUME CoreInv, NEW old \in Keys, NEW new \in Keys, RenameConnection(old, new)
    PROVE  CoreInv' /\ AllocatorForward
<1>1. CASE old = new
  BY <1>1 DEF RenameConnection, coreVars, CoreInv, CoreTypeOK, RegistryConsistent,
              AllocatorAhead, NoDanglingConfig, Registered, AllocatorForward, ConnIds
<1>2. CASE old # new
  <2>1. /\ connIdsByKey[old] \in ConnIds
        /\ connections[connIdsByKey[old]] = old
        /\ connIdsByKey[new] \in {0, connIdsByKey[old]}
        /\ MoveConnection(connIdsByKey[old], old, new)
    BY <1>2 DEF RenameConnection, Registered, CoreInv, CoreTypeOK, RegistryConsistent
  <2> QED BY <1>2, <2>1, MoveLemma
<1> QED BY <1>1, <1>2

LEMMA UpsertConnectionLemma ==
    ASSUME CoreInv, NEW id \in ConnIds, NEW new \in Keys, UpsertConnection(id, new)
    PROVE  CoreInv' /\ AllocatorForward
<1>1. CASE connections[id] = new
  BY <1>1 DEF UpsertConnection, coreVars, CoreInv, CoreTypeOK, RegistryConsistent,
              AllocatorAhead, NoDanglingConfig, Registered, AllocatorForward, ConnIds
<1>2. CASE connections[id] # new
  <2>1. /\ connections[id] \in Keys
        /\ connIdsByKey[new] \in {0, id}
        /\ MoveConnection(id, connections[id], new)
    BY <1>2 DEF UpsertConnection, CoreInv, CoreTypeOK
  <2> QED BY <1>2, <2>1, MoveLemma
<1> QED BY <1>1, <1>2

LEMMA DeleteLemma ==
    ASSUME CoreInv, NEW k \in Keys, DeleteConnection(k)
    PROVE  CoreInv' /\ AllocatorForward
<1> USE CoreAssumption DEF CoreInv, CoreTypeOK
<1> DEFINE id == connIdsByKey[k]
<1>1. id \in ConnIds /\ connections[id] = k
  BY DEF DeleteConnection, Registered, RegistryConsistent
<1>2. /\ connections' = [connections EXCEPT ![id] = NoKey]
      /\ connIdsByKey' = [connIdsByKey EXCEPT ![k] = 0]
      /\ connTags' = [connTags EXCEPT ![k] = NoTable]
      /\ routes' = {r \in routes : r.src.key # k /\ r.dst.key # k}
      /\ latestByDst' = [p \in Points |->
            IF p[1] = id \/ Mentions(latestByDst[p], id) THEN NoUpdate ELSE latestByDst[p]]
      /\ latestBySrc' = [p \in Points |-> IF p[1] = id THEN 0 ELSE latestBySrc[p]]
      /\ UNCHANGED <<nextConnId, sourceSequence>>
  BY DEF DeleteConnection
<1> HIDE DEF id
<1>3. CoreTypeOK'
  <2>1. latestByDst' \in [Points -> Updates \cup {NoUpdate}]
    BY <1>2
  <2>2. latestBySrc' \in [Points -> 0..MaxSequence]
    BY <1>2
  <2>3. /\ connections' \in [ConnIds -> Keys \cup {NoKey}]
        /\ connIdsByKey' \in [Keys -> {0} \cup ConnIds]
        /\ connTags' \in [Keys -> {NoTable} \cup SUBSET Tags]
        /\ routes' \subseteq Routes
    BY <1>1, <1>2
  <2> QED BY <1>2, <2>1, <2>2, <2>3
<1>4. RegistryConsistent'
  BY <1>1, <1>2 DEF RegistryConsistent, ConnIds
<1>5. AllocatorAhead' /\ AllocatorForward
  <2>1. \A i \in ConnIds : connections'[i] # NoKey => connections[i] # NoKey
    BY <1>1, <1>2
  <2>2. nextConnId' = nextConnId /\ nextConnId \in Nat
    BY <1>2 DEF ConnIds
  <2> QED BY <2>1, <2>2 DEF AllocatorAhead, AllocatorForward
<1>6. NoDanglingConfig'
  BY <1>2 DEF NoDanglingConfig, Registered, Routes, Endpoints
<1> QED BY <1>3, <1>4, <1>5, <1>6

LEMMA UpsertConnTagsLemma ==
    ASSUME CoreInv, NEW id \in ConnIds, NEW ts \in TagRequests, NEW b \in BOOLEAN,
           UpsertConnTags(id, ts, b)
    PROVE  CoreInv' /\ AllocatorForward
<1> USE StoreAssumption DEF CoreInv, CoreTypeOK
<1> DEFINE k     == connections[id]
           kept  == IF b \/ connTags[k] = NoTable THEN {} ELSE connTags[k]
           table == kept \cup ts
<1>1. /\ k \in Keys /\ Registered(k)
      /\ table \in SUBSET Tags
  BY DEF UpsertConnTags, RegistryConsistent, Registered, ConnIds
<1>2. /\ connTags' = [connTags EXCEPT ![k] = table]
      /\ routes' = IF b THEN PruneRejected(routes, k, table) ELSE routes
      /\ UNCHANGED <<registryVars, latestVars>>
  BY DEF UpsertConnTags
<1> HIDE DEF k, table
<1>3. routes' \subseteq routes
  BY <1>2 DEF PruneRejected
<1>4. CoreTypeOK'
  BY <1>1, <1>2, <1>3 DEF registryVars, latestVars
<1>5. RegistryConsistent' /\ AllocatorAhead' /\ AllocatorForward
  BY <1>2 DEF registryVars, RegistryConsistent, AllocatorAhead, AllocatorForward, ConnIds
<1>6. NoDanglingConfig'
  BY <1>1, <1>2, <1>3 DEF NoDanglingConfig, Registered, registryVars
<1> QED BY <1>4, <1>5, <1>6

LEMMA RoutesLemma ==
    ASSUME CoreInv, NEW rs \in RouteRequests,
           DeleteRoutes(rs) \/ \E b \in BOOLEAN : UpsertRoutes(rs, b)
    PROVE  CoreInv' /\ AllocatorForward
<1> USE StoreAssumption DEF CoreInv, CoreTypeOK
<1>1. UNCHANGED <<registryVars, connTags, latestVars>>
  BY DEF DeleteRoutes, UpsertRoutes
<1>2. \A r \in routes' : r \in routes \/ (r \in rs /\ Routable(r))
  BY DEF DeleteRoutes, UpsertRoutes
<1>3. CoreTypeOK'
  BY <1>1, <1>2 DEF registryVars, latestVars
<1>4. RegistryConsistent' /\ AllocatorAhead' /\ AllocatorForward
  BY <1>1 DEF registryVars, RegistryConsistent, AllocatorAhead, AllocatorForward, ConnIds
<1>5. NoDanglingConfig'
  BY <1>1, <1>2 DEF NoDanglingConfig, Registered, Routable, registryVars
<1> QED BY <1>3, <1>4, <1>5

-----------------------------------------------------------------------------
(* Saves and starts. *)

\* The saved allocator is ahead of the saved ids as well: without it a start
\* could leave the allocator on an id that is in use.
AheadIn(s) == s.nextConnId # 0 => \A i \in IdsIn(s.connections) : i < s.nextConnId

StoreInv ==
    /\ CoreInv
    /\ StoreTypeOK
    /\ AheadIn(disk)
    /\ MemoryIsPersisted
    /\ SavedIdsRetired

LEMMA SaveLemma ==
    ASSUME StoreInv, CoreInv', AllocatorForward, SaveState
    PROVE  StoreInv'
<1> USE CoreAssumption DEF StoreInv
<1>1. /\ disk \in States /\ everSaved \subseteq ConnIds /\ ConnIds \subseteq Nat
      /\ allocatorLost \in BOOLEAN
      /\ nextConnId \in Nat /\ nextConnId' \in Nat
  BY DEF StoreTypeOK, CoreInv, CoreTypeOK, ConnIds
<1>2. CASE SaveSucceeds
  <2>1. /\ disk' = [connections |-> connections', nextConnId |-> nextConnId',
                    connTags |-> connTags', routes |-> routes']
        /\ stateNeedsPersistence' = FALSE
        /\ everSaved' = everSaved \cup IdsIn(connections')
        /\ allocatorLost' = allocatorLost
    BY <1>2 DEF SaveSucceeds, DumpState
  <2>2. /\ connections' \in [ConnIds -> Keys \cup {NoKey}]
        /\ nextConnId' \in {0} \cup ConnIds
        /\ connTags' \in [Keys -> {NoTable} \cup SUBSET Tags]
        /\ routes' \in SUBSET Routes
    BY DEF CoreInv, CoreTypeOK
  <2>3. disk' \in States
    BY <2>1, <2>2 DEF States
  <2>4. IdsIn(connections') \subseteq ConnIds
    BY DEF IdsIn
  <2>5. StoreTypeOK'
    BY <1>1, <2>1, <2>3, <2>4 DEF StoreTypeOK, CoreInv
  <2>6. MemoryIsPersisted'
    BY <2>1 DEF MemoryIsPersisted
  <2>7. ASSUME ~allocatorLost, NEW i \in everSaved', nextConnId' # 0
        PROVE  i < nextConnId'
    <3>1. CASE i \in everSaved
      <4>1. i \in Nat /\ i < nextConnId /\ nextConnId <= nextConnId'
        BY <1>1, <2>7, <3>1 DEF SavedIdsRetired, AllocatorForward
      <4> QED BY <1>1, <4>1
    <3>2. CASE i \in IdsIn(connections')
      BY <2>7, <3>2 DEF CoreInv, AllocatorAhead, IdsIn
    <3> QED BY <2>1, <3>1, <3>2
  <2>8. SavedIdsRetired'
    <3>1. disk'.nextConnId = nextConnId'
      BY <2>1
    <3> QED BY <2>1, <2>7, <3>1 DEF SavedIdsRetired
  <2>9. AheadIn(disk)'
    <3>1. disk'.nextConnId = nextConnId' /\ disk'.connections = connections'
      BY <2>1
    <3>2. AheadIn(disk') <=>
            (nextConnId' # 0 => \A i \in IdsIn(connections') : i < nextConnId')
      BY <3>1 DEF AheadIn
    <3> QED BY <3>2 DEF CoreInv, AllocatorAhead, IdsIn, AheadIn
  <2> QED BY <2>5, <2>6, <2>8, <2>9
<1>3. CASE SaveFails
  <2>1. /\ stateNeedsPersistence' = TRUE
        /\ UNCHANGED <<disk, everSaved, allocatorLost>>
    BY <1>3 DEF SaveFails
  <2>2. StoreTypeOK' /\ MemoryIsPersisted'
    BY <1>1, <2>1 DEF StoreTypeOK, MemoryIsPersisted, CoreInv
  <2>3. ASSUME ~allocatorLost, NEW i \in everSaved, nextConnId' # 0
        PROVE  i < nextConnId'
    <3>1. i \in Nat /\ i < nextConnId /\ nextConnId <= nextConnId'
      BY <1>1, <2>3 DEF SavedIdsRetired, AllocatorForward
    <3> QED BY <1>1, <3>1
  <2>4. SavedIdsRetired'
    BY <2>1, <2>3 DEF SavedIdsRetired
  <2>5. AheadIn(disk)'
    BY <2>1
  <2> QED BY <2>2, <2>4, <2>5
<1> QED BY <1>2, <1>3 DEF SaveState

LEMMA ForgetLemma ==
    ASSUME ForgetConfig, ForgetLatest
    PROVE  CoreInv'
<1> USE CoreAssumption DEF ForgetConfig, ForgetLatest, ConnIds, NoConnections, NoTagTables
<1>1. CoreTypeOK'
  BY DEF CoreTypeOK
<1>2. RegistryConsistent' /\ AllocatorAhead'
  BY DEF RegistryConsistent, AllocatorAhead
<1>3. NoDanglingConfig'
  BY DEF NoDanglingConfig
<1> QED BY <1>1, <1>2, <1>3 DEF CoreInv

\* The allocator a start computes is an id or 0, ahead of every id in use,
\* and not behind the stored one.
LEMMA RestoredNextIdLemma ==
    ASSUME NEW s \in States, AheadIn(s), NEW n \in RestoredNextId(s)
    PROVE  /\ n \in {0} \cup ConnIds
           /\ n # 0 => \A i \in IdsIn(s.connections) : i < n
           /\ n # 0 /\ s.nextConnId # 0 => s.nextConnId <= n
<1> USE CoreAssumption DEF ConnIds, AheadIn
<1>1. s.nextConnId \in {0} \cup ConnIds /\ IdsIn(s.connections) \subseteq ConnIds
  BY DEF States, IdsIn
<1>2. PICK m \in MaxIdIn(s.connections) :
        LET computed == IF m = MaxConnId THEN 0 ELSE m + 1 IN
        n = IF s.nextConnId = 0 \/ (computed # 0 /\ s.nextConnId < computed)
            THEN computed ELSE s.nextConnId
  BY DEF RestoredNextId
<1>3. m \in {0} \cup ConnIds /\ \A i \in IdsIn(s.connections) : i <= m
  BY <1>1, <1>2 DEF MaxIdIn
<1>4. CASE m = MaxConnId
  <2>1. n = s.nextConnId
    BY <1>2, <1>4
  <2> QED BY <1>1, <1>3, <2>1
<1>5. CASE m # MaxConnId
  BY <1>1, <1>2, <1>3, <1>5
<1> QED BY <1>4, <1>5

LEMMA RestartLoadedLemma ==
    ASSUME StoreInv, RestartLoaded
    PROVE  StoreInv' /\ connections' = disk.connections /\ connTags' = disk.connTags
                     /\ routes' = disk.routes
<1> USE CoreAssumption DEF StoreInv
<1>1. /\ disk \in States /\ everSaved \subseteq ConnIds /\ allocatorLost \in BOOLEAN
      /\ ConnIds \subseteq Nat
  BY DEF StoreTypeOK, ConnIds
<1>2. /\ disk.connections \in [ConnIds -> Keys \cup {NoKey}]
      /\ disk.nextConnId \in {0} \cup ConnIds
      /\ disk.connTags \in [Keys -> {NoTable} \cup SUBSET Tags]
      /\ disk.routes \subseteq Routes
  BY <1>1 DEF States
<1>3. /\ ForgetLatest /\ ValidState(disk)
      /\ stateNeedsPersistence' = FALSE
      /\ allocatorLost' = (allocatorLost \/ (disk.nextConnId = 0 /\ everSaved # {}))
      /\ disk' = disk /\ everSaved' = everSaved
  BY DEF RestartLoaded
<1>4. /\ CoreInv'
      /\ connections' = disk.connections
      /\ connTags' = disk.connTags
      /\ routes' = disk.routes
      /\ nextConnId' # 0 /\ disk.nextConnId # 0 => disk.nextConnId <= nextConnId'
  <2>1. CASE LoadedBlank
    <3>1. ForgetConfig
      BY <2>1 DEF RestartLoaded
    <3>2. CoreInv'
      BY <1>3, <3>1, ForgetLemma
    <3> QED BY <2>1, <3>1, <3>2 DEF LoadedBlank, BlankState, ForgetConfig
  <2>2. CASE ~LoadedBlank
    <3> DEFINE conns == disk.connections
    <3>1. ApplyState(disk)
      BY <2>2 DEF RestartLoaded
    <3>2. /\ \A k \in Keys : disk.connTags[k] # NoTable => k \in KeysIn(conns)
          /\ \A r \in disk.routes : EndpointValid(disk, r.src) /\ EndpointValid(disk, r.dst)
          /\ \A i, j \in IdsIn(conns) : conns[i] = conns[j] => i = j
      BY <1>3 DEF ValidState
    <3>3. /\ connections' = conns
          /\ connIdsByKey' = [k \in Keys |->
                IF k \in KeysIn(conns)
                THEN CHOOSE i \in IdsIn(conns) : conns[i] = k ELSE 0]
          /\ nextConnId' \in RestoredNextId(disk)
          /\ connTags' = disk.connTags
          /\ routes' = disk.routes
      BY <3>1, <3>2 DEF ApplyState
    <3>4. IdsIn(conns) \subseteq ConnIds /\ \A i \in IdsIn(conns) : conns[i] \in Keys
      BY <1>2 DEF IdsIn
    <3>5. \A k \in KeysIn(conns) : \E i \in IdsIn(conns) : conns[i] = k
      BY DEF KeysIn
    <3>6. /\ nextConnId' \in {0} \cup ConnIds
          /\ nextConnId' # 0 => \A i \in IdsIn(conns) : i < nextConnId'
          /\ nextConnId' # 0 /\ disk.nextConnId # 0 => disk.nextConnId <= nextConnId'
      BY <1>1, <3>3, RestoredNextIdLemma
    <3>7. \A k \in Keys : k \in KeysIn(conns) =>
            connIdsByKey'[k] \in IdsIn(conns) /\ conns[connIdsByKey'[k]] = k
      BY <3>3, <3>5
    <3>8. \A k \in Keys : k \notin KeysIn(conns) => connIdsByKey'[k] = 0
      BY <3>3
    <3>9. connIdsByKey' \in [Keys -> {0} \cup ConnIds]
      <4>1. \A k \in Keys : connIdsByKey'[k] \in {0} \cup ConnIds
        BY <3>4, <3>7, <3>8
      <4> QED BY <3>3, <4>1
    <3>10. CoreTypeOK'
      <4>1. /\ latestByDst' \in [Points -> Updates \cup {NoUpdate}]
            /\ latestBySrc' \in [Points -> 0..MaxSequence]
            /\ sourceSequence' \in 0..MaxSequence
        BY <1>3 DEF ForgetLatest
      <4> QED BY <1>2, <3>3, <3>6, <3>9, <4>1 DEF CoreTypeOK
    <3>11. RegistryConsistent'
      <4>1. ASSUME NEW i \in ConnIds, conns[i] # NoKey
            PROVE  connIdsByKey'[conns[i]] = i
        <5>1. i \in IdsIn(conns) /\ conns[i] \in KeysIn(conns) /\ conns[i] \in Keys
          BY <1>2, <4>1 DEF IdsIn, KeysIn
        <5> QED BY <3>2, <3>7, <5>1
      <4>2. ASSUME NEW k \in Keys, connIdsByKey'[k] # 0
            PROVE  conns[connIdsByKey'[k]] = k
        BY <3>7, <3>8, <4>2
      <4> QED BY <3>3, <4>1, <4>2 DEF RegistryConsistent
    <3>12. AllocatorAhead'
      BY <3>3, <3>6 DEF AllocatorAhead, IdsIn
    <3>13. \A k \in Keys : k \in KeysIn(conns) => Registered(k)'
      <4>1. 0 \notin IdsIn(conns)
        BY <3>4 DEF ConnIds
      <4> QED BY <3>7, <4>1 DEF Registered
    <3>14. NoDanglingConfig'
      <4>1. \A r \in disk.routes : r.src.key \in Keys /\ r.dst.key \in Keys
        BY <1>2 DEF Routes, Endpoints
      <4> QED BY <3>2, <3>3, <3>13, <4>1 DEF NoDanglingConfig, EndpointValid
    <3> QED BY <3>3, <3>6, <3>10, <3>11, <3>12, <3>14 DEF CoreInv
  <2> QED BY <2>1, <2>2
<1>5. StoreTypeOK'
  BY <1>1, <1>3, <1>4 DEF StoreTypeOK, CoreInv
<1>6. AheadIn(disk)' /\ MemoryIsPersisted'
  BY <1>3, <1>4 DEF MemoryIsPersisted, AheadIn
<1>7. SavedIdsRetired'
  <2>1. ASSUME ~allocatorLost', NEW i \in everSaved
        PROVE  i < disk.nextConnId /\ (nextConnId' # 0 => i < nextConnId')
    <3>1. ~allocatorLost /\ disk.nextConnId # 0 /\ i \in Nat
      BY <1>1, <1>3, <2>1
    <3>2. i < disk.nextConnId /\ disk.nextConnId \in Nat
      BY <1>1, <1>2, <3>1 DEF SavedIdsRetired
    <3>3. nextConnId' \in Nat
      BY <1>1, <1>4 DEF CoreInv, CoreTypeOK
    <3> QED BY <1>4, <3>1, <3>2, <3>3
  <2> QED BY <1>3, <2>1 DEF SavedIdsRetired
<1> QED BY <1>4, <1>5, <1>6, <1>7

LEMMA RestartEmptyLemma ==
    ASSUME StoreInv, RestartEmpty
    PROVE  StoreInv'
<1>1. /\ ForgetConfig /\ ForgetLatest
      /\ stateNeedsPersistence' = FALSE /\ allocatorLost' = TRUE
      /\ disk' = disk /\ everSaved' = everSaved
  BY DEF RestartEmpty
<1>2. CoreInv'
  BY <1>1, ForgetLemma
<1> QED BY <1>1, <1>2 DEF StoreInv, StoreTypeOK, CoreInv, MemoryIsPersisted,
                          SavedIdsRetired, AheadIn

-----------------------------------------------------------------------------
(* What the configuration and the latest values do to each other. *)

\* New latest values of the right types leave the configuration as it was.
LEMMA StoreInvFrame ==
    ASSUME StoreInv, UNCHANGED <<configVars, storeVars>>,
           latestByDst' \in [Points -> Updates \cup {NoUpdate}],
           latestBySrc' \in [Points -> 0..MaxSequence], sourceSequence' \in 0..MaxSequence
    PROVE  StoreInv'
<1> USE DEF configVars, storeVars
<1>1. CoreTypeOK'
  BY DEF StoreInv, CoreInv, CoreTypeOK
<1>2. RegistryConsistent' /\ AllocatorAhead' /\ NoDanglingConfig'
  BY DEF StoreInv, CoreInv, RegistryConsistent, AllocatorAhead, NoDanglingConfig, Registered
<1>3. StoreTypeOK' /\ AheadIn(disk)' /\ MemoryIsPersisted' /\ SavedIdsRetired'
  BY <1>1 DEF StoreInv, StoreTypeOK, AheadIn, MemoryIsPersisted, SavedIdsRetired
<1> QED BY <1>1, <1>2, <1>3 DEF StoreInv, CoreInv

\* Editing the configuration leaves the cache; deleting only takes from it.
LEMMA EditLeavesLatest ==
    ASSUME EditConfigRpc
    PROVE  UNCHANGED latestVars
BY DEF EditConfigRpc, GetOrCreateConnectionRpc, UpsertConnectionRpc, RenameConnectionRpc,
       UpsertConnTagsRpc, UpsertRoutesRpc, DeleteRoutesRpc, AllocateConnection, UpsertConnection,
       RenameConnection, MoveConnection, UpsertConnTags, UpsertRoutes, DeleteRoutes, coreVars,
       latestVars

LEMMA DeleteTakesLatest ==
    ASSUME NEW k \in Keys, DeleteConnectionRpc(k), NEW p \in Points
    PROVE  latestByDst'[p] \in {NoUpdate, latestByDst[p]}
BY DEF DeleteConnectionRpc, DeleteConnection

-----------------------------------------------------------------------------
(* The theorems of the specification. *)

LEMMA StoreInitLemma == StoreInit => StoreInv
<1> SUFFICES ASSUME StoreInit PROVE StoreInv
  OBVIOUS
<1> USE CoreAssumption DEF StoreInit, CoreInit, ConnIds, NoConnections, NoTagTables
<1>1. CoreInv
  <2>1. CoreTypeOK
    BY DEF CoreTypeOK
  <2>2. RegistryConsistent /\ AllocatorAhead /\ NoDanglingConfig
    BY DEF RegistryConsistent, AllocatorAhead, NoDanglingConfig
  <2> QED BY <2>1, <2>2 DEF CoreInv
<1>2. disk \in States
  BY DEF BlankState, States
<1>3. MemoryIsPersisted /\ SavedIdsRetired
  BY DEF MemoryIsPersisted, SavedIdsRetired, BlankState
<1>4. AheadIn(disk)
  BY DEF AheadIn, BlankState
<1> QED BY <1>1, <1>2, <1>3, <1>4 DEF StoreInv, StoreTypeOK, CoreInv

LEMMA StoreStepLemma == StoreInv /\ [StoreNext]_storeAndCoreVars => StoreInv'
<1> SUFFICES ASSUME StoreInv, [StoreNext]_storeAndCoreVars PROVE StoreInv'
  OBVIOUS
<1> DEFINE Saved == CoreInv' /\ AllocatorForward /\ SaveState
<1>1. CoreInv
  BY DEF StoreInv
<1>2. Saved => StoreInv'
  BY SaveLemma
<1> HIDE DEF Saved
<1>3. ASSUME NEW k \in Keys, GetOrCreateConnectionRpc(k) PROVE StoreInv'
  <2>1. CASE AllocateConnection(k)
    <3>1. Saved
      BY <1>1, <1>3, <2>1, AllocateLemma DEF GetOrCreateConnectionRpc, Saved
    <3> QED BY <1>2, <3>1
  <2>2. CASE UNCHANGED coreVars
    <3>1. CoreInv' /\ AllocatorForward
      BY <1>1, <2>2, CoreAssumption DEF CoreInv, CoreTypeOK, RegistryConsistent, AllocatorAhead,
            NoDanglingConfig, Registered, AllocatorForward, coreVars, ConnIds
    <3> QED BY <1>2, <1>3, <3>1 DEF GetOrCreateConnectionRpc, Saved
  <2> QED BY <1>3, <2>1, <2>2 DEF GetOrCreateConnectionRpc
<1>4. ASSUME NEW id \in ConnIds, NEW k \in Keys, UpsertConnectionRpc(id, k) PROVE StoreInv'
  <2>1. Saved
    BY <1>1, <1>4, UpsertConnectionLemma DEF UpsertConnectionRpc, Saved
  <2> QED BY <1>2, <2>1
<1>5. ASSUME NEW old \in Keys, NEW k \in Keys, RenameConnectionRpc(old, k) PROVE StoreInv'
  <2>1. Saved
    BY <1>1, <1>5, RenameLemma DEF RenameConnectionRpc, Saved
  <2> QED BY <1>2, <2>1
<1>6. ASSUME NEW id \in ConnIds, NEW ts \in TagRequests, NEW b \in BOOLEAN,
             UpsertConnTagsRpc(id, ts, b)
      PROVE  StoreInv'
  <2>1. Saved
    BY <1>1, <1>6, UpsertConnTagsLemma DEF UpsertConnTagsRpc, Saved
  <2> QED BY <1>2, <2>1
<1>7. ASSUME NEW rs \in RouteRequests, NEW b \in BOOLEAN,
             UpsertRoutesRpc(rs, b) \/ DeleteRoutesRpc(rs)
      PROVE  StoreInv'
  <2>1. SaveState /\ (DeleteRoutes(rs) \/ \E c \in BOOLEAN : UpsertRoutes(rs, c))
    BY <1>7 DEF UpsertRoutesRpc, DeleteRoutesRpc
  <2>2. Saved
    BY <1>1, <2>1, RoutesLemma DEF Saved
  <2> QED BY <1>2, <2>2
<1>8. ASSUME NEW k \in Keys, DeleteConnectionRpc(k) PROVE StoreInv'
  <2>1. Saved
    BY <1>1, <1>8, DeleteLemma DEF DeleteConnectionRpc, Saved
  <2> QED BY <1>2, <2>1
<1>9. CASE RestartLoaded
  BY <1>9, RestartLoadedLemma
<1>10. CASE RestartEmpty
  BY <1>10, RestartEmptyLemma
<1>11. CASE UNCHANGED storeAndCoreVars
  BY <1>11 DEF storeAndCoreVars, coreVars, storeVars, StoreInv, StoreTypeOK, CoreInv, CoreTypeOK,
        RegistryConsistent, AllocatorAhead, NoDanglingConfig, Registered, MemoryIsPersisted,
        SavedIdsRetired, AheadIn
<1>12. CASE EditConfigRpc
  <2>1. ASSUME NEW rs \in RouteRequests, DeleteRoutesRpc(rs) PROVE StoreInv'
    BY <1>7, <2>1
  <2> QED BY <1>3, <1>4, <1>5, <1>6, <1>7, <1>12, <2>1 DEF EditConfigRpc
<1> QED BY <1>8, <1>9, <1>10, <1>11, <1>12 DEF StoreNext

LEMMA StoreInvariant == StoreSpec => []StoreInv
<1> QED BY StoreInitLemma, StoreStepLemma, PTL DEF StoreSpec

\* Every state of the configuration service is well typed; in particular the
\* allocator that a start computes is a conn_id or 0 (exhausted).
THEOREM StoreTypeCorrect == StoreSpec => []StoreTypeOK
<1>1. StoreInv => StoreTypeOK
  BY DEF StoreInv
<1> QED BY <1>1, StoreInvariant, PTL

\* Under every sequence of creations, renames, updates, deletions, crashes
\* and starts, a key finds its id exactly when the id finds its key.
THEOREM RegistryAlwaysConsistent == StoreSpec => []RegistryConsistent
<1>1. StoreInv => RegistryConsistent
  BY DEF StoreInv, CoreInv
<1> QED BY <1>1, StoreInvariant, PTL

\* No rename, deletion, partial failure or start leaves a tag table or a route
\* on a key that is not registered.
THEOREM ConfigNeverDangles == StoreSpec => []NoDanglingConfig
<1>1. StoreInv => NoDanglingConfig
  BY DEF StoreInv, CoreInv
<1> QED BY <1>1, StoreInvariant, PTL

\* Memory that is not flagged as unsaved is what is on disk.
THEOREM MemoryAlwaysPersisted == StoreSpec => []MemoryIsPersisted
<1>1. StoreInv => MemoryIsPersisted
  BY DEF StoreInv
<1> QED BY <1>1, StoreInvariant, PTL

\* An id that some saved blob contained stays behind the allocator, in memory
\* and on disk, until a start loses the allocator.
THEOREM SavedIdsStayRetired == StoreSpec => []SavedIdsRetired
<1>1. StoreInv => SavedIdsRetired
  BY DEF StoreInv
<1> QED BY <1>1, StoreInvariant, PTL

\* A start whose load succeeds installs exactly the configuration on disk.
THEOREM StartInstallsWhole == StoreSpec => RestartIsWhole
<1>1. StoreInv /\ [StoreNext]_storeAndCoreVars =>
        [RestartLoaded => /\ connections' = disk.connections
                          /\ connTags' = disk.connTags
                          /\ routes' = disk.routes]_storeAndCoreVars
  BY RestartLoadedLemma
<1> QED BY <1>1, StoreInvariant, PTL DEF StoreSpec, RestartIsWhole

\* Types, the registry and the configuration, as the runs check them together.
THEOREM StoreIsSafe == StoreSpec => []StoreSafe
<1>1. StoreTypeOK /\ RegistryConsistent /\ NoDanglingConfig => StoreSafe
  BY DEF StoreSafe
<1> QED BY <1>1, StoreTypeCorrect, RegistryAlwaysConsistent, ConfigNeverDangles, PTL
=============================================================================
