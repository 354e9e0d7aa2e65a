-------------------------- MODULE DataCenterStore ---------------------------
(***************************************************************************)
(* The configuration RPCs of DataCenterGrpcService: each one applies one   *)
(* operation of DataCenterCore and then saves the complete configuration   *)
(* (connections, tag tables, routes) as one blob in conf/config.db.  A     *)
(* failed save is reported to the caller but the memory is not rolled      *)
(* back; stateNeedsPersistence remembers it.  A crash loses the memory,    *)
(* and the constructor loads the blob again.                               *)
(***************************************************************************)
EXTENDS DataCenterCore

CONSTANTS RouteRequests, \* sets of routes a client may send in one request
          TagRequests,   \* sets of tags a client may send in one request
          SaveMayFail,   \* whether writing the database may fail
          LoadMayFail    \* whether reading the database may fail at a start

ASSUME StoreAssumption ==
    /\ RouteRequests \subseteq SUBSET Routes
    /\ TagRequests \subseteq SUBSET Tags
    /\ SaveMayFail \in BOOLEAN
    /\ LoadMayFail \in BOOLEAN

VARIABLES disk,                  \* the blob in conf/config.db
          stateNeedsPersistence, \* the last save failed
          everSaved,             \* history: ids some saved blob contained
          allocatorLost          \* history: a start could not restore the allocator

storeVars == <<disk, stateNeedsPersistence, everSaved, allocatorLost>>

States == [connections : [ConnIds -> Keys \cup {NoKey}],
           nextConnId  : {0} \cup ConnIds,
           connTags    : [Keys -> {NoTable} \cup SUBSET Tags],
           routes      : SUBSET Routes]

\* No blob in the database: loading it gives the empty message.
BlankState == [connections |-> NoConnections, nextConnId |-> 0,
               connTags |-> NoTagTables, routes |-> {}]

StoreInit ==
    /\ CoreInit
    /\ disk = BlankState
    /\ stateNeedsPersistence = FALSE
    /\ everSaved = {}
    /\ allocatorLost = FALSE

DumpState == [connections |-> connections, nextConnId |-> nextConnId,
              connTags |-> connTags, routes |-> routes]

IdsIn(conns) == {i \in ConnIds : conns[i] # NoKey}
KeysIn(conns) == {conns[i] : i \in IdsIn(conns)}

EndpointValid(s, e) ==
    /\ e.key \in KeysIn(s.connections)
    /\ s.connTags[e.key] # NoTable => e.tag \in s.connTags[e.key]

\* Mutant: a validator that leaves the routes to the core.
ValidWithoutRoutes(s) ==
    /\ \A i, j \in IdsIn(s.connections) : s.connections[i] = s.connections[j] => i = j
    /\ \A k \in Keys : s.connTags[k] # NoTable => k \in KeysIn(s.connections)

\* The validator the store runs before every save and after every load.
ValidState(s) ==
    /\ \A i, j \in IdsIn(s.connections) : s.connections[i] = s.connections[j] => i = j
    /\ \A k \in Keys : s.connTags[k] # NoTable => k \in KeysIn(s.connections)
    /\ \A r \in s.routes : EndpointValid(s, r.src) /\ EndpointValid(s, r.dst)

\* What the next state would be saved as.  Written out with primed variables
\* because DumpState' is what saveStateLocked sees after the core changed.
SaveSucceeds ==
    /\ ValidState(DumpState')
    /\ disk' = DumpState'
    /\ stateNeedsPersistence' = FALSE
    /\ everSaved' = everSaved \cup IdsIn(connections')
    /\ UNCHANGED allocatorLost

\* Mutant: a failed save is reported and forgotten.
SaveFailsSilently ==
    /\ SaveMayFail \/ ~ValidState(DumpState')
    /\ UNCHANGED storeVars

SaveFails ==
    /\ SaveMayFail \/ ~ValidState(DumpState')
    /\ stateNeedsPersistence' = TRUE
    /\ UNCHANGED <<disk, everSaved, allocatorLost>>

SaveState == SaveSucceeds \/ SaveFails

-----------------------------------------------------------------------------
(* The RPCs that change the configuration. *)

\* A registered key is returned at once, unless an earlier save is owed.
GetOrCreateConnectionRpc(k) ==
    /\ \/ AllocateConnection(k)
       \/ Registered(k) /\ stateNeedsPersistence /\ UNCHANGED coreVars
    /\ SaveState

UpsertConnectionRpc(id, k)   == UpsertConnection(id, k) /\ SaveState
RenameConnectionRpc(old, k)  == RenameConnection(old, k) /\ SaveState
DeleteConnectionRpc(k)       == DeleteConnection(k) /\ SaveState
UpsertConnTagsRpc(id, ts, b) == UpsertConnTags(id, ts, b) /\ SaveState
UpsertRoutesRpc(rs, b)       == UpsertRoutes(rs, b) /\ SaveState
DeleteRoutesRpc(rs)          == DeleteRoutes(rs) /\ SaveState

\* The configuration RPCs that end no subscription.
EditConfigRpc ==
    \/ \E k \in Keys : GetOrCreateConnectionRpc(k)
    \/ \E id \in ConnIds, k \in Keys : UpsertConnectionRpc(id, k)
    \/ \E old, k \in Keys : RenameConnectionRpc(old, k)
    \/ \E id \in ConnIds, ts \in TagRequests, b \in BOOLEAN : UpsertConnTagsRpc(id, ts, b)
    \/ \E rs \in RouteRequests, b \in BOOLEAN : UpsertRoutesRpc(rs, b)
    \/ \E rs \in RouteRequests : DeleteRoutesRpc(rs)

-----------------------------------------------------------------------------
(* A crash and the next start. *)

\* The largest id in use, 0 when there is none (a set of one number).
MaxIdIn(conns) == {m \in {0} \cup IdsIn(conns) : \A i \in IdsIn(conns) : i <= m}

\* Mutant: the allocator is always computed from the connections left.
NextIdRecomputed(s) ==
    {IF m = MaxConnId THEN 0 ELSE m + 1 : m \in MaxIdIn(s.connections)}

\* The allocator of a loaded blob: never behind the largest id in use.  A
\* stored 0 (exhausted) is recomputed from the connections that are left.
RestoredNextId(s) ==
    {LET computed == IF m = MaxConnId THEN 0 ELSE m + 1 IN
     IF s.nextConnId = 0 \/ (computed # 0 /\ s.nextConnId < computed)
     THEN computed ELSE s.nextConnId : m \in MaxIdIn(s.connections)}

\* The three parts are applied one after the other; one that is refused
\* leaves the parts before it installed.
ApplyState(s) ==
    LET tagsApply   == \A k \in Keys : s.connTags[k] # NoTable => k \in KeysIn(s.connections)
        routesApply == \A r \in s.routes : EndpointValid(s, r.src) /\ EndpointValid(s, r.dst)
    IN /\ connections' = s.connections
       /\ connIdsByKey' = [k \in Keys |->
             IF k \in KeysIn(s.connections)
             THEN CHOOSE i \in IdsIn(s.connections) : s.connections[i] = k ELSE 0]
       /\ nextConnId' \in RestoredNextId(s)
       /\ connTags' = IF tagsApply THEN s.connTags ELSE NoTagTables
       /\ routes' = IF tagsApply /\ routesApply THEN s.routes ELSE {}

ForgetConfig ==
    /\ connections' = NoConnections
    /\ connIdsByKey' = [k \in Keys |-> 0]
    /\ nextConnId' = 1
    /\ connTags' = NoTagTables
    /\ routes' = {}

ForgetLatest ==
    /\ latestByDst' = [p \in Points |-> NoUpdate]
    /\ latestBySrc' = [p \in Points |-> 0]
    /\ sourceSequence' = 0

LoadedBlank == disk = BlankState

\* A start whose load succeeds.
RestartLoaded ==
    /\ ForgetLatest
    /\ ValidState(disk)
    /\ IF LoadedBlank THEN ForgetConfig ELSE ApplyState(disk)
    /\ stateNeedsPersistence' = FALSE
    /\ allocatorLost' = (allocatorLost \/ (disk.nextConnId = 0 /\ everSaved # {}))
    /\ UNCHANGED <<disk, everSaved>>

\* A start whose load fails (unreadable database, or a blob the validator
\* rejects): the service runs on an empty core.
RestartEmpty ==
    /\ ForgetLatest
    /\ LoadMayFail \/ ~ValidState(disk)
    /\ ForgetConfig
    /\ stateNeedsPersistence' = FALSE
    /\ allocatorLost' = TRUE
    /\ UNCHANGED <<disk, everSaved>>

StoreNext ==
    \/ EditConfigRpc
    \/ \E k \in Keys : DeleteConnectionRpc(k)
    \/ RestartLoaded
    \/ RestartEmpty

storeAndCoreVars == <<coreVars, storeVars>>

StoreSpec == StoreInit /\ [][StoreNext]_storeAndCoreVars

-----------------------------------------------------------------------------

StoreTypeOK ==
    /\ CoreTypeOK
    /\ disk \in States
    /\ stateNeedsPersistence \in BOOLEAN
    /\ everSaved \subseteq ConnIds
    /\ allocatorLost \in BOOLEAN

\* A configuration change that is not flagged as unsaved is on disk: whatever
\* the order of edits, failed saves, retries and crashes.  The exemption is
\* a start that lost what was on disk: it runs on an empty core.
MemoryIsPersisted ==
    stateNeedsPersistence \/ allocatorLost
    \/ /\ disk.connections = connections
       /\ disk.connTags = connTags
       /\ disk.routes = routes

\* An id a client may have stored in its own configuration (one that some
\* saved blob contained) is never handed out again, across deletions and
\* crashes, as long as every start restored the allocator.
SavedIdsRetired ==
    ~allocatorLost =>
        \A i \in everSaved :
            /\ nextConnId # 0 => i < nextConnId
            /\ disk.nextConnId # 0 => i < disk.nextConnId

\* What is on disk can always be loaded as a whole, so that no start installs
\* a part of a configuration: it comes back exactly, or not at all.
RestartIsWhole ==
    [][RestartLoaded =>
         /\ connections' = disk.connections
         /\ connTags' = disk.connTags
         /\ routes' = disk.routes]_storeAndCoreVars

\* The README's claim for routes: with a tag table registered, a route's tags
\* are in it.  An appending UpsertConnTags that creates the table breaks it,
\* and every later save fails until the table is replaced.
RoutesMatchTagTables ==
    \A r \in routes : AllowedByTags(r.src) /\ AllowedByTags(r.dst)

\* In memory the two maps of the registry are inverse to each other, and tag
\* tables and routes mention only registered connections: through renames,
\* deletions, failed saves, failed loads and restarts.
StoreSafe == StoreTypeOK /\ RegistryConsistent /\ NoDanglingConfig
=============================================================================
