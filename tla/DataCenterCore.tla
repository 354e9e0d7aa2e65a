--------------------------- MODULE DataCenterCore ---------------------------
(***************************************************************************)
(* The in-memory state of DataCenter (class DataCenterCore): the registry  *)
(* that gives every stable connection key (module_name, conn_name) a       *)
(* conn_id, the tag table of a connection, the routes between stable       *)
(* endpoints, and the latest value of every source and destination point.  *)
(*                                                                         *)
(* Every operation runs under the service's core mutex, so it is one       *)
(* action.  A request the code rejects changes nothing: the rejecting      *)
(* conditions are the guards.  An endpoint given by conn_id is turned into *)
(* the stable endpoint of that connection before it is used                *)
(* (resolveEndpoint), so requests are modelled with stable endpoints.      *)
(* A point's value is the number of its publication.                       *)
(***************************************************************************)
EXTENDS Naturals, Sequences, FiniteSets

CONSTANTS Keys,        \* stable connection keys (module_name, conn_name)
          Tags,        \* logical point names
          MaxConnId,   \* the largest conn_id (uint32 max in the code)
          MaxSequence, \* the largest source sequence (uint64 max in the code)
          Commands,    \* synchronous commands; a command is its own value
          NoKey, NoTable, NoUpdate

ASSUME CoreAssumption ==
    /\ MaxConnId \in Nat \ {0}
    /\ MaxSequence \in Nat
    /\ NoKey \notin Keys
    /\ \A ts \in SUBSET Tags : ts # NoTable
    /\ \A c \in Commands : c \notin Nat

ConnIds   == 1..MaxConnId
Points    == ConnIds \X Tags
Endpoints == [key : Keys, tag : Tags]
Routes    == [src : Endpoints, dst : Endpoints]
Values    == (1..MaxSequence) \cup Commands
Updates   == [srcId : ConnIds, srcTag : Tags, dstId : ConnIds, dstTag : Tags, val : Values]

ASSUME NoUpdateAssumption == NoUpdate \notin Updates

VARIABLES connections,   \* conn_id -> key (NoKey: the id is free)
          connIdsByKey,  \* key -> conn_id (0: the key is not registered)
          nextConnId,    \* the allocator; 0 when it is exhausted
          connTags,      \* key -> set of tags (NoTable: no table registered)
          routes,        \* set of routes between stable endpoints
          latestByDst,   \* destination point -> the last update routed to it
          latestBySrc,   \* source point -> sequence of its last publication, 0 if none
          sourceSequence

registryVars == <<connections, connIdsByKey, nextConnId>>
configVars   == <<connections, connIdsByKey, nextConnId, connTags, routes>>
latestVars   == <<latestByDst, latestBySrc, sourceSequence>>
coreVars     == <<connections, connIdsByKey, nextConnId, connTags, routes,
                  latestByDst, latestBySrc, sourceSequence>>

NoConnections == [i \in ConnIds |-> NoKey]
NoTagTables   == [k \in Keys |-> NoTable]

CoreInit ==
    /\ connections = NoConnections
    /\ connIdsByKey = [k \in Keys |-> 0]
    /\ nextConnId = 1
    /\ connTags = NoTagTables
    /\ routes = {}
    /\ latestByDst = [p \in Points |-> NoUpdate]
    /\ latestBySrc = [p \in Points |-> 0]
    /\ sourceSequence = 0

-----------------------------------------------------------------------------
(* Resolution of endpoints. *)

Registered(k) == connIdsByKey[k] # 0

\* With a table registered, only its tags are legal on the connection.
AllowedByTags(e) == connTags[e.key] # NoTable => e.tag \in connTags[e.key]

Routable(r) ==
    /\ Registered(r.src.key) /\ Registered(r.dst.key)
    /\ AllowedByTags(r.src) /\ AllowedByTags(r.dst)

DstsOf(src) == {r.dst : r \in {q \in routes : q.src = src}}

PointOf(e) == <<connIdsByKey[e.key], e.tag>>

-----------------------------------------------------------------------------
(* The connection registry. *)

\* Ids the allocator may still hand out: it only ever searches upwards.
FreeIds == IF nextConnId = 0 THEN {}
           ELSE {i \in nextConnId..MaxConnId : connections[i] = NoKey}

AllocateConnection(k) ==
    /\ ~Registered(k)
    /\ \E id \in FreeIds :
         /\ \A i \in FreeIds : id <= i
         /\ nextConnId' = IF id = MaxConnId THEN 0 ELSE id + 1
         /\ connections' = [connections EXCEPT ![id] = k]
         /\ connIdsByKey' = [connIdsByKey EXCEPT ![k] = id]
    /\ UNCHANGED <<connTags, routes, latestVars>>

Rekeyed(e, old, new) == IF e.key = old THEN [e EXCEPT !.key = new] ELSE e

\* Mutant: a rename that follows the sources of the routes only.
SourceOnlyRekeyed(old, new) ==
    {[src |-> Rekeyed(r.src, old, new), dst |-> r.dst] : r \in routes}

RekeyedRoutes(old, new) ==
    {[src |-> Rekeyed(r.src, old, new), dst |-> Rekeyed(r.dst, old, new)] : r \in routes}

\* The connection id gets the key new: its tag table and its routes follow.
MoveConnection(id, old, new) ==
    /\ connections' = [connections EXCEPT ![id] = new]
    /\ connIdsByKey' = [connIdsByKey EXCEPT ![old] = 0, ![new] = id]
    /\ connTags' = IF connTags[old] = NoTable THEN connTags
                   ELSE [connTags EXCEPT ![old] = NoTable, ![new] = connTags[old]]
    /\ routes' = RekeyedRoutes(old, new)
    /\ UNCHANGED <<nextConnId, latestVars>>

RenameConnection(old, new) ==
    /\ Registered(old)
    /\ \/ /\ old = new
          /\ UNCHANGED coreVars
       \/ /\ old # new
          /\ connIdsByKey[new] \in {0, connIdsByKey[old]}
          /\ MoveConnection(connIdsByKey[old], old, new)

UpsertConnection(id, new) ==
    /\ connections[id] # NoKey
    /\ connIdsByKey[new] \in {0, id}
    /\ IF connections[id] = new THEN UNCHANGED coreVars
       ELSE MoveConnection(id, connections[id], new)

\* Mutant: a deletion that looks at the target of an update only.
MentionsAsTarget(u, id) == u # NoUpdate /\ u.dstId = id

Mentions(u, id) == u # NoUpdate /\ (u.srcId = id \/ u.dstId = id)

DeleteConnection(k) ==
    /\ Registered(k)
    /\ LET id == connIdsByKey[k] IN
         /\ connections' = [connections EXCEPT ![id] = NoKey]
         /\ connIdsByKey' = [connIdsByKey EXCEPT ![k] = 0]
         /\ connTags' = [connTags EXCEPT ![k] = NoTable]
         /\ routes' = {r \in routes : r.src.key # k /\ r.dst.key # k}
         /\ latestByDst' = [p \in Points |->
                IF p[1] = id \/ Mentions(latestByDst[p], id) THEN NoUpdate ELSE latestByDst[p]]
         /\ latestBySrc' = [p \in Points |-> IF p[1] = id THEN 0 ELSE latestBySrc[p]]
    /\ UNCHANGED <<nextConnId, sourceSequence>>

-----------------------------------------------------------------------------
(* Tag tables and routes. *)

PruneRejected(rs, k, allowed) ==
    {r \in rs : /\ r.src.key = k => r.src.tag \in allowed
                /\ r.dst.key = k => r.dst.tag \in allowed}

\* Only a replacing call prunes the routes the new table no longer allows.
UpsertConnTags(id, tags, replace) ==
    /\ connections[id] # NoKey
    /\ LET k     == connections[id]
           kept  == IF replace \/ connTags[k] = NoTable THEN {} ELSE connTags[k]
           table == kept \cup tags
       IN /\ connTags' = [connTags EXCEPT ![k] = table]
          /\ routes' = IF replace THEN PruneRejected(routes, k, table) ELSE routes
    /\ UNCHANGED <<registryVars, latestVars>>

\* All the routes of a request are checked before any of them is installed.
UpsertRoutes(rs, replace) ==
    /\ \A r \in rs : Routable(r)
    /\ routes' = IF replace THEN rs ELSE routes \cup rs
    /\ UNCHANGED <<registryVars, connTags, latestVars>>

DeleteRoutes(rs) ==
    /\ \A r \in rs : Registered(r.src.key) /\ Registered(r.dst.key)
    /\ routes' = routes \ rs
    /\ UNCHANGED <<registryVars, connTags, latestVars>>

-----------------------------------------------------------------------------
(* Publication.  A batch is checked as a whole, then applied point by     *)
(* point in the order of the request; a single Publish is a batch of one. *)

SourceEndpoint(p) == [key |-> connections[p[1]], tag |-> p[2]]

Publishable(points) ==
    /\ \A i \in DOMAIN points :
         /\ connections[points[i][1]] # NoKey
         /\ \A d \in DstsOf(SourceEndpoint(points[i])) : Registered(d.key)
    /\ Len(points) <= MaxSequence - sourceSequence

UpdateFor(points, i, d) ==
    [srcId |-> points[i][1], srcTag |-> points[i][2],
     dstId |-> connIdsByKey[d.key], dstTag |-> d.tag, val |-> sourceSequence + i]

\* What the i-th point of a batch is routed to.
RoutedUpdates(points, i) ==
    {UpdateFor(points, i, d) : d \in DstsOf(SourceEndpoint(points[i]))}

AllRoutedUpdates(points) == UNION {RoutedUpdates(points, i) : i \in DOMAIN points}

\* The update of a set for a point that was processed last, if there is one.
LastFor(p, us) ==
    LET mine == {u \in us : <<u.dstId, u.dstTag>> = p} IN
    IF mine = {} THEN latestByDst[p]
    ELSE CHOOSE u \in mine : \A v \in mine : v.val <= u.val

PublishPoints(points) ==
    /\ Publishable(points)
    /\ sourceSequence' = sourceSequence + Len(points)
    /\ latestBySrc' = [p \in Points |->
         LET mine == {i \in DOMAIN points : points[i] = p} IN
         IF mine = {} THEN latestBySrc[p]
         ELSE sourceSequence + CHOOSE i \in mine : \A j \in mine : j <= i]
    /\ latestByDst' = [p \in Points |-> LastFor(p, AllRoutedUpdates(points))]
    /\ UNCHANGED configVars

\* An accepted synchronous command becomes the latest value of its target
\* point; the target is the one resolved before the command was sent.
StoreAcceptedCommand(c, src, dst) ==
    /\ Registered(src.key)
    /\ latestByDst' = [latestByDst EXCEPT ![<<dst.id, dst.tag>>] =
         [srcId |-> connIdsByKey[src.key], srcTag |-> src.tag,
          dstId |-> dst.id, dstTag |-> dst.tag, val |-> c]]
    /\ UNCHANGED <<configVars, latestBySrc, sourceSequence>>

-----------------------------------------------------------------------------

CoreTypeOK ==
    /\ connections \in [ConnIds -> Keys \cup {NoKey}]
    /\ connIdsByKey \in [Keys -> {0} \cup ConnIds]
    /\ nextConnId \in {0} \cup ConnIds
    /\ connTags \in [Keys -> {NoTable} \cup SUBSET Tags]
    /\ routes \subseteq Routes
    /\ latestByDst \in [Points -> Updates \cup {NoUpdate}]
    /\ latestBySrc \in [Points -> 0..MaxSequence]
    /\ sourceSequence \in 0..MaxSequence

\* The two maps of the registry are inverses of each other: a key is found by
\* its id exactly when the id is found by its key.  Every rename, update and
\* delete edits both maps by hand.
RegistryConsistent ==
    /\ \A k \in Keys : connIdsByKey[k] # 0 => connections[connIdsByKey[k]] = k
    /\ \A i \in ConnIds : connections[i] # NoKey => connIdsByKey[connections[i]] = i

\* The allocator is ahead of every id in use, so that no id is handed out
\* twice: deleting a connection never makes its id available again.
AllocatorAhead ==
    nextConnId # 0 => \A i \in ConnIds : connections[i] # NoKey => i < nextConnId

\* No rename or delete leaves a tag table or a route behind on a key that is
\* not registered; a publication therefore never fails on a missing target.
NoDanglingConfig ==
    /\ \A k \in Keys : connTags[k] # NoTable => Registered(k)
    /\ \A r \in routes : Registered(r.src.key) /\ Registered(r.dst.key)

\* Nothing remembered for a connection outlives it: a latest value, of a
\* source or of a target, is that of registered connections only.
LatestIsOfRegistered ==
    \A p \in Points :
        /\ latestBySrc[p] # 0 => connections[p[1]] # NoKey
        /\ latestByDst[p] # NoUpdate =>
              connections[latestByDst[p].srcId] # NoKey /\ connections[p[1]] # NoKey

=============================================================================
