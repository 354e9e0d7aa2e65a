--------------------------- MODULE DataCenterBus ----------------------------
(***************************************************************************)
(* Publication and subscription in DataCenterGrpcService.  Publish and     *)
(* BatchPublish update the core and append to the queues of the matching   *)
(* subscribers under the one core mutex.  A Subscribe call registers its   *)
(* subscriber and takes its snapshot under that mutex too, then writes the *)
(* snapshot and pops its queue in a loop of its own, until the client goes *)
(* away or the connection is deleted.  A full queue drops its oldest       *)
(* update.                                                                 *)
(***************************************************************************)
EXTENDS DataCenterStore

CONSTANTS Subs,            \* Subscribe calls; one that ended may be made again
          QueueCap,        \* kMaxQueueSize (10000 in the code)
          Filters,         \* tag filters a client may ask for; {} is every tag
          PublishRequests  \* sequences of points a client may publish in one call

ASSUME BusAssumption ==
    /\ QueueCap \in Nat \ {0}
    /\ Filters \subseteq SUBSET Tags
    /\ \A ps \in PublishRequests : ps \in Seq(Points)
    /\ IsFiniteSet(Updates)  \* ids and sequences are machine integers

VARIABLE subs

busVars == <<coreVars, storeVars, subs>>

\* phase: "idle", "writing" (in the handler's loops) or "ending" (removed from
\* the registry, not yet marked closed).  seen is history: the last value the
\* client got for a tag, 0 for none.
IdleSub == [phase |-> "idle", registered |-> FALSE, closed |-> FALSE, cancelled |-> FALSE,
            id |-> 0, filter |-> {}, wantsSnapshot |-> FALSE, snapshot |-> {},
            queue |-> <<>>, dropped |-> 0, seen |-> [t \in Tags |-> 0]]

BusInit == StoreInit /\ subs = [s \in Subs |-> IdleSub]

-----------------------------------------------------------------------------

Passes(sub, tag) == sub.filter = {} \/ tag \in sub.filter

\* Mutant: a subscriber gets live updates once its snapshot is written.
MatchesAfterSnapshot(sub, u) ==
    sub.registered /\ sub.snapshot = {} /\ sub.id = u.dstId /\ Passes(sub, u.dstTag)

\* matchSubscribersLocked.
Matches(sub, u) == sub.registered /\ sub.id = u.dstId /\ Passes(sub, u.dstTag)

\* Mutant: a full queue refuses the new update.
EnqueuedDroppingNewest(sub, u) ==
    IF sub.closed THEN sub
    ELSE IF Len(sub.queue) < QueueCap THEN [sub EXCEPT !.queue = Append(@, u)]
    ELSE [sub EXCEPT !.dropped = @ + 1]

\* enqueue: a closed subscriber takes nothing, a full queue drops its oldest.
Enqueued(sub, u) ==
    IF sub.closed THEN sub
    ELSE IF Len(sub.queue) < QueueCap THEN [sub EXCEPT !.queue = Append(@, u)]
    ELSE [sub EXCEPT !.queue = Append(Tail(@), u), !.dropped = @ + 1]

\* The updates of a call are offered to each subscriber, one after the other.
Offered(sub, us) ==
    LET after[i \in 0..Len(us)] ==
            IF i = 0 THEN sub
            ELSE IF Matches(sub, us[i]) THEN Enqueued(after[i - 1], us[i])
            ELSE after[i - 1]
    IN after[Len(us)]

\* The orders in which a call may produce its updates: point by point, the
\* targets of one point in the arbitrary order of a hash set.
UpdateSeqs(us) ==
    {seq \in [1..Cardinality(us) -> us] :
        /\ \A u \in us : \E i \in DOMAIN seq : seq[i] = u
        /\ \A i, j \in DOMAIN seq : i < j => seq[i] # seq[j] /\ seq[i].val <= seq[j].val}

PublishRpc(points) ==
    /\ PublishPoints(points)
    /\ \E us \in UpdateSeqs(AllRoutedUpdates(points)) :
         subs' = [s \in Subs |-> Offered(subs[s], us)]
    /\ UNCHANGED storeVars

\* GetLatest, for the connection and the filter of the subscription.
LatestFor(id, filter) ==
    {latestByDst[p] : p \in {q \in Points :
        q[1] = id /\ latestByDst[q] # NoUpdate /\ (filter = {} \/ q[2] \in filter)}}

Subscribe(s, id, filter, wantsSnapshot) ==
    /\ subs[s].phase = "idle"
    /\ subs' = [subs EXCEPT ![s] =
          [IdleSub EXCEPT !.phase = "writing", !.registered = TRUE, !.id = id,
                          !.filter = filter, !.wantsSnapshot = wantsSnapshot,
                          !.snapshot = IF wantsSnapshot THEN LatestFor(id, filter) ELSE {}]]
    /\ UNCHANGED <<coreVars, storeVars>>

\* The snapshot is written whole even if the stream is closed meanwhile.
WriteSnapshot(s) ==
    /\ subs[s].phase = "writing"
    /\ ~subs[s].cancelled
    /\ \E u \in subs[s].snapshot :
         subs' = [subs EXCEPT ![s].snapshot = @ \ {u}, ![s].seen[u.dstTag] = u.val]
    /\ UNCHANGED <<coreVars, storeVars>>

Deliver(s) ==
    /\ subs[s].phase = "writing"
    /\ ~subs[s].cancelled /\ subs[s].snapshot = {}
    /\ ~subs[s].closed /\ subs[s].queue # <<>>
    /\ LET u == Head(subs[s].queue) IN
         subs' = [subs EXCEPT ![s].queue = Tail(@), ![s].seen[u.dstTag] = u.val]
    /\ UNCHANGED <<coreVars, storeVars>>

\* The client cancels or disconnects: from here on a write fails.
ClientGone(s) ==
    /\ subs[s].phase = "writing"
    /\ ~subs[s].cancelled
    /\ subs' = [subs EXCEPT ![s].cancelled = TRUE]
    /\ UNCHANGED <<coreVars, storeVars>>

\* Mutant: only the client's cancellation ends the loop.
RemoveCancelledSubscriber(s) ==
    /\ subs[s].phase = "writing"
    /\ subs[s].cancelled
    /\ subs' = [subs EXCEPT ![s].phase = "ending", ![s].registered = FALSE]
    /\ UNCHANGED <<coreVars, storeVars>>

\* The loops are left; removeSubscriber runs under the core mutex.
RemoveSubscriber(s) ==
    /\ subs[s].phase = "writing"
    /\ subs[s].cancelled \/ (subs[s].closed /\ subs[s].snapshot = {})
    /\ subs' = [subs EXCEPT ![s].phase = "ending", ![s].registered = FALSE]
    /\ UNCHANGED <<coreVars, storeVars>>

\* markClosed, and the handler returns.
MarkClosed(s) ==
    /\ subs[s].phase = "ending"
    /\ subs' = [subs EXCEPT ![s] = IdleSub]
    /\ UNCHANGED <<coreVars, storeVars>>

\* closeSubscribersLocked runs between the core's deletion and the save.
DeleteConnectionBusRpc(k) ==
    /\ DeleteConnectionRpc(k)
    /\ subs' = [s \in Subs |->
          IF subs[s].registered /\ subs[s].id = connIdsByKey[k]
          THEN [subs[s] EXCEPT !.registered = FALSE, !.closed = TRUE] ELSE subs[s]]

\* A crash ends every call.
RestartBus ==
    /\ RestartLoaded \/ RestartEmpty
    /\ subs' = [s \in Subs |-> IdleSub]

Serve(s) == WriteSnapshot(s) \/ Deliver(s) \/ RemoveSubscriber(s) \/ MarkClosed(s)

BusNext ==
    \/ EditConfigRpc /\ UNCHANGED subs
    \/ \E k \in Keys : DeleteConnectionBusRpc(k)
    \/ \E points \in PublishRequests : PublishRpc(points)
    \/ \E s \in Subs, id \in ConnIds, f \in Filters, b \in BOOLEAN : Subscribe(s, id, f, b)
    \/ \E s \in Subs : Serve(s) \/ ClientGone(s)
    \/ RestartBus

BusSpec == BusInit /\ [][BusNext]_busVars

\* A handler's thread keeps running: the loop polls every 200 ms, and a write
\* returns once the client reads or is gone.
BusFairness == \A s \in Subs : WF_busVars(Serve(s))

FairBusSpec == BusSpec /\ BusFairness

-----------------------------------------------------------------------------

SubTypeOK(sub) ==
    /\ sub.phase \in {"idle", "writing", "ending"}
    /\ {sub.registered, sub.closed, sub.cancelled, sub.wantsSnapshot} \subseteq BOOLEAN
    /\ sub.id \in {0} \cup ConnIds
    /\ sub.filter \in Filters \cup {{}}
    /\ sub.snapshot \subseteq Updates
    /\ sub.queue \in Seq(Updates) /\ Len(sub.queue) <= QueueCap
    /\ sub.dropped \in Nat
    /\ sub.seen \in [Tags -> 0..MaxSequence]

BusTypeOK == StoreTypeOK /\ \A s \in Subs : SubTypeOK(subs[s])

\* The updates a subscriber has still to write.
PendingOf(sub) == sub.snapshot \cup {sub.queue[i] : i \in DOMAIN sub.queue}

\* The values of a tag it has written last or has still to write.
ValuesOf(sub, t) == {sub.seen[t]} \cup {u.val : u \in {v \in PendingOf(sub) : v.dstTag = t}}

\* A client sees the values of a tag in the order in which the core processed
\* them and none of them twice, across the seam between the snapshot and the
\* live updates, concurrent publications and drops.
DeliveredInOrder ==
    \A s \in Subs : LET sub == subs[s] IN
        /\ \A u \in PendingOf(sub) : sub.seen[u.dstTag] < u.val
        /\ \A u, v \in sub.snapshot : u.dstTag = v.dstTag => u = v
        /\ \A u \in sub.snapshot, i \in DOMAIN sub.queue :
              u.dstTag = sub.queue[i].dstTag => u.val < sub.queue[i].val
        /\ \A i, j \in DOMAIN sub.queue :
              i < j /\ sub.queue[i].dstTag = sub.queue[j].dstTag =>
                  sub.queue[i].val < sub.queue[j].val

\* A subscription with a snapshot misses nothing: as long as no update was
\* dropped, the latest value of each of its tags is what the client saw last
\* or what is the last to be written.  No publication falls between the
\* snapshot and the registration.
NoUpdateMissed ==
    \A s \in Subs : LET sub == subs[s] IN
        sub.registered /\ sub.wantsSnapshot /\ sub.dropped = 0 =>
            \A u \in LatestFor(sub.id, sub.filter) :
                /\ u.val \in ValuesOf(sub, u.dstTag)
                /\ \A v \in ValuesOf(sub, u.dstTag) : v <= u.val

\* Dropping never costs the newest update: whatever was dropped, the newest
\* latest value of the subscription has been seen or is still to be written.
NewestKept ==
    \A s \in Subs : LET sub == subs[s] IN
        sub.registered /\ sub.wantsSnapshot =>
            \A u \in LatestFor(sub.id, sub.filter) :
                \E t \in Tags : \E v \in ValuesOf(sub, t) : u.val <= v

\* A stream whose connection is deleted comes to its end by itself.
ClosedStreamEnds == \A s \in Subs : subs[s].closed ~> subs[s].phase = "idle"

\* What a subscriber sees of one tag goes forward, through a queue that is
\* bounded and drops, and the newest value is never what is dropped.
BusSafe == BusTypeOK /\ DeliveredInOrder /\ NewestKept
=============================================================================
