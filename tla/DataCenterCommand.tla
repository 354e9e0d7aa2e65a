------------------------- MODULE DataCenterCommand --------------------------
(***************************************************************************)
(* ExecuteCommand: a synchronous command is routed to the one target point *)
(* of its source, waits for its turn in the lane of the target connection, *)
(* is sent to the target module, and, when the target accepts it, becomes  *)
(* the latest value of the target point.  The core mutex is held only for  *)
(* the single steps, so the configuration may change between any two of    *)
(* them; the client may cancel, or its deadline pass, at any point.        *)
(***************************************************************************)
EXTENDS DataCenterStore, LaneOps

CONSTANTS CommandSrc,   \* how a command names its source: by key or by conn_id
          MayStop,      \* whether clients cancel or run into their deadline
          CallMayExpire \* whether the timeout of a call may pass at the target

ASSUME CommandAssumption ==
    /\ CommandSrc \in [Commands -> [key : Keys \cup {NoKey}, id : ConnIds, tag : Tags]]
    /\ {MayStop, CallMayExpire} \subseteq BOOLEAN

VARIABLES cmds,  \* what the handler of a command knows
          lanes, \* commandLanes: one lane for each stable connection key
          target \* the handler of the command in the target module (external)

cmdVars == <<coreVars, storeVars, cmds, lanes, target>>

NoDst == [key |-> NoKey, id |-> 0, tag |-> NoKey]

FreshCommand == [pc |-> "start", stop |-> "none", route |-> "none", dst |-> NoDst,
                 src |-> NoDst, ticket |-> 0, outcome |-> "none", result |-> "none"]

CommandInit ==
    /\ StoreInit
    /\ cmds = [c \in Commands |-> FreshCommand]
    /\ lanes = [k \in Keys |-> NewLane]
    /\ target = [c \in Commands |-> "idle"]

\* resolveEndpoint: the stable endpoint a source reference stands for, if any.
\* A reference with a key is resolved by it, and its conn_id is not looked at.
Resolved(ref) ==
    {[key |-> k, tag |-> ref.tag] : k \in
        {j \in Keys : Registered(j) /\ j = IF ref.key # NoKey THEN ref.key ELSE connections[ref.id]}}

At(c, pc) == cmds[c].pc = pc
Stopped(c) == cmds[c].stop # "none"

\* The command goes to pc and the rest of the service stays as it is.
Step(c, pc) ==
    /\ cmds' = [cmds EXCEPT ![c].pc = pc]
    /\ UNCHANGED <<coreVars, storeVars>>

Finished(c, result) == [cmds EXCEPT ![c].pc = "done", ![c].result = result]

\* A return before a ticket was taken.
Return(c, result) ==
    /\ cmds' = Finished(c, result)
    /\ UNCHANGED <<coreVars, storeVars, lanes, target>>

\* Mutant: a return path that forgets the lease.
ReturnKeepingLane(c, result) ==
    /\ cmds' = Finished(c, result)
    /\ UNCHANGED <<coreVars, storeVars, lanes, target>>

\* A return with the lease active: its destructor releases the lane.
ReleaseLane(c) ==
    \E l \in Released(lanes[cmds[c].dst.key]) : lanes' = [lanes EXCEPT ![cmds[c].dst.key] = l]

ReturnHolding(c, result) ==
    /\ cmds' = Finished(c, result)
    /\ ReleaseLane(c)
    /\ UNCHANGED <<coreVars, storeVars, target>>

-----------------------------------------------------------------------------

\* The client: a cancellation or the upstream deadline, once and for good.
Stop(c) ==
    /\ MayStop
    /\ cmds[c].pc \notin {"start", "done"}
    /\ ~Stopped(c)
    /\ \E why \in {"cancelled", "deadline"} : cmds' = [cmds EXCEPT ![c].stop = why]
    /\ UNCHANGED <<coreVars, storeVars, lanes, target>>

\* What ResolveCommandRoute answers for a source endpoint.
RouteOf(src) ==
    LET dsts == DstsOf(src) IN
    IF dsts = {} THEN "NO_ROUTE"
    ELSE IF Cardinality(dsts) > 1 THEN "AMBIGUOUS_ROUTE"
    ELSE IF \E d \in dsts : ~Registered(d.key) THEN "TARGET_UNAVAILABLE" ELSE "ONE"

Route(c) ==
    /\ At(c, "start")
    /\ \/ Resolved(CommandSrc[c]) = {} /\ Return(c, "ERROR")
       \/ \E src \in Resolved(CommandSrc[c]) :
            \/ /\ RouteOf(src) # "ONE"
               /\ cmds' = [cmds EXCEPT ![c].pc = "routed", ![c].route = RouteOf(src)]
            \/ /\ RouteOf(src) = "ONE"
               /\ \E d \in DstsOf(src) :
                    cmds' = [cmds EXCEPT ![c].pc = "routed", ![c].route = "ONE",
                        ![c].dst = [key |-> d.key, id |-> connIdsByKey[d.key], tag |-> d.tag]]
          /\ UNCHANGED <<coreVars, storeVars, lanes, target>>

\* A stopped call never returns the result of its routing.
CheckAfterRoute(c) ==
    /\ At(c, "routed")
    /\ \/ Stopped(c) /\ Return(c, "STOPPED")
       \/ ~Stopped(c) /\ cmds[c].route # "ONE" /\ Return(c, cmds[c].route)
       \/ ~Stopped(c) /\ cmds[c].route = "ONE" /\ Step(c, "admitted") /\ UNCHANGED <<lanes, target>>

\* Under the core mutex: the lane of the target's key, and a ticket of it.
ReserveTicket(c) ==
    /\ At(c, "admitted")
    /\ LET l == lanes[cmds[c].dst.key] IN
         /\ lanes' = [lanes EXCEPT ![cmds[c].dst.key] = WithReserved(l)]
         /\ cmds' = [cmds EXCEPT ![c].pc = "queued", ![c].ticket = l.next]
    /\ UNCHANGED <<coreVars, storeVars, target>>

\* Mutant: a call whose lane is empty of holders goes ahead.
TakeTurnWhenIdle(c) ==
    /\ At(c, "queued")
    /\ \A d \in Commands : At(d, "queued") \/ cmds[d].pc \in {"start", "routed", "admitted", "done"}
    /\ Step(c, "holding")
    /\ UNCHANGED <<lanes, target>>

TakeTurn(c) ==
    /\ At(c, "queued")
    /\ lanes[cmds[c].dst.key].serving = cmds[c].ticket
    /\ Step(c, "holding")
    /\ UNCHANGED <<lanes, target>>

\* Mutant: a ticket is given up without a trace in the lane.
GiveUpTurnSilently(c) ==
    /\ At(c, "queued") /\ Stopped(c)
    /\ lanes[cmds[c].dst.key].serving # cmds[c].ticket
    /\ cmds' = Finished(c, "STOPPED")
    /\ UNCHANGED <<coreVars, storeVars, lanes, target>>

\* Stopped while it waits: the ticket is given up, no lease is held.
GiveUpTurn(c) ==
    /\ At(c, "queued") /\ Stopped(c)
    /\ LET l == lanes[cmds[c].dst.key] IN
         /\ l.serving # cmds[c].ticket
         /\ \E m \in Abandoned(l, cmds[c].ticket) :
              lanes' = [lanes EXCEPT ![cmds[c].dst.key] = m]
    /\ cmds' = Finished(c, "STOPPED")
    /\ UNCHANGED <<coreVars, storeVars, target>>

CheckBeforeCall(c) ==
    /\ At(c, "holding")
    /\ \/ Stopped(c) /\ ReturnHolding(c, "STOPPED")
       \/ ~Stopped(c) /\ Step(c, "checked") /\ UNCHANGED <<lanes, target>>

\* ResolveSourceEndpoint, and the request goes out to the target module.
CallTarget(c) ==
    /\ At(c, "checked")
    /\ \/ Resolved(CommandSrc[c]) = {} /\ ReturnHolding(c, "ERROR")
       \/ /\ \E src \in Resolved(CommandSrc[c]) :
               cmds' = [cmds EXCEPT ![c].pc = "calling", ![c].src = src]
          /\ target' = [target EXCEPT ![c] = "sent"]
          /\ UNCHANGED <<coreVars, storeVars, lanes>>

\* The target's handler: it may start late, and it does not end with the call.
TargetExecutes(c) ==
    /\ \/ target[c] = "sent" /\ target' = [target EXCEPT ![c] = "executing"]
       \/ /\ target[c] = "executing"
          /\ \E answer \in {"accepted", "rejected"} : target' = [target EXCEPT ![c] = answer]
    /\ UNCHANGED <<coreVars, storeVars, cmds, lanes>>

\* The call returns: with the target's answer, because the target module has
\* no server or loses it, because the call's own timeout passed, or because
\* the client stopped and the watcher cancelled it.
CallOutcome(c) ==
    CASE target[c] = "accepted" -> {"accepted"}
      [] target[c] = "rejected" -> {"rejected"}
      [] OTHER -> {"unavailable"}
                   \cup (IF CallMayExpire THEN {"expired"} ELSE {})
                   \cup (IF Stopped(c) THEN {"cancelled"} ELSE {})

CallReturns(c) ==
    /\ At(c, "calling")
    /\ \E o \in CallOutcome(c) :
         /\ cmds' = [cmds EXCEPT ![c].pc = "returned", ![c].outcome = o]
         /\ target' = IF o = "unavailable" THEN [target EXCEPT ![c] = "lost"] ELSE target
    /\ UNCHANGED <<coreVars, storeVars, lanes>>

ResultOf(outcome) ==
    CASE outcome = "expired"     -> "TIMEOUT"
      [] outcome = "unavailable" -> "TARGET_UNAVAILABLE"
      [] outcome = "cancelled"   -> "INTERNAL_ERROR"
      [] outcome = "rejected"    -> "REJECTED"

\* Mutant: an expired call counts as done.
CheckAfterCallTrusting(c) ==
    /\ At(c, "returned")
    /\ \/ /\ cmds[c].outcome = "rejected" /\ ReturnHolding(c, "REJECTED")
       \/ /\ cmds[c].outcome # "rejected"
          /\ Step(c, "accepted") /\ UNCHANGED <<lanes, target>>

CheckAfterCall(c) ==
    /\ At(c, "returned")
    /\ \/ Stopped(c) /\ ReturnHolding(c, "STOPPED")
       \/ /\ ~Stopped(c) /\ cmds[c].outcome # "accepted"
          /\ ReturnHolding(c, ResultOf(cmds[c].outcome))
       \/ /\ ~Stopped(c) /\ cmds[c].outcome = "accepted"
          /\ Step(c, "accepted") /\ UNCHANGED <<lanes, target>>

\* The last look at the cancellation comes before the core mutex is taken;
\* the deadline is not looked at again.
CheckBeforeStore(c) ==
    /\ At(c, "accepted")
    /\ \/ cmds[c].stop = "cancelled" /\ ReturnHolding(c, "STOPPED")
       \/ cmds[c].stop # "cancelled" /\ Step(c, "storing") /\ UNCHANGED <<lanes, target>>

StoreAccepted(c) ==
    /\ At(c, "storing")
    /\ \/ /\ StoreAcceptedCommand(c, cmds[c].src, cmds[c].dst)
          /\ cmds' = Finished(c, "ACCEPTED")
          /\ ReleaseLane(c)
          /\ UNCHANGED <<storeVars, target>>
       \/ ~Registered(cmds[c].src.key) /\ ReturnHolding(c, "INTERNAL_ERROR")

Proceed(c) ==
    \/ Route(c) \/ CheckAfterRoute(c) \/ ReserveTicket(c) \/ TakeTurn(c) \/ GiveUpTurn(c)
    \/ CheckBeforeCall(c) \/ CallTarget(c) \/ CallReturns(c) \/ CheckAfterCall(c)
    \/ CheckBeforeStore(c) \/ StoreAccepted(c)

CommandNext ==
    \/ (EditConfigRpc \/ \E k \in Keys : DeleteConnectionRpc(k)) /\ UNCHANGED <<cmds, lanes, target>>
    \/ \E c \in Commands : Stop(c) \/ Proceed(c) \/ TargetExecutes(c)

CommandSpec == CommandInit /\ [][CommandNext]_cmdVars

\* Every handler's thread runs on, and a call ends at its deadline at the
\* latest; nothing is assumed of the clients and of the target module.
CommandFairness == \A c \in Commands : WF_cmdVars(Proceed(c))

FairCommandSpec == CommandSpec /\ CommandFairness

-----------------------------------------------------------------------------

Holding == {"holding", "checked", "calling", "returned", "accepted", "storing"}
InLaneOf(k) == {c \in Commands : cmds[c].pc \in {"queued"} \cup Holding /\ cmds[c].dst.key = k}

CommandTypeOK ==
    /\ StoreTypeOK
    /\ \A c \in Commands :
         /\ cmds[c].pc \in {"start", "routed", "admitted", "queued", "done"} \cup Holding
         /\ cmds[c].dst = NoDst \/ cmds[c].dst \in [key : Keys, id : ConnIds, tag : Tags]
         /\ cmds[c].pc \in {"admitted", "queued"} \cup Holding => cmds[c].dst # NoDst
    /\ lanes \in [Keys -> [next : Nat, serving : Nat, cancelled : SUBSET Nat]]
    /\ target \in [Commands -> {"idle", "sent", "executing", "accepted", "rejected", "lost"}]

\* One command at a time holds a lane, from its turn until it returns, also when
\* the connection the lane is named for is renamed, deleted or made anew.
HeldByOne ==
    \A c, d \in Commands :
        {cmds[c].pc, cmds[d].pc} \subseteq Holding /\ cmds[c].dst.key = cmds[d].dst.key => c = d

\* Whichever of its return paths a command takes, its lane goes on: a lane
\* stands at the ticket of a command that is in it, or is empty.
LanesNotStuck ==
    \A k \in Keys :
        /\ lanes[k].serving = lanes[k].next
              \/ \E c \in InLaneOf(k) : cmds[c].ticket = lanes[k].serving
        /\ lanes[k].serving = lanes[k].next => lanes[k].cancelled = {}

\* A command is reported as accepted or refused only when its target said so,
\* and is cached only when it was accepted and reported as such: one that was
\* stopped, refused, timed out or failed leaves no trace in the cache.
AnswersAreTheTargets ==
    /\ \A c \in Commands : cmds[c].result = "ACCEPTED" => target[c] = "accepted"
    /\ \A c \in Commands : cmds[c].result = "REJECTED" => target[c] = "rejected"
    /\ \A p \in Points : latestByDst[p] # NoUpdate /\ latestByDst[p].val \in Commands =>
          cmds[latestByDst[p].val].result = "ACCEPTED"

\* Commands are sent in the order in which they were accepted into the lane.
SentInTicketOrder ==
    [][\A c, d \in Commands :
          /\ cmds[c].pc = "checked" /\ cmds'[c].pc = "calling"
          /\ d \in InLaneOf(cmds[c].dst.key) \ {c}
          => cmds[c].ticket < cmds[d].ticket]_cmdVars

\* Every command comes to an end, whatever happens to the configuration.
CommandsEnd == \A c \in Commands : cmds[c].pc # "start" ~> cmds[c].pc = "done"

\* The README's claim: commands to one target connection are called serially.
\* Lanes are found by the target's key, so a rename opens a second lane.
OneCallPerConnection ==
    \A c, d \in Commands :
        cmds[c].pc = "calling" /\ cmds[d].pc = "calling" /\ cmds[c].dst.id = cmds[d].dst.id => c = d

\* A lane is held by one command at a time and goes on, on all of ExecuteCommand's
\* return paths, while connections are renamed and deleted under it.
CommandSafe == CommandTypeOK /\ HeldByOne /\ LanesNotStuck
=============================================================================
