---------------------------- MODULE CommandLane -----------------------------
(***************************************************************************)
(* One command lane of DataCenterGrpcService and the ExecuteCommand calls  *)
(* that pass through it: a call reserves a ticket under the core mutex,    *)
(* waits until the lane serves that ticket, holds the lane while it calls  *)
(* the target module, and releases it on every return path.  A call whose  *)
(* client cancels, or whose deadline passes, gives its ticket up while it  *)
(* waits.  The waiting loop looks at the lane at least every 5 ms, so a    *)
(* lost notification only delays it.                                       *)
(***************************************************************************)
EXTENDS LaneOps

CONSTANTS Commands,  \* the calls in flight; one that left may come again
          MaxTickets \* bound: tickets reserved in one run (uint64 in the code)

ASSUME LaneAssumption == MaxTickets \in Nat

VARIABLES lane, pc, ticket

laneVars == <<lane, pc, ticket>>

LaneInit ==
    /\ lane = NewLane
    /\ pc = [c \in Commands |-> "out"]
    /\ ticket = [c \in Commands |-> 0]

Reserve(c) ==
    /\ pc[c] = "out"
    /\ lane.next < MaxTickets
    /\ lane' = WithReserved(lane)
    /\ ticket' = [ticket EXCEPT ![c] = lane.next]
    /\ pc' = [pc EXCEPT ![c] = "waiting"]

\* Mutant: a call enters when the lane has passed its ticket or is about to.
AcquireEarly(c) ==
    /\ pc[c] = "waiting"
    /\ ticket[c] <= lane.serving + 1
    /\ \A d \in Commands : pc[d] # "serving"
    /\ pc' = [pc EXCEPT ![c] = "serving"]
    /\ UNCHANGED <<lane, ticket>>

\* The waiting loop ends: the lease becomes active.
Acquire(c) ==
    /\ pc[c] = "waiting"
    /\ lane.serving = ticket[c]
    /\ pc' = [pc EXCEPT ![c] = "serving"]
    /\ UNCHANGED <<lane, ticket>>

\* Cancelled or past its deadline: looked at only while it is not its turn.
Abandon(c) ==
    /\ pc[c] = "waiting"
    /\ lane.serving # ticket[c]
    /\ lane' \in Abandoned(lane, ticket[c])
    /\ pc' = [pc EXCEPT ![c] = "out"]
    /\ UNCHANGED ticket

\* The lease is released when ExecuteCommand returns, whatever the outcome.
Release(c) ==
    /\ pc[c] = "serving"
    /\ lane' \in Released(lane)
    /\ pc' = [pc EXCEPT ![c] = "out"]
    /\ UNCHANGED ticket

LaneNext == \E c \in Commands : Reserve(c) \/ Acquire(c) \/ Abandon(c) \/ Release(c)

LaneSpec == LaneInit /\ [][LaneNext]_laneVars

\* The loop polls the lane, and the call to the target carries a deadline, so
\* a turn that has come is taken and a lane that is held is released.
LaneFairness == \A c \in Commands : WF_laneVars(Acquire(c)) /\ WF_laneVars(Release(c))

FairLaneSpec == LaneSpec /\ LaneFairness

-----------------------------------------------------------------------------

InLane == {c \in Commands : pc[c] # "out"}

LaneTypeOK ==
    /\ lane \in [next : Nat, serving : Nat, cancelled : SUBSET Nat]
    /\ pc \in [Commands -> {"out", "waiting", "serving"}]
    /\ ticket \in [Commands -> Nat]

\* Two commands are never sent to the target of a lane at the same time,
\* whatever the order in which others give up, release and reserve.
MutualExclusion ==
    \A c, d \in Commands : pc[c] = "serving" /\ pc[d] = "serving" => c = d

\* A holder's ticket is the one served: the defensive branch of release,
\* which would leave the lane where it is, is never taken.
HolderIsServed == \A c \in Commands : pc[c] = "serving" => ticket[c] = lane.serving

\* The lane never comes to stand at a ticket nobody will take: it serves a
\* command that is in the lane, or the ticket the next command will get.  The
\* set of tickets given up does not grow without bound either.
LaneNotStuck ==
    /\ lane.serving = lane.next \/ \E c \in InLane : ticket[c] = lane.serving
    /\ lane.serving = lane.next => lane.cancelled = {}

\* No reserved ticket is lost: each one still ahead is waited for or given up.
TicketsAccounted ==
    \A t \in lane.serving..(lane.next - 1) :
        (t \in lane.cancelled) # (\E c \in InLane : ticket[c] = t)

\* The lane implements first-in first-out service of one command at a time.
AheadOf(c) ==
    IF pc[c] = "out" THEN {} ELSE {d \in InLane : ticket[d] < ticket[c]}

Fifo == INSTANCE FifoService WITH
    phase <- pc, ahead <- [c \in Commands |-> AheadOf(c)]

ImplementsFifo == Fifo!FifoSpec

\* A command that waits is served or gives up: none waits for ever.
WaitingEnds == \A c \in Commands : pc[c] = "waiting" ~> pc[c] # "waiting"

\* At most one command holds the lane, and a lane that commands wait in always
\* serves one of them, whoever gives up, and when.
LaneSafe == MutualExclusion /\ LaneNotStuck
=============================================================================
