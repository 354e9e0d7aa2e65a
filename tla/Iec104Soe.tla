----------------------------- MODULE Iec104Soe ------------------------------
(***************************************************************************)
(* Events (SOE) from the store of a slave station to a master station over *)
(* IEC 104 connections that break.  Both ends run the session of this      *)
(* repository.  The subscription thread of the slave stores an event and   *)
(* then posts it to the session; the session queues it when the data       *)
(* transfer is active, and sends every unacknowledged event again at each  *)
(* activation.  The master may stop and restart the data transfer.         *)
(***************************************************************************)
EXTENDS Iec104Session

CONSTANTS MaxEvents,   \* bound: events stored in one run
          Capacity,    \* kCapacityPerConnection (8000 in the code)
          MaxFaults,   \* bound: connections lost, by the network, a timer or a
                       \* crash, and acknowledgements that are not recorded
          MaxStops     \* bound: STOPDT requests of the master

ASSUME SoeAssumption ==
    /\ Ends = {"slave", "master"}
    /\ {MaxEvents, MaxFaults, MaxStops} \subseteq Nat
    /\ Capacity \in Nat \ {0}

VARIABLES up,       \* whether there is a connection
          sess,     \* the session of each end
          wire,     \* the frames on their way to an end
          stored,   \* iec104_soe_connections: events numbered so far
          acked,    \* iec104_soe_events: the events with acknowledged = 1
          unposted, \* the event stored and not yet posted, 0 for none
          posted,   \* SendSoe tasks in the queue of the slave's session
          received, \* the events the master processed
          alarm,    \* whether an end closed the connection for a protocol error
          faults, stops

connVars  == <<up, sess, wire, posted, alarm>>
storeVars == <<stored, acked, unposted>>
soeVars   == <<connVars, storeVars, received, faults, stops>>

SoeInit ==
    /\ up = FALSE
    /\ sess = [e \in Ends |-> NewSession]
    /\ wire = [e \in Ends |-> <<>>]
    /\ stored = 0 /\ acked = {} /\ unposted = 0
    /\ posted = <<>>
    /\ received = {}
    /\ alarm = FALSE
    /\ faults = 0 /\ stops = 0

Peer(end) == IF end = "slave" THEN "master" ELSE "slave"

\* The records of the store: the oldest are overwritten.
Records == {e \in 1..stored : e + Capacity > stored}

\* LoadUnacknowledged.
Unacknowledged == Records \ acked

\* MarkAcknowledged touches what is in the store, or fails.
Mark(events) ==
    \/ acked' = acked \cup (events \cap Records) /\ UNCHANGED faults
    \/ events # {} /\ faults < MaxFaults /\ faults' = faults + 1 /\ UNCHANGED acked

-----------------------------------------------------------------------------
(* The connection. *)

Disconnected ==
    /\ up' = FALSE
    /\ sess' = [e \in Ends |-> NewSession]
    /\ wire' = [e \in Ends |-> <<>>]
    /\ posted' = <<>>

\* Start at both ends; the master asks for the data transfer.
Connect ==
    /\ ~up
    /\ up' = TRUE
    /\ wire' = [wire EXCEPT !["slave"] = <<UFrame("STARTDT_ACT")>>]
    /\ UNCHANGED <<sess, posted, alarm, storeVars, received, faults, stops>>

\* The network fails, a timer (t0, t1, t3) closes a session, a new connection
\* replaces the old one: what was queued, posted and on its way is gone.
Drop ==
    /\ up /\ faults < MaxFaults
    /\ Disconnected
    /\ faults' = faults + 1
    /\ UNCHANGED <<alarm, storeVars, received, stops>>

\* The slave's process dies, perhaps between storing an event and posting it.
Crash ==
    /\ faults < MaxFaults
    /\ Disconnected
    /\ unposted' = 0
    /\ faults' = faults + 1
    /\ UNCHANGED <<alarm, stored, acked, received, stops>>

\* Stop() for a protocol error.
Refuse ==
    /\ Disconnected
    /\ alarm' = TRUE

Arrives(end, type) == up /\ wire[end] # <<>> /\ Head(wire[end]).type = type

\* The frame is handled and leaves session s and the frames out.
Handled(end, s, out) ==
    /\ sess' = [sess EXCEPT ![end] = s]
    /\ wire' = [wire EXCEPT ![end] = Tail(@), ![Peer(end)] = @ \o out]

-----------------------------------------------------------------------------
(* What a session does on its own thread. *)

\* processAsdu: an interrogation is confirmed at once and answered in the
\* common queue; the other ASDUs write no frame.
Processed(end, s, body) ==
    IF end = "slave" /\ body.what = "interrogation"
    THEN Enqueued(end, s, <<Asdu("confirmation", 0)>>, <<Asdu("values", 0)>>)
    ELSE [s |-> s, out |-> <<>>]

ReceiveI(end) ==
    /\ Arrives(end, "I")
    /\ \E f \in {Head(wire[end])}, s \in {sess[end]} :
          \/ /\ ~s.active \/ ~AckValid(s, f.nr)
             /\ Refuse
             /\ UNCHANGED <<acked, received, faults>>
          \/ /\ s.active /\ AckValid(s, f.nr)
             /\ Mark(Acknowledged(s, f.nr))
             /\ \/ f.ns # s.recvSeq /\ Refuse /\ UNCHANGED received
                \/ /\ f.ns = s.recvSeq
                   /\ \E a \in {AfterAck(end, s, f.nr)} :
                      \E c \in {Counted(end, a.s)} :
                      \E p \in {Processed(end, c.s, f.body)} :
                          Handled(end, p.s, a.out \o c.out \o p.out)
                   /\ received' = received \cup ({f.body.event} \ {0})
                   /\ UNCHANGED <<up, posted, alarm>>
    /\ UNCHANGED <<stored, unposted, stops>>

\* An S frame is ignored while the data transfer is not active.
ReceiveS(end) ==
    /\ Arrives(end, "S")
    /\ \E nr \in {Head(wire[end]).nr}, s \in {sess[end]} :
          \/ /\ ~s.active
             /\ Handled(end, s, <<>>)
             /\ UNCHANGED <<up, posted, alarm, acked, faults>>
          \/ s.active /\ ~AckValid(s, nr) /\ Refuse /\ UNCHANGED <<acked, faults>>
          \/ /\ s.active /\ AckValid(s, nr)
             /\ Mark(Acknowledged(s, nr))
             /\ \E a \in {AfterAck(end, s, nr)} : Handled(end, a.s, a.out)
             /\ UNCHANGED <<up, posted, alarm>>
    /\ UNCHANGED <<stored, unposted, received, stops>>

\* Mutant: an activation does not replay.
ActivatedWithoutReplay(s) == Enqueued("slave", s, <<>>, <<Asdu("values", 0)>>)

\* setDataTransferActive(true) at the slave: the unacknowledged events, then
\* the values of the activation snapshot.
Activated(s) ==
    EnqueuedSoes("slave", s, NewSoes(s, Unacknowledged), <<Asdu("values", 0)>>)

ReceiveStart ==
    /\ Arrives("slave", "STARTDT_ACT")
    /\ \E s \in {sess["slave"]} :
       \E a \in {IF s.active THEN [s |-> s, out |-> <<>>]
                 ELSE Activated([s EXCEPT !.active = TRUE])} :
          Handled("slave", a.s, <<UFrame("STARTDT_CON")>> \o a.out)
    /\ UNCHANGED <<up, posted, alarm, storeVars, received, faults, stops>>

\* At the master: one automatic interrogation in a session.
ReceiveStartCon ==
    /\ Arrives("master", "STARTDT_CON")
    /\ \E a \in {Enqueued("master", [sess["master"] EXCEPT !.active = TRUE, !.autoSent = TRUE],
                          IF sess["master"].autoSent THEN <<>>
                          ELSE <<Asdu("interrogation", 0)>>, <<>>)} :
          Handled("master", a.s, a.out)
    /\ UNCHANGED <<up, posted, alarm, storeVars, received, faults, stops>>

ReceiveStop ==
    /\ Arrives("slave", "STOPDT_ACT")
    /\ Handled("slave", Deactivated(sess["slave"]), <<UFrame("STOPDT_CON")>>)
    /\ UNCHANGED <<up, posted, alarm, storeVars, received, faults, stops>>

ReceiveStopCon ==
    /\ Arrives("master", "STOPDT_CON")
    /\ Handled("master", Deactivated(sess["master"]), <<>>)
    /\ UNCHANGED <<up, posted, alarm, storeVars, received, faults, stops>>

Writes(end, frames) == wire' = [wire EXCEPT ![Peer(end)] = @ \o frames]

\* t2: what is pending is acknowledged.
AcknowledgeLate(end) ==
    /\ up /\ sess[end].active /\ sess[end].ackPending
    /\ \E a \in {SendSFrame(sess[end])} :
         sess' = [sess EXCEPT ![end] = a.s] /\ Writes(end, a.out)
    /\ UNCHANGED <<up, posted, alarm, storeVars, received, faults, stops>>

\* The task of SendSoe: an event that comes while the transfer is not active
\* is left to the replay.
RunPosted ==
    /\ up /\ posted # <<>>
    /\ \E new \in {NewSoes(sess["slave"], {Head(posted)})} :
       \E a \in {EnqueuedSoes("slave", sess["slave"], new, <<>>)} :
         sess' = [sess EXCEPT !["slave"] = a.s] /\ Writes("slave", a.out)
    /\ posted' = Tail(posted)
    /\ UNCHANGED <<up, alarm, storeVars, received, faults, stops>>

-----------------------------------------------------------------------------
(* The subscription thread of the slave, and the operator of the master. *)

\* storeAndSendSoe: Append, in one transaction.
StoreEvent ==
    /\ unposted = 0 /\ stored < MaxEvents
    /\ stored' = stored + 1
    /\ unposted' = stored + 1
    /\ UNCHANGED <<connVars, acked, received, faults, stops>>

\* SendSoe: a task for the session there is now, if any.
PostEvent ==
    /\ unposted # 0
    /\ posted' = IF up THEN Append(posted, unposted) ELSE posted
    /\ unposted' = 0
    /\ UNCHANGED <<up, sess, wire, alarm, stored, acked, received, faults, stops>>

\* A master with nothing more to send stops the transfer, and restarts it
\* when the stop is confirmed.
StopTransfer ==
    /\ up /\ stops < MaxStops
    /\ sess["master"].active /\ sess["master"].control = <<>>
    /\ \A i \in DOMAIN wire["slave"] : wire["slave"][i].type # "STOPDT_ACT"
    /\ Writes("master", <<UFrame("STOPDT_ACT")>>)
    /\ stops' = stops + 1
    /\ UNCHANGED <<up, sess, posted, alarm, storeVars, received, faults>>

RestartTransfer ==
    /\ up /\ stops > 0
    /\ ~sess["master"].active /\ sess["master"].autoSent
    /\ \A i \in DOMAIN wire["slave"] : wire["slave"][i].type # "STARTDT_ACT"
    /\ \A i \in DOMAIN wire["master"] : wire["master"][i].type # "STARTDT_CON"
    /\ Writes("master", <<UFrame("STARTDT_ACT")>>)
    /\ UNCHANGED <<up, sess, posted, alarm, storeVars, received, faults, stops>>

Transmit ==
    \/ \E end \in Ends : ReceiveI(end) \/ ReceiveS(end)
    \/ ReceiveStart \/ ReceiveStartCon \/ ReceiveStop \/ ReceiveStopCon
    \/ RunPosted

SoeNext ==
    \/ Connect \/ Drop \/ Crash \/ Transmit
    \/ \E end \in Ends : AcknowledgeLate(end)
    \/ StoreEvent \/ PostEvent \/ StopTransfer \/ RestartTransfer

SoeSpec == SoeInit /\ [][SoeNext]_soeVars

\* Frames arrive and handlers run, t2 expires, a client connects again after
\* its reconnection delay, the subscription thread posts what it stored, and a
\* master that stopped the transfer restarts it: no more than that one of
\* these goes on while there is one to do.  Events and losses are free.
Progress ==
    \/ Connect \/ Transmit \/ PostEvent \/ RestartTransfer
    \/ \E end \in Ends : AcknowledgeLate(end)

SoeFairness == WF_soeVars(Progress)

FairSoeSpec == SoeSpec /\ SoeFairness

-----------------------------------------------------------------------------

Events == 1..MaxEvents

SessionTypeOK(end, s) ==
    /\ {s.active, s.ackPending, s.autoSent} \subseteq BOOLEAN
    /\ {s.sendSeq, s.acked, s.recvSeq} \subseteq 0..(SeqMod - 1)
    /\ s.unacked \in 0..K[end] /\ Len(s.sent) = s.unacked
    /\ s.sinceAck \in 0..(W[end] - 1)
    /\ s.seen \subseteq Events
    /\ \A i \in DOMAIN s.sent : s.sent[i] \in Events \cup {0}

SoeTypeOK ==
    /\ {up, alarm} \subseteq BOOLEAN
    /\ \A end \in Ends : SessionTypeOK(end, sess[end])
    /\ stored \in 0..MaxEvents /\ unposted \in 0..MaxEvents
    /\ acked \subseteq Events /\ received \subseteq Events
    /\ \A i \in DOMAIN posted : posted[i] \in Events
    /\ faults \in 0..MaxFaults /\ stops \in 0..MaxStops

\* Two ends that both run this code never take each other's frames for a
\* protocol error: not when acknowledgements cross, when sequence numbers
\* wrap, and not when the transfer is stopped and restarted with frames and
\* acknowledgements on their way.
NoFalseAlarm == ~alarm

\* The events of an activation that are sent or queued, in order; an ASDU that
\* is no event counts as 0.
OutgoingOf(s) == s.sent \o [i \in DOMAIN s.pending |-> s.pending[i].event]
Outgoing == OutgoingOf(sess["slave"])

\* An event of the store is never forgotten: while the transfer is active, one
\* the master has not got is on its way, queued, posted or about to be.  (While
\* it is not active, the replay of the next activation is its way.)
NoSoeLost ==
    sess["slave"].active =>
        \A e \in Unacknowledged \ received :
            \/ e = unposted
            \/ \E i \in DOMAIN posted : posted[i] = e
            \/ \E i \in DOMAIN Outgoing : Outgoing[i] = e

\* None goes out twice in one activation, though the replay and the posted
\* tasks overlap, and an unacknowledged event of the store never goes out behind a
\* newer one.  (One that was acknowledged, or overwritten by newer events,
\* while its task waited may come again, late.)
SentInOrder ==
    \A i, j \in DOMAIN Outgoing : i < j /\ 0 \notin {Outgoing[i], Outgoing[j]} =>
        /\ Outgoing[i] # Outgoing[j]
        /\ Outgoing[j] \in Unacknowledged => Outgoing[i] < Outgoing[j]

\* An event is recorded as acknowledged only after the master processed it,
\* whatever was lost, repeated, stopped or acknowledged in between.
Delivery == INSTANCE SoeDelivery
ImplementsDelivery == Delivery!DeliverySpec

\* In the end the master has every event that newer ones did not overwrite,
\* though connections were lost and the transfer was stopped.
EventuallyReceived == <>[](Records \subseteq received)

\* Neither end takes the other for broken, and an activation sends no event
\* twice and none of its stored events behind a newer one.
SoeSafe == SoeTypeOK /\ NoFalseAlarm /\ SentInOrder
=============================================================================
