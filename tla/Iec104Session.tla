--------------------------- MODULE Iec104Session ----------------------------
(***************************************************************************)
(* One end of an IEC 104 connection (TcpSession): sequence numbers, the    *)
(* send window, acknowledgements, the queues before the window, and the    *)
(* activation of the data transfer.  A session is a value; an operator     *)
(* gives the session after a call and the frames the call wrote.           *)
(***************************************************************************)
EXTENDS Naturals, Sequences, FiniteSets, Functions

CONSTANTS Ends,   \* the two ends of a connection
          K,      \* apci k of an end: I frames it may have unacknowledged
          W,      \* apci w of an end: I frames it acknowledges at the latest
          SeqMod  \* where sequence numbers wrap (32768 in the code)

ASSUME SessionAssumption ==
    /\ SeqMod \in Nat
    /\ K \in [Ends -> 1..(SeqMod - 1)]
    /\ W \in [Ends -> Nat \ {0}]

\* acked, the end's sendAckedSeq_; unacked, its sendUnacked_; sent, the event
\* of each I frame on its way, 0 for a frame that carries none; seen, the
\* events queued since the activation.
NewSession == [active |-> FALSE, sendSeq |-> 0, acked |-> 0, unacked |-> 0, recvSeq |-> 0,
               ackPending |-> FALSE, sinceAck |-> 0, sent |-> <<>>, control |-> <<>>,
               pending |-> <<>>, autoSent |-> FALSE, seen |-> {}]

Asdu(what, event) == [what |-> what, event |-> event]
IFrame(ns, nr, body) == [type |-> "I", ns |-> ns, nr |-> nr, body |-> body]
SFrame(nr) == [type |-> "S", nr |-> nr]
UFrame(type) == [type |-> type]

Plus(seq, n) == (seq + n) % SeqMod

\* seqDistance.
Distance(from, to) == (to + SeqMod - from) % SeqMod

Lesser(m, n) == IF m <= n THEN m ELSE n
Dropped(q, n) == SubSeq(q, n + 1, Len(q))

\* The next ASDUs the window has room for: the control queue goes first.
Sendable(end, s) ==
    IF s.active /\ s.unacked < K[end]
    THEN SubSeq(s.control \o s.pending, 1,
                Lesser(K[end] - s.unacked, Len(s.control) + Len(s.pending)))
    ELSE <<>>

\* trySendPending and sendIFrame: every I frame acknowledges what was received.
SendAll(s, asdus) ==
    [s   |-> [s EXCEPT !.control = Dropped(@, Lesser(Len(asdus), Len(@))),
                       !.pending = Dropped(@, Len(asdus) - Lesser(Len(asdus), Len(s.control))),
                       !.sent = @ \o [i \in DOMAIN asdus |-> asdus[i].event],
                       !.sendSeq = Plus(@, Len(asdus)),
                       !.unacked = @ + Len(asdus),
                       !.ackPending = @ /\ asdus = <<>>,
                       !.sinceAck = IF asdus = <<>> THEN @ ELSE IF s.ackPending THEN 0 ELSE @],
     out |-> [i \in DOMAIN asdus |-> IFrame(Plus(s.sendSeq, i - 1), s.recvSeq, asdus[i])]]

TrySendPending(end, s) == SendAll(s, Sendable(end, s))

\* handleAck: whether N(R) lies in the window.
AckValid(s, nr) ==
    IF s.unacked = 0 THEN nr = s.acked ELSE Distance(s.acked, nr) <= s.unacked

\* Mutant: an acknowledgement covers all that was sent.
AcknowledgedAll(s, nr) == IF nr = s.acked THEN {} ELSE Range(s.sent) \ {0}

\* The events an acknowledgement covers.
Acknowledged(s, nr) == {s.sent[i] : i \in 1..Distance(s.acked, nr)} \ {0}

\* The rest of handleAck.
AfterAck(end, s, nr) ==
    LET d == Distance(s.acked, nr) IN
    TrySendPending(end, [s EXCEPT !.acked = nr, !.unacked = s.unacked - d,
                                  !.sent = Dropped(s.sent, d)])

\* sendSFrame.
SendSFrame(s) ==
    [s   |-> [s EXCEPT !.ackPending = FALSE, !.sinceAck = 0],
     out |-> <<SFrame(s.recvSeq)>>]

\* Mutant: an I frame does not make an acknowledgement pending.
CountedOnly(end, s) ==
    [s |-> [s EXCEPT !.recvSeq = Plus(s.recvSeq, 1)], out |-> <<>>]

\* An I frame in sequence is counted, and acknowledged when w are due.
Counted(end, s) ==
    LET t == [s EXCEPT !.recvSeq = Plus(s.recvSeq, 1), !.ackPending = TRUE,
                       !.sinceAck = s.sinceAck + 1]
    IN IF t.sinceAck >= W[end] THEN SendSFrame(t) ELSE [s |-> t, out |-> <<>>]

\* enqueueAsdu, for several ASDUs of the two queues.
Enqueued(end, s, control, pending) ==
    TrySendPending(end, [s EXCEPT !.control = s.control \o control, !.pending = s.pending \o pending])

\* The numbers in es, in ascending order.
Ascending(es) ==
    CHOOSE q \in [1..Cardinality(es) -> es] : \A i, j \in DOMAIN q : i < j => q[i] < q[j]

\* enqueueSoe: which of the events are queued, each once in an activation.
NewSoes(s, events) == Ascending({e \in events : s.active /\ e \notin s.seen})

\* enqueueSoe for these new events, and enqueueAsdu for what follows them.
EnqueuedSoes(end, s, new, others) ==
    Enqueued(end, [s EXCEPT !.seen = @ \cup Range(new)],
             <<>>, [i \in DOMAIN new |-> Asdu("soe", new[i])] \o others)

\* Mutant: the sequence numbers do not start afresh with an empty window.
DeactivatedKeepingWindow(s) ==
    [s EXCEPT !.active = FALSE, !.ackPending = FALSE, !.sinceAck = 0, !.unacked = 0,
              !.control = <<>>, !.pending = <<>>, !.sent = <<>>, !.seen = {}]

\* setDataTransferActive(false): queues, window and events seen are forgotten.
Deactivated(s) ==
    [s EXCEPT !.active = FALSE, !.ackPending = FALSE, !.sinceAck = 0, !.unacked = 0,
              !.acked = s.sendSeq, !.control = <<>>, !.pending = <<>>, !.sent = <<>>,
              !.seen = {}]

=============================================================================
