-------------------------- MODULE LaneAndSoeProofs --------------------------
(***************************************************************************)
(* Theorems about two first-in first-out services of the program.          *)
(*                                                                         *)
(* The lane of synchronous commands, for any set of commands and any bound *)
(* on the tickets: its type invariant, mutual exclusion at the target,     *)
(* that the lane never stands at a ticket nobody will take, and that it    *)
(* implements first-in first-out service.                                  *)
(*                                                                         *)
(* The delivery of IEC 104 events, for any modulus of the sequence         *)
(* numbers, any windows below it, any queue limits and any number of       *)
(* events, lost connections, crashes and stops: its type invariant, the    *)
(* order of what a session sends, that the receipts never raise a false    *)
(* alarm, that no event is lost, and that it implements the delivery of    *)
(* every event at least once.                                              *)
(***************************************************************************)
EXTENDS CommandLane, Iec104Soe, SequenceTheorems, FiniteSetTheorems, WellFoundedInduction, TLAPS

-----------------------------------------------------------------------------
(* The command lane. *)

\* The tickets in use: ordered, distinct, and disjoint from those given up.
TicketsInUse ==
    /\ \A c \in InLane : /\ lane.serving <= ticket[c]
                         /\ ticket[c] < lane.next
                         /\ ticket[c] \notin lane.cancelled
    /\ \A c, d \in InLane : ticket[c] = ticket[d] => c = d

TicketsGivenUp ==
    \A t \in lane.cancelled : lane.serving < t /\ t < lane.next

NoTicketLost ==
    \A t \in Nat : lane.serving <= t /\ t < lane.next =>
        t \in lane.cancelled \/ \E c \in InLane : ticket[c] = t

LaneInv ==
    /\ LaneTypeOK
    /\ lane.serving <= lane.next
    /\ TicketsGivenUp
    /\ TicketsInUse
    /\ HolderIsServed
    /\ NoTicketLost

-----------------------------------------------------------------------------

\* What the loop that skips tickets given up leaves behind: it stops at an
\* open ticket, passed only tickets given up, and forgot exactly those.
LEMMA SkipLemma ==
    ASSUME NEW l \in [next : Nat, serving : Nat, cancelled : SUBSET Nat],
           NEW from \in Nat, NEW m \in ServingFrom(l, from)
    PROVE  /\ m \in [next : Nat, serving : Nat, cancelled : SUBSET Nat]
           /\ m.next = l.next
           /\ from <= m.serving /\ m.serving <= m.next
           /\ m.serving \notin l.cancelled
           /\ \A t \in Nat : from <= t /\ t < m.serving => t \in l.cancelled
           /\ \A t \in Nat : t \in m.cancelled <=>
                   t \in l.cancelled /\ ~(from <= t /\ t <= m.serving)
<1>1. PICK n \in FirstOpen(l, from) :
          m = [next |-> l.next, serving |-> n, cancelled |-> l.cancelled \ (from..n)]
  BY DEF ServingFrom
<1>2. /\ n \in from..l.next
      /\ n \notin l.cancelled
      /\ from..(n - 1) \subseteq l.cancelled
  BY <1>1 DEF FirstOpen
<1>3. n \in Nat /\ from <= n /\ n <= l.next
  BY <1>2
<1>4. \A t \in Nat : from <= t /\ t < n => t \in from..(n - 1)
  BY <1>3
<1> QED
  BY <1>1, <1>2, <1>3, <1>4

\* The invariant that makes the lane correct holds in every state.
THEOREM LaneInvariant == LaneSpec => []LaneInv
<1>1. LaneInit => LaneInv
  BY DEF LaneInit, LaneInv, LaneTypeOK, NewLane, TicketsGivenUp, TicketsInUse,
         HolderIsServed, NoTicketLost, InLane
<1>2. LaneInv /\ [LaneNext]_laneVars => LaneInv'
  <2> SUFFICES ASSUME LaneInv, [LaneNext]_laneVars PROVE LaneInv'
    OBVIOUS
  <2> USE DEF LaneInv, LaneTypeOK
  <2>1. ASSUME NEW c \in Commands, Reserve(c) PROVE LaneInv'
    <3>1. /\ lane' \in [next : Nat, serving : Nat, cancelled : SUBSET Nat]
          /\ lane'.next = lane.next + 1
          /\ lane'.serving = lane.serving
          /\ lane'.cancelled = lane.cancelled
      BY <2>1 DEF Reserve, WithReserved
    <3>2. /\ pc[c] = "out" /\ pc'[c] = "waiting" /\ ticket'[c] = lane.next
          /\ \A d \in Commands : d # c => pc'[d] = pc[d] /\ ticket'[d] = ticket[d]
      BY <2>1 DEF Reserve
    <3>3. LaneTypeOK'
      BY <2>1, <3>1 DEF Reserve
    <3>4. InLane' = InLane \cup {c} /\ c \notin InLane
      BY <3>2 DEF InLane
    <3>5. \A d \in InLane : pc'[d] = pc[d] /\ ticket'[d] = ticket[d] /\ ticket[d] \in Nat
      BY <3>2, <3>4 DEF InLane
    <3>6. TicketsGivenUp'
      BY <3>1 DEF TicketsGivenUp
    <3>7. TicketsInUse'
      BY <3>1, <3>2, <3>4, <3>5 DEF TicketsInUse, TicketsGivenUp
    <3>8. HolderIsServed'
      BY <3>1, <3>2 DEF HolderIsServed
    <3>9. NoTicketLost'
      <4> SUFFICES ASSUME NEW t \in Nat, lane'.serving <= t, t < lane'.next,
                          t \notin lane'.cancelled
                   PROVE  \E d \in InLane' : ticket'[d] = t
        BY DEF NoTicketLost
      <4>1. CASE t = lane.next
        BY <4>1, <3>2, <3>4
      <4>2. CASE t # lane.next
        <5>1. PICK d \in InLane : ticket[d] = t
          BY <4>2, <3>1 DEF NoTicketLost
        <5> QED BY <5>1, <3>4, <3>5
      <4> QED BY <4>1, <4>2
    <3> QED BY <3>1, <3>3, <3>6, <3>7, <3>8, <3>9
  <2>2. ASSUME NEW c \in Commands, Acquire(c) PROVE LaneInv'
    <3>1. InLane' = InLane
      BY <2>2 DEF Acquire, InLane
    <3>2. LaneTypeOK'
      BY <2>2 DEF Acquire
    <3>3. lane' = lane /\ ticket' = ticket
      BY <2>2 DEF Acquire
    <3>4. HolderIsServed'
      BY <2>2 DEF Acquire, HolderIsServed
    <3> QED
      BY <3>1, <3>2, <3>3, <3>4 DEF TicketsGivenUp, TicketsInUse, NoTicketLost
  <2>3. ASSUME NEW c \in Commands, Abandon(c) PROVE LaneInv'
    <3> DEFINE l == [lane EXCEPT !.cancelled = lane.cancelled \cup {ticket[c]}]
    <3>1. l \in [next : Nat, serving : Nat, cancelled : SUBSET Nat]
          /\ l.next = lane.next /\ l.serving = lane.serving
          /\ l.cancelled = lane.cancelled \cup {ticket[c]}
      OBVIOUS
    <3>2. lane' \in ServingFrom(l, lane.serving)
      BY <2>3, <3>1 DEF Abandon, Abandoned
    <3> HIDE DEF l
    <3>3. /\ lane' \in [next : Nat, serving : Nat, cancelled : SUBSET Nat]
          /\ lane'.next = lane.next
          /\ lane.serving <= lane'.serving /\ lane'.serving <= lane'.next
          /\ lane'.serving \notin l.cancelled
          /\ \A t \in Nat : lane.serving <= t /\ t < lane'.serving => t \in l.cancelled
          /\ \A t \in Nat : t \in lane'.cancelled <=>
                 t \in l.cancelled /\ ~(lane.serving <= t /\ t <= lane'.serving)
      BY <3>1, <3>2, SkipLemma
    \* The ticket being served was not given up, so the lane does not move.
    <3>4. c \in InLane /\ lane.serving # ticket[c] /\ ticket[c] \in Nat
      BY <2>3 DEF Abandon, InLane
    <3>5. lane.serving \notin l.cancelled
      BY <3>1, <3>4 DEF TicketsGivenUp
    <3>6. lane'.serving = lane.serving
      BY <3>3, <3>5
    <3>7. InLane' = InLane \ {c} /\ ticket' = ticket
      BY <2>3 DEF Abandon, InLane
    <3>8. LaneTypeOK'
      BY <2>3, <3>3 DEF Abandon
    <3>9. TicketsGivenUp'
      BY <3>1, <3>3, <3>4, <3>6 DEF TicketsGivenUp, TicketsInUse
    <3>10. TicketsInUse'
      <4>1. \A d \in InLane' : d \in InLane /\ ticket[d] # ticket[c] /\ ticket[d] \in Nat
        BY <3>4, <3>7 DEF TicketsInUse, InLane
      <4> QED BY <4>1, <3>1, <3>3, <3>6, <3>7 DEF TicketsInUse
    <3>11. HolderIsServed'
      BY <2>3, <3>6 DEF Abandon, HolderIsServed
    <3>12. NoTicketLost'
      <4> SUFFICES ASSUME NEW t \in Nat, lane'.serving <= t, t < lane'.next,
                          t \notin lane'.cancelled
                   PROVE  \E d \in InLane' : ticket'[d] = t
        BY DEF NoTicketLost
      <4>1. t \notin l.cancelled
        BY <3>3, <3>5, <3>6
      <4>2. PICK d \in InLane : ticket[d] = t
        BY <4>1, <3>1, <3>3, <3>6 DEF NoTicketLost
      <4> QED BY <4>1, <4>2, <3>1, <3>7
    <3> QED BY <3>3, <3>8, <3>9, <3>10, <3>11, <3>12
  <2>4. ASSUME NEW c \in Commands, Release(c) PROVE LaneInv'
    <3>1. /\ c \in InLane /\ ticket[c] = lane.serving /\ ticket[c] \in Nat
          /\ lane.serving < lane.next
      BY <2>4 DEF Release, InLane, HolderIsServed, TicketsInUse
    <3>2. /\ lane' \in [next : Nat, serving : Nat, cancelled : SUBSET Nat]
          /\ lane'.next = lane.next
          /\ lane.serving + 1 <= lane'.serving /\ lane'.serving <= lane'.next
          /\ lane'.serving \notin lane.cancelled
          /\ \A t \in Nat : lane.serving + 1 <= t /\ t < lane'.serving => t \in lane.cancelled
          /\ \A t \in Nat : t \in lane'.cancelled <=>
                 t \in lane.cancelled /\ ~(lane.serving + 1 <= t /\ t <= lane'.serving)
      <4>1. lane' \in ServingFrom(lane, lane.serving + 1)
        BY <2>4 DEF Release, Released
      <4> QED BY <4>1, SkipLemma
    <3>3. InLane' = InLane \ {c} /\ ticket' = ticket
      BY <2>4 DEF Release, InLane
    <3>4. LaneTypeOK'
      BY <2>4, <3>2 DEF Release
    <3>5. TicketsGivenUp'
      BY <3>2 DEF TicketsGivenUp
    <3>6. \A d \in InLane' : /\ d \in InLane /\ ticket[d] \in Nat
                             /\ lane'.serving <= ticket[d]
      <4> TAKE d \in InLane'
      <4>1. d \in InLane /\ d # c /\ ticket[d] \in Nat
        BY <3>3 DEF InLane
      <4>2. lane.serving + 1 <= ticket[d] /\ ticket[d] \notin lane.cancelled
        BY <4>1, <3>1 DEF TicketsInUse
      <4> QED BY <4>1, <4>2, <3>2
    <3>7. TicketsInUse'
      BY <3>2, <3>3, <3>6 DEF TicketsInUse
    <3>8. HolderIsServed'
      <4> SUFFICES ASSUME NEW d \in Commands, pc'[d] = "serving" PROVE FALSE
        BY DEF HolderIsServed
      <4>1. d # c /\ pc[d] = "serving"
        BY <2>4 DEF Release
      <4>2. d \in InLane /\ ticket[d] = lane.serving
        BY <4>1 DEF InLane, HolderIsServed
      <4> QED BY <4>1, <4>2, <3>1 DEF TicketsInUse
    <3>9. NoTicketLost'
      <4> SUFFICES ASSUME NEW t \in Nat, lane'.serving <= t, t < lane'.next,
                          t \notin lane'.cancelled
                   PROVE  \E d \in InLane' : ticket'[d] = t
        BY DEF NoTicketLost
      <4>1. t \notin lane.cancelled /\ lane.serving < t
        BY <3>2
      <4>2. PICK d \in InLane : ticket[d] = t
        BY <4>1, <3>2 DEF NoTicketLost
      <4> QED BY <4>1, <4>2, <3>1, <3>3
    <3> QED BY <3>2, <3>4, <3>5, <3>7, <3>8, <3>9
  <2>5. CASE UNCHANGED laneVars
    BY <2>5 DEF laneVars, TicketsGivenUp, TicketsInUse, HolderIsServed, NoTicketLost, InLane
  <2> QED BY <2>1, <2>2, <2>3, <2>4, <2>5 DEF LaneNext
<1> QED BY <1>1, <1>2, PTL DEF LaneSpec

\* The variables of a lane always have their types.
THEOREM LaneTypeCorrect == LaneSpec => []LaneTypeOK
<1>1. LaneInv => LaneTypeOK
  BY DEF LaneInv
<1> QED BY <1>1, LaneInvariant, PTL

\* At most one command of a lane is at the target module.
THEOREM LaneMutualExclusion == LaneSpec => []MutualExclusion
<1>1. LaneInv => MutualExclusion
  BY DEF LaneInv, MutualExclusion, HolderIsServed, TicketsInUse, InLane
<1> QED BY <1>1, LaneInvariant, PTL

\* The lane serves a ticket somebody holds, or the one to be reserved next.
THEOREM LaneIsNeverStuck == LaneSpec => []LaneNotStuck
<1>1. LaneInv => LaneNotStuck
  <2> SUFFICES ASSUME LaneInv PROVE LaneNotStuck
    OBVIOUS
  <2> USE DEF LaneInv, LaneTypeOK
  <2>1. lane.serving \notin lane.cancelled
    BY DEF TicketsGivenUp
  <2>2. lane.serving = lane.next \/ \E c \in InLane : ticket[c] = lane.serving
    BY <2>1 DEF NoTicketLost
  <2>3. lane.serving = lane.next => lane.cancelled = {}
    BY DEF TicketsGivenUp
  <2> QED BY <2>2, <2>3 DEF LaneNotStuck
<1> QED BY <1>1, LaneInvariant, PTL

\* No ticket is lost: each one still to be served is either waited for or
\* given up, never both.
THEOREM LaneTicketsAccounted == LaneSpec => []TicketsAccounted
<1>1. LaneInv => TicketsAccounted
  <2> SUFFICES ASSUME LaneInv, NEW t \in lane.serving..(lane.next - 1)
               PROVE  (t \in lane.cancelled) # (\E c \in InLane : ticket[c] = t)
    BY DEF TicketsAccounted
  <2> USE DEF LaneInv, LaneTypeOK
  <2>1. t \in Nat /\ lane.serving <= t /\ t < lane.next
    OBVIOUS
  <2>2. t \in lane.cancelled \/ \E c \in InLane : ticket[c] = t
    BY <2>1 DEF NoTicketLost
  <2>3. ~(t \in lane.cancelled /\ \E c \in InLane : ticket[c] = t)
    BY DEF TicketsInUse
  <2> QED BY <2>2, <2>3
<1> QED BY <1>1, LaneInvariant, PTL

-----------------------------------------------------------------------------

\* A lane implements first-in first-out service: the commands accepted before
\* a command are those in the lane with a smaller ticket.
THEOREM LaneImplementsFifo == LaneSpec => ImplementsFifo
<1> DEFINE ahead == [c \in Commands |-> AheadOf(c)]
<1>1. LaneInit => Fifo!FifoInit
  BY DEF LaneInit, Fifo!FifoInit, AheadOf, InLane
<1>2. LaneInv /\ [LaneNext]_laneVars => [Fifo!FifoNext]_(Fifo!fifoVars)
  <2> SUFFICES ASSUME LaneInv, [LaneNext]_laneVars
               PROVE  [Fifo!FifoNext]_(Fifo!fifoVars)
    OBVIOUS
  <2> USE DEF LaneInv, LaneTypeOK
  <2>1. ASSUME NEW c \in Commands, Reserve(c) PROVE Fifo!Arrive(c)
    <3>1. /\ pc[c] = "out" /\ pc' = [pc EXCEPT ![c] = "waiting"]
          /\ ticket' = [ticket EXCEPT ![c] = lane.next]
      BY <2>1 DEF Reserve
    <3>2. InLane' = InLane \cup {c} /\ c \notin InLane /\ InLane = Fifo!Present
      BY <3>1 DEF InLane, Fifo!Present
    <3>3. \A d \in InLane : ticket'[d] = ticket[d] /\ ticket[d] < lane.next /\ ticket[d] \in Nat
      BY <3>1, <3>2 DEF TicketsInUse, InLane
    <3>4. ticket'[c] = lane.next
      BY <3>1
    <3>5. AheadOf(c)' = Fifo!Present
      BY <3>2, <3>3, <3>4 DEF AheadOf, InLane
    <3>6. \A e \in Commands : e # c => AheadOf(e)' = AheadOf(e)
      <4> SUFFICES ASSUME NEW e \in Commands, e # c PROVE AheadOf(e)' = AheadOf(e)
        OBVIOUS
      <4>1. pc'[e] = pc[e] /\ ticket'[e] = ticket[e]
        BY <3>1
      <4>2. CASE pc[e] = "out"
        BY <4>1, <4>2 DEF AheadOf
      <4>3. CASE pc[e] # "out"
        <5>1. e \in InLane
          BY <4>3 DEF InLane
        <5>2. ~(ticket'[c] < ticket'[e])
          BY <5>1, <3>3, <3>4
        <5> QED BY <5>2, <4>1, <4>3, <3>2, <3>3 DEF AheadOf
      <4> QED BY <4>2, <4>3
    <3> QED BY <3>1, <3>5, <3>6 DEF Fifo!Arrive
  <2>2. ASSUME NEW c \in Commands, Acquire(c) PROVE Fifo!Begin(c)
    <3>1. /\ pc[c] = "waiting" /\ lane.serving = ticket[c]
          /\ pc' = [pc EXCEPT ![c] = "serving"] /\ ticket' = ticket
      BY <2>2 DEF Acquire
    <3>2. InLane' = InLane
      BY <3>1 DEF InLane
    <3>3. \A e \in Commands : AheadOf(e)' = AheadOf(e)
      BY <3>1, <3>2 DEF AheadOf
    <3>4. AheadOf(c) = {}
      <4>1. \A d \in InLane : ticket[d] \in Nat /\ lane.serving <= ticket[d]
        BY DEF TicketsInUse, InLane
      <4> QED BY <4>1, <3>1 DEF AheadOf
    <3> QED BY <3>1, <3>3, <3>4 DEF Fifo!Begin
  <2>3. ASSUME NEW c \in Commands, pc[c] # "out",
               pc' = [pc EXCEPT ![c] = "out"], ticket' = ticket
        PROVE  Fifo!Leave(c)
    <3>1. InLane' = InLane \ {c} /\ c \in InLane
      BY <2>3 DEF InLane
    <3>2. \A d \in Commands : AheadOf(d)' = IF d = c THEN {} ELSE AheadOf(d) \ {c}
      BY <2>3, <3>1 DEF AheadOf
    <3> QED BY <2>3, <3>2 DEF Fifo!Leave
  <2>4. ASSUME NEW c \in Commands, Abandon(c) PROVE Fifo!Leave(c)
    BY <2>4, <2>3 DEF Abandon
  <2>5. ASSUME NEW c \in Commands, Release(c) PROVE Fifo!Leave(c)
    BY <2>5, <2>3 DEF Release
  <2>6. CASE UNCHANGED laneVars
    BY <2>6 DEF laneVars, Fifo!fifoVars, AheadOf, InLane
  <2> QED BY <2>1, <2>2, <2>4, <2>5, <2>6 DEF LaneNext, Fifo!FifoNext
<1> QED BY <1>1, <1>2, LaneInvariant, PTL DEF LaneSpec, ImplementsFifo, Fifo!FifoSpec

\* Mutual exclusion and progress of the served ticket, as the runs check them.
THEOREM LaneIsSafe == LaneSpec => []LaneSafe
<1>1. MutualExclusion /\ LaneNotStuck => LaneSafe
  BY DEF LaneSafe
<1> QED BY <1>1, LaneMutualExclusion, LaneIsNeverStuck, PTL

-----------------------------------------------------------------------------
(* IEC 104 events: what the invariant says. *)

SeqNumbers == 0..(SeqMod - 1)
EventNumbers == 0..MaxEvents
Asdus == [what : {"soe", "values", "interrogation", "confirmation"}, event : EventNumbers]
Frames ==
    [type : {"I"}, ns : SeqNumbers, nr : SeqNumbers, body : Asdus]
    \cup [type : {"S"}, nr : SeqNumbers]
    \cup [type : {"STARTDT_ACT", "STARTDT_CON", "STOPDT_ACT", "STOPDT_CON"}]
Sessions ==
    [active : BOOLEAN, sendSeq : SeqNumbers, acked : SeqNumbers, unacked : Nat,
     recvSeq : SeqNumbers, ackPending : BOOLEAN, sinceAck : Nat, sent : Seq(EventNumbers),
     control : Seq(Asdus), pending : Seq(Asdus), autoSent : BOOLEAN, seen : SUBSET Events]

LinkTyped ==
    /\ up \in BOOLEAN
    /\ sess \in [Ends -> Sessions]
    /\ wire \in [Ends -> Seq(Frames)]
    /\ faults \in 0..MaxFaults /\ stops \in 0..MaxStops

\* Without a connection nothing is left of the last one.
IdleWhenDown ==
    ~up => /\ sess = [e \in Ends |-> NewSession]
           /\ wire = [e \in Ends |-> <<>>]
           /\ posted = <<>>

\* The window of a session.
Windowed(s) == s.unacked < SeqMod /\ Len(s.sent) = s.unacked /\ s.sendSeq = Plus(s.acked, s.unacked)

Data(f) == f.type \in {"I", "S"}

\* What may be on its way to the slave; b and a, whether the transfer is active
\* at the slave and at the master.
ToSlaveOK(b, a, w) ==
    /\ \A i \in 1..Len(w) : w[i].type \in {"I", "S", "STARTDT_ACT", "STOPDT_ACT"}
    /\ \A i \in 1..Len(w) : w[i].type = "STARTDT_ACT" => ~a /\ ~b /\ i = Len(w)
    /\ \A i \in 1..Len(w) : w[i].type = "I" =>
          a /\ b /\ \A j \in 1..(i - 1) : w[j].type # "STOPDT_ACT"
    /\ b /\ ~a => w = <<>>

ToMasterOK(b, a, w) ==
    /\ \A i \in 1..Len(w) : w[i].type \in {"I", "S", "STARTDT_CON", "STOPDT_CON"}
    /\ \A i \in 1..Len(w) : w[i].type = "STARTDT_CON" =>
          /\ b /\ ~a
          /\ \A j \in 1..(i - 1) : w[j].type = "STOPDT_CON"
          /\ \A j \in (i + 1)..Len(w) : Data(w[j])
    /\ \A i \in 1..Len(w) : w[i].type = "STOPDT_CON" =>
          /\ ~(a /\ b)
          /\ a => \A j \in (i + 1)..Len(w) : w[j].type = "STOPDT_CON"
    /\ \A i \in 1..Len(w) : Data(w[i]) => a \/ b
    /\ b /\ ~a => \E i \in 1..Len(w) : w[i].type = "STARTDT_CON"

\* c counts the I frames of w before each position.
Counts(c, w) ==
    /\ c \in [1..(Len(w) + 1) -> Nat]
    /\ c[1] = 0
    /\ \A i \in 1..Len(w) : c[i + 1] = IF w[i].type = "I" THEN c[i] + 1 ELSE c[i]

\* The I frames on their way from session p to an end that expects number r
\* carry the numbers from r up to what p sends next.
Numbered(c, p, r, w) ==
    /\ \A i \in 1..Len(w) : w[i].type = "I" => w[i].ns = Plus(r, c[i])
    /\ c[Len(w) + 1] < SeqMod
    /\ p.sendSeq = Plus(r, c[Len(w) + 1])

\* The window of p is what the other end has taken and p does not know of, and
\* then the frames on their way.
InWindow(c, p, r, w, taken) ==
    /\ p.unacked = Distance(p.acked, r) + c[Len(w) + 1]
    /\ \A i \in 1..Len(w) : w[i].type = "I" =>
          p.sent[Distance(p.acked, r) + c[i] + 1] = w[i].body.event
    /\ \A i \in 1..Distance(p.acked, r) : p.sent[i] \in taken \cup {0}

FlowBy(c, p, r, w, taken, open) ==
    Counts(c, w) /\ Numbered(c, p, r, w) /\ (open => InWindow(c, p, r, w, taken))

Flow(p, r, w, taken, open) == \E c : FlowBy(c, p, r, w, taken, open)

\* The acknowledgements on their way to session e never go back, and none is
\* beyond q, what the other end has taken.
Acks(e, q, w) ==
    /\ \A i \in 1..Len(w) : Data(w[i]) => Distance(e.acked, w[i].nr) <= Distance(e.acked, q)
    /\ \A i, j \in 1..Len(w) : i < j /\ Data(w[i]) /\ Data(w[j]) =>
          Distance(e.acked, w[i].nr) <= Distance(e.acked, w[j].nr)

StoreTyped ==
    /\ stored \in EventNumbers
    /\ unposted \in {0, stored}
    /\ acked \subseteq 1..stored /\ received \subseteq 1..stored
    /\ posted \in Seq(1..stored)
    /\ \A i, j \in 1..Len(posted) : i < j => posted[i] < posted[j]
    /\ unposted # 0 => \A i \in 1..Len(posted) : posted[i] < unposted

\* The events of an activation on their way or queued: each once, and those
\* of unacked in order.
InOrder(out, unacked) ==
    \A i, j \in 1..Len(out) : i < j /\ out[i] # 0 /\ out[j] # 0 =>
        out[i] # out[j] /\ (out[j] \in unacked => out[i] < out[j])

OutgoingOK(out, seen, taken, unacked) ==
    /\ \A i \in 1..Len(out) : out[i] \in seen \cup {0}
    /\ InOrder(out, unacked)
    /\ \A e \in seen : e \in taken \/ \E i \in 1..Len(out) : out[i] = e

\* The slave's queues; last, the newest event of the store.
QueuesOK(s, taken, last, unacked) ==
    /\ s.seen \subseteq 1..last
    /\ \A i \in 1..Len(s.control) : s.control[i].event = 0
    /\ OutgoingOK(OutgoingOf(s), s.seen, taken, unacked)

\* No unacknowledged event is passed over in an activation: one that is not
\* seen is newer than all that are, and is in a task or about to be.
NoneSkipped(s, unacked, task, tasks) ==
    s.active => \A e \in unacked :
        /\ \A f \in s.seen : e < f => e \in s.seen
        /\ e \in s.seen \/ e = task \/ \E i \in 1..Len(tasks) : tasks[i] = e

Both(x, y, wx, wy, taken, ox, kx, oy, ky) ==
    /\ Flow(x, y.recvSeq, wy, taken, ox)
    /\ Flow(y, x.recvSeq, wx, taken, oy)
    /\ kx => ox /\ Acks(x, y.recvSeq, wx)
    /\ ky => oy /\ Acks(y, x.recvSeq, wy)

Pair(x, y, wx, wy, ox, kx, oy, ky) ==
    /\ x \in Sessions /\ y \in Sessions /\ Windowed(x) /\ Windowed(y)
    /\ wx \in Seq(Frames) /\ wy \in Seq(Frames)
    /\ {ox, kx, oy, ky} \subseteq BOOLEAN

\* A session for itself: what holds at each end, and what only at one of them.
Side(end, x, taken, last, unacked) ==
    /\ x.unacked <= K[end] /\ x.sinceAck < W[end]
    /\ ~x.active => x.unacked = 0 /\ x.control = <<>> /\ x.pending = <<>> /\ x.seen = {}
    /\ end = "slave" => QueuesOK(x, taken, last, unacked)
    /\ end = "master" =>
          /\ x.pending = <<>> /\ x.unacked + Len(x.control) <= K[end]
          /\ \A i \in 1..Len(x.control) : x.control[i].event = 0
          /\ \A i \in 1..Len(x.sent) : x.sent[i] = 0

\* The events of the frames w that an end wrote.
Carries(end, w, last) ==
    \A i \in 1..Len(w) : w[i].type = "I" =>
        w[i].body.event \in 0..last /\ (end = "master" => w[i].body.event = 0)

Kept(t, x) == t.active = x.active /\ t.seen = x.seen
Alike(t, x) == Kept(t, x) /\ t.recvSeq = x.recvSeq
SameQueues(t, x) == t.control = x.control /\ t.pending = x.pending

Mid(end, x, y, wx, wy, taken, last, unacked, ox, kx, oy, ky) ==
    /\ Pair(x, y, wx, wy, ox, kx, oy, ky)
    /\ Both(x, y, wx, wy, taken, ox, kx, oy, ky)
    /\ Side(end, x, taken, last, unacked) /\ Side(Peer(end), y, taken, last, unacked)
    /\ Carries(end, wy, last) /\ Carries(Peer(end), wx, last)

Linked(s, m, ws, wm, taken, last, unacked) ==
    /\ Mid("slave", s, m, ws, wm, taken, last, unacked, s.active \/ ~m.active, s.active, TRUE, TRUE)
    /\ m.control = <<>>
    /\ ToSlaveOK(s.active, m.active, ws) /\ ToMasterOK(s.active, m.active, wm)

\* What comes of sending some ASDUs: the session after it and the frames.
Sends(s, asdus, t, x) ==
    /\ t \in Sessions
    /\ t.active = s.active /\ t.recvSeq = s.recvSeq /\ t.acked = s.acked /\ t.seen = s.seen
    /\ t.autoSent = s.autoSent
    /\ t.sendSeq = Plus(s.sendSeq, Len(asdus)) /\ t.unacked = s.unacked + Len(asdus)
    /\ Len(t.sent) = Len(s.sent) + Len(asdus)
    /\ \A i \in 1..Len(s.sent) : t.sent[i] = s.sent[i]
    /\ \A i \in 1..Len(asdus) : t.sent[Len(s.sent) + i] = asdus[i].event
    /\ t.control = Dropped(s.control, Lesser(Len(asdus), Len(s.control)))
    /\ t.pending = Dropped(s.pending, Len(asdus) - Lesser(Len(asdus), Len(s.control)))
    /\ t.sinceAck <= s.sinceAck
    /\ x \in Seq(Frames) /\ Len(x) = Len(asdus)
    /\ \A i \in 1..Len(asdus) :
          /\ x[i].type = "I" /\ x[i].ns = Plus(s.sendSeq, i - 1)
          /\ x[i].nr = s.recvSeq /\ x[i].body = asdus[i]

SoeInv ==
    /\ LinkTyped /\ StoreTyped /\ IdleWhenDown
    /\ alarm = FALSE
    /\ Linked(sess["slave"], sess["master"], wire["slave"], wire["master"], received, stored,
              Unacknowledged)
    /\ NoneSkipped(sess["slave"], Unacknowledged, unposted, posted)

-----------------------------------------------------------------------------
(* Sequence numbers. *)

\* Sequence numbers count modulo at least 2, and every window is smaller than
\* the modulus.
LEMMA SeqModBound == SeqMod \in Nat /\ SeqMod >= 2 /\ \A end \in Ends : K[end] \in 1..(SeqMod - 1)
<1>1. "slave" \in Ends
  BY SoeAssumption
<1> QED BY <1>1, SessionAssumption

\* A number below the modulus is its own remainder.
LEMMA ModSmall ==
    ASSUME NEW x \in Nat, x < SeqMod
    PROVE  x % SeqMod = x
BY SeqModBound

\* A number that passed the modulus once leaves what it passed it by.
LEMMA ModOnce ==
    ASSUME NEW x \in Nat, SeqMod <= x, x < 2 * SeqMod
    PROVE  x % SeqMod = x - SeqMod
BY SeqModBound

\* A sequence number advanced by at most one turn.
LEMMA PlusIs ==
    ASSUME NEW a \in SeqNumbers, NEW n \in 0..SeqMod
    PROVE  /\ Plus(a, n) = IF a + n < SeqMod THEN a + n ELSE a + n - SeqMod
           /\ Plus(a, n) \in SeqNumbers
BY SeqModBound, ModSmall, ModOnce DEF Plus, SeqNumbers

\* The distance between two sequence numbers.
LEMMA DistanceIs ==
    ASSUME NEW a \in SeqNumbers, NEW b \in SeqNumbers
    PROVE  /\ Distance(a, b) = IF a <= b THEN b - a ELSE b + SeqMod - a
           /\ Distance(a, b) \in 0..(SeqMod - 1)
BY SeqModBound, ModSmall, ModOnce DEF Distance, SeqNumbers

\* A remainder is a sequence number.
LEMMA ModIn ==
    ASSUME NEW x \in Nat
    PROVE  x % SeqMod \in SeqNumbers
BY SeqModBound DEF SeqNumbers

\* Advancing by nothing changes nothing.
LEMMA PlusZero ==
    ASSUME NEW a \in SeqNumbers
    PROVE  Plus(a, 0) = a
<1>1. 0 \in 0..SeqMod /\ a + 0 = a /\ a < SeqMod
  BY SeqModBound DEF SeqNumbers
<1> QED BY <1>1, PlusIs

\* A set that holds 0 and every successor of its members holds every natural
\* number.
LEMMA NumberInduction ==
    ASSUME NEW S, 0 \in S, \A n \in Nat : n \in S => n + 1 \in S
    PROVE  Nat \subseteq S
<1> SUFFICES ASSUME Nat \ S # {} PROVE FALSE
  OBVIOUS
<1>1. PICK x \in Nat \ S : \A y \in Nat \ S : ~(<<y, x>> \in OpToRel(<, Nat))
  BY NatLessThanWellFounded, WFMin
<1>2. x \in Nat /\ x \notin S
  OBVIOUS
<1>3. x - 1 \in Nat /\ x - 1 < x /\ x - 1 + 1 = x
  BY <1>2
<1>4. <<x - 1, x>> \in OpToRel(<, Nat)
  BY <1>2, <1>3 DEF OpToRel
<1>5. x - 1 \in S
  BY <1>1, <1>3, <1>4
<1> QED BY <1>2, <1>3, <1>5

-----------------------------------------------------------------------------
(* Counting the I frames on their way. *)

\* The count never falls and grows after every I frame.
LEMMA CountsMonotone ==
    ASSUME NEW w \in Seq(Frames), NEW c, Counts(c, w)
    PROVE  /\ \A i \in 1..(Len(w) + 1), j \in 1..(Len(w) + 1) : i <= j => c[i] <= c[j]
           /\ \A i \in 1..Len(w), j \in 1..(Len(w) + 1) : i < j /\ w[i].type = "I" => c[i] < c[j]
<1> DEFINE S == {n \in Nat : \A i, j \in 1..(Len(w) + 1) : j = i + n => c[i] <= c[j]}
<1>1. c \in [1..(Len(w) + 1) -> Nat] /\ Len(w) \in Nat
  BY DEF Counts
<1>2. 0 \in S
  BY <1>1
<1>3. ASSUME NEW n \in Nat, n \in S PROVE n + 1 \in S
  <2>1. ASSUME NEW i \in 1..(Len(w) + 1), NEW j \in 1..(Len(w) + 1), j = i + (n + 1)
        PROVE  c[i] <= c[j]
    <3>1. j - 1 \in 1..Len(w) /\ j - 1 = i + n /\ (j - 1) + 1 = j /\ j - 1 \in 1..(Len(w) + 1)
      BY <1>1, <2>1
    <3>2. c[i] <= c[j - 1]
      BY <1>3, <2>1, <3>1
    <3>3. c[j - 1] <= c[j]
      BY <1>1, <3>1 DEF Counts
    <3> QED BY <1>1, <3>1, <3>2, <3>3
  <2> QED BY <2>1
<1>4. Nat \subseteq S
  <2> HIDE DEF S
  <2> QED BY <1>2, <1>3, NumberInduction
<1>5. ASSUME NEW i \in 1..(Len(w) + 1), NEW j \in 1..(Len(w) + 1), i <= j PROVE c[i] <= c[j]
  <2>1. j - i \in Nat /\ j = i + (j - i)
    BY <1>5
  <2>2. j - i \in S
    BY <1>4, <2>1
  <2> QED BY <2>1, <2>2
<1>6. ASSUME NEW i \in 1..Len(w), NEW j \in 1..(Len(w) + 1), i < j, w[i].type = "I"
      PROVE  c[i] < c[j]
  <2>1. c[i + 1] = c[i] + 1 /\ i + 1 <= j /\ i + 1 \in 1..(Len(w) + 1)
    BY <1>1, <1>6 DEF Counts
  <2>2. c[i + 1] <= c[j]
    BY <1>5, <2>1
  <2> QED BY <1>1, <2>1, <2>2
<1> QED BY <1>5, <1>6

\* Without I frames the count stays 0.
LEMMA CountsNone ==
    ASSUME NEW w \in Seq(Frames), NEW c, Counts(c, w), \A i \in 1..Len(w) : w[i].type # "I"
    PROVE  c[Len(w) + 1] = 0
<1> DEFINE S == {n \in Nat : n <= Len(w) => c[n + 1] = 0}
<1>1. c \in [1..(Len(w) + 1) -> Nat] /\ Len(w) \in Nat
  BY DEF Counts
<1>2. 0 \in S
  BY DEF Counts
<1>3. ASSUME NEW n \in Nat, n \in S PROVE n + 1 \in S
  <2> SUFFICES ASSUME n + 1 <= Len(w) PROVE c[(n + 1) + 1] = 0
    OBVIOUS
  <2>1. n + 1 \in 1..Len(w)
    BY <1>1
  <2> QED BY <1>1, <1>3, <2>1 DEF Counts
<1>4. Nat \subseteq S
  <2> HIDE DEF S
  <2> QED BY <1>2, <1>3, NumberInduction
<1> QED BY <1>1, <1>4

\* How the count changes when the first frame is read.
LEMMA CountsTail ==
    ASSUME NEW w \in Seq(Frames), w # <<>>, NEW c, Counts(c, w)
    PROVE  LET d == [i \in 1..Len(w) |-> c[i + 1] - c[2]] IN
           /\ Counts(d, Tail(w))
           /\ \A i \in 1..(Len(Tail(w)) + 1) : c[i + 1] = d[i] + c[2]
           /\ c[2] = IF Head(w).type = "I" THEN 1 ELSE 0
<1> DEFINE d == [i \in 1..Len(w) |-> c[i + 1] - c[2]]
<1>1. c \in [1..(Len(w) + 1) -> Nat] /\ Len(w) \in Nat /\ Len(w) >= 1
  BY DEF Counts
<1>2. Len(Tail(w)) = Len(w) - 1 /\ \A i \in 1..Len(Tail(w)) : Tail(w)[i] = w[i + 1]
  BY HeadTailProperties
<1>3. \A i \in 1..Len(w) : c[2] <= c[i + 1]
  BY <1>1, CountsMonotone
<1>4. \A i \in 1..Len(w) : c[i + 1] - c[2] \in Nat
  BY <1>1, <1>3
<1>5. d \in [1..(Len(Tail(w)) + 1) -> Nat]
  BY <1>1, <1>2, <1>4
<1>6. c[2] = IF Head(w).type = "I" THEN 1 ELSE 0
  BY <1>1, HeadTailProperties DEF Counts
<1>7. d[1] = 0
  BY <1>1
<1>8. ASSUME NEW i \in 1..Len(Tail(w))
      PROVE  d[i + 1] = IF Tail(w)[i].type = "I" THEN d[i] + 1 ELSE d[i]
  <2>1. i + 1 \in 1..Len(w) /\ i \in 1..Len(w)
    BY <1>1, <1>2
  <2>2. c[(i + 1) + 1] = IF w[i + 1].type = "I" THEN c[i + 1] + 1 ELSE c[i + 1]
    BY <2>1 DEF Counts
  <2>3. d[i + 1] = c[(i + 1) + 1] - c[2] /\ d[i] = c[i + 1] - c[2]
    BY <2>1
  <2>4. c[i + 1] \in Nat /\ c[2] \in Nat /\ c[(i + 1) + 1] \in Nat
    BY <1>1, <2>1
  <2>5. Tail(w)[i] = w[i + 1]
    BY <1>2
  <2> QED BY <2>2, <2>3, <2>4, <2>5
<1>9. Counts(d, Tail(w))
  BY <1>5, <1>7, <1>8 DEF Counts
<1>10. \A i \in 1..(Len(Tail(w)) + 1) : c[i + 1] = d[i] + c[2]
  BY <1>1, <1>2
<1> QED BY <1>6, <1>9, <1>10

\* How the count goes on when frames are written that are all I frames or
\* none.
LEMMA CountsConcat ==
    ASSUME NEW w \in Seq(Frames), NEW c, Counts(c, w), NEW x \in Seq(Frames),
           NEW one \in {0, 1}, \A i \in 1..Len(x) : x[i].type = "I" <=> one = 1
    PROVE  \E d : /\ Counts(d, w \o x)
                  /\ \A i \in 1..(Len(w) + 1) : d[i] = c[i]
                  /\ \A i \in 1..(Len(x) + 1) : d[Len(w) + i] = c[Len(w) + 1] + one * (i - 1)
<1> DEFINE d == [i \in 1..(Len(w) + Len(x) + 1) |->
                    IF i <= Len(w) + 1 THEN c[i] ELSE c[Len(w) + 1] + one * (i - Len(w) - 1)]
<1>1. c \in [1..(Len(w) + 1) -> Nat] /\ Len(w) \in Nat /\ Len(x) \in Nat
  BY DEF Counts
<1>2. Len(w \o x) = Len(w) + Len(x)
      /\ \A i \in 1..(Len(w) + Len(x)) : (w \o x)[i] = IF i <= Len(w) THEN w[i] ELSE x[i - Len(w)]
  BY ConcatProperties
<1>3. \A i \in 1..(Len(w) + 1) : d[i] = c[i]
  BY <1>1
<1>4. ASSUME NEW i \in 1..(Len(x) + 1) PROVE d[Len(w) + i] = c[Len(w) + 1] + one * (i - 1)
  <2>1. Len(w) + i \in 1..(Len(w) + Len(x) + 1) /\ c[Len(w) + 1] \in Nat
    BY <1>1
  <2>2. CASE i = 1
    BY <1>1, <2>1, <2>2
  <2>3. CASE i # 1
    <3>1. ~(Len(w) + i <= Len(w) + 1) /\ Len(w) + i - Len(w) - 1 = i - 1
      BY <1>1, <2>3
    <3> QED BY <2>1, <3>1
  <2> QED BY <2>2, <2>3
<1>5. d \in [1..(Len(w \o x) + 1) -> Nat]
  <2>1. ASSUME NEW i \in 1..(Len(w) + Len(x) + 1) PROVE d[i] \in Nat
    <3>1. CASE i <= Len(w) + 1
      BY <1>1, <3>1
    <3>2. CASE i > Len(w) + 1
      BY <1>1, <3>2
    <3> QED BY <1>1, <3>1, <3>2
  <2> QED BY <1>2, <2>1
<1>6. d[1] = 0
  BY <1>1 DEF Counts
<1>7. ASSUME NEW i \in 1..Len(w \o x)
      PROVE  d[i + 1] = IF (w \o x)[i].type = "I" THEN d[i] + 1 ELSE d[i]
  <2>1. CASE i <= Len(w)
    <3>1. i \in 1..Len(w) /\ i + 1 \in 1..(Len(w) + 1) /\ i \in 1..(Len(w) + 1)
      BY <1>1, <1>2, <2>1
    <3>2. d[i + 1] = c[i + 1] /\ d[i] = c[i]
      BY <1>3, <3>1
    <3>3. (w \o x)[i] = w[i]
      BY <1>1, <1>2, <2>1
    <3> HIDE DEF d
    <3> QED BY <3>1, <3>2, <3>3 DEF Counts
  <2>2. CASE i > Len(w)
    <3> DEFINE j == i - Len(w)
    <3>1. j \in 1..Len(x) /\ j + 1 \in 1..(Len(x) + 1) /\ j \in 1..(Len(x) + 1)
          /\ Len(w) + j = i /\ Len(w) + (j + 1) = i + 1
      BY <1>1, <1>2, <2>2
    <3>2. d[i] = c[Len(w) + 1] + one * (j - 1) /\ d[i + 1] = c[Len(w) + 1] + one * ((j + 1) - 1)
      <4> HIDE DEF d, j
      <4> QED BY <1>4, <3>1
    <3>3. (w \o x)[i] = x[j]
      BY <1>1, <1>2, <2>2
    <3>4. c[Len(w) + 1] \in Nat
      BY <1>1
    <3> HIDE DEF d, j
    <3>5. x[j].type = "I" <=> one = 1
      BY <3>1
    <3>6. CASE one = 1
      BY <3>1, <3>2, <3>3, <3>4, <3>5, <3>6
    <3>7. CASE one = 0
      BY <3>1, <3>2, <3>3, <3>4, <3>5, <3>7
    <3> QED BY <3>6, <3>7
  <2> QED BY <1>1, <1>2, <2>1, <2>2
<1>8. Counts(d, w \o x)
  BY <1>5, <1>6, <1>7 DEF Counts
<1> HIDE DEF d
<1> QED BY <1>3, <1>4, <1>8

-----------------------------------------------------------------------------
(* The frames on their way in one direction. *)

\* The count goes on by one for each I frame written.
LEMMA CountsSent ==
    ASSUME NEW w \in Seq(Frames), NEW c, Counts(c, w), NEW x \in Seq(Frames),
           \A i \in 1..Len(x) : x[i].type = "I"
    PROVE  \E d : /\ Counts(d, w \o x)
                  /\ \A i \in 1..(Len(w) + 1) : d[i] = c[i]
                  /\ \A i \in 1..(Len(x) + 1) : d[Len(w) + i] = c[Len(w) + 1] + (i - 1)
<1> DEFINE one == 1
<1>1. one \in {0, 1} /\ \A i \in 1..Len(x) : x[i].type = "I" <=> one = 1
  OBVIOUS
<1> HIDE DEF one
<1>2. PICK d : /\ Counts(d, w \o x)
               /\ \A i \in 1..(Len(w) + 1) : d[i] = c[i]
               /\ \A i \in 1..(Len(x) + 1) : d[Len(w) + i] = c[Len(w) + 1] + one * (i - 1)
  BY <1>1, CountsConcat
<1>3. c[Len(w) + 1] \in Nat /\ Len(w) \in Nat /\ Len(x) \in Nat
  BY DEF Counts
<1>4. \A i \in 1..(Len(x) + 1) : one * (i - 1) = i - 1
  BY <1>3 DEF one
<1> QED BY <1>2, <1>4

\* The way from n to b is the way from a to b less the way from a to n.
LEMMA DistanceShift ==
    ASSUME NEW a \in SeqNumbers, NEW n \in SeqNumbers, NEW b \in SeqNumbers,
           Distance(a, n) <= Distance(a, b)
    PROVE  Distance(n, b) = Distance(a, b) - Distance(a, n)
<1>1. Distance(a, b) = IF a <= b THEN b - a ELSE b + SeqMod - a
  BY DistanceIs
<1>2. Distance(a, n) = IF a <= n THEN n - a ELSE n + SeqMod - a
  BY DistanceIs
<1>3. Distance(n, b) = IF n <= b THEN b - n ELSE b + SeqMod - n
  BY DistanceIs
<1>4. SeqMod \in Nat /\ a \in 0..(SeqMod - 1) /\ b \in 0..(SeqMod - 1) /\ n \in 0..(SeqMod - 1)
  BY SeqModBound DEF SeqNumbers
<1> QED BY <1>1, <1>2, <1>3, <1>4

\* The window still ends where it ended after its start moves inside it.
LEMMA PlusShift ==
    ASSUME NEW a \in SeqNumbers, NEW n \in SeqNumbers, NEW u \in 0..(SeqMod - 1),
           Distance(a, n) <= u
    PROVE  u - Distance(a, n) \in 0..(SeqMod - 1) /\ Plus(n, u - Distance(a, n)) = Plus(a, u)
<1>1. Distance(a, n) \in 0..(SeqMod - 1)
  BY DistanceIs
<1>2. u - Distance(a, n) \in 0..(SeqMod - 1)
  BY <1>1, SeqModBound
<1> DEFINE d == Distance(a, n)
<1>3. d = IF a <= n THEN n - a ELSE n + SeqMod - a
  BY DistanceIs
<1>4. SeqMod \in Nat /\ a \in 0..(SeqMod - 1) /\ n \in 0..(SeqMod - 1)
  BY SeqModBound DEF SeqNumbers
<1>5. u \in 0..SeqMod /\ u - d \in 0..SeqMod
  BY <1>2, <1>4
<1>6. Plus(a, u) = IF a + u < SeqMod THEN a + u ELSE a + u - SeqMod
  BY <1>5, PlusIs
<1>7. Plus(n, u - d) = IF n + (u - d) < SeqMod THEN n + (u - d) ELSE n + (u - d) - SeqMod
  BY <1>5, PlusIs
<1> HIDE DEF d
<1>8. Plus(n, u - d) = Plus(a, u)
  BY <1>1, <1>3, <1>4, <1>5, <1>6, <1>7 DEF d
<1> QED BY <1>2, <1>8 DEF d

\* Advancing twice is advancing once by the sum.
LEMMA PlusPlus ==
    ASSUME NEW a \in SeqNumbers, NEW m \in Nat, NEW n \in Nat, m + n <= SeqMod
    PROVE  Plus(Plus(a, m), n) = Plus(a, m + n)
<1>1. m \in 0..SeqMod /\ n \in 0..SeqMod /\ m + n \in 0..SeqMod
  BY SeqModBound
<1>2. Plus(a, m) \in SeqNumbers
  BY <1>1, PlusIs
<1>3. Plus(a, m) = IF a + m < SeqMod THEN a + m ELSE a + m - SeqMod
  BY <1>1, PlusIs
<1>4. Plus(a, m + n) = IF a + (m + n) < SeqMod THEN a + (m + n) ELSE a + (m + n) - SeqMod
  BY <1>1, PlusIs
<1>5. \A b \in SeqNumbers : Plus(b, n) = IF b + n < SeqMod THEN b + n ELSE b + n - SeqMod
  BY <1>1, PlusIs
<1>6. Plus(Plus(a, m), n) =
        IF Plus(a, m) + n < SeqMod THEN Plus(a, m) + n ELSE Plus(a, m) + n - SeqMod
  BY <1>2, <1>5
<1> DEFINE b == Plus(a, m)
<1>7. b \in 0..(SeqMod - 1) /\ a \in 0..(SeqMod - 1) /\ SeqMod \in Nat
  BY <1>2, SeqModBound DEF SeqNumbers
<1> HIDE DEF b
<1>8. Plus(b, n) = Plus(a, m + n)
  BY <1>1, <1>3, <1>4, <1>6, <1>7 DEF b
<1> QED BY <1>8 DEF b

\* The distance to a number advanced by n is n.
LEMMA DistancePlus ==
    ASSUME NEW a \in SeqNumbers, NEW n \in 0..(SeqMod - 1)
    PROVE  Distance(a, Plus(a, n)) = n
<1> DEFINE b == Plus(a, n)
<1>1. SeqMod \in Nat /\ a \in 0..(SeqMod - 1) /\ n \in 0..SeqMod
  BY SeqModBound DEF SeqNumbers
<1>2. b \in SeqNumbers /\ b = IF a + n < SeqMod THEN a + n ELSE a + n - SeqMod
  BY <1>1, PlusIs
<1> HIDE DEF b
<1>3. Distance(a, b) = IF a <= b THEN b - a ELSE b + SeqMod - a
  BY <1>2, DistanceIs
<1> QED BY <1>1, <1>2, <1>3 DEF SeqNumbers, b

\* The next number is one further.
LEMMA NextDistance ==
    ASSUME NEW a \in SeqNumbers, NEW r \in SeqNumbers, Distance(a, r) + 1 < SeqMod
    PROVE  Distance(a, Plus(r, 1)) = Distance(a, r) + 1
<1> DEFINE b == Plus(r, 1)
<1>1. SeqMod \in Nat /\ a \in 0..(SeqMod - 1) /\ r \in 0..(SeqMod - 1) /\ 1 \in 0..SeqMod
  BY SeqModBound DEF SeqNumbers
<1>2. b \in SeqNumbers /\ b = IF r + 1 < SeqMod THEN r + 1 ELSE r + 1 - SeqMod
  BY <1>1, PlusIs
<1> HIDE DEF b
<1>3. Distance(a, b) = IF a <= b THEN b - a ELSE b + SeqMod - a
  BY <1>2, DistanceIs
<1>4. Distance(a, r) = IF a <= r THEN r - a ELSE r + SeqMod - a
  BY DistanceIs
<1> QED BY <1>1, <1>2, <1>3, <1>4 DEF SeqNumbers, b

\* A flow depends on the window of the sender alone.
LEMMA FlowSame ==
    ASSUME NEW p, NEW q, NEW r, NEW w, NEW taken, NEW open, Flow(p, r, w, taken, open),
           q.sendSeq = p.sendSeq, q.acked = p.acked, q.unacked = p.unacked, q.sent = p.sent
    PROVE  Flow(q, r, w, taken, open)
BY DEF Flow, FlowBy, Numbered, InWindow

\* A flow stays one when more events were taken.
LEMMA FlowMore ==
    ASSUME NEW p, NEW r, NEW w, NEW taken, NEW more, NEW open, Flow(p, r, w, taken, open),
           taken \subseteq more
    PROVE  Flow(p, r, w, more, open)
BY DEF Flow, FlowBy, Numbered, InWindow

\* Frames that carry no data leave a flow as it is.
LEMMA FlowOther ==
    ASSUME NEW p, NEW r, NEW w \in Seq(Frames), NEW taken, NEW open \in BOOLEAN, NEW x \in Seq(Frames),
           \A i \in 1..Len(x) : x[i].type # "I", Flow(p, r, w, taken, open)
    PROVE  Flow(p, r, w \o x, taken, open)
<1>1. PICK c : FlowBy(c, p, r, w, taken, open)
  BY DEF Flow
<1>2. Counts(c, w)
  BY <1>1 DEF FlowBy
<1> DEFINE one == 0
<1>a. one \in {0, 1} /\ \A i \in 1..Len(x) : x[i].type = "I" <=> one = 1
  OBVIOUS
<1> HIDE DEF one
<1>3. PICK d : /\ Counts(d, w \o x)
               /\ \A i \in 1..(Len(w) + 1) : d[i] = c[i]
               /\ \A i \in 1..(Len(x) + 1) : d[Len(w) + i] = c[Len(w) + 1] + one * (i - 1)
  BY <1>2, <1>a, CountsConcat
<1>4. /\ Len(w \o x) = Len(w) + Len(x) /\ Len(w) \in Nat /\ Len(x) \in Nat
      /\ \A i \in 1..(Len(w) + Len(x)) : (w \o x)[i] = IF i <= Len(w) THEN w[i] ELSE x[i - Len(w)]
  BY ConcatProperties
<1>5. d[Len(w \o x) + 1] = c[Len(w) + 1]
  <2>1. Len(x) + 1 \in 1..(Len(x) + 1) /\ Len(w) + (Len(x) + 1) = Len(w \o x) + 1
    BY <1>4
  <2>2. c[Len(w) + 1] \in Nat
    BY <1>2, <1>4 DEF Counts
  <2> QED BY <1>3, <1>4, <2>1, <2>2 DEF one
<1>6. ASSUME NEW i \in 1..Len(w \o x), (w \o x)[i].type = "I"
      PROVE  i \in 1..Len(w) /\ (w \o x)[i] = w[i] /\ d[i] = c[i]
  <2>1. CASE i <= Len(w)
    BY <1>3, <1>4, <2>1
  <2>2. CASE ~(i <= Len(w))
    <3>1. i - Len(w) \in 1..Len(x) /\ (w \o x)[i] = x[i - Len(w)]
      BY <1>4, <2>2
    <3> QED BY <1>6, <3>1
  <2> QED BY <2>1, <2>2
<1>7. Numbered(d, p, r, w \o x)
  BY <1>1, <1>5, <1>6 DEF FlowBy, Numbered
<1>8. open => InWindow(d, p, r, w \o x, taken)
  BY <1>1, <1>5, <1>6 DEF FlowBy, InWindow
<1> QED BY <1>3, <1>7, <1>8 DEF Flow, FlowBy

\* The head of a flow has the number that is expected next, and what follows
\* it is a flow once it was taken.
LEMMA FlowTail ==
    ASSUME NEW p \in Sessions, NEW r \in SeqNumbers, NEW w \in Seq(Frames), w # <<>>, NEW taken,
           NEW open \in BOOLEAN, Flow(p, r, w, taken, open), p.unacked < SeqMod
    PROVE  IF Head(w).type = "I"
           THEN /\ Head(w).ns = r
                /\ Flow(p, Plus(r, 1), Tail(w), taken \cup {Head(w).body.event}, open)
                /\ open => Distance(p.acked, Plus(r, 1)) = Distance(p.acked, r) + 1
           ELSE Flow(p, r, Tail(w), taken, open)
<1>1. PICK c : FlowBy(c, p, r, w, taken, open)
  BY DEF Flow
<1>2. Counts(c, w)
  BY <1>1 DEF FlowBy
<1> DEFINE d == [i \in 1..Len(w) |-> c[i + 1] - c[2]]
           v == Tail(w)
<1>3. /\ Counts(d, v)
      /\ \A i \in 1..(Len(v) + 1) : c[i + 1] = d[i] + c[2]
      /\ c[2] = IF Head(w).type = "I" THEN 1 ELSE 0
  BY <1>2, CountsTail
<1> HIDE DEF d
<1>4. /\ Len(w) \in Nat /\ Len(w) >= 1 /\ Len(v) = Len(w) - 1 /\ Head(w) = w[1]
      /\ \A i \in 1..Len(v) : v[i] = w[i + 1]
  BY HeadTailProperties
<1>5. c \in [1..(Len(w) + 1) -> Nat] /\ d \in [1..(Len(v) + 1) -> Nat] /\ c[1] = 0
  BY <1>2, <1>3 DEF Counts
<1>6. p.acked \in SeqNumbers /\ p.unacked \in Nat /\ Distance(p.acked, r) \in 0..(SeqMod - 1)
  BY DistanceIs DEF Sessions
<1> HIDE DEF v
<1>7. c[Len(w) + 1] = d[Len(v) + 1] + c[2]
  <2>1. Len(v) + 1 \in 1..(Len(v) + 1) /\ (Len(v) + 1) + 1 = Len(w) + 1
    BY <1>4
  <2> QED BY <1>3, <2>1
<1>8. ASSUME NEW i \in 1..Len(v)
      PROVE  i + 1 \in 1..Len(w) /\ v[i] = w[i + 1] /\ c[i + 1] = d[i] + c[2] /\ d[i] \in Nat
  <2>1. i + 1 \in 1..Len(w) /\ i \in 1..(Len(v) + 1)
    BY <1>4
  <2>2. d[i] \in Nat
    BY <1>5, <2>1
  <2> QED BY <1>3, <1>4, <2>1, <2>2
<1>9. d[Len(v) + 1] \in Nat
  BY <1>4, <1>5
<1>10. CASE Head(w).type # "I"
  <2>1. c[2] = 0
    BY <1>3, <1>10
  <2>2. c[Len(w) + 1] = d[Len(v) + 1]
    BY <1>7, <1>9, <2>1
  <2>3. \A i \in 1..Len(v) : i + 1 \in 1..Len(w) /\ v[i] = w[i + 1] /\ c[i + 1] = d[i]
    BY <1>8, <2>1
  <2>4. Numbered(d, p, r, v)
    BY <1>1, <2>2, <2>3 DEF FlowBy, Numbered
  <2>5. open => InWindow(d, p, r, v, taken)
    BY <1>1, <2>2, <2>3 DEF FlowBy, InWindow
  <2> QED BY <1>3, <1>10, <2>4, <2>5 DEF Flow, FlowBy, v
<1>11. CASE Head(w).type = "I"
  <2> DEFINE n == d[Len(v) + 1]
             e == Head(w).body.event
  <2>1. c[2] = 1 /\ c[Len(w) + 1] = n + 1
    BY <1>3, <1>7, <1>11
  <2>2. n \in Nat
    BY <1>9
  <2> HIDE DEF n
  <2>3. n + 1 < SeqMod /\ p.sendSeq = Plus(r, n + 1)
    BY <1>1, <2>1 DEF FlowBy, Numbered
  <2>4. Head(w).ns = r
    <3>1. w[1].ns = Plus(r, c[1])
      BY <1>1, <1>4, <1>11 DEF FlowBy, Numbered
    <3>2. Plus(r, 0) = r
      BY PlusIs, SeqModBound DEF SeqNumbers
    <3> QED BY <1>4, <1>5, <3>1, <3>2
  <2>5. ASSUME NEW i \in 1..Len(v)
        PROVE  i + 1 \in 1..Len(w) /\ v[i] = w[i + 1] /\ c[i + 1] = d[i] + 1 /\ d[i] \in Nat /\ d[i] <= n
    <3>1. d[i] <= d[Len(v) + 1]
      <4>1. i \in 1..(Len(v) + 1) /\ Len(v) + 1 \in 1..(Len(v) + 1) /\ i <= Len(v) + 1
        BY <1>4
      <4>2. v \in Seq(Frames)
        BY HeadTailProperties DEF v
      <4> QED BY <1>3, <4>1, <4>2, CountsMonotone
    <3> QED BY <1>8, <2>1, <3>1 DEF n
  <2>6. Numbered(d, p, Plus(r, 1), v)
    <3>1. ASSUME NEW i \in 1..Len(v), v[i].type = "I" PROVE v[i].ns = Plus(Plus(r, 1), d[i])
      <4>1. v[i].ns = Plus(r, d[i] + 1)
        BY <1>1, <2>5, <3>1 DEF FlowBy, Numbered
      <4>2. d[i] \in Nat /\ 1 + d[i] <= SeqMod
        BY <2>2, <2>3, <2>5, SeqModBound
      <4> QED BY <4>1, <4>2, PlusPlus
    <3>2. p.sendSeq = Plus(Plus(r, 1), n)
      BY <2>2, <2>3, PlusPlus, SeqModBound
    <3>3. n < SeqMod
      BY <2>2, <2>3, SeqModBound
    <3> QED BY <3>1, <3>2, <3>3 DEF Numbered, n
  <2>7. ASSUME open
        PROVE  /\ Distance(p.acked, Plus(r, 1)) = Distance(p.acked, r) + 1
               /\ InWindow(d, p, Plus(r, 1), v, taken \cup {e})
    <3> DEFINE g == Distance(p.acked, r)
    <3>1. InWindow(c, p, r, w, taken)
      BY <1>1, <2>7 DEF FlowBy
    <3>2. p.unacked = g + (n + 1)
      BY <2>1, <3>1 DEF InWindow
    <3>3. g + 1 < SeqMod
      BY <1>6, <2>2, <3>2, SeqModBound
    <3>4. Distance(p.acked, Plus(r, 1)) = g + 1
      BY <1>6, <3>3, NextDistance
    <3>5. p.unacked = Distance(p.acked, Plus(r, 1)) + n
      BY <1>6, <2>2, <3>2, <3>4
    <3>6. ASSUME NEW i \in 1..Len(v), v[i].type = "I"
          PROVE  p.sent[Distance(p.acked, Plus(r, 1)) + d[i] + 1] = v[i].body.event
      <4>1. p.sent[g + c[i + 1] + 1] = w[i + 1].body.event
        BY <2>5, <3>1, <3>6 DEF InWindow
      <4>2. c[i + 1] = d[i] + 1 /\ d[i] \in Nat /\ g \in Nat
        BY <1>6, <2>5
      <4>3. g + c[i + 1] + 1 = (g + 1) + d[i] + 1
        BY <4>2
      <4> QED BY <2>5, <3>4, <4>1, <4>3
    <3>7. ASSUME NEW i \in 1..(g + 1) PROVE p.sent[i] \in (taken \cup {e}) \cup {0}
      <4>1. CASE i \in 1..g
        BY <3>1, <4>1 DEF InWindow
      <4>2. CASE i = g + 1
        <5>1. p.sent[g + c[1] + 1] = w[1].body.event
          BY <1>4, <1>11, <3>1 DEF InWindow
        <5> QED BY <1>4, <1>5, <1>6, <4>2, <5>1
      <4> QED BY <1>6, <4>1, <4>2
    <3> HIDE DEF g
    <3>8. InWindow(d, p, Plus(r, 1), v, taken \cup {e})
      BY <3>4, <3>5, <3>6, <3>7 DEF InWindow, n
    <3> QED BY <3>4, <3>8 DEF g
  <2> QED BY <1>3, <1>11, <2>4, <2>6, <2>7 DEF Flow, FlowBy, v
<1> QED BY <1>10, <1>11

\* What is left of a sequence without its first n elements.
LEMMA DroppedProperties ==
    ASSUME NEW S, NEW q \in Seq(S), NEW n \in 0..Len(q)
    PROVE  /\ Dropped(q, n) \in Seq(S)
           /\ Len(Dropped(q, n)) = Len(q) - n
           /\ \A i \in 1..(Len(q) - n) : Dropped(q, n)[i] = q[n + i]
<1>1. Len(q) \in Nat /\ n + 1 \in Int /\ Len(q) \in Int /\ \A i \in (n + 1)..Len(q) : q[i] \in S
  OBVIOUS
<1>2. /\ SubSeq(q, n + 1, Len(q)) \in Seq(S)
      /\ Len(SubSeq(q, n + 1, Len(q))) = IF n + 1 <= Len(q) THEN Len(q) - (n + 1) + 1 ELSE 0
      /\ \A i \in 1..(Len(q) - (n + 1) + 1) : SubSeq(q, n + 1, Len(q))[i] = q[(n + 1) + i - 1]
  BY <1>1, SubSeqProperties
<1>3. \A i \in 1..(Len(q) - n) : (n + 1) + i - 1 = n + i /\ i \in 1..(Len(q) - (n + 1) + 1)
  BY <1>1
<1> QED BY <1>1, <1>2, <1>3 DEF Dropped

\* A function on 1..n is a sequence of length n.
LEMMA MapProperties ==
    ASSUME NEW S, NEW n \in Nat, NEW f, f \in [1..n -> S]
    PROVE  f \in Seq(S) /\ Len(f) = n /\ DOMAIN f = 1..n
OBVIOUS

\* The session and the frames after some ASDUs went out.
LEMMA SendAllIs ==
    ASSUME NEW s \in Sessions, NEW asdus \in Seq(Asdus), Len(asdus) <= Len(s.control) + Len(s.pending)
    PROVE  Sends(s, asdus, SendAll(s, asdus).s, SendAll(s, asdus).out)
<1> DEFINE n == Len(asdus)
           l == Lesser(n, Len(s.control))
           ev == [i \in DOMAIN asdus |-> asdus[i].event]
           x == [i \in DOMAIN asdus |-> IFrame(Plus(s.sendSeq, i - 1), s.recvSeq, asdus[i])]
           ack == s.ackPending /\ asdus = <<>>
           since == IF asdus = <<>> THEN s.sinceAck ELSE IF s.ackPending THEN 0 ELSE s.sinceAck
           t == [s EXCEPT !.control = Dropped(s.control, l), !.pending = Dropped(s.pending, n - l),
                          !.sent = s.sent \o ev, !.sendSeq = Plus(s.sendSeq, n),
                          !.unacked = s.unacked + n, !.ackPending = ack, !.sinceAck = since]
<1>1. SendAll(s, asdus) = [s |-> t, out |-> x]
  BY DEF SendAll
<1>2. /\ n \in Nat /\ DOMAIN asdus = 1..n /\ s.control \in Seq(Asdus) /\ s.pending \in Seq(Asdus)
      /\ s.sent \in Seq(EventNumbers) /\ s.sendSeq \in SeqNumbers /\ s.recvSeq \in SeqNumbers
      /\ s.unacked \in Nat /\ s.sinceAck \in Nat /\ s.ackPending \in BOOLEAN
  BY DEF Sessions
<1>3. \A i \in 1..n : asdus[i] \in Asdus /\ asdus[i].event \in EventNumbers
  <2>1. \A i \in 1..n : asdus[i] \in Asdus
    OBVIOUS
  <2> QED BY <2>1 DEF Asdus
<1>4. l \in 0..Len(s.control) /\ n - l \in 0..Len(s.pending)
  <2>1. Len(s.control) \in Nat /\ Len(s.pending) \in Nat /\ n <= Len(s.control) + Len(s.pending)
    BY <1>2, LenProperties
  <2>2. n \in Nat
    BY <1>2
  <2>3. CASE n <= Len(s.control)
    <3>1. l = n
      BY <2>3 DEF Lesser
    <3> HIDE DEF n, l
    <3> QED BY <2>1, <2>2, <2>3, <3>1
  <2>4. CASE ~(n <= Len(s.control))
    <3>1. l = Len(s.control)
      BY <2>4 DEF Lesser
    <3> DEFINE a == Len(s.control)
               b == Len(s.pending)
    <3>2. a \in Nat /\ b \in Nat /\ n <= a + b /\ ~(n <= a) /\ l = a
      BY <2>1, <2>4, <3>1
    <3> HIDE DEF n, l, a, b
    <3>3. l \in 0..a /\ n - l \in 0..b
      BY <2>2, <3>2
    <3> QED BY <3>3 DEF a, b
  <2> QED BY <2>3, <2>4
<1>5. ev \in Seq(EventNumbers) /\ Len(ev) = n /\ \A i \in 1..n : ev[i] = asdus[i].event
  <2>1. ev \in [1..n -> EventNumbers]
    BY <1>2, <1>3
  <2> QED BY <1>2, <2>1, MapProperties
<1>6. /\ s.sent \o ev \in Seq(EventNumbers) /\ Len(s.sent \o ev) = Len(s.sent) + n
      /\ \A i \in 1..Len(s.sent) : (s.sent \o ev)[i] = s.sent[i]
      /\ \A i \in 1..n : (s.sent \o ev)[Len(s.sent) + i] = asdus[i].event
  <2> HIDE DEF ev, n
  <2>1. /\ s.sent \o ev \in Seq(EventNumbers) /\ Len(s.sent \o ev) = Len(s.sent) + Len(ev)
        /\ \A i \in 1..(Len(s.sent) + Len(ev)) :
              (s.sent \o ev)[i] = IF i <= Len(s.sent) THEN s.sent[i] ELSE ev[i - Len(s.sent)]
    <3>1. s.sent \in Seq(EventNumbers) /\ ev \in Seq(EventNumbers)
      BY <1>2, <1>5
    <3> QED BY <3>1, ConcatProperties
  <2>2. \A i \in 1..n : Len(s.sent) + i \in 1..(Len(s.sent) + n) /\ ~(Len(s.sent) + i <= Len(s.sent))
                        /\ Len(s.sent) + i - Len(s.sent) = i
    BY <1>2
  <2>3. \A i \in 1..Len(s.sent) : i \in 1..(Len(s.sent) + n)
    BY <1>2
  <2> QED BY <1>2, <1>5, <2>1, <2>2, <2>3
<1>7. /\ Dropped(s.control, l) \in Seq(Asdus) /\ Dropped(s.pending, n - l) \in Seq(Asdus)
  BY <1>2, <1>4, DroppedProperties
<1>8. Plus(s.sendSeq, n) \in SeqNumbers /\ \A i \in 1..n : Plus(s.sendSeq, i - 1) \in SeqNumbers
  <2>1. s.sendSeq \in Nat
    BY <1>2, SeqModBound DEF SeqNumbers
  <2>2. s.sendSeq + n \in Nat /\ \A i \in 1..n : s.sendSeq + (i - 1) \in Nat
    BY <1>2, <2>1
  <2> QED BY <2>2, ModIn DEF Plus
<1>10. /\ x \in Seq(Frames) /\ Len(x) = n
       /\ \A i \in 1..n : x[i] = IFrame(Plus(s.sendSeq, i - 1), s.recvSeq, asdus[i])
  <2>1. ASSUME NEW i \in 1..n PROVE IFrame(Plus(s.sendSeq, i - 1), s.recvSeq, asdus[i]) \in Frames
    BY <1>2, <1>3, <1>8 DEF IFrame, Frames
  <2>2. x \in [1..n -> Frames]
    BY <1>2, <2>1
  <2> QED BY <1>2, <2>2, MapProperties
<1>9. ack \in BOOLEAN /\ since \in Nat /\ since <= s.sinceAck /\ s.unacked + n \in Nat
  BY <1>2
<1> HIDE DEF n, l, ev, x, ack, since
<1>11. t \in Sessions
  <2> DEFINE ct == Dropped(s.control, l)
             pd == Dropped(s.pending, n - l)
             st == s.sent \o ev
             sq == Plus(s.sendSeq, n)
             un == s.unacked + n
  <2>1. ct \in Seq(Asdus) /\ pd \in Seq(Asdus) /\ st \in Seq(EventNumbers) /\ sq \in SeqNumbers
        /\ un \in Nat
    BY <1>6, <1>7, <1>8, <1>9
  <2> HIDE DEF ct, pd, st, sq, un
  <2>2. [s EXCEPT !.control = ct, !.pending = pd, !.sent = st, !.sendSeq = sq, !.unacked = un,
                  !.ackPending = ack, !.sinceAck = since] \in Sessions
    BY <1>9, <2>1 DEF Sessions
  <2> QED BY <2>2 DEF ct, pd, st, sq, un
<1>12. /\ t.active = s.active /\ t.recvSeq = s.recvSeq /\ t.acked = s.acked /\ t.seen = s.seen
       /\ t.autoSent = s.autoSent
       /\ t.sendSeq = Plus(s.sendSeq, n) /\ t.unacked = s.unacked + n /\ t.sent = s.sent \o ev
       /\ t.control = Dropped(s.control, l) /\ t.pending = Dropped(s.pending, n - l)
       /\ t.sinceAck <= s.sinceAck
  BY <1>9 DEF Sessions
<1>13. \A i \in 1..n : /\ x[i].type = "I" /\ x[i].ns = Plus(s.sendSeq, i - 1)
                       /\ x[i].nr = s.recvSeq /\ x[i].body = asdus[i]
  BY <1>10 DEF IFrame
<1>14. SendAll(s, asdus).s = t /\ SendAll(s, asdus).out = x
  BY <1>1
<1> HIDE DEF t
<1>15. /\ t.control = Dropped(s.control, Lesser(Len(asdus), Len(s.control)))
       /\ t.pending = Dropped(s.pending, Len(asdus) - Lesser(Len(asdus), Len(s.control)))
  BY <1>12 DEF n, l
<1>16. /\ Len(t.sent) = Len(s.sent) + n
       /\ \A i \in 1..Len(s.sent) : t.sent[i] = s.sent[i]
       /\ \A i \in 1..n : t.sent[Len(s.sent) + i] = asdus[i].event
  BY <1>6, <1>12
<1> QED BY <1>10, <1>11, <1>12, <1>13, <1>14, <1>15, <1>16 DEF n, Sends

\* What a session sends continues its flow.
LEMMA FlowSend ==
    ASSUME NEW s \in Sessions, Windowed(s), NEW asdus \in Seq(Asdus),
           Len(asdus) <= Len(s.control) + Len(s.pending), s.unacked + Len(asdus) < SeqMod,
           NEW r \in SeqNumbers, NEW w \in Seq(Frames), NEW taken, NEW open \in BOOLEAN,
           open \/ asdus = <<>>, Flow(s, r, w, taken, open)
    PROVE  /\ Flow(SendAll(s, asdus).s, r, w \o SendAll(s, asdus).out, taken, open)
           /\ Windowed(SendAll(s, asdus).s)
<1> DEFINE t == SendAll(s, asdus).s
           x == SendAll(s, asdus).out
           n == Len(asdus)
<1>1. /\ t.acked = s.acked /\ t.sendSeq = Plus(s.sendSeq, n) /\ t.unacked = s.unacked + n
      /\ Len(t.sent) = Len(s.sent) + n
      /\ \A i \in 1..Len(s.sent) : t.sent[i] = s.sent[i]
      /\ \A i \in 1..n : t.sent[Len(s.sent) + i] = asdus[i].event
      /\ x \in Seq(Frames) /\ Len(x) = n
      /\ \A i \in 1..n : /\ x[i].type = "I" /\ x[i].ns = Plus(s.sendSeq, i - 1)
                         /\ x[i].body = asdus[i]
  <2>1. Sends(s, asdus, t, x)
    BY SendAllIs
  <2> QED BY <2>1 DEF Sends
<1>2. n \in Nat /\ s.unacked \in Nat /\ s.acked \in SeqNumbers /\ s.sendSeq \in SeqNumbers
      /\ Len(s.sent) = s.unacked /\ s.sendSeq = Plus(s.acked, s.unacked) /\ s.unacked + n < SeqMod
      /\ SeqMod \in Nat
  BY SeqModBound DEF Sessions, Windowed
<1>3. PICK c : FlowBy(c, s, r, w, taken, open)
  BY DEF Flow
<1> HIDE DEF t, x, n
<1>4. x \in Seq(Frames) /\ \A i \in 1..Len(x) : x[i].type = "I"
  BY <1>1
<1>5. PICK d : /\ Counts(d, w \o x)
               /\ \A i \in 1..(Len(w) + 1) : d[i] = c[i]
               /\ \A i \in 1..(Len(x) + 1) : d[Len(w) + i] = c[Len(w) + 1] + (i - 1)
  <2>1. Counts(c, w)
    BY <1>3 DEF FlowBy
  <2> QED BY <1>4, <2>1, CountsSent
<1> DEFINE e == c[Len(w) + 1]
<1>6. e \in Nat /\ e < SeqMod /\ s.sendSeq = Plus(r, e)
  BY <1>3 DEF FlowBy, Counts, Numbered
<1>7. /\ Len(w \o x) = Len(w) + n /\ Len(w) \in Nat
      /\ \A i \in 1..(Len(w) + n) : (w \o x)[i] = IF i <= Len(w) THEN w[i] ELSE x[i - Len(w)]
  <2>1. x \in Seq(Frames) /\ Len(x) = n
    BY <1>1
  <2> QED BY <2>1, ConcatProperties, LenProperties
<1>8. \A i \in 1..(n + 1) : d[Len(w) + i] = e + (i - 1)
  BY <1>1, <1>2, <1>5, <1>6
<1> HIDE DEF e
<1>9. d[Len(w \o x) + 1] = e + n
  <2>1. n + 1 \in 1..(n + 1) /\ Len(w) + (n + 1) = Len(w \o x) + 1 /\ (n + 1) - 1 = n
    BY <1>2, <1>7
  <2>2. d[Len(w) + (n + 1)] = e + ((n + 1) - 1)
    BY <1>8, <2>1
  <2> QED BY <2>1, <2>2
<1>10. e + n < SeqMod
  <2>1. CASE asdus = <<>>
    BY <1>6, <2>1 DEF n
  <2>2. CASE open
    <3>1. s.unacked = Distance(s.acked, r) + e
      BY <1>3, <2>2 DEF FlowBy, InWindow, e
    <3>2. Distance(s.acked, r) \in 0..(SeqMod - 1)
      BY <1>2, DistanceIs
    <3> QED BY <1>2, <1>6, <3>1, <3>2
  <2> QED BY <2>1, <2>2
<1>11. ASSUME NEW i \in 1..Len(w \o x)
       PROVE  \/ i \in 1..Len(w) /\ (w \o x)[i] = w[i] /\ d[i] = c[i]
              \/ \E j \in 1..n : i = Len(w) + j /\ (w \o x)[i] = x[j] /\ d[i] = e + (j - 1)
  <2>1. CASE i <= Len(w)
    <3>1. i \in 1..Len(w) /\ i \in 1..(Len(w) + 1) /\ i \in 1..(Len(w) + n)
      BY <1>2, <1>7, <2>1
    <3> QED BY <1>5, <1>7, <2>1, <3>1
  <2>2. CASE ~(i <= Len(w))
    <3> DEFINE j == i - Len(w)
    <3>1. j \in 1..n /\ i = Len(w) + j /\ j \in 1..(n + 1)
      BY <1>2, <1>7, <2>2
    <3>2. (w \o x)[i] = x[j]
      BY <1>2, <1>7, <2>2
    <3> HIDE DEF j
    <3>3. d[i] = e + (j - 1)
      BY <1>8, <3>1
    <3> QED BY <3>1, <3>2, <3>3
  <2> QED BY <2>1, <2>2
<1>12. Numbered(d, t, r, w \o x)
  <2>1. ASSUME NEW i \in 1..Len(w \o x), (w \o x)[i].type = "I"
        PROVE  (w \o x)[i].ns = Plus(r, d[i])
    <3>1. CASE i \in 1..Len(w) /\ (w \o x)[i] = w[i] /\ d[i] = c[i]
      BY <1>3, <2>1, <3>1 DEF FlowBy, Numbered
    <3>2. CASE \E j \in 1..n : i = Len(w) + j /\ (w \o x)[i] = x[j] /\ d[i] = e + (j - 1)
      <4>1. PICK j \in 1..n : i = Len(w) + j /\ (w \o x)[i] = x[j] /\ d[i] = e + (j - 1)
        BY <3>2
      <4>2. (w \o x)[i].ns = Plus(Plus(r, e), j - 1)
        BY <1>1, <1>6, <4>1
      <4>3. j - 1 \in Nat /\ e + (j - 1) <= SeqMod
        BY <1>2, <1>6, <1>10
      <4> QED BY <1>6, <4>1, <4>2, <4>3, PlusPlus
    <3> QED BY <1>11, <3>1, <3>2
  <2>2. t.sendSeq = Plus(r, e + n)
    <3>1. t.sendSeq = Plus(Plus(r, e), n)
      BY <1>1, <1>6
    <3>2. e + n <= SeqMod
      BY <1>2, <1>6, <1>10
    <3> QED BY <1>2, <1>6, <3>1, <3>2, PlusPlus
  <2> QED BY <1>9, <1>10, <2>1, <2>2 DEF Numbered
<1>13. ASSUME open PROVE InWindow(d, t, r, w \o x, taken)
  <2> DEFINE g == Distance(s.acked, r)
  <2>1. g \in 0..(SeqMod - 1) /\ g \in Nat
    BY <1>2, DistanceIs
  <2>2. InWindow(c, s, r, w, taken)
    BY <1>3, <1>13 DEF FlowBy
  <2>3. s.unacked = g + e
    BY <2>2 DEF InWindow, e
  <2>4. t.unacked = g + (e + n)
    BY <1>1, <1>2, <1>6, <2>1, <2>3
  <2>5. ASSUME NEW i \in 1..Len(w \o x), (w \o x)[i].type = "I"
        PROVE  t.sent[g + d[i] + 1] = (w \o x)[i].body.event
    <3>1. CASE i \in 1..Len(w) /\ (w \o x)[i] = w[i] /\ d[i] = c[i]
      <4>1. s.sent[g + c[i] + 1] = w[i].body.event
        BY <2>2, <2>5, <3>1 DEF InWindow
      <4>2. c[i] \in Nat /\ c[i] < e
        <5>1. Len(w) + 1 \in 1..(Len(w) + 1) /\ i < Len(w) + 1 /\ i \in 1..(Len(w) + 1)
          BY <1>7, <3>1
        <5> QED BY <1>3, <2>5, <3>1, <5>1, CountsMonotone DEF FlowBy, e, Counts
      <4>3. g + c[i] + 1 \in 1..Len(s.sent)
        <5>1. Len(s.sent) = g + e /\ e \in Nat /\ g \in Nat
          BY <1>2, <1>6, <2>1, <2>3
        <5> HIDE DEF g
        <5> QED BY <4>2, <5>1
      <4> QED BY <1>1, <3>1, <4>1, <4>3
    <3>2. CASE \E j \in 1..n : i = Len(w) + j /\ (w \o x)[i] = x[j] /\ d[i] = e + (j - 1)
      <4>1. PICK j \in 1..n : i = Len(w) + j /\ (w \o x)[i] = x[j] /\ d[i] = e + (j - 1)
        BY <3>2
      <4>2. g + d[i] + 1 = Len(s.sent) + j
        <5> DEFINE k == d[i]
        <5>1. Len(s.sent) = g + e /\ e \in Nat /\ g \in Nat /\ j \in Nat /\ k = e + (j - 1)
          BY <1>2, <1>6, <2>1, <2>3, <4>1
        <5> HIDE DEF g, k
        <5>2. g + k + 1 = Len(s.sent) + j
          BY <5>1
        <5> QED BY <5>2 DEF k
      <4> QED BY <1>1, <4>1, <4>2
    <3> QED BY <1>11, <3>1, <3>2
  <2>6. ASSUME NEW i \in 1..g PROVE t.sent[i] \in taken \cup {0}
    <3>1. i \in 1..Len(s.sent)
      BY <1>2, <1>6, <2>1, <2>3
    <3> QED BY <1>1, <2>2, <3>1 DEF InWindow
  <2> QED BY <1>1, <1>9, <2>4, <2>5, <2>6 DEF InWindow
<1>14. Flow(t, r, w \o x, taken, open)
  BY <1>5, <1>12, <1>13 DEF Flow, FlowBy
<1>15. Windowed(t)
  <2>1. t.sendSeq = Plus(s.acked, s.unacked + n)
    <3>1. s.unacked + n <= SeqMod
      BY <1>2
    <3> QED BY <1>1, <1>2, <3>1, PlusPlus
  <2> QED BY <1>1, <1>2, <2>1 DEF Windowed
<1> QED BY <1>14, <1>15 DEF t, x

\* What handleAck leaves of the window before it sends more.
AckedTo(s, nr) == [s EXCEPT !.acked = nr, !.unacked = s.unacked - Distance(s.acked, nr),
                            !.sent = Dropped(s.sent, Distance(s.acked, nr))]

\* The window after an acknowledgement up to nr.
LEMMA AckedToIs ==
    ASSUME NEW s \in Sessions, Windowed(s), NEW nr \in SeqNumbers, Distance(s.acked, nr) <= s.unacked
    PROVE  LET t == AckedTo(s, nr)
               d == Distance(s.acked, nr) IN
           /\ t \in Sessions /\ Windowed(t) /\ d \in Nat
           /\ t.acked = nr /\ t.unacked = s.unacked - d /\ t.sendSeq = s.sendSeq
           /\ t.active = s.active /\ t.recvSeq = s.recvSeq /\ t.seen = s.seen
           /\ t.control = s.control /\ t.pending = s.pending /\ t.sinceAck = s.sinceAck
           /\ t.autoSent = s.autoSent
           /\ Len(t.sent) = Len(s.sent) - d
           /\ \A i \in 1..Len(t.sent) : t.sent[i] = s.sent[d + i]
<1> DEFINE d == Distance(s.acked, nr)
           u == s.unacked - d
           q == Dropped(s.sent, d)
<1>1. s.acked \in SeqNumbers /\ s.unacked \in Nat /\ s.sent \in Seq(EventNumbers)
      /\ s.sendSeq \in SeqNumbers /\ Len(s.sent) = s.unacked /\ s.unacked < SeqMod
      /\ s.sendSeq = Plus(s.acked, s.unacked) /\ SeqMod \in Nat
  BY SeqModBound DEF Sessions, Windowed
<1>2. d \in Nat /\ d <= s.unacked
  BY <1>1, DistanceIs
<1>3. u \in Nat /\ d \in 0..Len(s.sent) /\ u < SeqMod /\ s.unacked \in 0..(SeqMod - 1)
  BY <1>1, <1>2
<1>4. q \in Seq(EventNumbers) /\ Len(q) = Len(s.sent) - d
      /\ \A i \in 1..(Len(s.sent) - d) : q[i] = s.sent[d + i]
  BY <1>1, <1>3, DroppedProperties
<1>5. Plus(nr, u) = Plus(s.acked, s.unacked)
  BY <1>1, <1>2, <1>3, PlusShift
<1>6. AckedTo(s, nr) = [s EXCEPT !.acked = nr, !.unacked = u, !.sent = q]
  BY DEF AckedTo
<1> DEFINE t == AckedTo(s, nr)
<1>7. u = s.unacked - d
  OBVIOUS
<1> HIDE DEF d, u, q
<1>8. t \in Sessions
  BY <1>3, <1>4, <1>6 DEF Sessions
<1>9. /\ t.acked = nr /\ t.unacked = u /\ t.sendSeq = s.sendSeq
      /\ t.active = s.active /\ t.recvSeq = s.recvSeq /\ t.seen = s.seen
      /\ t.control = s.control /\ t.pending = s.pending /\ t.sinceAck = s.sinceAck
      /\ t.autoSent = s.autoSent /\ t.sent = q
  BY <1>6 DEF Sessions
<1> HIDE DEF t
<1>10. Len(q) = u
  BY <1>1, <1>4, <1>7
<1>11. Windowed(t)
  BY <1>1, <1>3, <1>5, <1>9, <1>10 DEF Windowed
<1>12. /\ Len(t.sent) = Len(s.sent) - d
       /\ \A i \in 1..Len(t.sent) : t.sent[i] = s.sent[d + i]
  BY <1>4, <1>9
<1> QED BY <1>2, <1>7, <1>8, <1>9, <1>11, <1>12 DEF d, t

\* An acknowledgement of frames that were taken stays inside the window,
\* acknowledges only events that were taken, and leaves a flow.
LEMMA FlowAck ==
    ASSUME NEW s \in Sessions, Windowed(s), NEW nr \in SeqNumbers, NEW r \in SeqNumbers,
           Distance(s.acked, nr) <= Distance(s.acked, r),
           NEW w \in Seq(Frames), NEW taken, Flow(s, r, w, taken, TRUE)
    PROVE  /\ Distance(s.acked, nr) <= s.unacked
           /\ Acknowledged(s, nr) \subseteq taken
           /\ Distance(nr, r) = Distance(s.acked, r) - Distance(s.acked, nr)
           /\ Flow(AckedTo(s, nr), r, w, taken, TRUE)
<1> DEFINE d == Distance(s.acked, nr)
           g == Distance(s.acked, r)
           t == AckedTo(s, nr)
<1>1. PICK c : FlowBy(c, s, r, w, taken, TRUE)
  BY DEF Flow
<1>2. Counts(c, w) /\ Numbered(c, s, r, w) /\ InWindow(c, s, r, w, taken)
  BY <1>1 DEF FlowBy
<1>3. s.acked \in SeqNumbers /\ d \in Nat /\ g \in Nat /\ d <= g
  BY DistanceIs DEF Sessions
<1>4. c[Len(w) + 1] \in Nat /\ Len(w) \in Nat
  BY <1>2 DEF Counts
<1>5. s.unacked = g + c[Len(w) + 1] /\ \A i \in 1..g : s.sent[i] \in taken \cup {0}
  BY <1>2 DEF InWindow
<1>6. Len(s.sent) = g + c[Len(w) + 1]
  BY <1>5 DEF Windowed
<1>7. Acknowledged(s, nr) \subseteq taken
  <2>1. \A i \in 1..d : i \in 1..g
    BY <1>3
  <2> QED BY <1>5, <2>1 DEF Acknowledged
<1>8. Distance(nr, r) = g - d
  BY <1>3, DistanceShift
<1>9. d <= s.unacked
  BY <1>3, <1>4, <1>5
<1>10. /\ t.acked = nr /\ t.unacked = s.unacked - d /\ t.sendSeq = s.sendSeq
       /\ Len(t.sent) = Len(s.sent) - d
       /\ \A i \in 1..Len(t.sent) : t.sent[i] = s.sent[d + i]
  BY <1>9, AckedToIs
<1>11. Numbered(c, t, r, w)
  BY <1>2, <1>10 DEF Numbered
<1>12. InWindow(c, t, r, w, taken)
  <2> DEFINE h == Distance(t.acked, r)
  <2>1. h = g - d
    BY <1>8, <1>10
  <2>2. t.unacked = h + c[Len(w) + 1]
    <3> HIDE DEF h, g, d
    <3> QED BY <1>3, <1>4, <1>5, <1>10, <2>1
  <2>3. ASSUME NEW i \in 1..Len(w), w[i].type = "I" PROVE t.sent[h + c[i] + 1] = w[i].body.event
    <3>1. c[i] \in Nat /\ c[i] < c[Len(w) + 1]
      <4>1. i \in 1..(Len(w) + 1) /\ Len(w) + 1 \in 1..(Len(w) + 1) /\ i < Len(w) + 1
        BY <1>4
      <4> QED BY <1>2, <2>3, <4>1, CountsMonotone DEF Counts
    <3>2. s.sent[g + c[i] + 1] = w[i].body.event
      BY <1>2, <2>3 DEF InWindow
    <3>3. h + c[i] + 1 \in 1..Len(t.sent) /\ d + (h + c[i] + 1) = g + c[i] + 1
      <4>1. Len(t.sent) = (g - d) + c[Len(w) + 1]
        <5> HIDE DEF g, d
        <5> QED BY <1>3, <1>4, <1>6, <1>10
      <4> HIDE DEF h, g, d
      <4> QED BY SMTT(30), <1>3, <1>4, <2>1, <3>1, <4>1
    <3> QED BY <1>10, <3>2, <3>3
  <2>4. ASSUME NEW i \in 1..h PROVE t.sent[i] \in taken \cup {0}
    <3>1. i \in 1..Len(t.sent) /\ d + i \in 1..g
      <4>1. Len(t.sent) = (g - d) + c[Len(w) + 1]
        <5> HIDE DEF g, d
        <5> QED BY <1>3, <1>4, <1>6, <1>10
      <4> HIDE DEF h, g, d
      <4> QED BY <1>3, <1>4, <2>1, <4>1
    <3> QED BY <1>5, <1>10, <3>1
  <2> QED BY <2>2, <2>3, <2>4 DEF InWindow
<1> QED BY <1>2, <1>7, <1>8, <1>9, <1>11, <1>12 DEF Flow, FlowBy

\* A new window, when nothing of the last one is on its way.
LEMMA FlowFresh ==
    ASSUME NEW p, NEW q \in Sessions, NEW r \in SeqNumbers, NEW w \in Seq(Frames), NEW taken,
           NEW open, Flow(p, r, w, taken, open),
           \A i \in 1..Len(w) : w[i].type # "I",
           q.sendSeq = p.sendSeq, q.acked = q.sendSeq, q.unacked = 0
    PROVE  /\ Flow(q, r, w, taken, TRUE)
           /\ q.acked = r
<1>1. PICK c : FlowBy(c, p, r, w, taken, open)
  BY DEF Flow
<1>2. c[Len(w) + 1] = 0
  BY <1>1, CountsNone DEF FlowBy
<1>3. q.acked = r
  BY <1>1, <1>2, PlusZero DEF FlowBy, Numbered
<1>4. Distance(q.acked, r) = 0
  BY <1>3, DistanceIs DEF SeqNumbers
<1>5. Numbered(c, q, r, w)
  BY <1>1 DEF FlowBy, Numbered
<1>6. InWindow(c, q, r, w, taken)
  BY <1>2, <1>4 DEF InWindow
<1> QED BY <1>1, <1>3, <1>5, <1>6 DEF Flow, FlowBy

\* The numbers of a flow remain when the window of its sender is cleared.
LEMMA FlowClosed ==
    ASSUME NEW p, NEW q, NEW r, NEW w, NEW taken, NEW open, Flow(p, r, w, taken, open),
           q.sendSeq = p.sendSeq
    PROVE  Flow(q, r, w, taken, FALSE)
BY DEF Flow, FlowBy, Numbered

-----------------------------------------------------------------------------
(* Both directions of a connection, seen from end x.  ox and oy, whether the *)
(* windows of x and of y are open; kx and ky, whether they hear of frames    *)
(* the other end took.                                                       *)

\* The two directions seen from the other end.
LEMMA BothSwap ==
    ASSUME NEW x, NEW y, NEW wx, NEW wy, NEW taken, NEW ox, NEW kx, NEW oy, NEW ky,
           Both(x, y, wx, wy, taken, ox, kx, oy, ky)
    PROVE  Both(y, x, wy, wx, taken, oy, ky, ox, kx)
BY DEF Both

\* Frames that acknowledge what was received last continue the
\* acknowledgements on their way.
LEMMA AcksConcat ==
    ASSUME NEW e, NEW q, NEW w \in Seq(Frames), Acks(e, q, w), NEW x \in Seq(Frames),
           \A i \in 1..Len(x) : Data(x[i]) => x[i].nr = q,
           e.acked \in SeqNumbers, q \in SeqNumbers
    PROVE  Acks(e, q, w \o x)
<1>1. /\ Len(w \o x) = Len(w) + Len(x) /\ Len(w) \in Nat /\ Len(x) \in Nat
      /\ \A i \in 1..(Len(w) + Len(x)) : (w \o x)[i] = IF i <= Len(w) THEN w[i] ELSE x[i - Len(w)]
  BY ConcatProperties, LenProperties
<1>2. ASSUME NEW i \in 1..Len(w \o x)
      PROVE  \/ i \in 1..Len(w) /\ (w \o x)[i] = w[i]
             \/ i > Len(w) /\ i - Len(w) \in 1..Len(x) /\ (w \o x)[i] = x[i - Len(w)]
  BY <1>1
<1>3. Distance(e.acked, q) \in Nat
  BY DistanceIs
<1>4. ASSUME NEW i \in 1..Len(w \o x), Data((w \o x)[i])
      PROVE  /\ Distance(e.acked, (w \o x)[i].nr) <= Distance(e.acked, q)
             /\ i > Len(w) => (w \o x)[i].nr = q
  <2>1. CASE i \in 1..Len(w) /\ (w \o x)[i] = w[i]
    BY <1>1, <1>4, <2>1 DEF Acks
  <2>2. CASE i - Len(w) \in 1..Len(x) /\ (w \o x)[i] = x[i - Len(w)]
    BY <1>3, <1>4, <2>2
  <2> QED BY <1>2, <2>1, <2>2
<1>5. ASSUME NEW i \in 1..Len(w \o x), NEW j \in 1..Len(w \o x), i < j, Data((w \o x)[i]), Data((w \o x)[j])
      PROVE  Distance(e.acked, (w \o x)[i].nr) <= Distance(e.acked, (w \o x)[j].nr)
  <2>1. CASE j > Len(w)
    BY <1>4, <1>5, <2>1
  <2>2. CASE ~(j > Len(w))
    <3>1. i \in 1..Len(w) /\ j \in 1..Len(w) /\ (w \o x)[i] = w[i] /\ (w \o x)[j] = w[j]
      BY <1>1, <1>5, <2>2
    <3> QED BY <1>5, <3>1 DEF Acks
  <2> QED BY <2>1, <2>2
<1> QED BY <1>4, <1>5 DEF Acks

\* The acknowledgements behind the first are acknowledgements.
LEMMA AcksTail ==
    ASSUME NEW e, NEW q, NEW w \in Seq(Frames), w # <<>>, Acks(e, q, w)
    PROVE  Acks(e, q, Tail(w))
<1>1. /\ Len(w) \in Nat /\ Len(Tail(w)) = Len(w) - 1
      /\ \A i \in 1..Len(Tail(w)) : Tail(w)[i] = w[i + 1]
  BY HeadTailProperties, LenProperties
<1>2. \A i \in 1..Len(Tail(w)) : i + 1 \in 1..Len(w)
  BY <1>1
<1>3. \A i, j \in 1..Len(Tail(w)) : i < j => i + 1 < j + 1
  BY <1>1
<1> QED BY <1>1, <1>2, <1>3 DEF Acks

\* Both directions after one end sent.
LEMMA BothSend ==
    ASSUME NEW x, NEW y, NEW wx, NEW wy, NEW taken, NEW ox, NEW kx, NEW oy, NEW ky,
           Pair(x, y, wx, wy, ox, kx, oy, ky), Both(x, y, wx, wy, taken, ox, kx, oy, ky),
           NEW asdus \in Seq(Asdus), Len(asdus) <= Len(x.control) + Len(x.pending),
           x.unacked + Len(asdus) < SeqMod, ox \/ asdus = <<>>
    PROVE  LET t == SendAll(x, asdus).s
               out == SendAll(x, asdus).out IN
           /\ Both(t, y, wx, wy \o out, taken, ox, kx, oy, ky)
           /\ Pair(t, y, wx, wy \o out, ox, kx, oy, ky)
<1> DEFINE t == SendAll(x, asdus).s
           out == SendAll(x, asdus).out
<1>1. x \in Sessions /\ y \in Sessions /\ Windowed(x) /\ wx \in Seq(Frames) /\ wy \in Seq(Frames)
      /\ ox \in BOOLEAN
  BY DEF Pair
<1>2. x.acked \in SeqNumbers /\ x.recvSeq \in SeqNumbers /\ y.recvSeq \in SeqNumbers /\ y.acked \in SeqNumbers
  BY <1>1 DEF Sessions
<1>3. /\ t \in Sessions /\ t.acked = x.acked /\ t.recvSeq = x.recvSeq
      /\ out \in Seq(Frames) /\ \A i \in 1..Len(out) : out[i].nr = x.recvSeq
  <2>1. /\ t \in Sessions /\ t.acked = x.acked /\ t.recvSeq = x.recvSeq
        /\ out \in Seq(Frames) /\ Len(out) = Len(asdus)
        /\ \A i \in 1..Len(asdus) : out[i].nr = x.recvSeq
    <3>1. Sends(x, asdus, t, out)
      BY <1>1, SendAllIs
    <3> QED BY <3>1 DEF Sends
  <2> QED BY <2>1
<1>4. Flow(t, y.recvSeq, wy \o out, taken, ox) /\ Windowed(t)
  <2>1. Flow(x, y.recvSeq, wy, taken, ox)
    BY DEF Both
  <2> QED BY <1>1, <1>2, <2>1, FlowSend
<1> HIDE DEF t, out
<1>5. Flow(y, t.recvSeq, wx, taken, oy)
  BY <1>3 DEF Both
<1>6. kx => ox /\ Acks(t, y.recvSeq, wx)
  BY <1>3 DEF Both, Acks
<1>7. ky => oy /\ Acks(y, t.recvSeq, wy \o out)
  BY <1>1, <1>2, <1>3, AcksConcat DEF Both
<1>8. wy \o out \in Seq(Frames)
  BY <1>1, <1>3, ConcatProperties
<1> QED BY <1>3, <1>4, <1>5, <1>6, <1>7, <1>8 DEF Both, Pair, t, out

\* Something else changes in session x.
LEMMA BothSame ==
    ASSUME NEW x, NEW y, NEW wx, NEW wy, NEW taken, NEW ox, NEW kx, NEW oy, NEW ky,
           Pair(x, y, wx, wy, ox, kx, oy, ky), Both(x, y, wx, wy, taken, ox, kx, oy, ky),
           NEW t \in Sessions, t.sendSeq = x.sendSeq, t.acked = x.acked, t.unacked = x.unacked,
           t.sent = x.sent, t.recvSeq = x.recvSeq
    PROVE  Both(t, y, wx, wy, taken, ox, kx, oy, ky) /\ Pair(t, y, wx, wy, ox, kx, oy, ky)
<1>1. Flow(t, y.recvSeq, wy, taken, ox)
  BY FlowSame DEF Both
<1>2. Windowed(t)
  BY DEF Windowed, Pair
<1> QED BY <1>1, <1>2 DEF Both, Pair, Acks

\* End x writes a frame that is no I frame; an S frame tells what x took.
LEMMA BothWrite ==
    ASSUME NEW x, NEW y, NEW wx, NEW wy, NEW taken, NEW ox, NEW kx, NEW oy, NEW ky,
           Pair(x, y, wx, wy, ox, kx, oy, ky), Both(x, y, wx, wy, taken, ox, kx, oy, ky),
           NEW f \in Frames, f.type # "I", f.type = "S" => f.nr = x.recvSeq
    PROVE  Both(x, y, wx, wy \o <<f>>, taken, ox, kx, oy, ky) /\ Pair(x, y, wx, wy \o <<f>>, ox, kx, oy, ky)
<1>1. x \in Sessions /\ y \in Sessions /\ wx \in Seq(Frames) /\ wy \in Seq(Frames) /\ ox \in BOOLEAN
  BY DEF Pair
<1>2. <<f>> \in Seq(Frames) /\ Len(<<f>>) = 1 /\ \A i \in 1..Len(<<f>>) : <<f>>[i] = f
  OBVIOUS
<1>3. wy \o <<f>> \in Seq(Frames)
  BY <1>1, <1>2, ConcatProperties
<1>4. Flow(x, y.recvSeq, wy \o <<f>>, taken, ox)
  BY <1>1, <1>2, FlowOther DEF Both
<1>5. y.acked \in SeqNumbers /\ x.recvSeq \in SeqNumbers
  BY <1>1 DEF Sessions
<1>6. ky => oy /\ Acks(y, x.recvSeq, wy \o <<f>>)
  BY <1>1, <1>2, <1>5, AcksConcat DEF Both, Data
<1> QED BY <1>3, <1>4, <1>6 DEF Both, Pair

\* End x reads a frame that is no I frame.
LEMMA BothRead ==
    ASSUME NEW x, NEW y, NEW wx, NEW wy, NEW taken, NEW ox, NEW kx, NEW oy, NEW ky,
           Pair(x, y, wx, wy, ox, kx, oy, ky), Both(x, y, wx, wy, taken, ox, kx, oy, ky),
           wx # <<>>, Head(wx).type # "I"
    PROVE  Both(x, y, Tail(wx), wy, taken, ox, kx, oy, ky) /\ Pair(x, y, Tail(wx), wy, ox, kx, oy, ky)
<1>1. x \in Sessions /\ y \in Sessions /\ wx \in Seq(Frames) /\ oy \in BOOLEAN /\ y.unacked < SeqMod
      /\ x.recvSeq \in SeqNumbers
  BY DEF Pair, Windowed, Sessions
<1>2. Flow(y, x.recvSeq, Tail(wx), taken, oy)
  BY <1>1, FlowTail DEF Both
<1>3. kx => ox /\ Acks(x, y.recvSeq, Tail(wx))
  BY <1>1, AcksTail DEF Both
<1>4. Tail(wx) \in Seq(Frames)
  BY <1>1, HeadTailProperties
<1> QED BY <1>2, <1>3, <1>4 DEF Both, Pair

\* The I frame at the head of the wire to x is the next one x expects.
LEMMA BothNext ==
    ASSUME NEW x, NEW y, NEW wx, NEW wy, NEW taken, NEW ox, NEW kx, NEW oy, NEW ky,
           Pair(x, y, wx, wy, ox, kx, oy, ky), Both(x, y, wx, wy, taken, ox, kx, oy, ky),
           wx # <<>>, Head(wx).type = "I"
    PROVE  Head(wx).ns = x.recvSeq
<1>1. y \in Sessions /\ wx \in Seq(Frames) /\ oy \in BOOLEAN /\ y.unacked < SeqMod
      /\ x.recvSeq \in SeqNumbers
  BY DEF Pair, Windowed, Sessions
<1>2. Flow(y, x.recvSeq, wx, taken, oy)
  BY DEF Both
<1> QED BY <1>1, <1>2, FlowTail

\* End x takes an I frame.
LEMMA BothTake ==
    ASSUME NEW x, NEW y, NEW wx, NEW wy, NEW taken, NEW ox, NEW kx, NEW oy, NEW ky,
           Pair(x, y, wx, wy, ox, kx, oy, ky), Both(x, y, wx, wy, taken, ox, kx, oy, ky),
           wx # <<>>, Head(wx).type = "I",
           NEW t \in Sessions, t.sendSeq = x.sendSeq, t.acked = x.acked, t.unacked = x.unacked,
           t.sent = x.sent, t.recvSeq = Plus(x.recvSeq, 1)
    PROVE  /\ Head(wx).ns = x.recvSeq
           /\ Both(t, y, Tail(wx), wy, taken \cup {Head(wx).body.event}, ox, kx, oy, ky)
           /\ Pair(t, y, Tail(wx), wy, ox, kx, oy, ky)
<1> DEFINE more == taken \cup {Head(wx).body.event}
<1>1. x \in Sessions /\ y \in Sessions /\ wx \in Seq(Frames) /\ wy \in Seq(Frames) /\ oy \in BOOLEAN
      /\ y.unacked < SeqMod /\ x.recvSeq \in SeqNumbers /\ y.acked \in SeqNumbers
  BY DEF Pair, Windowed, Sessions
<1>2. /\ Head(wx).ns = x.recvSeq
      /\ Flow(y, t.recvSeq, Tail(wx), more, oy)
      /\ oy => Distance(y.acked, t.recvSeq) = Distance(y.acked, x.recvSeq) + 1
  <2>1. Flow(y, x.recvSeq, wx, taken, oy)
    BY DEF Both
  <2>2. /\ Head(wx).ns = x.recvSeq
        /\ Flow(y, Plus(x.recvSeq, 1), Tail(wx), more, oy)
        /\ oy => Distance(y.acked, Plus(x.recvSeq, 1)) = Distance(y.acked, x.recvSeq) + 1
    BY <1>1, <2>1, FlowTail
  <2> QED BY <2>2
<1>3. Flow(t, y.recvSeq, wy, more, ox)
  <2>1. Flow(x, y.recvSeq, wy, more, ox)
    BY FlowMore DEF Both
  <2> QED BY <2>1, FlowSame
<1>4. kx => ox /\ Acks(t, y.recvSeq, Tail(wx))
  <2>1. kx => ox /\ Acks(x, y.recvSeq, Tail(wx))
    BY <1>1, AcksTail DEF Both
  <2> QED BY <2>1 DEF Acks
<1>5. ky => oy /\ Acks(y, t.recvSeq, wy)
  <2> SUFFICES ASSUME ky PROVE oy /\ Acks(y, t.recvSeq, wy)
    OBVIOUS
  <2>1. oy /\ Acks(y, x.recvSeq, wy)
    BY DEF Both
  <2>2. Distance(y.acked, t.recvSeq) = Distance(y.acked, x.recvSeq) + 1 /\ Distance(y.acked, x.recvSeq) \in Nat
    BY <1>1, <1>2, <2>1, DistanceIs
  <2>3. ASSUME NEW i \in 1..Len(wy), Data(wy[i])
        PROVE  Distance(y.acked, wy[i].nr) <= Distance(y.acked, t.recvSeq)
    <3>1. wy[i] \in Frames
      BY <1>1
    <3>2. wy[i].nr \in SeqNumbers
      BY <2>3, <3>1 DEF Frames, Data
    <3>3. Distance(y.acked, wy[i].nr) \in Nat
      BY <1>1, <3>2, DistanceIs
    <3>4. Distance(y.acked, wy[i].nr) <= Distance(y.acked, x.recvSeq)
      BY <2>1, <2>3 DEF Acks
    <3> QED BY <2>2, <3>3, <3>4
  <2> QED BY <2>1, <2>3 DEF Acks
<1>6. Tail(wx) \in Seq(Frames)
  BY <1>1, HeadTailProperties
<1>7. Windowed(t)
  BY DEF Windowed, Pair
<1> QED BY <1>2, <1>3, <1>4, <1>5, <1>6, <1>7 DEF Both, Pair

\* End x hears of the frames the other end took.
LEMMA BothAcked ==
    ASSUME NEW x, NEW y, NEW wx, NEW wy, NEW taken, NEW ox, NEW kx, NEW oy, NEW ky,
           Pair(x, y, wx, wy, ox, kx, oy, ky), Both(x, y, wx, wy, taken, ox, kx, oy, ky),
           wx # <<>>, Data(Head(wx)), kx
    PROVE  LET nr == Head(wx).nr IN
           /\ nr \in SeqNumbers /\ AckValid(x, nr) /\ Distance(x.acked, nr) <= x.unacked
           /\ Acknowledged(x, nr) \subseteq taken
           /\ Both(AckedTo(x, nr), y, wx, wy, taken, ox, kx, oy, ky)
           /\ Pair(AckedTo(x, nr), y, wx, wy, ox, kx, oy, ky)
<1> DEFINE nr == Head(wx).nr
           t == AckedTo(x, nr)
           d == Distance(x.acked, nr)
<1>1. x \in Sessions /\ y \in Sessions /\ Windowed(x) /\ wx \in Seq(Frames) /\ wy \in Seq(Frames)
      /\ x.acked \in SeqNumbers /\ x.unacked \in Nat /\ y.recvSeq \in SeqNumbers
      /\ Head(wx) = wx[1] /\ 1 \in 1..Len(wx) /\ Len(wx) \in Nat
  BY HeadTailProperties DEF Pair, Sessions
<1>2. ox /\ Acks(x, y.recvSeq, wx) /\ Flow(x, y.recvSeq, wy, taken, TRUE)
  BY DEF Both
<1>3. ASSUME NEW i \in 1..Len(wx), Data(wx[i])
      PROVE  wx[i].nr \in SeqNumbers /\ d \in Nat /\ Distance(x.acked, wx[i].nr) \in Nat
             /\ d <= Distance(x.acked, wx[i].nr)
  <2>1. wx[i] \in Frames /\ wx[1] \in Frames /\ Data(wx[1])
    BY <1>1
  <2>2. wx[i].nr \in SeqNumbers /\ wx[1].nr \in SeqNumbers
    BY <1>3, <2>1 DEF Frames, Data
  <2>3. d \in Nat /\ Distance(x.acked, wx[i].nr) \in Nat
    <3>1. nr \in SeqNumbers
      BY <1>1, <2>2
    <3> HIDE DEF nr
    <3>2. d \in 0..(SeqMod - 1) /\ Distance(x.acked, wx[i].nr) \in 0..(SeqMod - 1)
      BY <1>1, <2>2, <3>1, DistanceIs
    <3> QED BY <3>2
  <2>4. CASE i = 1
    BY <1>1, <2>2, <2>3, <2>4
  <2>5. CASE i # 1
    BY <1>1, <1>2, <1>3, <2>1, <2>2, <2>3, <2>5 DEF Acks
  <2> QED BY <2>4, <2>5
<1>4. nr \in SeqNumbers /\ d \in Nat
  BY <1>1, <1>3
<1>5. d <= Distance(x.acked, y.recvSeq)
  BY <1>1, <1>2 DEF Acks
<1>6. /\ d <= x.unacked
      /\ Acknowledged(x, nr) \subseteq taken
      /\ Distance(nr, y.recvSeq) = Distance(x.acked, y.recvSeq) - d
      /\ Flow(t, y.recvSeq, wy, taken, TRUE)
  BY <1>1, <1>2, <1>4, <1>5, FlowAck
<1>7. t \in Sessions /\ Windowed(t) /\ t.acked = nr /\ t.recvSeq = x.recvSeq
  BY <1>1, <1>4, <1>6, AckedToIs
<1>8. AckValid(x, nr)
  <2>1. CASE x.unacked = 0
    <3>1. d = 0
      BY <1>4, <1>6, <2>1
    <3>2. d = IF x.acked <= nr THEN nr - x.acked ELSE nr + SeqMod - x.acked
      BY <1>1, <1>4, DistanceIs
    <3>3. nr = x.acked
      BY <1>1, <1>4, <3>1, <3>2, SeqModBound DEF SeqNumbers
    <3> QED BY <2>1, <3>3 DEF AckValid
  <2> QED BY <1>6, <2>1 DEF AckValid
<1> HIDE DEF t
<1>9. Acks(t, y.recvSeq, wx)
  <2>1. ASSUME NEW i \in 1..Len(wx), Data(wx[i])
        PROVE  Distance(nr, wx[i].nr) = Distance(x.acked, wx[i].nr) - d
    BY <1>1, <1>3, <1>4, <2>1, DistanceShift
  <2>2. ASSUME NEW i \in 1..Len(wx), Data(wx[i])
        PROVE  Distance(t.acked, wx[i].nr) <= Distance(t.acked, y.recvSeq)
    <3>1. Distance(x.acked, wx[i].nr) <= Distance(x.acked, y.recvSeq)
      BY <1>2, <2>2 DEF Acks
    <3>2. Distance(x.acked, y.recvSeq) \in Nat
      BY <1>1, DistanceIs
    <3>3. Distance(nr, wx[i].nr) = Distance(x.acked, wx[i].nr) - d /\ Distance(x.acked, wx[i].nr) \in Nat
      BY <1>3, <2>1, <2>2
    <3> HIDE DEF nr, d
    <3> QED BY <1>4, <1>6, <1>7, <3>1, <3>2, <3>3
  <2>3. ASSUME NEW i \in 1..Len(wx), NEW j \in 1..Len(wx), i < j, Data(wx[i]), Data(wx[j])
        PROVE  Distance(t.acked, wx[i].nr) <= Distance(t.acked, wx[j].nr)
    <3>1. Distance(x.acked, wx[i].nr) <= Distance(x.acked, wx[j].nr)
      BY <1>2, <2>3 DEF Acks
    <3>2. Distance(nr, wx[i].nr) = Distance(x.acked, wx[i].nr) - d /\ Distance(x.acked, wx[i].nr) \in Nat
      BY <1>3, <2>1, <2>3
    <3>3. Distance(nr, wx[j].nr) = Distance(x.acked, wx[j].nr) - d /\ Distance(x.acked, wx[j].nr) \in Nat
      BY <1>3, <2>1, <2>3
    <3> HIDE DEF nr, d
    <3> QED BY <1>4, <1>7, <3>1, <3>2, <3>3
  <2> QED BY <2>2, <2>3 DEF Acks
<1>10. Both(t, y, wx, wy, taken, ox, kx, oy, ky)
  BY <1>2, <1>6, <1>7, <1>9 DEF Both
<1>11. Pair(t, y, wx, wy, ox, kx, oy, ky)
  BY <1>7 DEF Pair
<1> QED BY <1>4, <1>6, <1>8, <1>10, <1>11 DEF t

-----------------------------------------------------------------------------
(* The queues of a session. *)

\* What a session may send stays inside its window and is taken from the
\* heads of its queues.
LEMMA SendableIs ==
    ASSUME NEW end \in Ends, NEW s \in Sessions, s.unacked <= K[end]
    PROVE  LET a == Sendable(end, s) IN
           /\ a \in Seq(Asdus) /\ Len(a) \in Nat
           /\ Len(a) <= Len(s.control) + Len(s.pending)
           /\ s.unacked + Len(a) <= K[end]
           /\ s.unacked + Len(a) < SeqMod
           /\ ~s.active => a = <<>>
           /\ s.active /\ s.unacked + Len(s.control) + Len(s.pending) <= K[end] =>
                 Len(a) = Len(s.control) + Len(s.pending)
           /\ \A i \in 1..Len(a) :
                 a[i] = IF i <= Len(s.control) THEN s.control[i] ELSE s.pending[i - Len(s.control)]
<1> DEFINE a == Sendable(end, s)
           lc == Len(s.control)
           lp == Len(s.pending)
           q == s.control \o s.pending
           n == Lesser(K[end] - s.unacked, lc + lp)
<1>1. s.control \in Seq(Asdus) /\ s.pending \in Seq(Asdus) /\ s.unacked \in Nat
      /\ K[end] \in Nat /\ K[end] < SeqMod /\ SeqMod \in Nat
  BY SeqModBound DEF Sessions
<1>2. lc \in Nat /\ lp \in Nat
  BY <1>1, LenProperties
<1>3. CASE s.active /\ s.unacked < K[end]
  <2>1. a = SubSeq(q, 1, n)
    BY <1>3 DEF Sendable
  <2>2. /\ q \in Seq(Asdus) /\ Len(q) = lc + lp
        /\ \A i \in 1..(lc + lp) : q[i] = IF i <= lc THEN s.control[i] ELSE s.pending[i - lc]
    BY <1>1, ConcatProperties
  <2>3. /\ n \in Nat /\ n <= lc + lp /\ s.unacked + n <= K[end]
        /\ s.unacked + lc + lp <= K[end] => n = lc + lp
    <3> DEFINE x == K[end] - s.unacked
               y == lc + lp
               u == s.unacked
               k == K[end]
    <3>1. n = Lesser(x, y)
      OBVIOUS
    <3> HIDE DEF n, lc, lp
    <3>2. u \in Nat /\ k \in Nat /\ u < k
      BY <1>1, <1>3
    <3>3. x = k - u /\ y = lc + lp
      OBVIOUS
    <3> HIDE DEF x, y, u, k
    <3>4. x \in Nat /\ y \in Nat /\ u + x = k
      BY <1>2, <3>2, <3>3
    <3>5. n \in Nat /\ n <= x /\ n <= y
      BY <3>1, <3>4 DEF Lesser
    <3>6. u + n <= k
      BY <3>2, <3>4, <3>5
    <3>7. u + lc + lp <= k => n = y
      BY <1>2, <3>1, <3>2, <3>3, <3>4 DEF Lesser
    <3> QED BY <3>3, <3>5, <3>6, <3>7 DEF u, k
  <2> HIDE DEF a, n, q, lc, lp
  <2>4. \A i \in 1..n : q[i] \in Asdus
    BY <1>2, <2>2, <2>3
  <2>5. /\ a \in Seq(Asdus)
        /\ Len(a) = IF 1 <= n THEN n - 1 + 1 ELSE 0
        /\ \A i \in 1..(n - 1 + 1) : a[i] = q[1 + i - 1]
    <3>1. 1 \in Int /\ n \in Int
      BY <2>3
    <3> QED BY <2>1, <2>4, <3>1, SubSeqProperties
  <2>6. Len(a) = n
    BY <2>3, <2>5
  <2>7. ASSUME NEW i \in 1..n
        PROVE  a[i] = IF i <= lc THEN s.control[i] ELSE s.pending[i - lc]
    <3>1. i \in 1..(n - 1 + 1) /\ 1 + i - 1 = i /\ i \in 1..(lc + lp)
      BY <1>2, <2>3
    <3> QED BY <2>2, <2>5, <3>1
  <2>8. s.unacked + n < SeqMod
    BY <1>1, <2>3
  <2> QED BY <1>3, <2>3, <2>5, <2>6, <2>7, <2>8 DEF a, lc, lp
<1>4. CASE ~(s.active /\ s.unacked < K[end])
  <2>1. a = <<>>
    BY <1>4 DEF Sendable
  <2>2. Len(<<>>) = 0 /\ <<>> \in Seq(Asdus) /\ s.unacked + 0 <= K[end] /\ s.unacked + 0 < SeqMod
    BY <1>1
  <2> HIDE DEF a, lc, lp
  <2>3. 0 <= lc + lp
    BY <1>2
  <2>4. a \in Seq(Asdus) /\ Len(a) = 0
    BY <2>1, <2>2
  <2>5. /\ Len(a) \in Nat /\ Len(a) <= lc + lp
        /\ s.unacked + Len(a) <= K[end] /\ s.unacked + Len(a) < SeqMod
    BY <1>1, <2>2, <2>3, <2>4
  <2>6. \A i \in 1..Len(a) : FALSE
    BY <2>4
  <2>7. s.active /\ s.unacked + lc + lp <= K[end] => Len(a) = lc + lp
    BY <1>1, <1>2, <1>4, <2>4
  <2> QED BY <2>1, <2>4, <2>5, <2>6, <2>7 DEF a, lc, lp
<1> QED BY <1>3, <1>4

\* out2 is out with l zeros put in behind its first p members.
Widened(out2, out, p, l) ==
    /\ p \in 0..Len(out) /\ l \in Nat
    /\ Len(out2) = Len(out) + l
    /\ \A i \in 1..(Len(out) + l) :
          out2[i] = IF i <= p THEN out[i] ELSE IF i <= p + l THEN 0 ELSE out[i - l]

\* ASDUs without an event may be queued before those with one.
LEMMA WidenedOK ==
    ASSUME NEW out \in Seq(EventNumbers), NEW out2 \in Seq(EventNumbers), NEW p, NEW l,
           Widened(out2, out, p, l), NEW seen, NEW taken, NEW unacked,
           OutgoingOK(out, seen, taken, unacked)
    PROVE  OutgoingOK(out2, seen, taken, unacked)
<1>1. p \in Nat /\ l \in Nat /\ Len(out) \in Nat /\ p <= Len(out) /\ Len(out2) = Len(out) + l
  BY LenProperties DEF Widened
<1> DEFINE at(i) == IF i <= p THEN i ELSE i - l
<1>2. ASSUME NEW i \in 1..Len(out2), out2[i] # 0
      PROVE  at(i) \in 1..Len(out) /\ out2[i] = out[at(i)] /\ (i <= p \/ p + l < i)
  BY <1>1, <1>2 DEF Widened
<1>3. \A i \in 1..Len(out2) : out2[i] \in seen \cup {0}
  <2>1. ASSUME NEW i \in 1..Len(out2), out2[i] # 0 PROVE out2[i] \in seen \cup {0}
    BY <1>2, <2>1 DEF OutgoingOK
  <2> QED BY <2>1
<1>4. InOrder(out2, unacked)
  <2> SUFFICES ASSUME NEW i \in 1..Len(out2), NEW j \in 1..Len(out2), i < j, out2[i] # 0, out2[j] # 0
               PROVE  out2[i] # out2[j] /\ (out2[j] \in unacked => out2[i] < out2[j])
    BY DEF InOrder
  <2>1. at(i) \in 1..Len(out) /\ at(j) \in 1..Len(out) /\ out2[i] = out[at(i)] /\ out2[j] = out[at(j)]
    BY <1>2
  <2>2. at(i) < at(j)
    BY <1>1, <1>2
  <2> HIDE DEF at
  <2> QED BY <2>1, <2>2 DEF OutgoingOK, InOrder
<1>5. \A e \in seen : e \in taken \/ \E i \in 1..Len(out2) : out2[i] = e
  <2> SUFFICES ASSUME NEW e \in seen, e \notin taken PROVE \E i \in 1..Len(out2) : out2[i] = e
    OBVIOUS
  <2>1. PICK i \in 1..Len(out) : out[i] = e
    BY DEF OutgoingOK
  <2>2. CASE i <= p
    <3>1. i \in 1..Len(out2) /\ out2[i] = out[i]
      BY <1>1, <2>2 DEF Widened
    <3> QED BY <2>1, <3>1
  <2>3. CASE ~(i <= p)
    <3>1. i + l \in 1..Len(out2) /\ out2[i + l] = out[i]
      BY <1>1, <2>3 DEF Widened
    <3> QED BY <2>1, <3>1
  <2> QED BY <2>2, <2>3
<1> QED BY <1>3, <1>4, <1>5 DEF OutgoingOK

\* The first d of the outgoing events were taken.
LEMMA ShortenedOK ==
    ASSUME NEW out \in Seq(EventNumbers), NEW out2 \in Seq(EventNumbers), NEW d \in Nat,
           Len(out) = Len(out2) + d, \A i \in 1..Len(out2) : out2[i] = out[d + i],
           NEW seen, NEW taken, NEW unacked, OutgoingOK(out, seen, taken, unacked),
           \A i \in 1..d : out[i] \in taken \cup {0}, 0 \notin seen
    PROVE  OutgoingOK(out2, seen, taken, unacked)
<1>1. Len(out) \in Nat /\ Len(out2) \in Nat
  BY LenProperties
<1>2. \A i \in 1..Len(out2) : d + i \in 1..Len(out)
  BY <1>1
<1>3. InOrder(out2, unacked)
  <2> SUFFICES ASSUME NEW i \in 1..Len(out2), NEW j \in 1..Len(out2), i < j, out2[i] # 0, out2[j] # 0
               PROVE  out2[i] # out2[j] /\ (out2[j] \in unacked => out2[i] < out2[j])
    BY DEF InOrder
  <2>1. d + i < d + j
    BY <1>1
  <2>2. out2[i] = out[d + i] /\ out2[j] = out[d + j]
    OBVIOUS
  <2>3. out[d + i] # out[d + j] /\ (out[d + j] \in unacked => out[d + i] < out[d + j])
    BY <1>2, <2>1, <2>2 DEF OutgoingOK, InOrder
  <2> QED BY <2>2, <2>3
<1>4. \A e \in seen : e \in taken \/ \E i \in 1..Len(out2) : out2[i] = e
  <2> SUFFICES ASSUME NEW e \in seen, e \notin taken PROVE \E i \in 1..Len(out2) : out2[i] = e
    OBVIOUS
  <2>1. PICK i \in 1..Len(out) : out[i] = e
    BY DEF OutgoingOK
  <2>2. ~(i <= d)
    BY <1>1, <2>1
  <2>3. i - d \in 1..Len(out2) /\ d + (i - d) = i
    BY <1>1, <2>2
  <2> QED BY <2>1, <2>3
<1> QED BY <1>2, <1>3, <1>4 DEF OutgoingOK

\* What is on its way or queued at a session: first the window, then the queue.
LEMMA OutgoingIs ==
    ASSUME NEW s \in Sessions
    PROVE  /\ OutgoingOf(s) \in Seq(EventNumbers)
           /\ Len(s.sent) \in Nat /\ Len(s.pending) \in Nat
           /\ Len(OutgoingOf(s)) = Len(s.sent) + Len(s.pending)
           /\ \A i \in 1..Len(s.sent) : OutgoingOf(s)[i] = s.sent[i]
           /\ \A i \in 1..Len(s.pending) : OutgoingOf(s)[Len(s.sent) + i] = s.pending[i].event
<1> DEFINE ev == [i \in DOMAIN s.pending |-> s.pending[i].event]
           u == Len(s.sent)
           v == Len(s.pending)
<1>1. s.sent \in Seq(EventNumbers) /\ s.pending \in Seq(Asdus)
  BY DEF Sessions
<1>2. u \in Nat /\ v \in Nat /\ DOMAIN s.pending = 1..v
  BY <1>1, LenProperties
<1>3. \A i \in 1..v : s.pending[i].event \in EventNumbers
  <2>1. \A i \in 1..v : s.pending[i] \in Asdus
    BY <1>1
  <2> QED BY <2>1 DEF Asdus
<1>4. ev \in [1..v -> EventNumbers]
  BY <1>2, <1>3
<1>5. ev \in Seq(EventNumbers) /\ Len(ev) = v /\ \A i \in 1..v : ev[i] = s.pending[i].event
  BY <1>2, <1>4, MapProperties
<1>6. OutgoingOf(s) = s.sent \o ev
  BY DEF OutgoingOf
<1> HIDE DEF ev
<1>7. /\ s.sent \o ev \in Seq(EventNumbers) /\ Len(s.sent \o ev) = u + v
      /\ \A i \in 1..(u + v) : (s.sent \o ev)[i] = IF i <= u THEN s.sent[i] ELSE ev[i - u]
  <2>1. /\ s.sent \o ev \in Seq(EventNumbers) /\ Len(s.sent \o ev) = Len(s.sent) + Len(ev)
        /\ \A i \in 1..(Len(s.sent) + Len(ev)) : (s.sent \o ev)[i] =
              IF i <= Len(s.sent) THEN s.sent[i] ELSE ev[i - Len(s.sent)]
    <3>1. s.sent \in Seq(EventNumbers) /\ ev \in Seq(EventNumbers)
      BY <1>1, <1>5
    <3> QED BY <3>1, ConcatProperties
  <2>2. Len(ev) = v /\ Len(s.sent) = u
    BY <1>5
  <2> HIDE DEF u, v
  <2> QED BY <2>1, <2>2
<1> HIDE DEF u, v
<1>8. \A i \in 1..u : i \in 1..(u + v) /\ i <= u
  BY <1>2
<1>9. \A i \in 1..v : u + i \in 1..(u + v) /\ ~(u + i <= u) /\ u + i - u = i
  BY <1>2
<1>10. \A i \in 1..u : (s.sent \o ev)[i] = s.sent[i]
  BY <1>7, <1>8
<1>11. ASSUME NEW i \in 1..v PROVE (s.sent \o ev)[u + i] = s.pending[i].event
  <2> DEFINE k == u + i
  <2>1. k \in 1..(u + v) /\ ~(k <= u) /\ k - u = i
    BY <1>2
  <2>2. (s.sent \o ev)[k] = s.pending[i].event
    <3> HIDE DEF k
    <3>1. (s.sent \o ev)[k] = ev[k - u]
      BY <1>7, <2>1
    <3> QED BY <1>5, <2>1, <3>1
  <2> QED BY <2>2
<1> QED BY <1>2, <1>6, <1>7, <1>10, <1>11 DEF u, v

\* Sending only moves events from the queue to the window, past the zeros of
\* the control queue.
LEMMA SendWidens ==
    ASSUME NEW end \in Ends, NEW s \in Sessions, s.unacked <= K[end],
           \A i \in 1..Len(s.control) : s.control[i].event = 0
    PROVE  LET t == TrySendPending(end, s).s IN
           \E l : Widened(OutgoingOf(t), OutgoingOf(s), Len(s.sent), l)
<1> DEFINE q == Sendable(end, s)
           n == Len(q)
           t == TrySendPending(end, s).s
           lc == Len(s.control)
           lp == Len(s.pending)
           u == Len(s.sent)
           l == Lesser(n, lc)
           out == OutgoingOf(s)
           out2 == OutgoingOf(t)
<1>1. /\ q \in Seq(Asdus) /\ n \in Nat /\ n <= lc + lp
      /\ \A i \in 1..n : q[i] = IF i <= lc THEN s.control[i] ELSE s.pending[i - lc]
  BY SendableIs
<1>2. t = SendAll(s, q).s
  BY DEF TrySendPending
<1>3. /\ t \in Sessions /\ Len(t.sent) = u + n
      /\ \A i \in 1..u : t.sent[i] = s.sent[i]
      /\ \A i \in 1..n : t.sent[u + i] = q[i].event
      /\ t.pending = Dropped(s.pending, n - l)
  <2> HIDE DEF q, t
  <2>1. q \in Seq(Asdus) /\ Len(q) <= Len(s.control) + Len(s.pending)
    BY <1>1
  <2>2. Sends(s, q, t, SendAll(s, q).out)
    BY <1>2, <2>1, SendAllIs
  <2> QED BY <2>2 DEF Sends
<1>4. s.control \in Seq(Asdus) /\ s.pending \in Seq(Asdus) /\ s.sent \in Seq(EventNumbers)
  BY DEF Sessions
<1>5. lc \in Nat /\ lp \in Nat /\ u \in Nat
  BY <1>4, LenProperties
<1>6. l = IF n <= lc THEN n ELSE lc
  BY DEF Lesser
<1>7. /\ Len(out) = u + lp
      /\ \A i \in 1..u : out[i] = s.sent[i]
      /\ \A i \in 1..lp : out[u + i] = s.pending[i].event
  BY OutgoingIs
<1>8. /\ Len(out2) = Len(t.sent) + Len(t.pending)
      /\ \A i \in 1..Len(t.sent) : out2[i] = t.sent[i]
      /\ \A i \in 1..Len(t.pending) : out2[Len(t.sent) + i] = t.pending[i].event
  BY <1>3, OutgoingIs
<1> HIDE DEF q, n, t, l, out, out2
<1>9. l \in Nat /\ n - l \in 0..lp /\ l <= lc /\ l <= n /\ (l < n => l = lc)
  <2> HIDE DEF lc, lp
  <2> QED BY <1>1, <1>5, <1>6
<1>10. /\ Len(t.pending) = lp - (n - l)
       /\ \A i \in 1..(lp - (n - l)) : t.pending[i] = s.pending[(n - l) + i]
  <2> DEFINE d == n - l
  <2>1. d \in 0..Len(s.pending)
    BY <1>9
  <2>2. t.pending = Dropped(s.pending, d)
    BY <1>3
  <2> HIDE DEF d
  <2>3. /\ Len(t.pending) = lp - d
        /\ \A i \in 1..(lp - d) : t.pending[i] = s.pending[d + i]
    BY <1>4, <2>1, <2>2, DroppedProperties
  <2> QED BY <2>3 DEF d
<1>11. \A i \in 1..lc : s.control[i].event = 0
  OBVIOUS
<1> DEFINE r == Len(t.pending)
           v == Len(t.sent)
<1>12. r = lp - (n - l) /\ v = u + n
  BY <1>3, <1>10
<1>13. /\ Len(out2) = v + r
       /\ \A i \in 1..v : out2[i] = t.sent[i]
       /\ \A i \in 1..r : out2[v + i] = s.pending[(n - l) + i].event
  BY <1>8, <1>10
<1> HIDE DEF lc, lp, u, r, v
<1>14. ASSUME NEW i \in 1..u PROVE out2[i] = out[i]
  <2>1. i \in 1..v
    BY <1>1, <1>5, <1>12
  <2> QED BY <2>1, <1>3, <1>7, <1>13
<1>15. ASSUME NEW i \in 1..l PROVE out2[u + i] = 0
  <2>1. i \in 1..n /\ i \in 1..lc /\ i <= lc /\ u + i \in 1..v
    BY <1>1, <1>5, <1>9, <1>12
  <2> QED BY <2>1, <1>1, <1>3, <1>11, <1>13
<1>16. ASSUME NEW i \in 1..lp PROVE out2[u + l + i] = out[u + i]
  <2>1. CASE l + i <= n
    <3>1. l = lc /\ l + i \in 1..n /\ ~(l + i <= lc) /\ l + i - lc = i /\ u + (l + i) \in 1..v
          /\ u + (l + i) = u + l + i
      BY <2>1, <1>1, <1>5, <1>9, <1>12
    <3>2. q[l + i] = s.pending[i]
      <4> DEFINE k == l + i
      <4>1. k \in 1..n /\ ~(k <= lc) /\ k - lc = i
        BY <2>1, <3>1, <1>1, <1>5, <1>9
      <4> HIDE DEF k
      <4>2. q[k] = s.pending[k - lc]
        BY <1>1, <4>1
      <4> QED BY <4>1, <4>2 DEF k
    <3>4. t.sent[u + (l + i)] = q[l + i].event
      BY <3>1, <1>3
    <3>3. out2[u + (l + i)] = t.sent[u + (l + i)]
      BY <3>1, <1>13
    <3> QED BY <3>1, <3>2, <3>3, <3>4, <1>7
  <2>2. CASE ~(l + i <= n)
    <3> DEFINE j == i - (n - l)
    <3>1. j \in 1..r /\ (n - l) + j = i /\ v + j = u + l + i
      BY <2>2, <1>1, <1>5, <1>9, <1>12
    <3> HIDE DEF j
    <3> QED BY <3>1, <1>7, <1>13
  <2> QED BY <2>1, <2>2
<1>17. u \in 0..Len(out) /\ l \in Nat /\ Len(out2) = Len(out) + l /\ Len(out) = u + lp
  BY <1>1, <1>5, <1>7, <1>9, <1>12, <1>13
<1>18. ASSUME NEW i \in 1..(Len(out) + l)
       PROVE  out2[i] = IF i <= u THEN out[i] ELSE IF i <= u + l THEN 0 ELSE out[i - l]
  <2>1. CASE i <= u
    BY <2>1, <1>5, <1>14
  <2>2. CASE ~(i <= u) /\ i <= u + l
    <3>1. i - u \in 1..l /\ u + (i - u) = i
      BY <2>2, <1>5, <1>9
    <3> QED BY <2>2, <3>1, <1>15
  <2>3. CASE ~(i <= u) /\ ~(i <= u + l)
    <3>1. i - u - l \in 1..lp /\ u + l + (i - u - l) = i /\ u + (i - u - l) = i - l
      BY <2>3, <1>5, <1>9, <1>17
    <3> QED BY <2>3, <3>1, <1>16
  <2> QED BY <2>1, <2>2, <2>3
<1>19. Widened(out2, out, u, l)
  BY <1>17, <1>18 DEF Widened
<1> QED BY <1>19 DEF out, out2, u, t

\* The queues of a session after it sent what its window allows.
LEMMA SideSend ==
    ASSUME NEW end \in Ends, NEW s \in Sessions, NEW taken, NEW last \in Nat, NEW unacked,
           Side(end, s, taken, last, unacked)
    PROVE  LET t == TrySendPending(end, s).s
               out == TrySendPending(end, s).out IN
           /\ Side(end, t, taken, last, unacked)
           /\ t.active = s.active /\ t.recvSeq = s.recvSeq /\ t.seen = s.seen
           /\ out \in Seq(Frames) /\ Carries(end, out, last)
           /\ \A i \in 1..Len(out) : out[i].type = "I"
           /\ end = "master" => t.control = <<>>
           /\ s.control = <<>> /\ s.pending = <<>> => out = <<>>
<1> DEFINE q == Sendable(end, s)
           n == Len(q)
           t == TrySendPending(end, s).s
           x == TrySendPending(end, s).out
           lc == Len(s.control)
           lp == Len(s.pending)
<1>1. s.unacked <= K[end] /\ K[end] \in Nat /\ s.unacked \in Nat /\ s.sinceAck \in Nat
      /\ s.sinceAck < W[end] /\ W[end] \in Nat
      /\ s.control \in Seq(Asdus) /\ s.pending \in Seq(Asdus) /\ s.sent \in Seq(EventNumbers)
  BY SessionAssumption, SeqModBound DEF Side, Sessions
<1>2. lc \in Nat /\ lp \in Nat /\ Len(s.sent) \in Nat
  BY <1>1, LenProperties
<1>3. /\ q \in Seq(Asdus) /\ n \in Nat /\ n <= lc + lp /\ s.unacked + n <= K[end]
      /\ ~s.active => q = <<>>
      /\ \A i \in 1..n : q[i] = IF i <= lc THEN s.control[i] ELSE s.pending[i - lc]
  BY <1>1, SendableIs
<1>4. TrySendPending(end, s) = SendAll(s, q) /\ t = SendAll(s, q).s /\ x = SendAll(s, q).out
  BY DEF TrySendPending
<1> HIDE DEF q, t, x
<1>5. /\ t \in Sessions
      /\ t.active = s.active /\ t.recvSeq = s.recvSeq /\ t.acked = s.acked /\ t.seen = s.seen
      /\ t.unacked = s.unacked + n
      /\ Len(t.sent) = Len(s.sent) + n
      /\ \A i \in 1..Len(s.sent) : t.sent[i] = s.sent[i]
      /\ \A i \in 1..n : t.sent[Len(s.sent) + i] = q[i].event
      /\ t.control = Dropped(s.control, Lesser(n, Len(s.control)))
      /\ t.pending = Dropped(s.pending, n - Lesser(n, Len(s.control)))
      /\ t.sinceAck <= s.sinceAck
      /\ x \in Seq(Frames) /\ Len(x) = n
      /\ \A i \in 1..n : x[i].type = "I" /\ x[i].body = q[i]
  <2>1. q \in Seq(Asdus) /\ Len(q) <= Len(s.control) + Len(s.pending)
    BY <1>3
  <2>2. Sends(s, q, t, x)
    BY <1>4, <2>1, SendAllIs
  <2> QED BY <2>2 DEF Sends
<1>6. \A i \in 1..lc : s.control[i].event = 0
  <2>1. CASE end = "slave"
    BY <2>1 DEF Side, QueuesOK
  <2>2. CASE end = "master"
    BY <2>2 DEF Side
  <2> QED BY <2>1, <2>2, SoeAssumption
<1> DEFINE l == Lesser(n, lc)
<1>7. l \in Nat /\ l <= lc /\ l <= n /\ n - l \in 0..lp /\ (n <= lc => l = n) /\ (~(n <= lc) => l = lc)
  <2>1. l = IF n <= lc THEN n ELSE lc
    BY DEF Lesser
  <2> HIDE DEF l, n, lc, lp
  <2> QED BY <1>2, <1>3, <2>1
<1>8. /\ t.control \in Seq(Asdus) /\ Len(t.control) = lc - l
      /\ \A i \in 1..(lc - l) : t.control[i] = s.control[l + i]
  <2>1. l \in 0..Len(s.control) /\ t.control = Dropped(s.control, l)
    BY <1>2, <1>5, <1>7
  <2> HIDE DEF l
  <2> QED BY ZenonT(40), <1>1, <2>1, DroppedProperties
<1>9. t.pending \in Seq(Asdus) /\ Len(t.pending) = lp - (n - l)
  <2> DEFINE d == n - l
  <2>1. d \in 0..Len(s.pending) /\ t.pending = Dropped(s.pending, d)
    BY <1>5, <1>7
  <2> HIDE DEF d
  <2>2. t.pending \in Seq(Asdus) /\ Len(t.pending) = lp - d
    BY <1>1, <2>1, DroppedProperties
  <2> QED BY <2>2 DEF d
<1>10. \A i \in 1..Len(t.control) : t.control[i].event = 0
  <2> SUFFICES ASSUME NEW i \in 1..Len(t.control) PROVE t.control[i].event = 0
    OBVIOUS
  <2> HIDE DEF l, lc
  <2>1. i \in 1..(lc - l) /\ l + i \in 1..lc
    BY <1>2, <1>7, <1>8
  <2> QED BY <1>6, <1>8, <2>1
<1>11. \A i \in 1..n : q[i].event = 0 \/ (q[i].event \in EventNumbers /\ i - lc \in 1..lp /\ q[i] = s.pending[i - lc])
  <2> SUFFICES ASSUME NEW i \in 1..n
               PROVE q[i].event = 0 \/ (q[i].event \in EventNumbers /\ i - lc \in 1..lp /\ q[i] = s.pending[i - lc])
    OBVIOUS
  <2>1. CASE i <= lc
    <3>1. i \in 1..lc /\ q[i] = s.control[i]
      BY <1>2, <1>3, <2>1
    <3> QED BY <1>6, <3>1
  <2>2. CASE ~(i <= lc)
    <3>1. i - lc \in 1..lp /\ q[i] = s.pending[i - lc]
      <4> HIDE DEF lc, lp, n
      <4> QED BY <1>2, <1>3, <2>2
    <3>2. q[i] \in Asdus
      BY <1>3
    <3> QED BY <3>1, <3>2 DEF Asdus
  <2> QED BY <2>1, <2>2
<1>12. ~s.active => t.unacked = 0 /\ t.control = <<>> /\ t.pending = <<>> /\ t.seen = {}
  <2> SUFFICES ASSUME ~s.active PROVE t.unacked = 0 /\ t.control = <<>> /\ t.pending = <<>> /\ t.seen = {}
    OBVIOUS
  <2>1. q = <<>> /\ n = 0 /\ s.unacked = 0 /\ s.control = <<>> /\ s.pending = <<>> /\ s.seen = {}
    BY <1>3 DEF Side, n
  <2>2. lc = 0 /\ lp = 0
    BY <2>1
  <2>3. Len(t.control) = 0 /\ Len(t.pending) = 0
    <3>1. n = 0
      BY <2>1
    <3> HIDE DEF n, l, lc, lp
    <3>2. l = 0
      BY <1>7, <2>2, <3>1
    <3>3. lc - l = 0 /\ lp - (n - l) = 0
      BY <2>2, <3>1, <3>2
    <3> QED BY <1>8, <1>9, <3>3
  <2> QED BY <1>5, <1>8, <1>9, <2>1, <2>3, EmptySeq
<1>13. end = "slave" => QueuesOK(t, taken, last, unacked) /\ Carries(end, x, last)
  <2> SUFFICES ASSUME end = "slave" PROVE QueuesOK(t, taken, last, unacked) /\ Carries(end, x, last)
    OBVIOUS
  <2>1. QueuesOK(s, taken, last, unacked)
    BY DEF Side
  <2>2. PICK k : Widened(OutgoingOf(t), OutgoingOf(s), Len(s.sent), k)
    BY <1>1, <1>6, SendWidens DEF t
  <2>3. OutgoingOf(s) \in Seq(EventNumbers) /\ OutgoingOf(t) \in Seq(EventNumbers)
    BY <1>5, OutgoingIs
  <2>4. OutgoingOK(OutgoingOf(t), s.seen, taken, unacked)
    BY <2>1, <2>2, <2>3, WidenedOK DEF QueuesOK
  <2>5. QueuesOK(t, taken, last, unacked)
    BY <1>5, <1>10, <2>1, <2>4 DEF QueuesOK
  <2>6. ASSUME NEW i \in 1..n PROVE q[i].event \in 0..last
    <3>1. CASE q[i].event = 0
      BY <3>1
    <3>2. CASE i - lc \in 1..lp /\ q[i] = s.pending[i - lc]
      <4> DEFINE j == i - lc
                 m == Len(s.sent) + j
                 out == OutgoingOf(s)
      <4>5. /\ Len(out) = Len(s.sent) + lp
            /\ \A h \in 1..lp : out[Len(s.sent) + h] = s.pending[h].event
        BY OutgoingIs
      <4>6. j \in 1..lp /\ q[i] = s.pending[j]
        BY <3>2
      <4> HIDE DEF j, lp, out
      <4>1. out[m] = s.pending[j].event /\ m \in 1..Len(out)
        BY SMTT(30), <1>2, <4>5, <4>6
      <4>2. out[m] \in s.seen \cup {0}
        BY <2>1, <4>1 DEF QueuesOK, OutgoingOK, out
      <4>3. s.seen \subseteq 1..last
        BY <2>1 DEF QueuesOK
      <4>4. 1..last \subseteq 0..last /\ 0 \in 0..last
        OBVIOUS
      <4> QED BY <4>1, <4>2, <4>3, <4>4, <4>6
    <3> QED BY <1>11, <3>1, <3>2
  <2> QED BY <1>5, <2>5, <2>6 DEF Carries
<1>14. end = "master" =>
          /\ t.pending = <<>> /\ t.unacked + Len(t.control) <= K[end] /\ t.control = <<>>
          /\ \A i \in 1..Len(t.control) : t.control[i].event = 0
          /\ \A i \in 1..Len(t.sent) : t.sent[i] = 0
          /\ Carries(end, x, last)
  <2> SUFFICES ASSUME end = "master"
               PROVE /\ t.pending = <<>> /\ t.unacked + Len(t.control) <= K[end] /\ t.control = <<>>
                     /\ \A i \in 1..Len(t.control) : t.control[i].event = 0
                     /\ \A i \in 1..Len(t.sent) : t.sent[i] = 0
                     /\ Carries(end, x, last)
    OBVIOUS
  <2>1. s.pending = <<>> /\ s.unacked + lc <= K[end] /\ \A i \in 1..Len(s.sent) : s.sent[i] = 0
    BY DEF Side
  <2>2. lp = 0
    BY <2>1
  <2>3. n = lc
    <3>1. CASE s.active
      <4>1. s.active /\ s.unacked + lc + lp <= K[end] => n = lc + lp
        BY <1>1, SendableIs DEF q
      <4> HIDE DEF n, lc, lp
      <4> QED BY <1>1, <1>2, <2>1, <2>2, <3>1, <4>1
    <3>2. CASE ~s.active
      <4>1. n = 0 /\ s.control = <<>>
        BY <1>3, <3>2 DEF Side
      <4> QED BY <4>1
    <3> QED BY <3>1, <3>2
  <2>4. Len(t.control) = 0 /\ Len(t.pending) = 0 /\ t.unacked + Len(t.control) <= K[end]
    <3> HIDE DEF n, l, lc, lp
    <3> QED BY <1>1, <1>2, <1>3, <1>5, <1>7, <1>8, <1>9, <2>2, <2>3
  <2>5. t.control = <<>> /\ t.pending = <<>>
    BY <1>8, <1>9, <2>4, EmptySeq
  <2>6. \A i \in 1..n : q[i].event = 0
    BY <1>11, <2>2
  <2>7. ASSUME NEW i \in 1..Len(t.sent) PROVE t.sent[i] = 0
    <3> DEFINE u == Len(s.sent)
    <3>1. CASE i <= u
      <4>1. i \in 1..u
        BY <1>2, <1>5, <3>1
      <4> QED BY <1>5, <2>1, <4>1
    <3>2. CASE ~(i <= u)
      <4> DEFINE j == i - u
      <4>1. j \in 1..n /\ u + j = i
        BY <1>2, <1>3, <1>5, <3>2
      <4> HIDE DEF j, u
      <4>2. t.sent[u + j] = q[j].event
        BY <1>5, <4>1 DEF u
      <4> QED BY <2>6, <4>1, <4>2
    <3> QED BY <3>1, <3>2
  <2>8. Carries(end, x, last)
    <3>1. 0 \in 0..last
      OBVIOUS
    <3> QED BY <1>5, <2>6, <3>1 DEF Carries
  <2> QED BY <1>10, <2>4, <2>5, <2>7, <2>8
<1>15. s.control = <<>> /\ s.pending = <<>> => x = <<>>
  <2> SUFFICES ASSUME s.control = <<>>, s.pending = <<>> PROVE x = <<>>
    OBVIOUS
  <2>1. lc = 0 /\ lp = 0
    OBVIOUS
  <2>2. n = 0
    <3> HIDE DEF lc, lp, n
    <3> QED BY <1>3, <2>1
  <2> QED BY <1>5, <2>2, EmptySeq
<1>16. t.unacked <= K[end] /\ t.sinceAck < W[end]
  <2>1. t.sinceAck \in Nat
    BY <1>5 DEF Sessions
  <2>2. t.sinceAck <= s.sinceAck
    BY <1>5
  <2> HIDE DEF n
  <2> QED BY SMTT(30), <1>1, <1>3, <1>5, <2>1, <2>2
<1>17. end \in {"slave", "master"}
  BY SoeAssumption
<1>18. Side(end, t, taken, last, unacked) /\ Carries(end, x, last)
  BY <1>5, <1>12, <1>13, <1>14, <1>16, <1>17 DEF Side
<1> QED BY <1>5, <1>14, <1>15, <1>18 DEF t, x

\* The queues of a session after an acknowledgement.
LEMMA SideAck ==
    ASSUME NEW end \in Ends, NEW s \in Sessions, Windowed(s), NEW taken, NEW last \in Nat, NEW unacked,
           Side(end, s, taken, last, unacked), NEW nr \in SeqNumbers,
           Distance(s.acked, nr) <= s.unacked, Acknowledged(s, nr) \subseteq taken
    PROVE  Side(end, AckedTo(s, nr), taken, last, unacked)
<1> DEFINE d == Distance(s.acked, nr)
           t == AckedTo(s, nr)
<1>1. /\ t \in Sessions /\ d \in Nat
      /\ t.unacked = s.unacked - d
      /\ t.active = s.active /\ t.seen = s.seen
      /\ t.control = s.control /\ t.pending = s.pending /\ t.sinceAck = s.sinceAck
      /\ Len(t.sent) = Len(s.sent) - d
      /\ \A i \in 1..Len(t.sent) : t.sent[i] = s.sent[d + i]
  BY AckedToIs
<1>2. s.unacked \in Nat /\ K[end] \in Nat /\ Len(s.sent) \in Nat /\ d <= s.unacked /\ Len(s.sent) = s.unacked
      /\ s.unacked <= K[end] /\ s.control \in Seq(Asdus)
  BY SeqModBound, OutgoingIs DEF Sessions, Side, Windowed
<1>3. \A i \in 1..d : s.sent[i] \in taken \cup {0}
  BY DEF Acknowledged
<1> HIDE DEF d, t
<1>4. t.unacked <= K[end] /\ (s.unacked = 0 => t.unacked = 0) /\ t.unacked <= s.unacked
  BY <1>1, <1>2
<1>5. end = "slave" => QueuesOK(t, taken, last, unacked)
  <2> SUFFICES ASSUME end = "slave" PROVE QueuesOK(t, taken, last, unacked)
    OBVIOUS
  <2>1. QueuesOK(s, taken, last, unacked)
    BY DEF Side
  <2> DEFINE out == OutgoingOf(s)
             out2 == OutgoingOf(t)
             p == Len(s.pending)
             u == Len(s.sent)
             v == Len(t.sent)
  <2>2. /\ out \in Seq(EventNumbers) /\ out2 \in Seq(EventNumbers) /\ p \in Nat /\ v \in Nat
        /\ Len(out) = u + p /\ Len(out2) = v + p
        /\ \A i \in 1..u : out[i] = s.sent[i]
        /\ \A i \in 1..p : out[u + i] = s.pending[i].event
        /\ \A i \in 1..v : out2[i] = t.sent[i]
        /\ \A i \in 1..p : out2[v + i] = s.pending[i].event
    BY <1>1, OutgoingIs
  <2>3. v = u - d /\ u \in Nat /\ d \in Nat /\ d <= u /\ \A i \in 1..v : t.sent[i] = s.sent[d + i]
    BY <1>1, <1>2
  <2> HIDE DEF out, out2, p, u, v
  <2>4. Len(out) = Len(out2) + d
    BY <2>2, <2>3
  <2>5. ASSUME NEW i \in 1..Len(out2) PROVE out2[i] = out[d + i]
    <3>1. CASE i <= v
      <4>1. i \in 1..v /\ d + i \in 1..u
        BY <2>2, <2>3, <3>1
      <4> QED BY <2>2, <2>3, <4>1
    <3>2. CASE ~(i <= v)
      <4> DEFINE j == i - v
      <4>1. j \in 1..p /\ v + j = i /\ u + j = d + i
        BY <2>2, <2>3, <3>2
      <4> HIDE DEF j
      <4>2. out2[v + j] = s.pending[j].event /\ out[u + j] = s.pending[j].event
        BY <2>2, <4>1
      <4> QED BY <4>1, <4>2
    <3> QED BY <3>1, <3>2
  <2>6. \A i \in 1..d : out[i] \in taken \cup {0}
    <3>1. \A i \in 1..d : i \in 1..u
      BY <2>3
    <3> QED BY <1>3, <2>2, <3>1
  <2>7. 0 \notin s.seen
    BY <2>1 DEF QueuesOK
  <2>8. OutgoingOK(out, s.seen, taken, unacked)
    BY <2>1 DEF QueuesOK, out
  <2>9. OutgoingOK(out2, s.seen, taken, unacked)
    BY <2>2, <2>3, <2>4, <2>5, <2>6, <2>7, <2>8, ShortenedOK
  <2> QED BY <1>1, <2>1, <2>9 DEF QueuesOK, out2
<1>6. end = "master" =>
          /\ t.pending = <<>> /\ t.unacked + Len(t.control) <= K[end]
          /\ \A i \in 1..Len(t.control) : t.control[i].event = 0
          /\ \A i \in 1..Len(t.sent) : t.sent[i] = 0
  <2> SUFFICES ASSUME end = "master"
               PROVE /\ t.pending = <<>> /\ t.unacked + Len(t.control) <= K[end]
                     /\ \A i \in 1..Len(t.control) : t.control[i].event = 0
                     /\ \A i \in 1..Len(t.sent) : t.sent[i] = 0
    OBVIOUS
  <2>1. /\ s.pending = <<>> /\ s.unacked + Len(s.control) <= K[end]
        /\ \A i \in 1..Len(s.control) : s.control[i].event = 0
        /\ \A i \in 1..Len(s.sent) : s.sent[i] = 0
    BY DEF Side
  <2>2. \A i \in 1..Len(t.sent) : d + i \in 1..Len(s.sent)
    BY <1>1, <1>2
  <2>3. Len(s.control) \in Nat
    BY <1>2, LenProperties
  <2>4. t.unacked + Len(t.control) <= K[end]
    BY SMTT(30), <1>1, <1>2, <2>1, <2>3
  <2> QED BY <1>1, <2>1, <2>2, <2>4
<1>7. ~t.active => t.unacked = 0 /\ t.control = <<>> /\ t.pending = <<>> /\ t.seen = {}
  BY <1>1, <1>4 DEF Side
<1>8. t.sinceAck < W[end]
  BY <1>1 DEF Side
<1>9. Side(end, t, taken, last, unacked)
  BY <1>4, <1>5, <1>6, <1>7, <1>8 DEF Side
<1> QED BY <1>9 DEF t

\* Only the queues and the window count.
LEMMA SideSame ==
    ASSUME NEW end, NEW s, NEW t, NEW taken, NEW more, NEW last, NEW unacked,
           Side(end, s, taken, last, unacked), taken \subseteq more,
           t.active = s.active, t.unacked = s.unacked, t.sent = s.sent, t.seen = s.seen,
           t.control = s.control, t.pending = s.pending, t.sinceAck < W[end]
    PROVE  Side(end, t, more, last, unacked)
<1>1. OutgoingOf(t) = OutgoingOf(s)
  BY DEF OutgoingOf
<1>2. QueuesOK(s, taken, last, unacked) => QueuesOK(t, more, last, unacked)
  BY <1>1 DEF QueuesOK, OutgoingOK
<1> QED BY <1>2 DEF Side

-----------------------------------------------------------------------------
(* Both directions and both sessions while one end works: x is the session  *)
(* of that end, wx what is on its way to it, wy what is on its way back.     *)

\* Frames written behind those on their way.
LEMMA WireConcat ==
    ASSUME NEW v \in Seq(Frames), NEW w \in Seq(Frames)
    PROVE  /\ v \o w \in Seq(Frames) /\ Len(v) \in Nat /\ Len(w) \in Nat /\ Len(v \o w) = Len(v) + Len(w)
           /\ \A i \in 1..Len(v) : (v \o w)[i] = v[i]
           /\ \A i \in 1..Len(w) : (v \o w)[Len(v) + i] = w[i]
           /\ \A i \in 1..Len(v \o w) :
                 \/ i \in 1..Len(v) /\ (v \o w)[i] = v[i]
                 \/ i - Len(v) \in 1..Len(w) /\ (v \o w)[i] = w[i - Len(v)]
<1>1. v \o w \in Seq(Frames) /\ Len(v \o w) = Len(v) + Len(w)
      /\ \A i \in 1..(Len(v) + Len(w)) : (v \o w)[i] = IF i <= Len(v) THEN v[i] ELSE w[i - Len(v)]
  BY ConcatProperties
<1>2. Len(v) \in Nat /\ Len(w) \in Nat
  BY LenProperties
<1> DEFINE a == Len(v)
           b == Len(w)
           z == v \o w
<1>3. z \in Seq(Frames) /\ Len(z) = a + b /\ a \in Nat /\ b \in Nat
      /\ \A i \in 1..(a + b) : z[i] = IF i <= a THEN v[i] ELSE w[i - a]
  BY <1>1, <1>2
<1> HIDE DEF a, b, z
<1>4. ASSUME NEW i \in 1..a PROVE z[i] = v[i]
  <2>1. i \in 1..(a + b) /\ i <= a
    BY <1>3
  <2> QED BY <1>3, <2>1
<1>5. ASSUME NEW i \in 1..b PROVE z[a + i] = w[i]
  <2> DEFINE k == a + i
  <2>1. k \in 1..(a + b) /\ ~(k <= a) /\ k - a = i
    BY <1>3
  <2> HIDE DEF k
  <2>2. z[k] = w[k - a]
    BY <1>3, <2>1
  <2> QED BY <2>1, <2>2 DEF k
<1>6. ASSUME NEW i \in 1..Len(z)
      PROVE  (i \in 1..a /\ z[i] = v[i]) \/ (i - a \in 1..b /\ z[i] = w[i - a])
  <2>1. CASE i <= a
    <3>1. i \in 1..a
      BY <1>3, <2>1
    <3> QED BY <1>4, <3>1
  <2>2. CASE ~(i <= a)
    <3>1. i - a \in 1..b /\ i \in 1..(a + b)
      BY <1>3, <2>2
    <3> QED BY <1>3, <2>2, <3>1
  <2> QED BY <2>1, <2>2
<1> QED BY <1>3, <1>4, <1>5, <1>6 DEF a, b, z

\* One frame written behind those on their way.
LEMMA WireAppend ==
    ASSUME NEW w \in Seq(Frames), NEW f \in Frames
    PROVE  LET v == w \o <<f>> IN
           /\ v \in Seq(Frames) /\ Len(w) \in Nat /\ Len(v) = Len(w) + 1 /\ v[Len(v)] = f
           /\ \A i \in 1..Len(w) : i \in 1..Len(v) /\ v[i] = w[i]
           /\ \A i \in 1..Len(v) : (i \in 1..Len(w) /\ v[i] = w[i]) \/ (i = Len(v) /\ v[i] = f)
<1> DEFINE x == <<f>>
           v == w \o x
<1>1. x \in Seq(Frames) /\ Len(x) = 1 /\ x[1] = f
  OBVIOUS
<1> HIDE DEF x
<1>2. /\ v \in Seq(Frames) /\ Len(w) \in Nat /\ Len(v) = Len(w) + Len(x)
      /\ \A i \in 1..Len(w) : v[i] = w[i]
      /\ \A i \in 1..Len(x) : v[Len(w) + i] = x[i]
      /\ \A i \in 1..Len(v) :
            \/ i \in 1..Len(w) /\ v[i] = w[i]
            \/ i - Len(w) \in 1..Len(x) /\ v[i] = x[i - Len(w)]
  BY <1>1, WireConcat
<1> HIDE DEF v
<1>3. Len(v) = Len(w) + 1 /\ v[Len(v)] = f
  <2>1. Len(v) = Len(w) + 1 /\ 1 \in 1..Len(x)
    BY <1>1, <1>2
  <2>2. v[Len(w) + 1] = x[1]
    BY <1>2, <2>1
  <2> QED BY <1>1, <2>1, <2>2
<1>4. \A i \in 1..Len(v) : (i \in 1..Len(w) /\ v[i] = w[i]) \/ (i = Len(v) /\ v[i] = f)
  <2> SUFFICES ASSUME NEW i \in 1..Len(v), i - Len(w) \in 1..Len(x), v[i] = x[i - Len(w)]
               PROVE  i = Len(v) /\ v[i] = f
    BY <1>2
  <2>1. i - Len(w) = 1 /\ i = Len(v)
    BY <1>1, <1>2, <1>3
  <2> QED BY <1>1, <2>1
<1>5. \A i \in 1..Len(w) : i \in 1..Len(v)
  BY <1>2, <1>3
<1> QED BY <1>2, <1>3, <1>4, <1>5 DEF v, x

\* Frames written one after the other.
LEMMA WireAssociative ==
    ASSUME NEW u \in Seq(Frames), NEW v \in Seq(Frames), NEW w \in Seq(Frames)
    PROVE  (u \o v) \o w = u \o (v \o w)
OBVIOUS

\* The frames on their way without the first.
LEMMA WireTail ==
    ASSUME NEW w \in Seq(Frames), w # <<>>
    PROVE  /\ Tail(w) \in Seq(Frames) /\ Head(w) \in Frames /\ Len(w) \in Nat /\ 1 \in 1..Len(w)
           /\ Head(w) = w[1] /\ Len(Tail(w)) = Len(w) - 1
           /\ \A i \in 1..Len(Tail(w)) : i + 1 \in 1..Len(w) /\ Tail(w)[i] = w[i + 1]
<1>1. Tail(w) \in Seq(Frames) /\ Head(w) \in Frames /\ Len(Tail(w)) = Len(w) - 1
      /\ \A i \in 1..Len(Tail(w)) : Tail(w)[i] = w[i + 1]
  BY HeadTailProperties
<1>2. Len(w) \in Nat \ {0}
  BY EmptySeq
<1>3. Head(w) = w[1]
  OBVIOUS
<1>4. 1 \in 1..Len(w)
  BY <1>2
<1>5. \A i \in 1..Len(Tail(w)) : i + 1 \in 1..Len(w)
  BY <1>1, <1>2
<1> QED BY <1>1, <1>2, <1>3, <1>4, <1>5

\* Frames written behind others carry only stored events.
LEMMA CarriesMore ==
    ASSUME NEW end, NEW last, NEW v \in Seq(Frames), NEW w \in Seq(Frames),
           Carries(end, v, last), Carries(end, w, last)
    PROVE  Carries(end, v \o w, last)
<1> SUFFICES ASSUME NEW i \in 1..Len(v \o w), (v \o w)[i].type = "I"
             PROVE  /\ (v \o w)[i].body.event \in 0..last
                    /\ end = "master" => (v \o w)[i].body.event = 0
  BY DEF Carries
<1>1. CASE i \in 1..Len(v) /\ (v \o w)[i] = v[i]
  BY <1>1 DEF Carries
<1>2. CASE i - Len(v) \in 1..Len(w) /\ (v \o w)[i] = w[i - Len(v)]
  <2> DEFINE k == i - Len(v)
  <2>1. k \in 1..Len(w) /\ (v \o w)[i] = w[k]
    BY <1>2
  <2> HIDE DEF k
  <2> QED BY <2>1 DEF Carries
<1> QED BY <1>1, <1>2, WireConcat

\* So do those that are left when the first was read.
LEMMA CarriesTail ==
    ASSUME NEW end, NEW last, NEW w \in Seq(Frames), w # <<>>, Carries(end, w, last)
    PROVE  /\ Carries(end, Tail(w), last)
           /\ Head(w).type = "I" => Head(w).body.event \in 0..last /\ (end = "master" => Head(w).body.event = 0)
BY WireTail DEF Carries

\* Frames that carry no data carry no event.
LEMMA CarriesOther ==
    ASSUME NEW end, NEW last, NEW w, \A i \in 1..Len(w) : w[i].type # "I"
    PROVE  Carries(end, w, last)
BY DEF Carries

\* One end sends what its window allows.
LEMMA MidSend ==
    ASSUME NEW end \in Ends, NEW x, NEW y, NEW wx, NEW wy, NEW taken, NEW last \in Nat, NEW unacked,
           NEW ox, NEW kx, NEW oy, NEW ky,
           Mid(end, x, y, wx, wy, taken, last, unacked, ox, kx, oy, ky), ox \/ ~x.active
    PROVE  LET t == TrySendPending(end, x).s
               out == TrySendPending(end, x).out IN
           /\ Mid(end, t, y, wx, wy \o out, taken, last, unacked, ox, kx, oy, ky)
           /\ Alike(t, x)
           /\ out \in Seq(Frames)
           /\ \A i \in 1..Len(out) : out[i].type = "I"
           /\ end = "master" => t.control = <<>>
           /\ x.control = <<>> /\ x.pending = <<>> => out = <<>>
<1> DEFINE q == Sendable(end, x)
           t == TrySendPending(end, x).s
           out == TrySendPending(end, x).out
<1>1. /\ Pair(x, y, wx, wy, ox, kx, oy, ky) /\ Both(x, y, wx, wy, taken, ox, kx, oy, ky)
      /\ Side(end, x, taken, last, unacked) /\ Side(Peer(end), y, taken, last, unacked)
      /\ Carries(end, wy, last) /\ Carries(Peer(end), wx, last)
  BY DEF Mid
<1>2. x \in Sessions /\ wy \in Seq(Frames) /\ x.unacked <= K[end]
  BY <1>1 DEF Pair, Side
<1>3. /\ Side(end, t, taken, last, unacked)
      /\ t.active = x.active /\ t.recvSeq = x.recvSeq /\ t.seen = x.seen
      /\ out \in Seq(Frames) /\ Carries(end, out, last)
      /\ \A i \in 1..Len(out) : out[i].type = "I"
      /\ end = "master" => t.control = <<>>
      /\ x.control = <<>> /\ x.pending = <<>> => out = <<>>
  BY <1>1, <1>2, SideSend
<1>4. /\ q \in Seq(Asdus) /\ Len(q) <= Len(x.control) + Len(x.pending)
      /\ x.unacked + Len(q) < SeqMod /\ (ox \/ q = <<>>)
  BY <1>2, SendableIs
<1>5. t = SendAll(x, q).s /\ out = SendAll(x, q).out
  BY DEF TrySendPending
<1> HIDE DEF q, t, out
<1>6. /\ Both(t, y, wx, wy \o out, taken, ox, kx, oy, ky)
      /\ Pair(t, y, wx, wy \o out, ox, kx, oy, ky)
  BY <1>1, <1>4, <1>5, BothSend
<1>7. Carries(end, wy \o out, last)
  BY <1>1, <1>2, <1>3, CarriesMore
<1>8. Mid(end, t, y, wx, wy \o out, taken, last, unacked, ox, kx, oy, ky)
  BY <1>1, <1>3, <1>6, <1>7 DEF Mid
<1>9. Alike(t, x)
  BY <1>3 DEF Alike, Kept
<1> QED BY <1>3, <1>8, <1>9 DEF t, out

\* One end takes the acknowledgement of the frame it reads.
LEMMA MidAcked ==
    ASSUME NEW end \in Ends, NEW x, NEW y, NEW wx, NEW wy, NEW taken, NEW last \in Nat, NEW unacked,
           NEW ox, NEW kx, NEW oy, NEW ky,
           Mid(end, x, y, wx, wy, taken, last, unacked, ox, kx, oy, ky),
           wx # <<>>, Data(Head(wx)), kx
    PROVE  LET nr == Head(wx).nr
               t == AckedTo(x, nr) IN
           /\ AckValid(x, nr) /\ Acknowledged(x, nr) \subseteq taken
           /\ Mid(end, t, y, wx, wy, taken, last, unacked, ox, kx, oy, ky)
           /\ Alike(t, x)
           /\ SameQueues(t, x)
<1> DEFINE nr == Head(wx).nr
           t == AckedTo(x, nr)
<1>1. /\ Pair(x, y, wx, wy, ox, kx, oy, ky) /\ Both(x, y, wx, wy, taken, ox, kx, oy, ky)
      /\ Side(end, x, taken, last, unacked) /\ Side(Peer(end), y, taken, last, unacked)
      /\ Carries(end, wy, last) /\ Carries(Peer(end), wx, last)
  BY DEF Mid
<1>2. x \in Sessions /\ Windowed(x)
  BY <1>1 DEF Pair
<1>3. /\ nr \in SeqNumbers /\ AckValid(x, nr) /\ Distance(x.acked, nr) <= x.unacked
      /\ Acknowledged(x, nr) \subseteq taken
      /\ Both(t, y, wx, wy, taken, ox, kx, oy, ky)
      /\ Pair(t, y, wx, wy, ox, kx, oy, ky)
  BY <1>1, BothAcked
<1> HIDE DEF nr
<1>4. Side(end, t, taken, last, unacked)
  BY <1>1, <1>2, <1>3, SideAck
<1>5. /\ t.active = x.active /\ t.recvSeq = x.recvSeq /\ t.seen = x.seen
      /\ t.control = x.control /\ t.pending = x.pending
  BY <1>2, <1>3, AckedToIs
<1> HIDE DEF t
<1>7. Alike(t, x) /\ SameQueues(t, x)
  BY <1>5 DEF Alike, Kept, SameQueues
<1>6. Mid(end, t, y, wx, wy, taken, last, unacked, ox, kx, oy, ky)
  BY <1>1, <1>3, <1>4 DEF Mid
<1> QED BY <1>3, <1>6, <1>7 DEF t, nr

\* One end reads a frame that carries no data.
LEMMA MidRead ==
    ASSUME NEW end \in Ends, NEW x, NEW y, NEW wx, NEW wy, NEW taken, NEW last \in Nat, NEW unacked,
           NEW ox, NEW kx, NEW oy, NEW ky,
           Mid(end, x, y, wx, wy, taken, last, unacked, ox, kx, oy, ky),
           wx # <<>>, Head(wx).type # "I"
    PROVE  Mid(end, x, y, Tail(wx), wy, taken, last, unacked, ox, kx, oy, ky)
<1>1. /\ Pair(x, y, wx, wy, ox, kx, oy, ky) /\ Both(x, y, wx, wy, taken, ox, kx, oy, ky)
      /\ Carries(Peer(end), wx, last)
  BY DEF Mid
<1>2. wx \in Seq(Frames)
  BY <1>1 DEF Pair
<1>3. Both(x, y, Tail(wx), wy, taken, ox, kx, oy, ky) /\ Pair(x, y, Tail(wx), wy, ox, kx, oy, ky)
  BY <1>1, BothRead
<1>4. Carries(Peer(end), Tail(wx), last)
  BY <1>1, <1>2, CarriesTail
<1> QED BY <1>3, <1>4 DEF Mid

\* One end writes a frame that carries no data.
LEMMA MidWrite ==
    ASSUME NEW end \in Ends, NEW x, NEW y, NEW wx, NEW wy, NEW taken, NEW last \in Nat, NEW unacked,
           NEW ox, NEW kx, NEW oy, NEW ky,
           Mid(end, x, y, wx, wy, taken, last, unacked, ox, kx, oy, ky),
           NEW f \in Frames, f.type # "I", f.type = "S" => f.nr = x.recvSeq
    PROVE  Mid(end, x, y, wx, wy \o <<f>>, taken, last, unacked, ox, kx, oy, ky)
<1>1. /\ Pair(x, y, wx, wy, ox, kx, oy, ky) /\ Both(x, y, wx, wy, taken, ox, kx, oy, ky)
      /\ Carries(end, wy, last)
  BY DEF Mid
<1>2. wy \in Seq(Frames) /\ <<f>> \in Seq(Frames)
  BY <1>1 DEF Pair
<1>3. Both(x, y, wx, wy \o <<f>>, taken, ox, kx, oy, ky) /\ Pair(x, y, wx, wy \o <<f>>, ox, kx, oy, ky)
  BY <1>1, BothWrite
<1>4. Carries(end, <<f>>, last)
  BY CarriesOther
<1>5. Carries(end, wy \o <<f>>, last)
  BY <1>1, <1>2, <1>4, CarriesMore
<1> QED BY <1>3, <1>5 DEF Mid

\* The session changes, but neither its numbers nor its window.
LEMMA MidSame ==
    ASSUME NEW end \in Ends, NEW x, NEW y, NEW wx, NEW wy, NEW taken, NEW last \in Nat, NEW unacked,
           NEW ox, NEW kx, NEW oy, NEW ky,
           Mid(end, x, y, wx, wy, taken, last, unacked, ox, kx, oy, ky),
           NEW t \in Sessions, t.sendSeq = x.sendSeq, t.acked = x.acked, t.unacked = x.unacked,
           t.sent = x.sent, t.recvSeq = x.recvSeq, Side(end, t, taken, last, unacked)
    PROVE  Mid(end, t, y, wx, wy, taken, last, unacked, ox, kx, oy, ky)
<1>1. /\ Pair(x, y, wx, wy, ox, kx, oy, ky) /\ Both(x, y, wx, wy, taken, ox, kx, oy, ky)
  BY DEF Mid
<1>3. Both(t, y, wx, wy, taken, ox, kx, oy, ky) /\ Pair(t, y, wx, wy, ox, kx, oy, ky)
  BY <1>1, BothSame
<1> QED BY <1>3 DEF Mid

\* A flow does not tell whether 0 counts as taken.
LEMMA FlowTaken ==
    ASSUME NEW p, NEW r, NEW w, NEW taken, NEW more, NEW open, Flow(p, r, w, taken, open),
           taken \cup {0} \subseteq more \cup {0}
    PROVE  Flow(p, r, w, more, open)
BY DEF Flow, FlowBy, InWindow

\* An S frame: nothing is pending any more.
LEMMA SendSFrameIs ==
    ASSUME NEW s \in Sessions
    PROVE  LET a == SendSFrame(s) IN
           /\ a.s \in Sessions /\ a.s.sinceAck = 0
           /\ a.s.active = s.active /\ a.s.sendSeq = s.sendSeq /\ a.s.acked = s.acked
           /\ a.s.unacked = s.unacked /\ a.s.recvSeq = s.recvSeq /\ a.s.sent = s.sent
           /\ a.s.control = s.control /\ a.s.pending = s.pending /\ a.s.seen = s.seen
           /\ \E f \in Frames : a.out = <<f>> /\ f.type = "S" /\ f.nr = s.recvSeq
<1> DEFINE t == [s EXCEPT !.ackPending = FALSE, !.sinceAck = 0]
           f == SFrame(s.recvSeq)
<1>1. SendSFrame(s).s = t /\ SendSFrame(s).out = <<f>>
  BY DEF SendSFrame
<1>2. t \in Sessions
  BY DEF Sessions
<1>3. /\ t.sinceAck = 0 /\ t.active = s.active /\ t.sendSeq = s.sendSeq /\ t.acked = s.acked
      /\ t.unacked = s.unacked /\ t.recvSeq = s.recvSeq /\ t.sent = s.sent
      /\ t.control = s.control /\ t.pending = s.pending /\ t.seen = s.seen
  BY DEF Sessions
<1>4. f \in Frames /\ f.type = "S" /\ f.nr = s.recvSeq
  BY DEF SFrame, Frames, Sessions
<1> HIDE DEF t, f
<1> QED BY <1>1, <1>2, <1>3, <1>4

\* One end acknowledges on its own what it received.
LEMMA MidLate ==
    ASSUME NEW end \in Ends, NEW x, NEW y, NEW wx, NEW wy, NEW taken, NEW last \in Nat, NEW unacked,
           NEW ox, NEW kx, NEW oy, NEW ky,
           Mid(end, x, y, wx, wy, taken, last, unacked, ox, kx, oy, ky)
    PROVE  LET a == SendSFrame(x) IN
           /\ Mid(end, a.s, y, wx, wy \o a.out, taken, last, unacked, ox, kx, oy, ky)
           /\ Alike(a.s, x) /\ SameQueues(a.s, x)
           /\ a.out \in Seq(Frames) /\ \A i \in 1..Len(a.out) : a.out[i].type = "S"
<1> DEFINE a == SendSFrame(x)
<1>1. x \in Sessions /\ Side(end, x, taken, last, unacked)
  BY DEF Mid, Pair
<1>2. /\ a.s \in Sessions /\ a.s.sinceAck = 0
      /\ a.s.active = x.active /\ a.s.sendSeq = x.sendSeq /\ a.s.acked = x.acked
      /\ a.s.unacked = x.unacked /\ a.s.recvSeq = x.recvSeq /\ a.s.sent = x.sent
      /\ a.s.control = x.control /\ a.s.pending = x.pending /\ a.s.seen = x.seen
  BY <1>1, SendSFrameIs
<1>3. PICK f \in Frames : a.out = <<f>> /\ f.type = "S" /\ f.nr = x.recvSeq
  BY <1>1, SendSFrameIs
<1> HIDE DEF a
<1>4. a.s.sinceAck < W[end]
  BY <1>2, SessionAssumption
<1>5. Side(end, a.s, taken, last, unacked)
  BY <1>1, <1>2, <1>4, SideSame
<1>6. Mid(end, a.s, y, wx, wy, taken, last, unacked, ox, kx, oy, ky)
  BY <1>2, <1>5, MidSame
<1>7. Mid(end, a.s, y, wx, wy \o <<f>>, taken, last, unacked, ox, kx, oy, ky)
  BY <1>2, <1>3, <1>6, MidWrite
<1>8. a.out \in Seq(Frames) /\ \A i \in 1..Len(a.out) : a.out[i].type = "S"
  BY <1>3
<1>9. Alike(a.s, x) /\ SameQueues(a.s, x)
  BY <1>2 DEF Alike, Kept, SameQueues
<1> QED BY <1>3, <1>7, <1>8, <1>9 DEF a

\* The I frame at the head is taken.
LEMMA MidTake ==
    ASSUME NEW end \in Ends, NEW x, NEW y, NEW wx, NEW wy, NEW taken, NEW last \in Nat, NEW unacked,
           NEW ox, NEW kx, NEW oy, NEW ky,
           Mid(end, x, y, wx, wy, taken, last, unacked, ox, kx, oy, ky),
           wx # <<>>, Head(wx).type = "I"
    PROVE  LET more == taken \cup ({Head(wx).body.event} \ {0})
               c == Counted(end, x) IN
           /\ Head(wx).ns = x.recvSeq
           /\ Mid(end, c.s, y, Tail(wx), wy \o c.out, more, last, unacked, ox, kx, oy, ky)
           /\ Kept(c.s, x) /\ SameQueues(c.s, x)
           /\ c.out \in Seq(Frames) /\ \A i \in 1..Len(c.out) : c.out[i].type = "S"
<1> DEFINE e == Head(wx).body.event
           more == taken \cup ({e} \ {0})
           c == Counted(end, x)
           r == Plus(x.recvSeq, 1)
           k == x.sinceAck + 1
           t == [x EXCEPT !.recvSeq = r, !.ackPending = TRUE, !.sinceAck = k]
           v == [t EXCEPT !.sinceAck = 0]
<1>1. /\ Pair(x, y, wx, wy, ox, kx, oy, ky) /\ Both(x, y, wx, wy, taken, ox, kx, oy, ky)
      /\ Side(end, x, taken, last, unacked) /\ Side(Peer(end), y, taken, last, unacked)
      /\ Carries(end, wy, last) /\ Carries(Peer(end), wx, last)
  BY DEF Mid
<1>2. x \in Sessions /\ y \in Sessions /\ wx \in Seq(Frames) /\ wy \in Seq(Frames)
  BY <1>1 DEF Pair
<1>3. r \in SeqNumbers /\ k \in Nat /\ W[end] \in Nat \ {0}
  <2>1. x.recvSeq \in Nat /\ x.sinceAck \in Nat
    BY <1>2, SeqModBound DEF Sessions, SeqNumbers
  <2>2. x.recvSeq + 1 \in Nat
    BY <2>1
  <2>3. (x.recvSeq + 1) % SeqMod \in SeqNumbers
    BY <2>2, ModIn
  <2>4. W[end] \in Nat \ {0}
    BY SessionAssumption
  <2> QED BY <2>1, <2>3, <2>4 DEF Plus
<1>4. /\ t = [x EXCEPT !.recvSeq = r, !.ackPending = TRUE, !.sinceAck = k]
      /\ v = [t EXCEPT !.sinceAck = 0]
      /\ r = Plus(x.recvSeq, 1)
  OBVIOUS
<1>5. t.sinceAck = k /\ SendSFrame(v) = SendSFrame(t)
  BY <1>2 DEF Sessions, SendSFrame
<1>6. c = IF t.sinceAck >= W[end] THEN SendSFrame(t) ELSE [s |-> t, out |-> <<>>]
  BY DEF Counted
<1> HIDE DEF r, k, c
<1>7. t \in Sessions
  BY <1>2, <1>3 DEF Sessions
<1>8. /\ t.sendSeq = x.sendSeq /\ t.acked = x.acked /\ t.unacked = x.unacked
      /\ t.sent = x.sent /\ t.recvSeq = r /\ t.active = x.active /\ t.seen = x.seen
      /\ t.control = x.control /\ t.pending = x.pending
  BY <1>2 DEF Sessions
<1> HIDE DEF t
<1>9. /\ v \in Sessions /\ v.sendSeq = t.sendSeq /\ v.acked = t.acked /\ v.unacked = t.unacked
      /\ v.sent = t.sent /\ v.recvSeq = t.recvSeq /\ v.active = t.active /\ v.seen = t.seen
      /\ v.control = t.control /\ v.pending = t.pending /\ v.sinceAck = 0
  BY <1>7 DEF Sessions
<1> HIDE DEF v
<1>10. Head(wx).ns = x.recvSeq
  BY <1>1, BothNext
<1>11. ASSUME NEW z \in Sessions, z.sendSeq = x.sendSeq, z.acked = x.acked, z.unacked = x.unacked,
              z.sent = x.sent, z.recvSeq = r, z.active = x.active, z.seen = x.seen,
              z.control = x.control, z.pending = x.pending, z.sinceAck < W[end]
       PROVE  Mid(end, z, y, Tail(wx), wy, more, last, unacked, ox, kx, oy, ky)
  <2>1. /\ Both(z, y, Tail(wx), wy, taken \cup {e}, ox, kx, oy, ky)
        /\ Pair(z, y, Tail(wx), wy, ox, kx, oy, ky)
    BY <1>1, <1>4, <1>11, BothTake
  <2>2. (taken \cup {e}) \cup {0} \subseteq more \cup {0} /\ taken \subseteq more
    OBVIOUS
  <2> HIDE DEF e, more
  <2>3. Both(z, y, Tail(wx), wy, more, ox, kx, oy, ky)
    BY <2>1, <2>2, FlowTaken DEF Both
  <2>4. Side(end, z, more, last, unacked)
    BY <1>1, <1>11, <2>2, SideSame
  <2>5. y.sinceAck < W[Peer(end)]
    BY <1>1 DEF Side
  <2>6. Side(Peer(end), y, more, last, unacked)
    BY <1>1, <2>2, <2>5, SideSame
  <2>7. Carries(Peer(end), Tail(wx), last)
    BY <1>1, <1>2, CarriesTail
  <2> QED BY <1>1, <2>1, <2>3, <2>4, <2>6, <2>7 DEF Mid
<1> HIDE DEF more, e
<1>12. CASE t.sinceAck >= W[end]
  <2>1. c = SendSFrame(v)
    BY <1>5, <1>6, <1>12
  <2>2. v.sinceAck < W[end]
    BY <1>3, <1>9
  <2>3. Mid(end, v, y, Tail(wx), wy, more, last, unacked, ox, kx, oy, ky)
    BY <1>8, <1>9, <1>11, <2>2
  <2>4. /\ Mid(end, c.s, y, Tail(wx), wy \o c.out, more, last, unacked, ox, kx, oy, ky)
        /\ Alike(c.s, v) /\ SameQueues(c.s, v)
        /\ c.out \in Seq(Frames) /\ \A i \in 1..Len(c.out) : c.out[i].type = "S"
    BY <2>1, <2>3, MidLate
  <2>5. Kept(c.s, x) /\ SameQueues(c.s, x)
    BY <1>8, <1>9, <2>4 DEF Alike, Kept, SameQueues
  <2> QED BY <1>10, <2>4, <2>5 DEF c, more, e
<1>13. CASE ~(t.sinceAck >= W[end])
  <2>1. c.s = t /\ c.out = <<>>
    BY <1>6, <1>13
  <2>2. t.sinceAck < W[end]
    BY <1>3, <1>5, <1>13
  <2>3. Mid(end, t, y, Tail(wx), wy, more, last, unacked, ox, kx, oy, ky)
    BY <1>7, <1>8, <1>11, <2>2
  <2>4. wy \o c.out = wy /\ c.out \in Seq(Frames) /\ \A i \in 1..Len(c.out) : c.out[i].type = "S"
    BY <1>2, <2>1, ConcatEmptySeq
  <2>5. Mid(end, c.s, y, Tail(wx), wy \o c.out, more, last, unacked, ox, kx, oy, ky)
    BY <2>1, <2>3, <2>4
  <2>6. Kept(c.s, x) /\ SameQueues(c.s, x)
    BY <1>8, <2>1 DEF Kept, SameQueues
  <2> QED BY <1>10, <2>4, <2>5, <2>6 DEF c, more, e
<1> QED BY <1>12, <1>13

\* ASDUs without an event join the queues.
LEMMA SideQueued ==
    ASSUME NEW end, NEW s \in Sessions, NEW t \in Sessions, NEW taken, NEW last, NEW unacked,
           Side(end, s, taken, last, unacked), end = "slave", s.active,
           t.active = s.active, t.unacked = s.unacked, t.sent = s.sent, t.seen = s.seen,
           t.sinceAck = s.sinceAck,
           t.control = s.control \o <<Asdu("confirmation", 0)>>,
           t.pending = s.pending \o <<Asdu("values", 0)>>
    PROVE  Side(end, t, taken, last, unacked)
<1> DEFINE c == Asdu("confirmation", 0)
           v == Asdu("values", 0)
           p == Len(s.pending)
           u == Len(s.sent)
           out == OutgoingOf(s)
           out2 == OutgoingOf(t)
<1>1. QueuesOK(s, taken, last, unacked)
  BY DEF Side
<1>2. s.control \in Seq(Asdus) /\ s.pending \in Seq(Asdus)
  BY DEF Sessions
<1>3. c \in Asdus /\ v \in Asdus /\ c.event = 0 /\ v.event = 0
  BY SoeAssumption DEF Asdu, Asdus, EventNumbers
<1> HIDE DEF c, v
<1>4. Len(<<c>>) = 1 /\ <<c>>[1] = c /\ <<c>> \in Seq(Asdus) /\ Len(<<v>>) = 1 /\ <<v>>[1] = v /\ <<v>> \in Seq(Asdus)
  BY <1>3
<1>5. /\ Len(t.control) = Len(s.control) + 1
      /\ \A i \in 1..(Len(s.control) + 1) :
            t.control[i] = IF i <= Len(s.control) THEN s.control[i] ELSE <<c>>[i - Len(s.control)]
  <2>1. t.control = s.control \o <<c>>
    BY DEF c
  <2> QED BY <1>2, <1>4, <2>1, ConcatProperties
<1>6. /\ Len(t.pending) = p + 1
      /\ \A i \in 1..(p + 1) : t.pending[i] = IF i <= p THEN s.pending[i] ELSE <<v>>[i - p]
  <2>1. t.pending = s.pending \o <<v>>
    BY DEF v
  <2> QED BY <1>2, <1>4, <2>1, ConcatProperties
<1>7. \A i \in 1..Len(t.control) : t.control[i].event = 0
  <2> SUFFICES ASSUME NEW i \in 1..Len(t.control) PROVE t.control[i].event = 0
    OBVIOUS
  <2>1. Len(s.control) \in Nat
    BY <1>2, LenProperties
  <2>2. CASE i <= Len(s.control)
    <3>1. i \in 1..Len(s.control) /\ t.control[i] = s.control[i]
      BY <1>5, <2>1, <2>2
    <3> QED BY <1>1, <3>1 DEF QueuesOK
  <2>3. CASE ~(i <= Len(s.control))
    <3>1. i \in 1..(Len(s.control) + 1) /\ i - Len(s.control) = 1
      BY <1>5, <2>1, <2>3
    <3>2. t.control[i] = <<c>>[i - Len(s.control)]
      BY <1>5, <2>3, <3>1
    <3> QED BY <1>3, <1>4, <3>1, <3>2
  <2> QED BY <2>2, <2>3
<1>8. /\ out \in Seq(EventNumbers) /\ out2 \in Seq(EventNumbers) /\ p \in Nat /\ u \in Nat
      /\ Len(out) = u + p /\ Len(out2) = u + Len(t.pending)
      /\ \A i \in 1..u : out[i] = s.sent[i]
      /\ \A i \in 1..p : out[u + i] = s.pending[i].event
      /\ \A i \in 1..u : out2[i] = s.sent[i]
      /\ \A i \in 1..Len(t.pending) : out2[u + i] = t.pending[i].event
  BY ZenonT(40), OutgoingIs
<1> HIDE DEF p, u, out, out2
<1>9. ASSUME NEW i \in 1..(u + p) PROVE out2[i] = out[i]
  <2>1. CASE i <= u
    <3>1. i \in 1..u
      BY <1>8, <2>1
    <3> QED BY <1>8, <3>1
  <2>2. CASE ~(i <= u)
    <3> DEFINE j == i - u
    <3>1. j \in 1..p /\ j \in 1..(p + 1) /\ j <= p /\ u + j = i
      BY <1>8, <2>2
    <3> HIDE DEF j
    <3>2. out2[u + j] = s.pending[j].event /\ out[u + j] = s.pending[j].event
      BY <1>6, <1>8, <3>1
    <3> QED BY <3>1, <3>2
  <2> QED BY <2>1, <2>2
<1>10. out2[u + p + 1] = 0
  <2> DEFINE j == p + 1
  <2>1. j \in 1..(p + 1) /\ ~(j <= p) /\ j - p = 1 /\ u + j = u + p + 1
    BY <1>8
  <2> HIDE DEF j
  <2>3. t.pending[j] = <<v>>[j - p]
    BY <1>6, <2>1
  <2>4. j \in 1..Len(t.pending)
    BY <1>6, <2>1
  <2>5. t.pending[j] = v
    BY <1>4, <2>1, <2>3
  <2>2. out2[u + j] = v.event
    BY <1>8, <2>4, <2>5
  <2> QED BY <1>3, <2>1, <2>2
<1>11. Widened(out2, out, u + p, 1)
  <2> DEFINE n == u + p
  <2>1. n \in Nat /\ n = Len(out) /\ Len(out2) = n + 1
    BY <1>6, <1>8
  <2>2. \A i \in 1..n : out2[i] = out[i]
    BY <1>9
  <2>3. out2[n + 1] = 0
    BY <1>10
  <2> HIDE DEF n
  <2>4. \A i \in 1..(n + 1) : out2[i] = IF i <= n THEN out[i] ELSE IF i <= n + 1 THEN 0 ELSE out[i - 1]
    BY <2>1, <2>2, <2>3
  <2>5. Widened(out2, out, n, 1)
    BY <2>1, <2>4 DEF Widened
  <2> QED BY <2>5 DEF n
<1>12. OutgoingOK(out, s.seen, taken, unacked)
  BY <1>1 DEF QueuesOK, out
<1>13. OutgoingOK(out2, s.seen, taken, unacked)
  BY <1>8, <1>11, <1>12, WidenedOK
<1>14. QueuesOK(t, taken, last, unacked)
  BY <1>1, <1>7, <1>13 DEF QueuesOK, out2
<1> QED BY <1>14 DEF Side

\* An ASDU is processed: only a slave that is asked for its values answers.
LEMMA MidProcessed ==
    ASSUME NEW end \in Ends, NEW x, NEW y, NEW wx, NEW wy, NEW taken, NEW last \in Nat, NEW unacked,
           NEW ox, NEW kx, NEW oy, NEW ky,
           Mid(end, x, y, wx, wy, taken, last, unacked, ox, kx, oy, ky), ox, x.active, NEW body
    PROVE  LET p == Processed(end, x, body) IN
           /\ Mid(end, p.s, y, wx, wy \o p.out, taken, last, unacked, ox, kx, oy, ky)
           /\ Kept(p.s, x)
           /\ end = "master" => SameQueues(p.s, x) /\ p.out = <<>>
           /\ p.out \in Seq(Frames) /\ \A i \in 1..Len(p.out) : p.out[i].type = "I"
<1> DEFINE p == Processed(end, x, body)
           c == x.control \o <<Asdu("confirmation", 0)>>
           v == x.pending \o <<Asdu("values", 0)>>
           t == [x EXCEPT !.control = c, !.pending = v]
<1>1. x \in Sessions /\ wy \in Seq(Frames) /\ Side(end, x, taken, last, unacked)
  BY DEF Mid, Pair
<1>2. CASE end = "slave" /\ body.what = "interrogation"
  <2>1. p = TrySendPending(end, t)
    BY <1>2 DEF Processed, Enqueued
  <2>2. Asdu("confirmation", 0) \in Asdus /\ Asdu("values", 0) \in Asdus
    BY SoeAssumption DEF Asdu, Asdus, EventNumbers
  <2>3. x.control \in Seq(Asdus) /\ x.pending \in Seq(Asdus)
    BY <1>1 DEF Sessions
  <2>4. c \in Seq(Asdus) /\ v \in Seq(Asdus)
    BY <2>2, <2>3
  <2>5. /\ t = [x EXCEPT !.control = c, !.pending = v]
        /\ c = x.control \o <<Asdu("confirmation", 0)>>
        /\ v = x.pending \o <<Asdu("values", 0)>>
    OBVIOUS
  <2> HIDE DEF c, v, p
  <2>6. t \in Sessions
    BY <1>1, <2>4 DEF Sessions
  <2>7. /\ t.sendSeq = x.sendSeq /\ t.acked = x.acked /\ t.unacked = x.unacked /\ t.sent = x.sent
        /\ t.recvSeq = x.recvSeq /\ t.active = x.active /\ t.seen = x.seen /\ t.sinceAck = x.sinceAck
        /\ t.control = c /\ t.pending = v
    BY <1>1 DEF Sessions
  <2> HIDE DEF t
  <2>8. Side(end, t, taken, last, unacked)
    BY <1>1, <1>2, <2>5, <2>6, <2>7, SideQueued
  <2>9. Mid(end, t, y, wx, wy, taken, last, unacked, ox, kx, oy, ky)
    BY <2>6, <2>7, <2>8, MidSame
  <2>10. /\ Mid(end, p.s, y, wx, wy \o p.out, taken, last, unacked, ox, kx, oy, ky)
         /\ Alike(p.s, t)
         /\ p.out \in Seq(Frames) /\ \A i \in 1..Len(p.out) : p.out[i].type = "I"
    <3>1. ox \/ ~t.active
      OBVIOUS
    <3> QED BY ONLY end \in Ends, last \in Nat, <2>1, <2>9, <3>1, MidSend
  <2>11. Kept(p.s, x)
    BY <2>7, <2>10 DEF Alike, Kept
  <2> QED BY <1>2, <2>10, <2>11 DEF p
<1>3. CASE ~(end = "slave" /\ body.what = "interrogation")
  <2>1. p.s = x /\ p.out = <<>>
    BY <1>3 DEF Processed
  <2> HIDE DEF p
  <2>2. wy \o p.out = wy /\ p.out \in Seq(Frames) /\ Len(p.out) = 0
    BY <1>1, <2>1, ConcatEmptySeq
  <2>3. \A i \in 1..Len(p.out) : p.out[i].type = "I"
    BY <2>2
  <2>4. Kept(p.s, x)
    BY <2>1 DEF Kept
  <2>5. SameQueues(p.s, x)
    BY <2>1 DEF SameQueues
  <2> QED BY <2>1, <2>2, <2>3, <2>4, <2>5 DEF p
<1> QED BY <1>2, <1>3

InSequence(f, x) == f.ns = x.recvSeq
NoControl(end, x) == end = "master" => x.control = <<>>
AllData(end, w) == \A i \in 1..Len(w) : Data(w[i]) /\ (end = "master" => w[i].type = "S")

\* The session and the frames after an I frame in sequence.
Reply(end, x, f) ==
    LET a == AfterAck(end, x, f.nr)
        c == Counted(end, a.s)
        p == Processed(end, c.s, f.body)
    IN [s |-> p.s, out |-> a.out \o c.out \o p.out]

\* The whole of ReceiveI for a frame in sequence.
LEMMA MidReceiveI ==
    ASSUME NEW end \in Ends, NEW x, NEW y, NEW wx, NEW wy, NEW taken, NEW last \in Nat, NEW unacked,
           NEW ox, NEW kx, NEW oy, NEW ky,
           Mid(end, x, y, wx, wy, taken, last, unacked, ox, kx, oy, ky), ox, kx, x.active,
           wx # <<>>, Head(wx).type = "I", end = "master" => x.control = <<>>
    PROVE  LET f == Head(wx)
               z == Reply(end, x, f)
               more == taken \cup ({f.body.event} \ {0}) IN
           /\ AckValid(x, f.nr) /\ Acknowledged(x, f.nr) \subseteq taken
           /\ InSequence(f, x)
           /\ Mid(end, z.s, y, Tail(wx), wy \o z.out, more, last, unacked, ox, kx, oy, ky)
           /\ Kept(z.s, x) /\ NoControl(end, z.s)
           /\ z.out \in Seq(Frames) /\ AllData(end, z.out)
<1> DEFINE f == Head(wx)
           more == taken \cup ({f.body.event} \ {0})
           b == AckedTo(x, f.nr)
           a == AfterAck(end, x, f.nr)
           c == Counted(end, a.s)
           p == Processed(end, c.s, f.body)
<1>1. /\ AckValid(x, f.nr) /\ Acknowledged(x, f.nr) \subseteq taken
      /\ Mid(end, b, y, wx, wy, taken, last, unacked, ox, kx, oy, ky)
      /\ Alike(b, x) /\ SameQueues(b, x)
  <2>1. Data(Head(wx))
    BY DEF Data
  <2>2. Mid(end, x, y, wx, wy, taken, last, unacked, ox, kx, oy, ky) /\ wx # <<>> /\ kx
    OBVIOUS
  <2> QED BY ONLY end \in Ends, last \in Nat, <2>1, <2>2, MidAcked
<1>2. a = TrySendPending(end, b)
  BY DEF AfterAck, AckedTo
<1> HIDE DEF b, a
<1>3. /\ Mid(end, a.s, y, wx, wy \o a.out, taken, last, unacked, ox, kx, oy, ky)
      /\ Alike(a.s, b)
      /\ a.out \in Seq(Frames)
      /\ \A i \in 1..Len(a.out) : a.out[i].type = "I"
      /\ end = "master" => a.s.control = <<>>
      /\ b.control = <<>> /\ b.pending = <<>> => a.out = <<>>
  BY <1>1, <1>2, MidSend
<1>4. end = "master" => a.out = <<>>
  <2>1. end = "master" => x.pending = <<>>
    BY DEF Mid, Side
  <2> QED BY <1>1, <1>3, <2>1 DEF SameQueues
<1>5. /\ f.ns = a.s.recvSeq
      /\ Mid(end, c.s, y, Tail(wx), (wy \o a.out) \o c.out, more, last, unacked, ox, kx, oy, ky)
      /\ Kept(c.s, a.s) /\ SameQueues(c.s, a.s)
      /\ c.out \in Seq(Frames) /\ \A i \in 1..Len(c.out) : c.out[i].type = "S"
  <2>1. Mid(end, a.s, y, wx, wy \o a.out, taken, last, unacked, ox, kx, oy, ky)
    BY <1>3
  <2> QED BY <2>1, MidTake
<1> HIDE DEF c, more
<1>6. /\ Mid(end, p.s, y, Tail(wx), ((wy \o a.out) \o c.out) \o p.out, more, last, unacked, ox, kx, oy, ky)
      /\ Kept(p.s, c.s)
      /\ end = "master" => SameQueues(p.s, c.s) /\ p.out = <<>>
      /\ p.out \in Seq(Frames) /\ \A i \in 1..Len(p.out) : p.out[i].type = "I"
  <2>1. Mid(end, c.s, y, Tail(wx), (wy \o a.out) \o c.out, more, last, unacked, ox, kx, oy, ky)
    BY <1>5
  <2>2. c.s.active /\ ox
    BY <1>1, <1>3, <1>5 DEF Alike, Kept
  <2> DEFINE cs == c.s
             w == (wy \o a.out) \o c.out
             body == f.body
             v == Tail(wx)
             z == Processed(end, cs, body)
  <2>3. Mid(end, cs, y, v, w, more, last, unacked, ox, kx, oy, ky) /\ cs.active /\ ox
    BY <2>1, <2>2
  <2>4. /\ Mid(end, z.s, y, v, w \o z.out, more, last, unacked, ox, kx, oy, ky)
        /\ Kept(z.s, cs)
        /\ end = "master" => SameQueues(z.s, cs) /\ z.out = <<>>
        /\ z.out \in Seq(Frames) /\ \A i \in 1..Len(z.out) : z.out[i].type = "I"
    <3> HIDE DEF cs, w, body, v
    <3> QED BY <2>3, MidProcessed
  <2> QED BY <2>4
<1> HIDE DEF p, f
<1> DEFINE ac == a.out \o c.out
           out == ac \o p.out
<1>7. wy \in Seq(Frames)
  BY DEF Mid, Pair
<1>8. ac \in Seq(Frames) /\ out \in Seq(Frames)
  <2>1. ac \in Seq(Frames)
    BY <1>3, <1>5, WireConcat
  <2> QED BY <1>6, <2>1, WireConcat
<1>9. ((wy \o a.out) \o c.out) \o p.out = wy \o out
  <2> DEFINE ao == a.out
             co == c.out
             po == p.out
  <2>3. ao \in Seq(Frames) /\ co \in Seq(Frames) /\ po \in Seq(Frames)
    BY <1>3, <1>5, <1>6
  <2> HIDE DEF ao, co, po
  <2>4. (wy \o ao) \o co = wy \o (ao \o co)
    BY <1>7, <2>3, WireAssociative
  <2>1. (wy \o a.out) \o c.out = wy \o ac
    BY <2>4 DEF ao, co
  <2> HIDE DEF ac
  <2>5. (wy \o ac) \o po = wy \o (ac \o po)
    BY <1>7, <1>8, <2>3, WireAssociative
  <2>2. (wy \o ac) \o p.out = wy \o out
    BY <2>5 DEF po
  <2> QED BY <2>1, <2>2
<1>10. \A i \in 1..Len(ac) : Data(ac[i]) /\ (end = "master" => ac[i].type = "S")
  <2> SUFFICES ASSUME NEW i \in 1..Len(ac) PROVE Data(ac[i]) /\ (end = "master" => ac[i].type = "S")
    OBVIOUS
  <2>1. CASE i \in 1..Len(a.out) /\ ac[i] = a.out[i]
    BY <1>3, <1>4, <2>1 DEF Data
  <2>2. CASE i - Len(a.out) \in 1..Len(c.out) /\ ac[i] = c.out[i - Len(a.out)]
    <3>1. c.out[i - Len(a.out)].type = "S"
      BY <1>5, <2>2
    <3> QED BY <2>2, <3>1 DEF Data
  <2>3. \/ i \in 1..Len(a.out) /\ ac[i] = a.out[i]
        \/ i - Len(a.out) \in 1..Len(c.out) /\ ac[i] = c.out[i - Len(a.out)]
    <3> DEFINE ao == a.out
               co == c.out
    <3>1. ao \in Seq(Frames) /\ co \in Seq(Frames)
      BY <1>3, <1>5
    <3>2. i \in 1..Len(ao \o co)
      OBVIOUS
    <3> HIDE DEF ao, co
    <3>3. \/ i \in 1..Len(ao) /\ (ao \o co)[i] = ao[i]
          \/ i - Len(ao) \in 1..Len(co) /\ (ao \o co)[i] = co[i - Len(ao)]
      BY <3>1, <3>2, WireConcat
    <3> QED BY <3>3 DEF ao, co
  <2> QED BY <2>1, <2>2, <2>3
<1> HIDE DEF ac
<1>11. \A i \in 1..Len(out) : Data(out[i]) /\ (end = "master" => out[i].type = "S")
  <2> SUFFICES ASSUME NEW i \in 1..Len(out) PROVE Data(out[i]) /\ (end = "master" => out[i].type = "S")
    OBVIOUS
  <2>1. CASE i \in 1..Len(ac) /\ out[i] = ac[i]
    BY <1>10, <2>1
  <2>2. CASE i - Len(ac) \in 1..Len(p.out) /\ out[i] = p.out[i - Len(ac)]
    <3>1. p.out[i - Len(ac)].type = "I"
      BY <1>6, <2>2
    <3>2. end # "master"
      BY <1>6, <2>2
    <3> QED BY <2>2, <3>1, <3>2 DEF Data
  <2> QED BY <1>6, <1>8, <2>1, <2>2, WireConcat
<1> HIDE DEF out
<1>12. Mid(end, p.s, y, Tail(wx), wy \o out, more, last, unacked, ox, kx, oy, ky)
  BY <1>6, <1>9
<1>13. Kept(p.s, x) /\ f.ns = x.recvSeq /\ (end = "master" => p.s.control = <<>>)
  <2>1. a.s.recvSeq = x.recvSeq
    BY <1>1, <1>3 DEF Alike
  <2> QED BY <1>1, <1>3, <1>5, <1>6, <2>1 DEF Alike, Kept, SameQueues
<1>14. Reply(end, x, f).s = p.s /\ Reply(end, x, f).out = out
  BY DEF Reply, out, ac, p, c, a
<1> DEFINE z == Reply(end, x, f)
<1> HIDE DEF z
<1>15. z.s = p.s /\ z.out = out
  BY <1>14 DEF z
<1>16. /\ Mid(end, z.s, y, Tail(wx), wy \o z.out, more, last, unacked, ox, kx, oy, ky)
       /\ Kept(z.s, x) /\ (end = "master" => z.s.control = <<>>)
       /\ z.out \in Seq(Frames)
       /\ \A i \in 1..Len(z.out) : Data(z.out[i]) /\ (end = "master" => z.out[i].type = "S")
  BY <1>8, <1>11, <1>12, <1>13, <1>15
<1>17. NoControl(end, z.s) /\ AllData(end, z.out) /\ InSequence(f, x)
  BY <1>13, <1>16 DEF NoControl, AllData, InSequence
<1> QED BY <1>1, <1>16, <1>17 DEF f, more, z

-----------------------------------------------------------------------------
(* What may be on its way in which phase of the activation. *)

\* What is on its way to the slave after it read a frame.
LEMMA ToSlaveTail ==
    ASSUME NEW b \in BOOLEAN, NEW a \in BOOLEAN, NEW w \in Seq(Frames), w # <<>>, ToSlaveOK(b, a, w)
    PROVE  /\ ToSlaveOK(b, a, Tail(w))
           /\ Head(w).type = "I" => a /\ b
           /\ Head(w).type \in {"I", "S", "STARTDT_ACT", "STOPDT_ACT"}
<1> DEFINE v == Tail(w)
<1>1. /\ v \in Seq(Frames) /\ Len(w) \in Nat /\ 1 \in 1..Len(w) /\ Head(w) = w[1] /\ Len(v) = Len(w) - 1
      /\ \A i \in 1..Len(v) : i + 1 \in 1..Len(w) /\ v[i] = w[i + 1]
  BY WireTail
<1> HIDE DEF v
<1>2. ASSUME NEW i \in 1..Len(v), v[i].type = "STARTDT_ACT" PROVE ~a /\ ~b /\ i = Len(v)
  <2>1. ~a /\ ~b /\ i + 1 = Len(w)
    BY <1>1, <1>2 DEF ToSlaveOK
  <2> QED BY <1>1, <2>1
<1>3. ASSUME NEW i \in 1..Len(v), v[i].type = "I"
      PROVE  a /\ b /\ \A j \in 1..(i - 1) : v[j].type # "STOPDT_ACT"
  <2>1. a /\ b /\ \A j \in 1..(i + 1 - 1) : w[j].type # "STOPDT_ACT"
    <3> DEFINE k == i + 1
    <3>1. k \in 1..Len(w) /\ w[k].type = "I"
      BY <1>1, <1>3
    <3> HIDE DEF k
    <3>2. a /\ b /\ \A j \in 1..(k - 1) : w[j].type # "STOPDT_ACT"
      BY <3>1 DEF ToSlaveOK
    <3> QED BY <3>2 DEF k
  <2>2. ASSUME NEW j \in 1..(i - 1) PROVE v[j].type # "STOPDT_ACT"
    <3>1. j + 1 \in 1..(i + 1 - 1) /\ v[j] = w[j + 1]
      BY <1>1
    <3> QED BY <2>1, <3>1
  <2> QED BY <2>1, <2>2
<1>4. \A i \in 1..Len(v) : v[i].type \in {"I", "S", "STARTDT_ACT", "STOPDT_ACT"}
  BY <1>1 DEF ToSlaveOK
<1>5. ~(b /\ ~a)
  BY DEF ToSlaveOK
<1>6. ToSlaveOK(b, a, v)
  BY <1>2, <1>3, <1>4, <1>5 DEF ToSlaveOK
<1>7. (Head(w).type = "I" => a /\ b) /\ Head(w).type \in {"I", "S", "STARTDT_ACT", "STOPDT_ACT"}
  BY <1>1 DEF ToSlaveOK
<1> QED BY <1>6, <1>7 DEF v

\* What is on its way to the master after it read data.
LEMMA ToMasterTail ==
    ASSUME NEW b \in BOOLEAN, NEW a \in BOOLEAN, NEW w \in Seq(Frames), w # <<>>, ToMasterOK(b, a, w),
           Data(Head(w))
    PROVE  ToMasterOK(b, a, Tail(w)) /\ a
<1> DEFINE v == Tail(w)
<1>1. /\ v \in Seq(Frames) /\ Len(w) \in Nat /\ 1 \in 1..Len(w) /\ Head(w) = w[1] /\ Len(v) = Len(w) - 1
      /\ \A i \in 1..Len(v) : i + 1 \in 1..Len(w) /\ v[i] = w[i + 1]
  BY WireTail
<1> HIDE DEF v
<1>2. \A i \in 1..Len(w) : w[i].type # "STARTDT_CON"
  <2> SUFFICES ASSUME NEW i \in 1..Len(w), w[i].type = "STARTDT_CON" PROVE FALSE
    OBVIOUS
  <2>1. \A j \in 1..(i - 1) : w[j].type = "STOPDT_CON"
    BY DEF ToMasterOK
  <2>2. 1 \in 1..(i - 1) \/ i = 1
    BY <1>1
  <2> QED BY <1>1, <2>1, <2>2 DEF Data
<1>3. a
  BY <1>1, <1>2 DEF ToMasterOK
<1>4. ASSUME NEW i \in 1..Len(v), v[i].type = "STOPDT_CON"
      PROVE  ~(a /\ b) /\ (a => \A j \in (i + 1)..Len(v) : v[j].type = "STOPDT_CON")
  <2>1. ~(a /\ b) /\ (a => \A j \in (i + 1 + 1)..Len(w) : w[j].type = "STOPDT_CON")
    BY <1>1, <1>4 DEF ToMasterOK
  <2>2. ASSUME a, NEW j \in (i + 1)..Len(v) PROVE v[j].type = "STOPDT_CON"
    <3>1. j \in 1..Len(v) /\ j + 1 \in (i + 1 + 1)..Len(w)
      BY <1>1
    <3> QED BY <1>1, <2>1, <2>2, <3>1
  <2> QED BY <2>1, <2>2
<1>5. \A i \in 1..Len(v) : v[i].type \in {"I", "S", "STARTDT_CON", "STOPDT_CON"} /\ v[i].type # "STARTDT_CON"
  BY <1>1, <1>2 DEF ToMasterOK
<1>6. ToMasterOK(b, a, v)
  BY <1>3, <1>4, <1>5 DEF ToMasterOK
<1> QED BY <1>3, <1>6 DEF v

\* What is on its way to the master after an active slave wrote data.
LEMMA ToMasterMore ==
    ASSUME NEW a \in BOOLEAN, NEW w \in Seq(Frames), ToMasterOK(TRUE, a, w), NEW x \in Seq(Frames),
           \A i \in 1..Len(x) : Data(x[i])
    PROVE  ToMasterOK(TRUE, a, w \o x)
<1> DEFINE v == w \o x
<1>1. /\ v \in Seq(Frames) /\ Len(w) \in Nat /\ Len(x) \in Nat /\ Len(v) = Len(w) + Len(x)
      /\ \A i \in 1..Len(w) : v[i] = w[i]
      /\ \A i \in 1..Len(v) : i \in 1..Len(w) \/ (i - Len(w) \in 1..Len(x) /\ v[i] = x[i - Len(w)])
  BY WireConcat
<1> HIDE DEF v
<1>2. \A i \in 1..Len(v) : (i \in 1..Len(w) /\ v[i] = w[i]) \/ (i > Len(w) /\ Data(v[i]))
  <2> SUFFICES ASSUME NEW i \in 1..Len(v), ~(i \in 1..Len(w)) PROVE i > Len(w) /\ Data(v[i])
    BY <1>1
  <2>1. i - Len(w) \in 1..Len(x) /\ v[i] = x[i - Len(w)]
    BY <1>1
  <2>2. i > Len(w)
    BY <1>1
  <2> QED BY <2>1, <2>2
<1>3. \A i \in 1..Len(v) : v[i].type \in {"I", "S", "STARTDT_CON", "STOPDT_CON"}
  BY <1>2 DEF ToMasterOK, Data
<1>4. ASSUME NEW i \in 1..Len(v), v[i].type = "STARTDT_CON"
      PROVE  /\ ~a
             /\ \A j \in 1..(i - 1) : v[j].type = "STOPDT_CON"
             /\ \A j \in (i + 1)..Len(v) : Data(v[j])
  <2>1. i \in 1..Len(w) /\ v[i] = w[i]
    BY <1>2, <1>4 DEF Data
  <2>2. /\ ~a
        /\ \A j \in 1..(i - 1) : w[j].type = "STOPDT_CON"
        /\ \A j \in (i + 1)..Len(w) : Data(w[j])
    BY <1>4, <2>1 DEF ToMasterOK
  <2>3. \A j \in 1..(i - 1) : j \in 1..Len(w)
    BY <1>1, <2>1
  <2>4. ASSUME NEW j \in (i + 1)..Len(v) PROVE Data(v[j])
    <3>1. j \in 1..Len(v) /\ (j \in 1..Len(w) => j \in (i + 1)..Len(w))
      BY <1>1
    <3> QED BY <1>2, <2>2, <3>1
  <2> QED BY <1>1, <2>2, <2>3, <2>4
<1>5. ASSUME NEW i \in 1..Len(v), v[i].type = "STOPDT_CON" PROVE ~a
  <2>1. i \in 1..Len(w) /\ v[i] = w[i]
    BY <1>2, <1>5 DEF Data
  <2> QED BY <1>5, <2>1 DEF ToMasterOK
<1>6. ~a => \E i \in 1..Len(v) : v[i].type = "STARTDT_CON"
  <2> SUFFICES ASSUME ~a PROVE \E i \in 1..Len(v) : v[i].type = "STARTDT_CON"
    OBVIOUS
  <2>1. PICK i \in 1..Len(w) : w[i].type = "STARTDT_CON"
    BY DEF ToMasterOK
  <2>2. i \in 1..Len(v) /\ v[i].type = "STARTDT_CON"
    BY <1>1, <2>1
  <2> QED BY <2>2
<1>7. ToMasterOK(TRUE, a, v)
  BY <1>3, <1>4, <1>5, <1>6 DEF ToMasterOK
<1> QED BY <1>7 DEF v

\* What is on its way to the slave after an active master wrote an
\* acknowledgement or a stop.
LEMMA ToSlaveMore ==
    ASSUME NEW b \in BOOLEAN, NEW w \in Seq(Frames), ToSlaveOK(b, TRUE, w), NEW x \in Seq(Frames),
           \A i \in 1..Len(x) : x[i].type \in {"S", "STOPDT_ACT"}
    PROVE  ToSlaveOK(b, TRUE, w \o x)
<1> DEFINE v == w \o x
<1>1. /\ v \in Seq(Frames) /\ Len(w) \in Nat /\ Len(x) \in Nat /\ Len(v) = Len(w) + Len(x)
      /\ \A i \in 1..Len(w) : v[i] = w[i]
      /\ \A i \in 1..Len(v) : i \in 1..Len(w) \/ (i - Len(w) \in 1..Len(x) /\ v[i] = x[i - Len(w)])
  BY WireConcat
<1> HIDE DEF v
<1>2. \A i \in 1..Len(v) : (i \in 1..Len(w) /\ v[i] = w[i]) \/ v[i].type \in {"S", "STOPDT_ACT"}
  BY <1>1
<1>3. \A i \in 1..Len(v) : v[i].type \in {"I", "S", "STARTDT_ACT", "STOPDT_ACT"} /\ v[i].type # "STARTDT_ACT"
  BY <1>2 DEF ToSlaveOK
<1>4. ASSUME NEW i \in 1..Len(v), v[i].type = "I"
      PROVE  b /\ \A j \in 1..(i - 1) : v[j].type # "STOPDT_ACT"
  <2>1. i \in 1..Len(w) /\ v[i] = w[i]
    BY <1>2, <1>4
  <2>2. b /\ \A j \in 1..(i - 1) : w[j].type # "STOPDT_ACT"
    BY <1>4, <2>1 DEF ToSlaveOK
  <2>3. \A j \in 1..(i - 1) : j \in 1..Len(w)
    BY <1>1, <2>1
  <2> QED BY <1>1, <2>2, <2>3
<1>5. ToSlaveOK(b, TRUE, v)
  BY <1>3, <1>4 DEF ToSlaveOK
<1> QED BY <1>5 DEF v

\* A request of the transfer, while it is active at neither end.
LEMMA ToSlaveRequest ==
    ASSUME NEW w \in Seq(Frames), ToSlaveOK(FALSE, FALSE, w), NEW f \in Frames,
           f.type = "STARTDT_ACT", \A i \in 1..Len(w) : w[i].type # "STARTDT_ACT"
    PROVE  ToSlaveOK(FALSE, FALSE, w \o <<f>>)
<1> DEFINE v == w \o <<f>>
<1>2. v \in Seq(Frames) /\ Len(w) \in Nat /\ Len(v) = Len(w) + 1
  BY WireAppend
<1>3. \A i \in 1..Len(v) : (i \in 1..Len(w) /\ v[i] = w[i]) \/ (i = Len(v) /\ v[i] = f)
  BY WireAppend
<1> HIDE DEF v
<1>4. \A i \in 1..Len(w) : w[i].type \in {"S", "STOPDT_ACT"}
  BY DEF ToSlaveOK
<1>5. ToSlaveOK(FALSE, FALSE, v)
  BY <1>3, <1>4 DEF ToSlaveOK
<1> QED BY <1>5 DEF v

\* The stop that ends the transfer at the slave: no I frame follows it.
LEMMA ToSlaveStop ==
    ASSUME NEW b \in BOOLEAN, NEW a \in BOOLEAN, NEW w \in Seq(Frames), w # <<>>, ToSlaveOK(b, a, w),
           Head(w).type = "STOPDT_ACT"
    PROVE  ToSlaveOK(FALSE, a, Tail(w)) /\ (b => a)
<1> DEFINE v == Tail(w)
<1>1. /\ v \in Seq(Frames) /\ Len(w) \in Nat /\ 1 \in 1..Len(w) /\ Head(w) = w[1] /\ Len(v) = Len(w) - 1
      /\ \A i \in 1..Len(v) : i + 1 \in 1..Len(w) /\ v[i] = w[i + 1]
  BY WireTail
<1>2. ToSlaveOK(b, a, v)
  BY ToSlaveTail
<1> HIDE DEF v
<1>3. \A i \in 1..Len(w) : w[i].type # "I"
  <2> SUFFICES ASSUME NEW i \in 1..Len(w), w[i].type = "I" PROVE FALSE
    OBVIOUS
  <2>1. \A j \in 1..(i - 1) : w[j].type # "STOPDT_ACT"
    BY DEF ToSlaveOK
  <2>2. 1 \in 1..(i - 1) \/ i = 1
    BY <1>1
  <2> QED BY <1>1, <2>1, <2>2
<1>4. \A i \in 1..Len(v) : v[i].type # "I"
  BY <1>1, <1>3
<1>5. ToSlaveOK(FALSE, a, v)
  BY <1>2, <1>4 DEF ToSlaveOK
<1>6. b => a
  BY DEF ToSlaveOK
<1> QED BY <1>5, <1>6 DEF v

\* The slave confirms a stop.
LEMMA ToMasterStop ==
    ASSUME NEW b \in BOOLEAN, NEW a \in BOOLEAN, NEW w \in Seq(Frames), ToMasterOK(b, a, w), b => a,
           NEW f \in Frames, f.type = "STOPDT_CON"
    PROVE  /\ ToMasterOK(FALSE, a, w \o <<f>>)
           /\ ~a => \A i \in 1..Len(w) : w[i].type # "I"
<1> DEFINE v == w \o <<f>>
<1>2. v \in Seq(Frames) /\ Len(w) \in Nat /\ Len(v) = Len(w) + 1
  BY WireAppend
<1>3. \A i \in 1..Len(v) : (i \in 1..Len(w) /\ v[i] = w[i]) \/ (i = Len(v) /\ v[i] = f)
  BY WireAppend
<1> HIDE DEF v
<1>4. \A i \in 1..Len(w) : w[i].type \in {"I", "S", "STOPDT_CON"} /\ (Data(w[i]) => a)
  BY DEF ToMasterOK
<1>5. \A i \in 1..Len(v) : v[i].type \in {"I", "S", "STOPDT_CON"} /\ (Data(v[i]) => a)
  BY <1>3, <1>4 DEF Data
<1>6. ASSUME NEW i \in 1..Len(v), v[i].type = "STOPDT_CON", a
      PROVE  \A j \in (i + 1)..Len(v) : v[j].type = "STOPDT_CON"
  <2> SUFFICES ASSUME NEW j \in (i + 1)..Len(v) PROVE v[j].type = "STOPDT_CON"
    OBVIOUS
  <2>1. j \in 1..Len(v) /\ i \in 1..Len(w) /\ v[i] = w[i]
    BY <1>2, <1>3
  <2>2. CASE j \in 1..Len(w) /\ v[j] = w[j]
    <3>1. j \in (i + 1)..Len(w)
      BY <2>1, <2>2
    <3> QED BY <1>6, <2>1, <2>2, <3>1 DEF ToMasterOK
  <2> QED BY <1>3, <2>1, <2>2
<1>7. ToMasterOK(FALSE, a, v)
  BY <1>5, <1>6 DEF ToMasterOK
<1>8. ~a => \A i \in 1..Len(w) : w[i].type # "I"
  BY <1>4 DEF Data
<1> QED BY <1>7, <1>8 DEF v

\* The master takes the confirmation of a stop.
LEMMA ToMasterStopped ==
    ASSUME NEW b \in BOOLEAN, NEW a \in BOOLEAN, NEW w \in Seq(Frames), w # <<>>, ToMasterOK(b, a, w),
           Head(w).type = "STOPDT_CON"
    PROVE  /\ ToMasterOK(b, FALSE, Tail(w))
           /\ a => ~b /\ \A i \in 1..Len(w) : w[i].type = "STOPDT_CON"
<1> DEFINE v == Tail(w)
<1>1. /\ v \in Seq(Frames) /\ Len(w) \in Nat /\ 1 \in 1..Len(w) /\ Head(w) = w[1] /\ Len(v) = Len(w) - 1
      /\ \A i \in 1..Len(v) : i + 1 \in 1..Len(w) /\ v[i] = w[i + 1]
  BY WireTail
<1> HIDE DEF v
<1>2. a => ~b /\ \A i \in 1..Len(w) : w[i].type = "STOPDT_CON"
  <2> SUFFICES ASSUME a PROVE ~b /\ \A i \in 1..Len(w) : w[i].type = "STOPDT_CON"
    OBVIOUS
  <2>1. ~b /\ \A j \in (1 + 1)..Len(w) : w[j].type = "STOPDT_CON"
    BY <1>1 DEF ToMasterOK
  <2>2. \A i \in 1..Len(w) : i = 1 \/ i \in (1 + 1)..Len(w)
    BY <1>1
  <2> QED BY <1>1, <2>1, <2>2
<1>3. CASE a
  <2>1. \A i \in 1..Len(v) : v[i].type = "STOPDT_CON"
    BY <1>1, <1>2, <1>3
  <2> QED BY <1>2, <1>3, <2>1 DEF ToMasterOK, Data, v
<1>4. CASE ~a
  <2>1. ASSUME NEW i \in 1..Len(v), v[i].type = "STARTDT_CON"
        PROVE  /\ b
               /\ \A j \in 1..(i - 1) : v[j].type = "STOPDT_CON"
               /\ \A j \in (i + 1)..Len(v) : Data(v[j])
    <3> DEFINE k == i + 1
    <3>1. k \in 1..Len(w) /\ w[k].type = "STARTDT_CON"
      BY <1>1, <2>1
    <3>2. /\ \A j \in 1..(i - 1) : j \in 1..Len(v) /\ j + 1 \in 1..(k - 1)
          /\ \A j \in (i + 1)..Len(v) : j \in 1..Len(v) /\ j + 1 \in (k + 1)..Len(w)
      BY <1>1
    <3> HIDE DEF k
    <3>3. /\ b
          /\ \A j \in 1..(k - 1) : w[j].type = "STOPDT_CON"
          /\ \A j \in (k + 1)..Len(w) : Data(w[j])
      BY <3>1 DEF ToMasterOK
    <3> QED BY <1>1, <3>2, <3>3
  <2>2. \A i \in 1..Len(v) : v[i].type \in {"I", "S", "STARTDT_CON", "STOPDT_CON"} /\ (Data(v[i]) => b)
    BY <1>1, <1>4 DEF ToMasterOK
  <2>3. b => \E i \in 1..Len(v) : v[i].type = "STARTDT_CON"
    <3> SUFFICES ASSUME b PROVE \E i \in 1..Len(v) : v[i].type = "STARTDT_CON"
      OBVIOUS
    <3>1. PICK k \in 1..Len(w) : w[k].type = "STARTDT_CON"
      BY <1>4 DEF ToMasterOK
    <3>2. k # 1
      BY <1>1, <3>1
    <3> DEFINE i == k - 1
    <3>3. i \in 1..Len(v) /\ i + 1 = k
      BY <1>1, <3>2
    <3> HIDE DEF i
    <3>4. v[i] = w[k]
      BY <1>1, <3>3
    <3> QED BY <3>1, <3>3, <3>4
  <2>4. ToMasterOK(b, FALSE, v)
    BY <2>1, <2>2, <2>3 DEF ToMasterOK
  <2> QED BY <1>2, <2>4 DEF v
<1> QED BY <1>3, <1>4

\* The slave takes a request, the only frame left on its way.
LEMMA ToSlaveStart ==
    ASSUME NEW b \in BOOLEAN, NEW a \in BOOLEAN, NEW w \in Seq(Frames), w # <<>>, ToSlaveOK(b, a, w),
           Head(w).type = "STARTDT_ACT"
    PROVE  a = FALSE /\ b = FALSE /\ Tail(w) = <<>>
<1> DEFINE v == Tail(w)
<1>1. Len(w) \in Nat /\ 1 \in 1..Len(w) /\ Head(w) = w[1] /\ v \in Seq(Frames) /\ Len(v) = Len(w) - 1
  BY WireTail
<1> HIDE DEF v
<1>2. ~a /\ ~b /\ 1 = Len(w)
  BY <1>1 DEF ToSlaveOK
<1>3. v = <<>>
  <2>1. Len(v) = 0
    BY <1>1, <1>2
  <2> QED BY <1>1, <2>1, EmptySeq
<1> QED BY <1>2, <1>3 DEF v

\* The slave confirms it.
LEMMA ToMasterStart ==
    ASSUME NEW w \in Seq(Frames), ToMasterOK(FALSE, FALSE, w), NEW f \in Frames, f.type = "STARTDT_CON"
    PROVE  ToMasterOK(TRUE, FALSE, w \o <<f>>)
<1> DEFINE v == w \o <<f>>
<1>1. v \in Seq(Frames) /\ Len(w) \in Nat /\ Len(v) = Len(w) + 1 /\ v[Len(v)] = f
  BY WireAppend
<1>2. \A i \in 1..Len(v) : (i \in 1..Len(w) /\ v[i] = w[i]) \/ (i = Len(v) /\ v[i] = f)
  BY WireAppend
<1> HIDE DEF v
<1>3. \A i \in 1..Len(w) : w[i].type = "STOPDT_CON"
  BY DEF ToMasterOK, Data
<1>4. \A i \in 1..Len(v) : v[i].type = "STOPDT_CON" \/ (i = Len(v) /\ v[i].type = "STARTDT_CON")
  BY <1>2, <1>3
<1>5. Len(v) \in 1..Len(v) /\ v[Len(v)].type = "STARTDT_CON"
  BY <1>1
<1>6. ASSUME NEW i \in 1..Len(v), v[i].type = "STARTDT_CON"
      PROVE  /\ \A j \in 1..(i - 1) : v[j].type = "STOPDT_CON"
             /\ \A j \in (i + 1)..Len(v) : Data(v[j])
  <2>1. i = Len(v)
    BY <1>4, <1>6
  <2>2. \A j \in 1..(i - 1) : j \in 1..Len(v) /\ j # Len(v)
    BY <1>1, <2>1
  <2>3. \A j \in (i + 1)..Len(v) : FALSE
    BY <1>1, <2>1
  <2> QED BY <1>4, <2>2, <2>3
<1>7. ToMasterOK(TRUE, FALSE, v)
  BY <1>4, <1>5, <1>6 DEF ToMasterOK, Data
<1> QED BY <1>7 DEF v

\* The master takes the confirmation: data follows.
LEMMA ToMasterStarted ==
    ASSUME NEW b \in BOOLEAN, NEW a \in BOOLEAN, NEW w \in Seq(Frames), w # <<>>, ToMasterOK(b, a, w),
           Head(w).type = "STARTDT_CON"
    PROVE  b = TRUE /\ a = FALSE /\ ToMasterOK(TRUE, TRUE, Tail(w))
<1> DEFINE v == Tail(w)
<1>1. /\ v \in Seq(Frames) /\ Len(w) \in Nat /\ 1 \in 1..Len(w) /\ Head(w) = w[1] /\ Len(v) = Len(w) - 1
      /\ \A i \in 1..Len(v) : i + 1 \in 1..Len(w) /\ v[i] = w[i + 1]
  BY WireTail
<1> HIDE DEF v
<1>2. b /\ ~a /\ \A j \in (1 + 1)..Len(w) : Data(w[j])
  BY <1>1 DEF ToMasterOK
<1>3. \A i \in 1..Len(v) : Data(v[i])
  <2> SUFFICES ASSUME NEW i \in 1..Len(v) PROVE Data(v[i])
    OBVIOUS
  <2>1. i + 1 \in (1 + 1)..Len(w)
    BY <1>1
  <2> QED BY <1>1, <1>2, <2>1
<1>4. ToMasterOK(TRUE, TRUE, v)
  BY <1>3 DEF ToMasterOK, Data
<1> QED BY <1>2, <1>4 DEF v

\* The first frames of a master's transfer.
LEMMA ToSlaveFirst ==
    ASSUME NEW w \in Seq(Frames), \A i \in 1..Len(w) : w[i].type = "I"
    PROVE  ToSlaveOK(TRUE, TRUE, w)
<1>1. ASSUME NEW i \in 1..Len(w), NEW j \in 1..(i - 1) PROVE w[j].type # "STOPDT_ACT"
  <2>1. Len(w) \in Nat
    BY LenProperties
  <2>2. j \in 1..Len(w)
    BY <2>1
  <2> QED BY <2>2
<1> QED BY <1>1 DEF ToSlaveOK

-----------------------------------------------------------------------------
(* The steps of one connection. *)

\* A connection has two ends.
LEMMA TwoEnds == Peer("slave") = "master" /\ Peer("master") = "slave" /\ "slave" \in Ends /\ "master" \in Ends
BY SoeAssumption DEF Peer

\* A connection seen from its other end.
LEMMA MidSwap ==
    ASSUME NEW end \in Ends, NEW x, NEW y, NEW wx, NEW wy, NEW taken, NEW last, NEW unacked,
           NEW ox, NEW kx, NEW oy, NEW ky,
           Mid(end, x, y, wx, wy, taken, last, unacked, ox, kx, oy, ky)
    PROVE  Mid(Peer(end), y, x, wy, wx, taken, last, unacked, oy, ky, ox, kx)
<1>1. Peer(Peer(end)) = end
  BY SoeAssumption DEF Peer
<1>2. Both(y, x, wy, wx, taken, oy, ky, ox, kx)
  BY BothSwap DEF Mid
<1>3. Pair(y, x, wy, wx, oy, ky, ox, kx)
  BY DEF Mid, Pair
<1> QED BY <1>1, <1>2, <1>3 DEF Mid

\* What Linked says, seen from either end.
LEMMA LinkedParts ==
    ASSUME NEW s, NEW m, NEW ws, NEW wm, NEW taken, NEW last, NEW unacked,
           Linked(s, m, ws, wm, taken, last, unacked)
    PROVE  /\ s \in Sessions /\ m \in Sessions /\ ws \in Seq(Frames) /\ wm \in Seq(Frames)
           /\ s.active \in BOOLEAN /\ m.active \in BOOLEAN
           /\ Mid("slave", s, m, ws, wm, taken, last, unacked, s.active \/ ~m.active, s.active, TRUE, TRUE)
           /\ Mid("master", m, s, wm, ws, taken, last, unacked, TRUE, TRUE, s.active \/ ~m.active, s.active)
           /\ m.control = <<>>
           /\ ToSlaveOK(s.active, m.active, ws) /\ ToMasterOK(s.active, m.active, wm)
<1>1. Mid("slave", s, m, ws, wm, taken, last, unacked, s.active \/ ~m.active, s.active, TRUE, TRUE)
      /\ m.control = <<>> /\ ToSlaveOK(s.active, m.active, ws) /\ ToMasterOK(s.active, m.active, wm)
  BY DEF Linked
<1>2. s \in Sessions /\ m \in Sessions /\ ws \in Seq(Frames) /\ wm \in Seq(Frames)
  BY <1>1 DEF Mid, Pair
<1>3. s.active \in BOOLEAN /\ m.active \in BOOLEAN
  BY <1>2 DEF Sessions
<1>4. Mid(Peer("slave"), m, s, wm, ws, taken, last, unacked, TRUE, TRUE, s.active \/ ~m.active, s.active)
  BY <1>1, TwoEnds, MidSwap
<1> QED BY <1>1, <1>2, <1>3, <1>4, TwoEnds

\* The connection after a step of one of its ends.
LEMMA LinkedFrom ==
    ASSUME NEW s, NEW m, NEW ws, NEW wm, NEW taken, NEW last, NEW unacked, NEW o, NEW k,
           \/ Mid("slave", s, m, ws, wm, taken, last, unacked, o, k, TRUE, TRUE)
           \/ Mid("master", m, s, wm, ws, taken, last, unacked, TRUE, TRUE, o, k),
           o = (s.active \/ ~m.active), k = s.active,
           m.control = <<>>, ToSlaveOK(s.active, m.active, ws), ToMasterOK(s.active, m.active, wm)
    PROVE  Linked(s, m, ws, wm, taken, last, unacked)
<1>1. Mid("master", m, s, wm, ws, taken, last, unacked, TRUE, TRUE, o, k) =>
          Mid(Peer("master"), s, m, ws, wm, taken, last, unacked, o, k, TRUE, TRUE)
  BY TwoEnds, MidSwap
<1>2. Mid("slave", s, m, ws, wm, taken, last, unacked, o, k, TRUE, TRUE)
  BY <1>1, TwoEnds
<1> QED BY <1>2 DEF Linked

\* The slave takes data.
LEMMA LinkedSlaveI ==
    ASSUME NEW s, NEW m, NEW ws, NEW wm, NEW taken, NEW last \in Nat, NEW unacked,
           Linked(s, m, ws, wm, taken, last, unacked), ws # <<>>, Head(ws).type = "I"
    PROVE  LET f == Head(ws)
               z == Reply("slave", s, f) IN
           /\ s.active /\ AckValid(s, f.nr) /\ Acknowledged(s, f.nr) \subseteq taken
           /\ f.ns = s.recvSeq /\ f.body.event = 0
           /\ Linked(z.s, m, Tail(ws), wm \o z.out, taken, last, unacked) /\ Kept(z.s, s)
<1> DEFINE f == Head(ws)
           z == Reply("slave", s, f)
           more == taken \cup ({f.body.event} \ {0})
           o == s.active \/ ~m.active
           k == s.active
<1>1. /\ s \in Sessions /\ m \in Sessions /\ ws \in Seq(Frames) /\ wm \in Seq(Frames)
      /\ s.active \in BOOLEAN /\ m.active \in BOOLEAN
      /\ Mid("slave", s, m, ws, wm, taken, last, unacked, o, k, TRUE, TRUE)
      /\ m.control = <<>>
      /\ ToSlaveOK(s.active, m.active, ws) /\ ToMasterOK(s.active, m.active, wm)
  BY LinkedParts
<1>2. s.active /\ m.active /\ ToSlaveOK(s.active, m.active, Tail(ws))
  BY <1>1, ToSlaveTail
<1>3. f.body.event = 0
  <2>1. Carries("master", ws, last)
    BY <1>1, TwoEnds DEF Mid
  <2> QED BY <1>1, <2>1, CarriesTail
<1>4. o /\ k
  BY <1>2
<1> HIDE DEF o, k
<1>5. /\ AckValid(s, f.nr) /\ Acknowledged(s, f.nr) \subseteq taken
      /\ f.ns = s.recvSeq
      /\ Mid("slave", z.s, m, Tail(ws), wm \o z.out, more, last, unacked, o, k, TRUE, TRUE)
      /\ Kept(z.s, s)
      /\ z.out \in Seq(Frames) /\ \A i \in 1..Len(z.out) : Data(z.out[i])
  <2> DEFINE end == "slave"
             yes == TRUE
  <2>1. /\ Mid(end, s, m, ws, wm, taken, last, unacked, o, k, yes, yes) /\ o /\ k /\ s.active
        /\ ws # <<>> /\ Head(ws).type = "I" /\ (end = "master" => s.control = <<>>) /\ end \in Ends
    BY <1>1, <1>2, <1>4, TwoEnds
  <2> HIDE DEF end, yes
  <2>2. LET g == Head(ws)
            y == Reply(end, s, g)
            mm == taken \cup ({g.body.event} \ {0}) IN
        /\ AckValid(s, g.nr) /\ Acknowledged(s, g.nr) \subseteq taken
        /\ InSequence(g, s)
        /\ Mid(end, y.s, m, Tail(ws), wm \o y.out, mm, last, unacked, o, k, yes, yes)
        /\ Kept(y.s, s) /\ y.out \in Seq(Frames) /\ AllData(end, y.out)
    BY ONLY <2>1, last \in Nat, MidReceiveI
  <2> QED BY <2>2 DEF end, yes, InSequence, AllData
<1>6. more = taken
  BY <1>3
<1> HIDE DEF f, z, more
<1>7. z.s.active = s.active
  BY <1>5 DEF Kept
<1>8. ToMasterOK(TRUE, m.active, wm \o z.out)
  BY <1>1, <1>2, <1>5, ToMasterMore
<1>9. o = (z.s.active \/ ~m.active) /\ k = z.s.active
  BY <1>7 DEF o, k
<1>10. ToSlaveOK(z.s.active, m.active, Tail(ws)) /\ ToMasterOK(z.s.active, m.active, wm \o z.out)
  BY <1>1, <1>2, <1>7, <1>8
<1>11. Linked(z.s, m, Tail(ws), wm \o z.out, taken, last, unacked)
  BY <1>1, <1>5, <1>6, <1>9, <1>10, LinkedFrom
<1> QED BY <1>2, <1>3, <1>5, <1>11 DEF f, z

\* The master takes data: the event it carries is received.
LEMMA LinkedMasterI ==
    ASSUME NEW s, NEW m, NEW ws, NEW wm, NEW taken, NEW last \in Nat, NEW unacked,
           Linked(s, m, ws, wm, taken, last, unacked), wm # <<>>, Head(wm).type = "I"
    PROVE  LET f == Head(wm)
               z == Reply("master", m, f)
               more == taken \cup ({f.body.event} \ {0}) IN
           /\ m.active /\ AckValid(m, f.nr) /\ Acknowledged(m, f.nr) \subseteq {}
           /\ f.ns = m.recvSeq /\ f.body.event \in 0..last
           /\ Linked(s, z.s, ws \o z.out, Tail(wm), more, last, unacked)
<1> DEFINE f == Head(wm)
           z == Reply("master", m, f)
           more == taken \cup ({f.body.event} \ {0})
           o == s.active \/ ~m.active
           k == s.active
<1>1. /\ s \in Sessions /\ m \in Sessions /\ ws \in Seq(Frames) /\ wm \in Seq(Frames)
      /\ s.active \in BOOLEAN /\ m.active \in BOOLEAN
      /\ Mid("master", m, s, wm, ws, taken, last, unacked, TRUE, TRUE, o, k)
      /\ m.control = <<>>
      /\ ToSlaveOK(s.active, m.active, ws) /\ ToMasterOK(s.active, m.active, wm)
  BY LinkedParts
<1>2. m.active /\ ToMasterOK(s.active, m.active, Tail(wm))
  BY <1>1, ToMasterTail DEF Data
<1>3. f.body.event \in 0..last
  <2>1. Carries("slave", wm, last)
    BY <1>1, TwoEnds DEF Mid
  <2> QED BY <1>1, <2>1, CarriesTail
<1> HIDE DEF o, k
<1>5. /\ AckValid(m, f.nr)
      /\ f.ns = m.recvSeq
      /\ Mid("master", z.s, s, Tail(wm), ws \o z.out, more, last, unacked, TRUE, TRUE, o, k)
      /\ Kept(z.s, m) /\ z.s.control = <<>>
      /\ z.out \in Seq(Frames) /\ \A i \in 1..Len(z.out) : z.out[i].type = "S"
  <2> DEFINE end == "master"
             yes == TRUE
  <2>1. /\ Mid(end, m, s, wm, ws, taken, last, unacked, yes, yes, o, k) /\ yes /\ m.active
        /\ wm # <<>> /\ Head(wm).type = "I" /\ (end = "master" => m.control = <<>>) /\ end \in Ends
    BY <1>1, <1>2, TwoEnds
  <2> HIDE DEF end, yes
  <2>2. LET g == Head(wm)
            y == Reply(end, m, g)
            mm == taken \cup ({g.body.event} \ {0}) IN
        /\ AckValid(m, g.nr)
        /\ InSequence(g, m)
        /\ Mid(end, y.s, s, Tail(wm), ws \o y.out, mm, last, unacked, yes, yes, o, k)
        /\ Kept(y.s, m) /\ NoControl(end, y.s) /\ y.out \in Seq(Frames) /\ AllData(end, y.out)
    BY ONLY <2>1, last \in Nat, MidReceiveI
  <2> QED BY <2>2 DEF end, yes, InSequence, AllData, NoControl
<1>6. Acknowledged(m, f.nr) \subseteq {}
  <2>1. \A i \in 1..Len(m.sent) : m.sent[i] = 0
    BY <1>1 DEF Mid, Side
  <2>2. Windowed(m) /\ m.acked \in SeqNumbers /\ Len(m.sent) = m.unacked /\ Len(m.sent) \in Nat
    BY <1>1, OutgoingIs DEF Mid, Pair, Windowed, Sessions
  <2>3. Data(Head(wm))
    BY DEF Data
  <2>4. f.nr \in SeqNumbers /\ Distance(m.acked, f.nr) <= m.unacked
    BY <1>1, <2>3, BothAcked DEF Mid
  <2>5. Distance(m.acked, f.nr) \in Nat
    BY <2>2, <2>4, DistanceIs
  <2> DEFINE d == Distance(m.acked, f.nr)
  <2>6. \A i \in 1..d : i \in 1..Len(m.sent)
    <3> HIDE DEF d
    <3>1. d \in Nat /\ d <= Len(m.sent)
      BY <2>2, <2>4, <2>5 DEF d
    <3> QED BY <2>2, <3>1
  <2> QED BY <2>1, <2>6 DEF Acknowledged
<1> HIDE DEF f, z, more
<1>7. z.s.active = m.active
  BY <1>5 DEF Kept
<1>8. ToSlaveOK(s.active, TRUE, ws \o z.out)
  BY <1>1, <1>2, <1>5, ToSlaveMore
<1>9. o = (s.active \/ ~z.s.active) /\ k = s.active
  BY <1>7 DEF o, k
<1>10. ToSlaveOK(s.active, z.s.active, ws \o z.out) /\ ToMasterOK(s.active, z.s.active, Tail(wm))
  BY <1>1, <1>2, <1>7, <1>8
<1>11. Linked(s, z.s, ws \o z.out, Tail(wm), more, last, unacked)
  BY <1>5, <1>9, <1>10, LinkedFrom
<1> QED BY <1>2, <1>3, <1>5, <1>6, <1>11 DEF f, z, more

\* A new session.
LEMMA NewSessionIs ==
    /\ NewSession \in Sessions /\ Windowed(NewSession) /\ ~NewSession.active /\ NewSession.control = <<>>
    /\ \A end \in Ends : \A taken, last, unacked : Side(end, NewSession, taken, last, unacked)
    /\ \A taken : Flow(NewSession, NewSession.recvSeq, <<>>, taken, TRUE)
    /\ Acks(NewSession, NewSession.recvSeq, <<>>)
<1> DEFINE s == NewSession
<1>1. 0 \in SeqNumbers /\ <<>> \in Seq(EventNumbers) /\ <<>> \in Seq(Asdus) /\ 0 < SeqMod
  BY SeqModBound DEF SeqNumbers
<1>2. s \in Sessions
  BY <1>1 DEF NewSession, Sessions
<1>3. /\ s.active = FALSE /\ s.sendSeq = 0 /\ s.acked = 0 /\ s.unacked = 0 /\ s.recvSeq = 0
      /\ s.sinceAck = 0 /\ s.sent = <<>> /\ s.control = <<>> /\ s.pending = <<>> /\ s.seen = {}
  BY DEF NewSession
<1> HIDE DEF s
<1>4. Plus(0, 0) = 0 /\ Distance(0, 0) = 0
  BY <1>1, PlusZero, DistanceIs
<1>5. Windowed(s)
  BY <1>1, <1>3, <1>4 DEF Windowed
<1>6. OutgoingOf(s) \in Seq(EventNumbers) /\ Len(OutgoingOf(s)) = 0
  <2>1. Len(s.sent) = 0 /\ Len(s.pending) = 0
    BY <1>3
  <2>2. OutgoingOf(s) \in Seq(EventNumbers) /\ Len(OutgoingOf(s)) = Len(s.sent) + Len(s.pending)
    BY <1>2, OutgoingIs
  <2> QED BY <2>1, <2>2
<1>7. ASSUME NEW end \in Ends, NEW taken, NEW last, NEW unacked
      PROVE  Side(end, s, taken, last, unacked)
  <2>1. OutgoingOK(OutgoingOf(s), s.seen, taken, unacked)
    BY <1>3, <1>6 DEF OutgoingOK, InOrder
  <2>2. QueuesOK(s, taken, last, unacked)
    BY <1>3, <2>1 DEF QueuesOK
  <2>3. K[end] \in Nat /\ W[end] \in Nat \ {0} /\ 0 <= K[end] /\ 0 < W[end]
    BY SeqModBound, SessionAssumption
  <2>4. Len(s.control) = 0 /\ Len(s.sent) = 0
    BY <1>3
  <2> QED BY <1>3, <2>2, <2>3, <2>4 DEF Side
<1>8. ASSUME NEW taken PROVE Flow(s, s.recvSeq, <<>>, taken, TRUE)
  <2> DEFINE c == [i \in 1..1 |-> 0]
             w == <<>>
  <2>1. Len(w) = 0 /\ w \in Seq(Frames)
    OBVIOUS
  <2>2. c \in [1..1 -> Nat] /\ c[1] = 0
    OBVIOUS
  <2> HIDE DEF c, w
  <2>3. Counts(c, w)
    BY <2>1, <2>2 DEF Counts
  <2>4. Numbered(c, s, 0, w)
    BY <1>1, <1>3, <1>4, <2>1, <2>2 DEF Numbered
  <2>5. InWindow(c, s, 0, w, taken)
    BY <1>3, <1>4, <2>1, <2>2 DEF InWindow
  <2>6. Flow(s, 0, w, taken, TRUE)
    BY <2>3, <2>4, <2>5 DEF Flow, FlowBy
  <2> QED BY <1>3, <2>6 DEF w
<1>9. Acks(s, s.recvSeq, <<>>)
  BY DEF Acks
<1> QED BY <1>2, <1>3, <1>5, <1>7, <1>8, <1>9 DEF s

\* A new connection.
LEMMA LinkedFresh ==
    ASSUME NEW taken, NEW last, NEW unacked
    PROVE  Linked(NewSession, NewSession, <<>>, <<>>, taken, last, unacked)
<1> DEFINE s == NewSession
<1>1. /\ s \in Sessions /\ Windowed(s) /\ ~s.active /\ s.control = <<>>
      /\ Side("slave", s, taken, last, unacked) /\ Side("master", s, taken, last, unacked)
      /\ Flow(s, s.recvSeq, <<>>, taken, TRUE) /\ Acks(s, s.recvSeq, <<>>)
  BY NewSessionIs, TwoEnds
<1> HIDE DEF s
<1>2. Both(s, s, <<>>, <<>>, taken, TRUE, FALSE, TRUE, TRUE)
  BY <1>1 DEF Both
<1>3. Pair(s, s, <<>>, <<>>, TRUE, FALSE, TRUE, TRUE)
  BY <1>1 DEF Pair
<1>4. Carries("slave", <<>>, last) /\ Carries("master", <<>>, last)
  BY DEF Carries
<1>5. Mid("slave", s, s, <<>>, <<>>, taken, last, unacked, TRUE, FALSE, TRUE, TRUE)
  BY <1>1, <1>2, <1>3, <1>4, TwoEnds DEF Mid
<1>6. s.active = FALSE
  BY <1>1 DEF Sessions
<1>7. ToSlaveOK(s.active, s.active, <<>>) /\ ToMasterOK(s.active, s.active, <<>>)
  BY <1>6 DEF ToSlaveOK, ToMasterOK
<1>8. Linked(s, s, <<>>, <<>>, taken, last, unacked)
  BY <1>1, <1>5, <1>6, <1>7, LinkedFrom
<1> QED BY <1>8 DEF s

\* Fewer unacknowledged events, and newer ones, change nothing.
LEMMA LinkedFewer ==
    ASSUME NEW s, NEW m, NEW ws, NEW wm, NEW taken, NEW last \in Nat, NEW unacked,
           Linked(s, m, ws, wm, taken, last, unacked),
           NEW newest \in Nat, last <= newest, NEW fewer, fewer \cap (1..last) \subseteq unacked
    PROVE  Linked(s, m, ws, wm, taken, newest, fewer)
<1> DEFINE o == s.active \/ ~m.active
           k == s.active
           out == OutgoingOf(s)
<1>1. /\ s \in Sessions
      /\ Mid("slave", s, m, ws, wm, taken, last, unacked, o, k, TRUE, TRUE)
      /\ m.control = <<>>
      /\ ToSlaveOK(s.active, m.active, ws) /\ ToMasterOK(s.active, m.active, wm)
  BY LinkedParts
<1> HIDE DEF o, k
<1>2. /\ Pair(s, m, ws, wm, o, k, TRUE, TRUE) /\ Both(s, m, ws, wm, taken, o, k, TRUE, TRUE)
      /\ Side("slave", s, taken, last, unacked) /\ Side("master", m, taken, last, unacked)
      /\ Carries("slave", wm, last) /\ Carries("master", ws, last)
  BY <1>1, TwoEnds DEF Mid
<1>3. 1..last \subseteq 1..newest /\ 0..last \subseteq 0..newest
  OBVIOUS
<1>4. QueuesOK(s, taken, newest, fewer)
  <2>1. QueuesOK(s, taken, last, unacked)
    BY <1>2 DEF Side
  <2>2. s.seen \subseteq 1..last /\ \A i \in 1..Len(out) : out[i] \in s.seen \cup {0}
    BY <2>1 DEF QueuesOK, OutgoingOK
  <2>3. InOrder(out, fewer)
    <3> SUFFICES ASSUME NEW i \in 1..Len(out), NEW j \in 1..Len(out), i < j, out[i] # 0, out[j] # 0
                 PROVE  out[i] # out[j] /\ (out[j] \in fewer => out[i] < out[j])
      BY DEF InOrder
    <3>1. out[i] # out[j] /\ (out[j] \in unacked => out[i] < out[j])
      BY <2>1 DEF QueuesOK, OutgoingOK, InOrder
    <3>2. out[j] \in 1..last
      BY <2>2
    <3> QED BY <3>1, <3>2
  <2> QED BY <1>3, <2>1, <2>3 DEF QueuesOK, OutgoingOK
<1>5. Side("slave", s, taken, newest, fewer)
  BY <1>2, <1>4 DEF Side
<1>6. Side("master", m, taken, newest, fewer)
  BY <1>2 DEF Side
<1>7. Carries("slave", wm, newest) /\ Carries("master", ws, newest)
  BY <1>2, <1>3 DEF Carries
<1>8. Mid("slave", s, m, ws, wm, taken, newest, fewer, o, k, TRUE, TRUE)
  BY <1>2, <1>5, <1>6, <1>7, TwoEnds DEF Mid
<1> QED BY <1>1, <1>8 DEF Linked, o, k

\* What an acknowledgement does to a session.
LEMMA AckedBy ==
    ASSUME NEW end, NEW s, NEW nr
    PROVE  AfterAck(end, s, nr) = TrySendPending(end, AckedTo(s, nr))
BY DEF AfterAck, AckedTo

\* An acknowledgement that arrives while the transfer is active.
LEMMA MidReceiveS ==
    ASSUME NEW end \in Ends, NEW x, NEW y, NEW wx, NEW wy, NEW taken, NEW last \in Nat, NEW unacked,
           NEW ox, NEW kx, NEW oy, NEW ky,
           Mid(end, x, y, wx, wy, taken, last, unacked, ox, kx, oy, ky), ox, kx,
           wx # <<>>, Head(wx).type = "S", end = "master" => x.control = <<>>
    PROVE  LET nr == Head(wx).nr
               a == AfterAck(end, x, nr) IN
           /\ AckValid(x, nr) /\ Acknowledged(x, nr) \subseteq taken
           /\ Mid(end, a.s, y, Tail(wx), wy \o a.out, taken, last, unacked, ox, kx, oy, ky)
           /\ Kept(a.s, x) /\ NoControl(end, a.s)
           /\ a.out \in Seq(Frames) /\ \A i \in 1..Len(a.out) : a.out[i].type = "I"
           /\ end = "master" => a.out = <<>>
<1> DEFINE nr == Head(wx).nr
           b == AckedTo(x, nr)
           a == AfterAck(end, x, nr)
           v == Tail(wx)
<1>1. /\ AckValid(x, nr) /\ Acknowledged(x, nr) \subseteq taken
      /\ Mid(end, b, y, wx, wy, taken, last, unacked, ox, kx, oy, ky)
      /\ Alike(b, x) /\ SameQueues(b, x)
  <2>1. Data(Head(wx))
    BY DEF Data
  <2>2. Mid(end, x, y, wx, wy, taken, last, unacked, ox, kx, oy, ky) /\ wx # <<>> /\ kx
    OBVIOUS
  <2> QED BY ONLY end \in Ends, last \in Nat, <2>1, <2>2, MidAcked
<1>2. a = TrySendPending(end, b)
  BY AckedBy
<1> HIDE DEF b, a
<1>3. Mid(end, b, y, v, wy, taken, last, unacked, ox, kx, oy, ky)
  BY <1>1, MidRead
<1> HIDE DEF v
<1>4. /\ Mid(end, a.s, y, v, wy \o a.out, taken, last, unacked, ox, kx, oy, ky)
      /\ Alike(a.s, b)
      /\ a.out \in Seq(Frames)
      /\ \A i \in 1..Len(a.out) : a.out[i].type = "I"
      /\ end = "master" => a.s.control = <<>>
      /\ b.control = <<>> /\ b.pending = <<>> => a.out = <<>>
  BY <1>2, <1>3, MidSend
<1>5. end = "master" => a.out = <<>>
  <2>1. end = "master" => x.pending = <<>>
    BY DEF Mid, Side
  <2> QED BY <1>1, <1>4, <2>1 DEF SameQueues
<1>6. Kept(a.s, x) /\ NoControl(end, a.s)
  BY <1>1, <1>4 DEF Alike, Kept, NoControl
<1> QED BY <1>1, <1>4, <1>5, <1>6 DEF v, a, nr

\* The slave takes an acknowledgement.
LEMMA LinkedSlaveS ==
    ASSUME NEW s, NEW m, NEW ws, NEW wm, NEW taken, NEW last \in Nat, NEW unacked,
           Linked(s, m, ws, wm, taken, last, unacked), ws # <<>>, Head(ws).type = "S"
    PROVE  LET nr == Head(ws).nr
               a == AfterAck("slave", s, nr) IN
           /\ ~s.active => Linked(s, m, Tail(ws), wm, taken, last, unacked)
           /\ s.active =>
                 /\ AckValid(s, nr) /\ Acknowledged(s, nr) \subseteq taken
                 /\ Linked(a.s, m, Tail(ws), wm \o a.out, taken, last, unacked) /\ Kept(a.s, s)
<1> DEFINE o == s.active \/ ~m.active
           k == s.active
           v == Tail(ws)
<1>1. /\ s \in Sessions /\ m \in Sessions /\ ws \in Seq(Frames) /\ wm \in Seq(Frames)
      /\ s.active \in BOOLEAN /\ m.active \in BOOLEAN
      /\ Mid("slave", s, m, ws, wm, taken, last, unacked, o, k, TRUE, TRUE)
      /\ m.control = <<>>
      /\ ToSlaveOK(s.active, m.active, ws) /\ ToMasterOK(s.active, m.active, wm)
  BY LinkedParts
<1>2. ToSlaveOK(s.active, m.active, v)
  BY <1>1, ToSlaveTail
<1>3. ~s.active => Linked(s, m, v, wm, taken, last, unacked)
  <2>1. Mid("slave", s, m, v, wm, taken, last, unacked, o, k, TRUE, TRUE)
    <3> HIDE DEF o, k
    <3> QED BY <1>1, TwoEnds, MidRead
  <2> QED BY <1>1, <1>2, <2>1 DEF Linked
<1>4. ASSUME s.active
      PROVE  LET nr == Head(ws).nr
                 a == AfterAck("slave", s, nr) IN
             /\ AckValid(s, nr) /\ Acknowledged(s, nr) \subseteq taken
             /\ Linked(a.s, m, v, wm \o a.out, taken, last, unacked) /\ Kept(a.s, s)
  <2> DEFINE end == "slave"
             yes == TRUE
             a == AfterAck("slave", s, Head(ws).nr)
  <2>0. o /\ k
    BY <1>4
  <2> HIDE DEF o, k
  <2>1. /\ Mid(end, s, m, ws, wm, taken, last, unacked, o, k, yes, yes) /\ o /\ k
        /\ ws # <<>> /\ Head(ws).type = "S" /\ (end = "master" => s.control = <<>>) /\ end \in Ends
    BY <1>1, <2>0, TwoEnds
  <2> HIDE DEF end, yes
  <2>2. LET n == Head(ws).nr
            z == AfterAck(end, s, n) IN
        /\ AckValid(s, n) /\ Acknowledged(s, n) \subseteq taken
        /\ Mid(end, z.s, m, Tail(ws), wm \o z.out, taken, last, unacked, o, k, yes, yes)
        /\ Kept(z.s, s)
        /\ z.out \in Seq(Frames) /\ \A i \in 1..Len(z.out) : z.out[i].type = "I"
    BY ONLY <2>1, last \in Nat, MidReceiveS
  <2>3. /\ AckValid(s, Head(ws).nr) /\ Acknowledged(s, Head(ws).nr) \subseteq taken
        /\ Mid("slave", a.s, m, v, wm \o a.out, taken, last, unacked, o, k, TRUE, TRUE)
        /\ Kept(a.s, s)
        /\ a.out \in Seq(Frames) /\ \A i \in 1..Len(a.out) : a.out[i].type = "I"
    BY <2>2 DEF end, yes
  <2> HIDE DEF a, v
  <2>4. a.s.active = s.active
    BY <2>3 DEF Kept
  <2>5. ToMasterOK(TRUE, m.active, wm \o a.out)
    BY <1>1, <1>4, <2>3, ToMasterMore DEF Data
  <2>6. o = (a.s.active \/ ~m.active) /\ k = a.s.active
    BY <2>4 DEF o, k
  <2>7. ToSlaveOK(a.s.active, m.active, v) /\ ToMasterOK(a.s.active, m.active, wm \o a.out)
    BY <1>1, <1>2, <1>4, <2>4, <2>5
  <2>8. Linked(a.s, m, v, wm \o a.out, taken, last, unacked)
    BY <1>1, <2>3, <2>6, <2>7, LinkedFrom
  <2> QED BY <2>3, <2>8 DEF a
<1> QED BY <1>3, <1>4 DEF v

\* The master sent no event: an acknowledgement covers none.
LEMMA MasterAcks ==
    ASSUME NEW m, NEW s, NEW wm, NEW ws, NEW taken, NEW last, NEW unacked, NEW o, NEW k,
           Mid("master", m, s, wm, ws, taken, last, unacked, TRUE, TRUE, o, k),
           wm # <<>>, Data(Head(wm))
    PROVE  Acknowledged(m, Head(wm).nr) \subseteq {}
<1> DEFINE f == Head(wm)
<1>1. \A i \in 1..Len(m.sent) : m.sent[i] = 0
  BY DEF Mid, Side
<1>2. Windowed(m) /\ m.acked \in SeqNumbers /\ Len(m.sent) = m.unacked /\ Len(m.sent) \in Nat
  BY OutgoingIs DEF Mid, Pair, Windowed, Sessions
<1>3. f.nr \in SeqNumbers /\ Distance(m.acked, f.nr) <= m.unacked
  BY BothAcked DEF Mid
<1>4. Distance(m.acked, f.nr) \in Nat
  BY <1>2, <1>3, DistanceIs
<1> DEFINE d == Distance(m.acked, f.nr)
<1>5. \A i \in 1..d : i \in 1..Len(m.sent)
  <2> HIDE DEF d
  <2>1. d \in Nat /\ d <= Len(m.sent)
    BY <1>2, <1>3, <1>4 DEF d
  <2> QED BY <1>2, <2>1
<1> QED BY <1>1, <1>5 DEF Acknowledged

\* The master takes an acknowledgement.
LEMMA LinkedMasterS ==
    ASSUME NEW s, NEW m, NEW ws, NEW wm, NEW taken, NEW last \in Nat, NEW unacked,
           Linked(s, m, ws, wm, taken, last, unacked), wm # <<>>, Head(wm).type = "S"
    PROVE  LET nr == Head(wm).nr
               a == AfterAck("master", m, nr) IN
           /\ m.active /\ AckValid(m, nr) /\ Acknowledged(m, nr) \subseteq {}
           /\ Linked(s, a.s, ws \o a.out, Tail(wm), taken, last, unacked)
<1> DEFINE o == s.active \/ ~m.active
           k == s.active
           v == Tail(wm)
           a == AfterAck("master", m, Head(wm).nr)
<1>1. /\ s \in Sessions /\ m \in Sessions /\ ws \in Seq(Frames) /\ wm \in Seq(Frames)
      /\ s.active \in BOOLEAN /\ m.active \in BOOLEAN
      /\ Mid("master", m, s, wm, ws, taken, last, unacked, TRUE, TRUE, o, k)
      /\ m.control = <<>>
      /\ ToSlaveOK(s.active, m.active, ws) /\ ToMasterOK(s.active, m.active, wm)
  BY LinkedParts
<1>0. Data(Head(wm))
  BY DEF Data
<1>2. m.active /\ ToMasterOK(s.active, m.active, v)
  BY <1>0, <1>1, ToMasterTail
<1> HIDE DEF o, k
<1>3. /\ AckValid(m, Head(wm).nr)
      /\ Mid("master", a.s, s, v, ws \o a.out, taken, last, unacked, TRUE, TRUE, o, k)
      /\ Kept(a.s, m) /\ a.s.control = <<>> /\ a.out = <<>>
  <2> DEFINE end == "master"
             yes == TRUE
  <2>1. /\ Mid(end, m, s, wm, ws, taken, last, unacked, yes, yes, o, k) /\ yes
        /\ wm # <<>> /\ Head(wm).type = "S" /\ (end = "master" => m.control = <<>>) /\ end \in Ends
    BY <1>1, TwoEnds
  <2> HIDE DEF end, yes
  <2>2. LET n == Head(wm).nr
            z == AfterAck(end, m, n) IN
        /\ AckValid(m, n)
        /\ Mid(end, z.s, s, Tail(wm), ws \o z.out, taken, last, unacked, yes, yes, o, k)
        /\ Kept(z.s, m) /\ NoControl(end, z.s)
        /\ end = "master" => z.out = <<>>
    BY ONLY <2>1, last \in Nat, MidReceiveS
  <2> QED BY <2>2 DEF end, yes, NoControl
<1>4. Acknowledged(m, Head(wm).nr) \subseteq {}
  BY <1>0, <1>1, MasterAcks
<1> HIDE DEF a, v
<1>5. a.s.active = m.active
  BY <1>3 DEF Kept
<1>6. ws \o a.out = ws
  BY <1>1, <1>3
<1>7. o = (s.active \/ ~a.s.active) /\ k = s.active
  BY <1>5 DEF o, k
<1>8. Linked(s, a.s, ws \o a.out, v, taken, last, unacked)
  BY <1>1, <1>2, <1>3, <1>5, <1>6, <1>7, LinkedFrom
<1> QED BY <1>2, <1>3, <1>4, <1>8 DEF a, v

\* The slave acknowledges on its own.
LEMMA LinkedLateSlave ==
    ASSUME NEW s, NEW m, NEW ws, NEW wm, NEW taken, NEW last \in Nat, NEW unacked,
           Linked(s, m, ws, wm, taken, last, unacked), s.active
    PROVE  LET a == SendSFrame(s) IN
           Linked(a.s, m, ws, wm \o a.out, taken, last, unacked) /\ Kept(a.s, s)
<1> DEFINE o == s.active \/ ~m.active
           k == s.active
           a == SendSFrame(s)
<1>1. /\ s \in Sessions /\ m \in Sessions /\ ws \in Seq(Frames) /\ wm \in Seq(Frames)
      /\ s.active \in BOOLEAN /\ m.active \in BOOLEAN
      /\ Mid("slave", s, m, ws, wm, taken, last, unacked, o, k, TRUE, TRUE)
      /\ m.control = <<>>
      /\ ToSlaveOK(s.active, m.active, ws) /\ ToMasterOK(s.active, m.active, wm)
  BY LinkedParts
<1> HIDE DEF o, k
<1>2. /\ Mid("slave", a.s, m, ws, wm \o a.out, taken, last, unacked, o, k, TRUE, TRUE)
      /\ Alike(a.s, s) /\ SameQueues(a.s, s)
      /\ a.out \in Seq(Frames) /\ \A i \in 1..Len(a.out) : a.out[i].type = "S"
  BY <1>1, TwoEnds, MidLate
<1> HIDE DEF a
<1>3. Kept(a.s, s) /\ a.s.active = s.active
  BY <1>2 DEF Alike, Kept
<1>4. ToMasterOK(TRUE, m.active, wm \o a.out)
  BY <1>1, <1>2, ToMasterMore DEF Data
<1>5. o = (a.s.active \/ ~m.active) /\ k = a.s.active
  BY <1>3 DEF o, k
<1>6. ToSlaveOK(a.s.active, m.active, ws) /\ ToMasterOK(a.s.active, m.active, wm \o a.out)
  BY <1>1, <1>3, <1>4
<1>7. Linked(a.s, m, ws, wm \o a.out, taken, last, unacked)
  BY <1>1, <1>2, <1>5, <1>6, LinkedFrom
<1> QED BY <1>3, <1>7 DEF a

\* The master acknowledges on its own.
LEMMA LinkedLateMaster ==
    ASSUME NEW s, NEW m, NEW ws, NEW wm, NEW taken, NEW last \in Nat, NEW unacked,
           Linked(s, m, ws, wm, taken, last, unacked), m.active
    PROVE  LET a == SendSFrame(m) IN
           Linked(s, a.s, ws \o a.out, wm, taken, last, unacked)
<1> DEFINE o == s.active \/ ~m.active
           k == s.active
           a == SendSFrame(m)
<1>1. /\ s \in Sessions /\ m \in Sessions /\ ws \in Seq(Frames) /\ wm \in Seq(Frames)
      /\ s.active \in BOOLEAN /\ m.active \in BOOLEAN
      /\ Mid("master", m, s, wm, ws, taken, last, unacked, TRUE, TRUE, o, k)
      /\ m.control = <<>>
      /\ ToSlaveOK(s.active, m.active, ws) /\ ToMasterOK(s.active, m.active, wm)
  BY LinkedParts
<1> HIDE DEF o, k
<1>2. /\ Mid("master", a.s, s, wm, ws \o a.out, taken, last, unacked, TRUE, TRUE, o, k)
      /\ Alike(a.s, m) /\ SameQueues(a.s, m)
      /\ a.out \in Seq(Frames) /\ \A i \in 1..Len(a.out) : a.out[i].type = "S"
  BY <1>1, TwoEnds, MidLate
<1> HIDE DEF a
<1>3. a.s.active = m.active /\ a.s.control = <<>>
  BY <1>1, <1>2 DEF Alike, Kept, SameQueues
<1>4. ToSlaveOK(s.active, TRUE, ws \o a.out)
  <2>1. ToSlaveOK(s.active, TRUE, ws) /\ \A i \in 1..Len(a.out) : a.out[i].type \in {"S", "STOPDT_ACT"}
    BY <1>1, <1>2
  <2> QED BY <1>1, <1>2, <2>1, ToSlaveMore
<1>5. o = (s.active \/ ~a.s.active) /\ k = s.active
  BY <1>3 DEF o, k
<1>6. ToSlaveOK(s.active, a.s.active, ws \o a.out) /\ ToMasterOK(s.active, a.s.active, wm)
  BY <1>1, <1>3, <1>4
<1>7. Linked(s, a.s, ws \o a.out, wm, taken, last, unacked)
  BY <1>2, <1>3, <1>5, <1>6, LinkedFrom
<1> QED BY <1>7 DEF a

\* What the master asks for: to start, or to stop.
LEMMA LinkedRequest ==
    ASSUME NEW s, NEW m, NEW ws, NEW wm, NEW taken, NEW last \in Nat, NEW unacked,
           Linked(s, m, ws, wm, taken, last, unacked), NEW f \in Frames,
           \/ /\ f.type = "STARTDT_ACT" /\ ~m.active /\ ~s.active
              /\ \A i \in 1..Len(ws) : ws[i].type # "STARTDT_ACT"
           \/ f.type = "STOPDT_ACT" /\ m.active
    PROVE  Linked(s, m, ws \o <<f>>, wm, taken, last, unacked)
<1> DEFINE o == s.active \/ ~m.active
           k == s.active
           x == <<f>>
<1>1. /\ s \in Sessions /\ m \in Sessions /\ ws \in Seq(Frames) /\ wm \in Seq(Frames)
      /\ s.active \in BOOLEAN /\ m.active \in BOOLEAN
      /\ Mid("master", m, s, wm, ws, taken, last, unacked, TRUE, TRUE, o, k)
      /\ m.control = <<>>
      /\ ToSlaveOK(s.active, m.active, ws) /\ ToMasterOK(s.active, m.active, wm)
  BY LinkedParts
<1>2. Mid("master", m, s, wm, ws \o <<f>>, taken, last, unacked, TRUE, TRUE, o, k)
  <2> HIDE DEF o, k
  <2> QED BY <1>1, TwoEnds, MidWrite
<1>3. ToSlaveOK(s.active, m.active, ws \o <<f>>)
  <2>1. CASE f.type = "STOPDT_ACT" /\ m.active
    <3>1. x \in Seq(Frames) /\ \A i \in 1..Len(x) : x[i].type \in {"S", "STOPDT_ACT"}
      BY <2>1
    <3>2. ToSlaveOK(s.active, TRUE, ws)
      BY <1>1, <2>1
    <3> HIDE DEF x
    <3>3. ToSlaveOK(s.active, TRUE, ws \o x)
      BY <1>1, <3>1, <3>2, ToSlaveMore
    <3> QED BY <1>1, <2>1, <3>3 DEF x
  <2>2. CASE /\ f.type = "STARTDT_ACT" /\ ~m.active /\ ~s.active
             /\ \A i \in 1..Len(ws) : ws[i].type # "STARTDT_ACT"
    <3>1. s.active = FALSE /\ m.active = FALSE
      BY <1>1, <2>2
    <3>2. ToSlaveOK(FALSE, FALSE, ws)
      BY <1>1, <3>1
    <3> QED BY <1>1, <2>2, <3>1, <3>2, ToSlaveRequest
  <2> QED BY <2>1, <2>2
<1> QED BY <1>1, <1>2, <1>3, LinkedFrom

\* A window that is empty: the end that stops.
LEMMA MidClosed ==
    ASSUME NEW end \in Ends, NEW x, NEW y, NEW wx, NEW wy, NEW taken, NEW last, NEW unacked,
           NEW ox, NEW kx, NEW oy, NEW ky,
           Mid(end, x, y, wx, wy, taken, last, unacked, ox, kx, oy, ky),
           NEW t \in Sessions, t.sendSeq = x.sendSeq, t.acked = t.sendSeq, t.unacked = 0,
           t.sent = <<>>, t.recvSeq = x.recvSeq, Side(end, t, taken, last, unacked),
           NEW o \in BOOLEAN, o => \A i \in 1..Len(wy) : wy[i].type # "I"
    PROVE  Mid(end, t, y, wx, wy, taken, last, unacked, o, FALSE, oy, ky)
<1>1. /\ Pair(x, y, wx, wy, ox, kx, oy, ky) /\ Both(x, y, wx, wy, taken, ox, kx, oy, ky)
      /\ Side(Peer(end), y, taken, last, unacked)
      /\ Carries(end, wy, last) /\ Carries(Peer(end), wx, last)
  BY DEF Mid
<1>2. /\ y.recvSeq \in SeqNumbers /\ wy \in Seq(Frames) /\ t.sendSeq \in SeqNumbers
      /\ Flow(x, y.recvSeq, wy, taken, ox)
  BY <1>1 DEF Pair, Both, Sessions
<1>3. Flow(t, y.recvSeq, wy, taken, o)
  <2>1. CASE o
    <3> DEFINE r == y.recvSeq
    <3>1. r \in SeqNumbers /\ Flow(x, r, wy, taken, ox) /\ \A i \in 1..Len(wy) : wy[i].type # "I"
      BY <1>2, <2>1
    <3> HIDE DEF r
    <3>2. Flow(t, r, wy, taken, TRUE)
      BY ONLY <1>2, <3>1, FlowFresh, t \in Sessions, t.sendSeq = x.sendSeq, t.acked = t.sendSeq, t.unacked = 0
    <3> QED BY <2>1, <3>2 DEF r
  <2>2. CASE ~o
    <3>1. Flow(t, y.recvSeq, wy, taken, FALSE)
      BY <1>2, FlowClosed
    <3> QED BY <2>2, <3>1
  <2> QED BY <2>1, <2>2
<1>4. Both(t, y, wx, wy, taken, o, FALSE, oy, ky)
  BY <1>1, <1>3 DEF Both
<1>5. Windowed(t)
  <2>1. Plus(t.acked, 0) = t.acked /\ Len(t.sent) = 0 /\ 0 < SeqMod
    BY <1>2, PlusZero, SeqModBound
  <2> QED BY <2>1 DEF Windowed
<1>6. Pair(t, y, wx, wy, o, FALSE, oy, ky)
  BY <1>1, <1>5 DEF Pair
<1> QED BY <1>1, <1>4, <1>6 DEF Mid

\* A session whose transfer was stopped.
LEMMA DeactivatedIs ==
    ASSUME NEW s \in Sessions
    PROVE  LET t == Deactivated(s) IN
           /\ t \in Sessions /\ t.active = FALSE /\ t.sendSeq = s.sendSeq /\ t.acked = t.sendSeq
           /\ t.unacked = 0 /\ t.sent = <<>> /\ t.recvSeq = s.recvSeq /\ t.control = <<>>
           /\ t.pending = <<>> /\ t.seen = {} /\ t.sinceAck = 0
           /\ \A end \in Ends : \A taken, last, unacked : Side(end, t, taken, last, unacked)
<1> DEFINE t == Deactivated(s)
<1>1. t \in Sessions
  <2> DEFINE es == <<>>
             as == <<>>
             none == {}
  <2>1. es \in Seq(EventNumbers) /\ as \in Seq(Asdus) /\ none \in SUBSET Events
    OBVIOUS
  <2> HIDE DEF es, as, none
  <2>2. s.sendSeq \in SeqNumbers /\ 0 \in Nat
    BY DEF Sessions
  <2>3. t = [s EXCEPT !.active = FALSE, !.ackPending = FALSE, !.sinceAck = 0, !.unacked = 0,
                      !.acked = s.sendSeq, !.control = as, !.pending = as, !.sent = es, !.seen = none]
    BY DEF Deactivated, es, as, none
  <2> QED BY <2>1, <2>2, <2>3 DEF Sessions
<1>2. /\ t.active = FALSE /\ t.sendSeq = s.sendSeq /\ t.acked = t.sendSeq
      /\ t.unacked = 0 /\ t.sent = <<>> /\ t.recvSeq = s.recvSeq /\ t.control = <<>>
      /\ t.pending = <<>> /\ t.seen = {} /\ t.sinceAck = 0
  BY DEF Deactivated, Sessions
<1> HIDE DEF t
<1>3. Len(t.sent) = 0 /\ Len(t.pending) = 0 /\ Len(t.control) = 0
  BY <1>2
<1>4. OutgoingOf(t) \in Seq(EventNumbers) /\ Len(OutgoingOf(t)) = Len(t.sent) + Len(t.pending)
  BY <1>1, OutgoingIs
<1>5. Len(OutgoingOf(t)) = 0
  BY <1>3, <1>4
<1>6. ASSUME NEW end \in Ends, NEW taken, NEW last, NEW unacked
      PROVE  Side(end, t, taken, last, unacked)
  <2>1. OutgoingOK(OutgoingOf(t), t.seen, taken, unacked)
    BY <1>2, <1>5 DEF OutgoingOK, InOrder
  <2>2. QueuesOK(t, taken, last, unacked)
    BY <1>2, <1>3, <2>1 DEF QueuesOK
  <2>3. K[end] \in Nat /\ W[end] \in Nat \ {0} /\ 0 <= K[end] /\ 0 < W[end]
    BY SeqModBound, SessionAssumption
  <2> QED BY <1>2, <1>3, <2>2, <2>3 DEF Side
<1> QED BY <1>1, <1>2, <1>6 DEF t

\* The slave stops the transfer and confirms it.
LEMMA LinkedStop ==
    ASSUME NEW s, NEW m, NEW ws, NEW wm, NEW taken, NEW last \in Nat, NEW unacked,
           Linked(s, m, ws, wm, taken, last, unacked), ws # <<>>, Head(ws).type = "STOPDT_ACT",
           NEW f \in Frames, f.type = "STOPDT_CON"
    PROVE  Linked(Deactivated(s), m, Tail(ws), wm \o <<f>>, taken, last, unacked)
<1> DEFINE o == s.active \/ ~m.active
           k == s.active
           t == Deactivated(s)
           c == ~m.active
           no == FALSE
           v == Tail(ws)
<1>1. /\ s \in Sessions /\ m \in Sessions /\ ws \in Seq(Frames) /\ wm \in Seq(Frames)
      /\ s.active \in BOOLEAN /\ m.active \in BOOLEAN
      /\ Mid("slave", s, m, ws, wm, taken, last, unacked, o, k, TRUE, TRUE)
      /\ m.control = <<>>
      /\ ToSlaveOK(s.active, m.active, ws) /\ ToMasterOK(s.active, m.active, wm)
  BY LinkedParts
<1> HIDE DEF o, k
<1>2. ToSlaveOK(FALSE, m.active, v) /\ (s.active => m.active)
  BY <1>1, ToSlaveStop
<1>3. /\ ToMasterOK(FALSE, m.active, wm \o <<f>>)
      /\ ~m.active => \A i \in 1..Len(wm) : wm[i].type # "I"
  BY <1>1, <1>2, ToMasterStop
<1>4. /\ t \in Sessions /\ t.active = FALSE /\ t.sendSeq = s.sendSeq /\ t.acked = t.sendSeq
      /\ t.unacked = 0 /\ t.sent = <<>> /\ t.recvSeq = s.recvSeq
      /\ Side("slave", t, taken, last, unacked)
  BY <1>1, DeactivatedIs, TwoEnds
<1> HIDE DEF t
<1>5. c \in BOOLEAN /\ (c => \A i \in 1..Len(wm) : wm[i].type # "I")
  BY <1>1, <1>3
<1>8. c = (t.active \/ ~m.active) /\ FALSE = t.active
  BY <1>4
<1> HIDE DEF c, v
<1>6. Mid("slave", t, m, ws, wm, taken, last, unacked, c, FALSE, TRUE, TRUE)
  BY <1>1, <1>4, <1>5, TwoEnds, MidClosed
<1>7. Mid("slave", t, m, v, wm \o <<f>>, taken, last, unacked, c, FALSE, TRUE, TRUE)
  <2>1. Mid("slave", t, m, v, wm, taken, last, unacked, c, FALSE, TRUE, TRUE)
    BY <1>6, TwoEnds, MidRead DEF v
  <2> QED BY <2>1, TwoEnds, MidWrite
<1>9. ToSlaveOK(t.active, m.active, v) /\ ToMasterOK(t.active, m.active, wm \o <<f>>)
  BY <1>2, <1>3, <1>4
<1>10. Linked(t, m, v, wm \o <<f>>, taken, last, unacked)
  BY <1>1, <1>7, <1>8, <1>9, LinkedFrom
<1> QED BY <1>10 DEF t, v

\* The master learns that the transfer was stopped.
LEMMA LinkedStopCon ==
    ASSUME NEW s, NEW m, NEW ws, NEW wm, NEW taken, NEW last \in Nat, NEW unacked,
           Linked(s, m, ws, wm, taken, last, unacked), wm # <<>>, Head(wm).type = "STOPDT_CON"
    PROVE  Linked(s, Deactivated(m), ws, Tail(wm), taken, last, unacked)
<1> DEFINE o == s.active \/ ~m.active
           k == s.active
           t == Deactivated(m)
           v == Tail(wm)
<1>1. /\ s \in Sessions /\ m \in Sessions /\ ws \in Seq(Frames) /\ wm \in Seq(Frames)
      /\ s.active \in BOOLEAN /\ m.active \in BOOLEAN
      /\ Mid("master", m, s, wm, ws, taken, last, unacked, TRUE, TRUE, o, k)
      /\ Mid("slave", s, m, ws, wm, taken, last, unacked, o, k, TRUE, TRUE)
      /\ m.control = <<>>
      /\ ToSlaveOK(s.active, m.active, ws) /\ ToMasterOK(s.active, m.active, wm)
  BY LinkedParts
<1>2. /\ ToMasterOK(s.active, FALSE, v)
      /\ m.active => ~s.active /\ \A i \in 1..Len(wm) : wm[i].type = "STOPDT_CON"
  BY <1>1, ToMasterStopped
<1>3. /\ t \in Sessions /\ t.active = FALSE /\ t.sendSeq = m.sendSeq /\ t.acked = t.sendSeq
      /\ t.unacked = 0 /\ t.sent = <<>> /\ t.recvSeq = m.recvSeq /\ t.control = <<>>
      /\ Side("master", t, taken, last, unacked)
  BY <1>1, DeactivatedIs, TwoEnds
<1> HIDE DEF t, v
<1>4. CASE m.active
  <2>1. /\ \A i \in 1..Len(wm) : wm[i].type # "I"
        /\ \A i \in 1..Len(wm) : ~Data(wm[i])
    BY <1>2, <1>4 DEF Data
  <2>2. \A i \in 1..Len(ws) : ws[i].type # "I"
    BY <1>1, <1>2, <1>4 DEF ToSlaveOK
  <2>3. /\ Pair(s, m, ws, wm, o, k, TRUE, TRUE) /\ Both(s, m, ws, wm, taken, o, k, TRUE, TRUE)
        /\ Side("slave", s, taken, last, unacked)
        /\ Carries("slave", wm, last) /\ Carries("master", ws, last)
    BY <1>1, TwoEnds DEF Mid
  <2>4. s.unacked = 0 /\ s.acked = s.sendSeq /\ m.recvSeq \in SeqNumbers /\ s.recvSeq \in SeqNumbers
    <3>1. s.unacked = 0
      BY <1>2, <1>4, <2>3 DEF Side
    <3>2. s.acked \in SeqNumbers /\ s.sendSeq = Plus(s.acked, s.unacked)
      BY <1>1, <2>3 DEF Pair, Windowed, Sessions
    <3>3. s.acked = s.sendSeq
      BY <3>1, <3>2, PlusZero
    <3> QED BY <1>1, <3>1, <3>3 DEF Sessions
  <2>5. Flow(s, t.recvSeq, wm, taken, TRUE)
    <3>1. Flow(s, m.recvSeq, wm, taken, o)
      BY <2>3 DEF Both
    <3> DEFINE r == m.recvSeq
    <3>2. r \in SeqNumbers /\ Flow(s, r, wm, taken, o)
      BY <2>4, <3>1
    <3> HIDE DEF r
    <3>3. Flow(s, r, wm, taken, TRUE)
      BY ONLY <1>1, <2>1, <2>4, <3>2, FlowFresh
    <3> QED BY <1>3, <3>3 DEF r
  <2>6. Flow(t, s.recvSeq, ws, taken, TRUE)
    <3>1. Flow(m, s.recvSeq, ws, taken, TRUE)
      BY <2>3 DEF Both
    <3> DEFINE r == s.recvSeq
    <3>2. r \in SeqNumbers /\ Flow(m, r, ws, taken, TRUE)
      BY <2>4, <3>1
    <3> HIDE DEF r
    <3>3. Flow(t, r, ws, taken, TRUE)
      BY ONLY <1>1, <1>3, <2>2, <3>2, FlowFresh
    <3> QED BY <3>3 DEF r
  <2>7. Acks(t, s.recvSeq, wm)
    BY <2>1 DEF Acks
  <2>8. Both(s, t, ws, wm, taken, TRUE, FALSE, TRUE, TRUE)
    BY <2>5, <2>6, <2>7 DEF Both
  <2>9. Windowed(t)
    <3>1. t.acked \in SeqNumbers
      BY <1>3 DEF Sessions
    <3>2. Plus(t.acked, 0) = t.acked /\ Len(t.sent) = 0 /\ 0 < SeqMod
      BY <1>3, <3>1, PlusZero, SeqModBound
    <3> QED BY <1>3, <3>2 DEF Windowed
  <2>10. Pair(s, t, ws, wm, TRUE, FALSE, TRUE, TRUE)
    BY <1>3, <2>3, <2>9 DEF Pair
  <2>11. Mid("slave", s, t, ws, wm, taken, last, unacked, TRUE, FALSE, TRUE, TRUE)
    BY <1>3, <2>3, <2>8, <2>10, TwoEnds DEF Mid
  <2>12. Mid("master", t, s, wm, ws, taken, last, unacked, TRUE, TRUE, TRUE, FALSE)
    BY <2>11, TwoEnds, MidSwap
  <2>13. Mid("master", t, s, v, ws, taken, last, unacked, TRUE, TRUE, TRUE, FALSE)
    BY <2>12, TwoEnds, MidRead DEF v
  <2>14. TRUE = (s.active \/ ~t.active) /\ FALSE = s.active
    BY <1>1, <1>2, <1>3, <1>4
  <2>15. ToSlaveOK(s.active, t.active, ws)
    <3>1. \A i \in 1..Len(ws) : ws[i].type \in {"S", "STOPDT_ACT"}
      BY <1>1, <1>4, <2>2 DEF ToSlaveOK
    <3> QED BY <1>3, <2>14, <3>1 DEF ToSlaveOK
  <2> QED BY <1>2, <1>3, <2>13, <2>14, <2>15, LinkedFrom DEF t, v
<1>5. CASE ~m.active
  <2>1. m.unacked = 0 /\ m.acked \in SeqNumbers /\ m.sendSeq = Plus(m.acked, m.unacked)
        /\ Len(m.sent) = m.unacked /\ m.sent \in Seq(EventNumbers)
    BY <1>1, <1>5 DEF Mid, Pair, Side, Windowed, Sessions
  <2>2. m.acked = m.sendSeq /\ m.sent = <<>>
    BY <2>1, PlusZero, EmptySeq
  <2>3. t.unacked = m.unacked /\ t.acked = m.acked /\ t.sent = m.sent
    BY <1>3, <2>1, <2>2
  <2>6. o = (s.active \/ ~t.active) /\ k = s.active
    BY <1>3, <1>5
  <2>8. t.active = m.active
    BY <1>1, <1>3, <1>5
  <2> HIDE DEF o, k
  <2>4. Mid("master", t, s, wm, ws, taken, last, unacked, TRUE, TRUE, o, k)
    BY <1>1, <1>3, <2>3, TwoEnds, MidSame
  <2>5. Mid("master", t, s, v, ws, taken, last, unacked, TRUE, TRUE, o, k)
    BY <2>4, TwoEnds, MidRead DEF v
  <2>7. ToSlaveOK(s.active, t.active, ws) /\ ToMasterOK(s.active, t.active, v)
    BY <1>1, <1>2, <1>3, <2>8
  <2> QED BY <1>3, <2>5, <2>6, <2>7, LinkedFrom DEF t, v
<1> QED BY <1>4, <1>5

\* The master learns that the transfer was started.
LEMMA LinkedStartCon ==
    ASSUME NEW s, NEW m, NEW ws, NEW wm, NEW taken, NEW last \in Nat, NEW unacked,
           Linked(s, m, ws, wm, taken, last, unacked), wm # <<>>, Head(wm).type = "STARTDT_CON",
           NEW ctl \in {<<>>, <<Asdu("interrogation", 0)>>}
    PROVE  LET a == Enqueued("master", [m EXCEPT !.active = TRUE, !.autoSent = TRUE], ctl, <<>>) IN
           Linked(s, a.s, ws \o a.out, Tail(wm), taken, last, unacked)
<1> DEFINE o == s.active \/ ~m.active
           k == s.active
           x == [m EXCEPT !.active = TRUE, !.autoSent = TRUE]
           t == [x EXCEPT !.control = x.control \o ctl, !.pending = x.pending \o <<>>]
           a == TrySendPending("master", t)
           v == Tail(wm)
<1>1. /\ s \in Sessions /\ m \in Sessions /\ ws \in Seq(Frames) /\ wm \in Seq(Frames)
      /\ s.active \in BOOLEAN /\ m.active \in BOOLEAN
      /\ Mid("master", m, s, wm, ws, taken, last, unacked, TRUE, TRUE, o, k)
      /\ m.control = <<>>
      /\ ToSlaveOK(s.active, m.active, ws) /\ ToMasterOK(s.active, m.active, wm)
  BY LinkedParts
<1>2. s.active = TRUE /\ m.active = FALSE /\ ToMasterOK(TRUE, TRUE, v)
  BY <1>1, ToMasterStarted
<1>3. ws = <<>>
  BY <1>1, <1>2 DEF ToSlaveOK
<1>4. m.pending = <<>> /\ m.unacked = 0 /\ Side("master", m, taken, last, unacked)
  BY <1>1, <1>2 DEF Mid, Side
<1>5. /\ ctl \in Seq(Asdus) /\ Len(ctl) \in 0..1
      /\ \A i \in 1..Len(ctl) : ctl[i].event = 0
  <2> DEFINE f == Asdu("interrogation", 0)
  <2>1. f \in Asdus /\ f.event = 0
    BY SoeAssumption DEF Asdu, Asdus, EventNumbers
  <2>2. ctl = <<>> \/ ctl = <<f>>
    OBVIOUS
  <2> HIDE DEF f
  <2>3. CASE ctl = <<>>
    BY <2>3
  <2>4. CASE ctl = <<f>>
    BY <2>1, <2>4
  <2> QED BY <2>2, <2>3, <2>4
<1>6. /\ t \in Sessions /\ t.active = TRUE /\ t.sendSeq = m.sendSeq /\ t.acked = m.acked
      /\ t.unacked = m.unacked /\ t.sent = m.sent /\ t.recvSeq = m.recvSeq
      /\ t.control = ctl /\ t.pending = <<>> /\ t.seen = m.seen /\ t.sinceAck = m.sinceAck
  <2> DEFINE p == <<>>
  <2>1. p \in Seq(Asdus)
    OBVIOUS
  <2>2. m.control \o ctl = ctl /\ m.pending \o <<>> = p
    BY <1>1, <1>4, <1>5
  <2>3. x.control = m.control /\ x.pending = m.pending
    BY <1>1 DEF Sessions
  <2>4. t = [m EXCEPT !.active = TRUE, !.autoSent = TRUE, !.control = ctl, !.pending = p]
    <3>1. t = [x EXCEPT !.control = ctl, !.pending = p]
      BY <2>2, <2>3
    <3> HIDE DEF p
    <3> QED BY <1>1, <3>1 DEF Sessions
  <2> HIDE DEF t, p
  <2>5. t \in Sessions
    BY <1>1, <1>5, <2>1, <2>4 DEF Sessions
  <2>6. /\ t.active = TRUE /\ t.sendSeq = m.sendSeq /\ t.acked = m.acked
        /\ t.unacked = m.unacked /\ t.sent = m.sent /\ t.recvSeq = m.recvSeq
        /\ t.control = ctl /\ t.pending = p /\ t.seen = m.seen /\ t.sinceAck = m.sinceAck
    BY <1>1, <2>4 DEF Sessions
  <2> QED BY <2>5, <2>6 DEF p
<1> HIDE DEF t
<1>7. Side("master", t, taken, last, unacked)
  <2>1. K["master"] \in Nat /\ 1 <= K["master"]
    BY SeqModBound, TwoEnds
  <2>2. t.unacked + Len(t.control) <= K["master"]
    BY <1>4, <1>5, <1>6, <2>1
  <2> QED BY <1>4, <1>5, <1>6, <2>2 DEF Side
<1>8. o /\ o \in BOOLEAN
  BY <1>1, <1>2
<1>9. TRUE = (s.active \/ ~TRUE) /\ TRUE = s.active /\ o = TRUE /\ k = TRUE
  BY <1>2
<1> HIDE DEF o, k, v, a
<1>10. Mid("master", t, s, v, ws, taken, last, unacked, TRUE, TRUE, o, k)
  <2>1. Mid("master", m, s, v, ws, taken, last, unacked, TRUE, TRUE, o, k)
    BY <1>1, TwoEnds, MidRead DEF v
  <2> QED BY <1>6, <1>7, <2>1, TwoEnds, MidSame
<1>11. /\ Mid("master", a.s, s, v, ws \o a.out, taken, last, unacked, TRUE, TRUE, o, k)
       /\ Alike(a.s, t) /\ a.s.control = <<>>
       /\ a.out \in Seq(Frames) /\ \A i \in 1..Len(a.out) : a.out[i].type = "I"
  <2> DEFINE end == "master"
             yes == TRUE
  <2>1. Mid(end, t, s, v, ws, taken, last, unacked, yes, yes, o, k) /\ yes /\ end \in Ends
    BY <1>10, TwoEnds
  <2> HIDE DEF end, yes
  <2>2. LET z == TrySendPending(end, t).s
            out == TrySendPending(end, t).out IN
        /\ Mid(end, z, s, v, ws \o out, taken, last, unacked, yes, yes, o, k)
        /\ Alike(z, t)
        /\ out \in Seq(Frames)
        /\ \A i \in 1..Len(out) : out[i].type = "I"
        /\ end = "master" => z.control = <<>>
    BY ONLY <2>1, last \in Nat, MidSend
  <2> QED BY <2>2 DEF end, yes, a
<1>12. a.s.active = TRUE
  BY <1>6, <1>11 DEF Alike, Kept
<1>13. ToSlaveOK(TRUE, TRUE, ws \o a.out)
  <2>1. ws \o a.out = a.out
    BY <1>3, <1>11
  <2> QED BY <1>11, <2>1, ToSlaveFirst
<1>14. o = (s.active \/ ~a.s.active) /\ k = s.active
  BY <1>9
<1>15. ToSlaveOK(s.active, a.s.active, ws \o a.out) /\ ToMasterOK(s.active, a.s.active, v)
  BY <1>2, <1>12, <1>13
<1>16. Linked(s, a.s, ws \o a.out, v, taken, last, unacked)
  BY <1>11, <1>14, <1>15, LinkedFrom
<1>17. Enqueued("master", x, ctl, <<>>) = a
  BY DEF Enqueued, a, t
<1> QED BY <1>16, <1>17 DEF v

-----------------------------------------------------------------------------
(* Events are queued in the order of their numbers. *)

\* A set of numbers can be listed in ascending order.
LEMMA AscendingExists ==
    \A n \in Nat : \A es \in SUBSET (1..n) :
        IsFiniteSet(es) /\ \E q \in [1..Cardinality(es) -> es] :
            \A i, j \in 1..Cardinality(es) : i < j => q[i] < q[j]
<1> DEFINE Listed(es) == IsFiniteSet(es) /\ \E q \in [1..Cardinality(es) -> es] :
                            \A i, j \in 1..Cardinality(es) : i < j => q[i] < q[j]
           S == {n \in Nat : \A es \in SUBSET (1..n) : Listed(es)}
<1>1. 0 \in S
  <2>1. IsFiniteSet({}) /\ Cardinality({}) = 0
    BY FS_EmptySet
  <2>2. Listed({})
    <3> DEFINE q == [i \in 1..0 |-> i]
    <3>1. q \in [1..0 -> {}] /\ \A i, j \in 1..0 : i < j => q[i] < q[j]
      OBVIOUS
    <3> QED BY <2>1, <3>1
  <2>3. \A es \in SUBSET (1..0) : es = {}
    OBVIOUS
  <2> HIDE DEF Listed
  <2> QED BY <2>2, <2>3
<1>2. ASSUME NEW n \in Nat, n \in S PROVE n + 1 \in S
  <2> SUFFICES ASSUME NEW es \in SUBSET (1..(n + 1)) PROVE Listed(es)
    OBVIOUS
  <2>1. \A xs \in SUBSET (1..n) : Listed(xs)
    BY <1>2
  <2>2. CASE n + 1 \notin es
    <3>1. es \in SUBSET (1..n)
      <4> SUFFICES ASSUME NEW x \in es PROVE x \in 1..n
        OBVIOUS
      <4>1. x \in 1..(n + 1) /\ x # n + 1
        BY <2>2
      <4> QED BY <4>1
    <3> HIDE DEF Listed
    <3> QED BY <2>1, <3>1
  <2>3. CASE n + 1 \in es
    <3> DEFINE xs == es \ {n + 1}
               k == Cardinality(xs)
    <3>1. xs \in SUBSET (1..n)
      <4> SUFFICES ASSUME NEW x \in xs PROVE x \in 1..n
        OBVIOUS
      <4>1. x \in 1..(n + 1) /\ x # n + 1
        OBVIOUS
      <4> QED BY <4>1
    <3>2. Listed(xs)
      <4> HIDE DEF Listed
      <4> QED BY <2>1, <3>1
    <3>3. IsFiniteSet(xs) /\ k \in Nat
      BY <3>2, FS_CardinalityType
    <3>4. PICK q \in [1..k -> xs] : \A i, j \in 1..k : i < j => q[i] < q[j]
      BY <3>2
    <3>5. xs \cup {n + 1} = es /\ n + 1 \notin xs
      BY <2>3
    <3>6. IsFiniteSet(es) /\ Cardinality(es) = k + 1
      <4> HIDE DEF xs
      <4>1. /\ IsFiniteSet(xs \cup {n + 1})
            /\ Cardinality(xs \cup {n + 1}) = IF n + 1 \in xs THEN Cardinality(xs) ELSE Cardinality(xs) + 1
        BY <3>3, FS_AddElement
      <4> QED BY <3>5, <4>1
    <3> DEFINE r == [i \in 1..(k + 1) |-> IF i <= k THEN q[i] ELSE n + 1]
    <3>7. r \in [1..(k + 1) -> es]
      <4> SUFFICES ASSUME NEW i \in 1..(k + 1) PROVE (IF i <= k THEN q[i] ELSE n + 1) \in es
        OBVIOUS
      <4> HIDE DEF k, xs
      <4>1. CASE i <= k
        <5>1. i \in 1..k
          BY <3>3, <4>1
        <5> QED BY <3>4, <3>5, <4>1, <5>1
      <4>2. CASE ~(i <= k)
        BY <2>3, <4>2
      <4> QED BY <4>1, <4>2
    <3>8. ASSUME NEW i \in 1..(k + 1), NEW j \in 1..(k + 1), i < j PROVE r[i] < r[j]
      <4> HIDE DEF k, xs
      <4>1. i \in 1..k /\ i <= k /\ r[i] = q[i] /\ q[i] \in xs
        BY <3>3, <3>4, <3>8
      <4>2. CASE j <= k
        <5>1. j \in 1..k /\ r[j] = q[j]
          BY <3>3, <4>2
        <5> QED BY <3>4, <3>8, <4>1, <5>1
      <4>3. CASE ~(j <= k)
        <5>1. r[j] = n + 1 /\ q[i] \in 1..n
          BY <3>1, <4>1, <4>3
        <5> QED BY <4>1, <5>1
      <4> QED BY <4>2, <4>3
    <3> QED BY <3>6, <3>7, <3>8
  <2> QED BY <2>2, <2>3
<1>3. Nat \subseteq S
  <2> HIDE DEF S
  <2> QED BY <1>1, <1>2, NumberInduction
<1> QED BY <1>3

\* Ascending lists the elements of a set of numbers in ascending order.
LEMMA AscendingIs ==
    ASSUME NEW n \in Nat, NEW es \in SUBSET (1..n)
    PROVE  LET q == Ascending(es) IN
           /\ q \in Seq(1..n) /\ DOMAIN q = 1..Len(q)
           /\ \A i, j \in 1..Len(q) : i < j => q[i] < q[j]
           /\ Range(q) = es
           /\ \A i \in 1..Len(q) : q[i] \in es
           /\ \A e \in es : \E i \in 1..Len(q) : q[i] = e
<1> DEFINE q == Ascending(es)
           k == Cardinality(es)
<1>1. IsFiniteSet(es) /\ \E r \in [1..k -> es] : \A i, j \in 1..k : i < j => r[i] < r[j]
  BY AscendingExists
<1>2. k \in Nat
  BY <1>1, FS_CardinalityType
<1>3. q \in [1..k -> es] /\ \A i, j \in DOMAIN q : i < j => q[i] < q[j]
  <2>1. \E r \in [1..k -> es] : \A i, j \in DOMAIN r : i < j => r[i] < r[j]
    BY <1>1
  <2> HIDE DEF k
  <2> QED BY <2>1 DEF Ascending, k
<1> HIDE DEF q
<1>4. DOMAIN q = 1..k /\ \A i \in 1..k : q[i] \in es
  BY <1>3
<1>5. q \in Seq(1..n) /\ Len(q) = k
  <2> HIDE DEF k
  <2>1. q \in [1..k -> 1..n]
    BY <1>3, <1>4
  <2> QED BY <1>2, <2>1, MapProperties
<1>6. ASSUME NEW i \in 1..k, NEW j \in 1..k, i < j PROVE q[i] < q[j]
  BY <1>3, <1>4, <1>6
<1>7. q \in Injection(1..k, es)
  <2>1. ASSUME NEW i \in 1..k, NEW j \in 1..k, q[i] = q[j] PROVE i = j
    <3>1. q[i] \in 1..n /\ q[j] \in 1..n
      BY <1>4
    <3>2. ~(i < j) /\ ~(j < i)
      BY <1>6, <2>1, <3>1
    <3> QED BY <1>2, <3>2
  <2>2. IsInjective(q)
    BY <1>4, <2>1 DEF IsInjective
  <2> QED BY <1>3, <2>2 DEF Injection
<1>8. q \in Surjection(1..k, es)
  <2>1. IsFiniteSet(1..k) /\ Cardinality(1..k) = k
    <3> HIDE DEF k
    <3>1. IsFiniteSet(1..k) /\ Cardinality(1..k) = IF 1 > k THEN 0 ELSE k - 1 + 1
      BY <1>2, FS_Interval
    <3> QED BY <1>2, <3>1
  <2> QED BY <1>1, <1>7, <2>1, FS_Injection
<1>9. \A e \in es : \E i \in 1..k : q[i] = e
  BY <1>8 DEF Surjection
<1>10. Range(q) = es
  BY <1>4, <1>9 DEF Range
<1> QED BY <1>4, <1>5, <1>6, <1>9, <1>10 DEF q

\* ASDUs are queued behind what is outgoing.
LEMMA OutgoingMore ==
    ASSUME NEW s \in Sessions, NEW t \in Sessions, NEW more \in Seq(Asdus),
           t.sent = s.sent, t.pending = s.pending \o more
    PROVE  LET out == OutgoingOf(s)
               out2 == OutgoingOf(t) IN
           /\ out \in Seq(EventNumbers) /\ out2 \in Seq(EventNumbers)
           /\ Len(out) \in Nat /\ Len(more) \in Nat /\ Len(out2) = Len(out) + Len(more)
           /\ \A i \in 1..Len(out) : out2[i] = out[i]
           /\ \A i \in 1..Len(more) : out2[Len(out) + i] = more[i].event
<1> DEFINE p == Len(s.pending)
           u == Len(s.sent)
           n == Len(more)
           out == OutgoingOf(s)
           out2 == OutgoingOf(t)
           tp == t.pending
           sp == s.pending
<1>1. sp \in Seq(Asdus) /\ tp = sp \o more /\ p = Len(sp) /\ n = Len(more)
  BY DEF Sessions
<1>2. /\ out \in Seq(EventNumbers) /\ out2 \in Seq(EventNumbers) /\ p \in Nat /\ u \in Nat
      /\ Len(out) = u + p /\ Len(out2) = u + Len(tp)
      /\ \A i \in 1..u : out[i] = s.sent[i]
      /\ \A i \in 1..p : out[u + i] = sp[i].event
      /\ \A i \in 1..u : out2[i] = s.sent[i]
      /\ \A i \in 1..Len(tp) : out2[u + i] = tp[i].event
  BY OutgoingIs
<1> HIDE DEF p, u, n, out, out2, tp, sp
<1>3. /\ Len(tp) = p + n /\ n \in Nat
      /\ \A i \in 1..(p + n) : tp[i] = IF i <= p THEN sp[i] ELSE more[i - p]
  BY <1>1, ConcatProperties, LenProperties
<1>4. ASSUME NEW i \in 1..(u + p) PROVE out2[i] = out[i]
  <2>1. CASE i <= u
    <3>1. i \in 1..u
      BY <1>2, <2>1
    <3> QED BY <1>2, <3>1
  <2>2. CASE ~(i <= u)
    <3> DEFINE j == i - u
    <3>1. j \in 1..p /\ j \in 1..(p + n) /\ j <= p /\ u + j = i
      BY <1>2, <1>3, <2>2
    <3> HIDE DEF j
    <3>2. tp[j] = sp[j]
      BY <1>3, <3>1
    <3>3. out2[u + j] = tp[j].event /\ out[u + j] = sp[j].event
      BY <1>2, <1>3, <3>1
    <3> QED BY <3>1, <3>2, <3>3
  <2> QED BY <2>1, <2>2
<1>5. ASSUME NEW i \in 1..n PROVE out2[(u + p) + i] = more[i].event
  <2> DEFINE j == p + i
  <2>1. j \in 1..(p + n) /\ ~(j <= p) /\ j - p = i /\ u + j = (u + p) + i
    BY <1>2, <1>3
  <2> HIDE DEF j
  <2>2. tp[j] = more[i]
    BY <1>3, <2>1
  <2>3. out2[u + j] = tp[j].event
    BY <1>2, <1>3, <2>1
  <2> QED BY <2>1, <2>2, <2>3
<1>6. /\ out \in Seq(EventNumbers) /\ out2 \in Seq(EventNumbers)
      /\ Len(out) \in Nat /\ n \in Nat /\ Len(out2) = Len(out) + n
      /\ \A i \in 1..Len(out) : out2[i] = out[i]
      /\ \A i \in 1..n : out2[Len(out) + i] = more[i].event
  BY <1>2, <1>3, <1>4, <1>5
<1> QED BY <1>6 DEF n, out, out2

\* new follows out in out2, and then nothing but zeros.
Extends(out2, out, new) ==
    /\ Len(out2) \in Nat /\ Len(out) + Len(new) <= Len(out2)
    /\ \A i \in 1..Len(out) : out2[i] = out[i]
    /\ \A i \in 1..Len(new) : out2[Len(out) + i] = new[i]
    /\ \A i \in (Len(out) + Len(new) + 1)..Len(out2) : out2[i] = 0

\* Whether new may be queued at a session that has queued seen.
MayFollow(new, seen, unacked) ==
    /\ \A i, j \in 1..Len(new) : i < j => new[i] < new[j]
    /\ \A i \in 1..Len(new) : new[i] \notin seen /\
           (new[i] \in unacked => \A e \in seen : e < new[i])

\* more are the events seen and the new ones.
Gains(more, seen, new) ==
    /\ seen \subseteq more /\ \A i \in 1..Len(new) : new[i] \in more
    /\ \A e \in more : e \in seen \/ \E i \in 1..Len(new) : new[i] = e

\* New events, in order and behind all that are on their way.
LEMMA ExtendedOK ==
    ASSUME NEW out \in Seq(EventNumbers), NEW out2 \in Seq(EventNumbers), NEW last \in Nat,
           NEW new \in Seq(1..last), Extends(out2, out, new),
           NEW seen \in SUBSET (1..last), NEW taken, NEW unacked, OutgoingOK(out, seen, taken, unacked),
           MayFollow(new, seen, unacked), NEW more, Gains(more, seen, new)
    PROVE  OutgoingOK(out2, more, taken, unacked)
<1>0. /\ \A i, j \in 1..Len(new) : i < j => new[i] < new[j]
      /\ \A i \in 1..Len(new) : new[i] \notin seen /\ (new[i] \in unacked => \A e \in seen : e < new[i])
      /\ seen \subseteq more /\ \A i \in 1..Len(new) : new[i] \in more
      /\ \A e \in more : e \in seen \/ \E i \in 1..Len(new) : new[i] = e
  BY DEF MayFollow, Gains
<1> DEFINE a == Len(out)
           b == Len(new)
<1>1. a \in Nat /\ b \in Nat /\ Len(out2) \in Nat /\ a + b <= Len(out2)
  BY LenProperties DEF Extends
<1>2. /\ \A i \in 1..a : out2[i] = out[i]
      /\ \A i \in 1..b : out2[a + i] = new[i]
      /\ \A i \in (a + b + 1)..Len(out2) : out2[i] = 0
      /\ a = Len(out) /\ b = Len(new)
  BY DEF Extends
<1> HIDE DEF a, b
<1>3. ASSUME NEW i \in 1..Len(out2), out2[i] # 0
      PROVE  \/ i \in 1..a /\ out2[i] = out[i] /\ out2[i] \in seen
             \/ a < i /\ i - a \in 1..b /\ out2[i] = new[i - a]
  <2>1. CASE i <= a
    <3>1. i \in 1..a /\ i \in 1..Len(out)
      BY <1>1, <1>2, <2>1
    <3>2. out2[i] = out[i] /\ out[i] \in seen \cup {0}
      BY <1>2, <3>1 DEF OutgoingOK
    <3> QED BY <1>3, <3>1, <3>2
  <2>2. CASE ~(i <= a)
    <3>1. i <= a + b
      <4> SUFFICES ASSUME ~(i <= a + b) PROVE FALSE
        OBVIOUS
      <4>1. i \in (a + b + 1)..Len(out2)
        BY <1>1
      <4> QED BY <1>2, <1>3, <4>1
    <3> DEFINE k == i - a
    <3>2. k \in 1..b /\ a + k = i /\ a < i
      BY <1>1, <2>2, <3>1
    <3> HIDE DEF k
    <3>3. out2[a + k] = new[k]
      BY <1>2, <3>2
    <3> QED BY <3>2, <3>3 DEF k
  <2> QED BY <2>1, <2>2
<1>4. \A i \in 1..b : new[i] \in 1..last /\ new[i] \in more /\ new[i] \notin seen
  BY <1>0, <1>2, ElementOfSeq
<1>5. ASSUME NEW i \in 1..Len(out2) PROVE out2[i] \in more \cup {0}
  BY <1>0, <1>3, <1>4
<1>6. InOrder(out2, unacked)
  <2> SUFFICES ASSUME NEW i \in 1..Len(out2), NEW j \in 1..Len(out2), i < j, out2[i] # 0, out2[j] # 0
               PROVE  out2[i] # out2[j] /\ (out2[j] \in unacked => out2[i] < out2[j])
    BY DEF InOrder
  <2>1. CASE j \in 1..a /\ out2[j] = out[j]
    <3>1. i \in 1..a /\ out2[i] = out[i]
      BY <1>1, <1>2, <2>1
    <3> QED BY <1>2, <2>1, <3>1 DEF OutgoingOK, InOrder
  <2>2. CASE a < j /\ j - a \in 1..b /\ out2[j] = new[j - a]
    <3> DEFINE l == j - a
    <3>1. l \in 1..b /\ out2[j] = new[l]
      BY <2>2
    <3>2. CASE i \in 1..a /\ out2[i] = out[i] /\ out2[i] \in seen
      <4> HIDE DEF l
      <4>1. new[l] \notin seen /\ (new[l] \in unacked => out2[i] < new[l])
        BY <1>0, <1>2, <3>1, <3>2
      <4> QED BY <3>1, <3>2, <4>1
    <3>3. CASE a < i /\ i - a \in 1..b /\ out2[i] = new[i - a]
      <4> DEFINE k == i - a
      <4>1. k \in 1..b /\ out2[i] = new[k] /\ k < l
        BY <1>1, <3>3
      <4> HIDE DEF k, l
      <4>2. new[k] < new[l] /\ new[k] \in 1..last /\ new[l] \in 1..last
        BY <1>0, <1>2, <1>4, <3>1, <4>1
      <4>3. new[k] # new[l]
        BY <4>2
      <4> QED BY <3>1, <4>1, <4>2, <4>3
    <3> QED BY <1>3, <3>2, <3>3
  <2> QED BY <1>3, <2>1, <2>2
<1>7. ASSUME NEW e \in more, e \notin taken PROVE \E i \in 1..Len(out2) : out2[i] = e
  <2>1. CASE e \in seen
    <3>1. PICK i \in 1..Len(out) : out[i] = e
      BY <1>7, <2>1 DEF OutgoingOK
    <3>2. i \in 1..Len(out2) /\ i \in 1..a
      BY <1>1, <1>2, <3>1
    <3> QED BY <1>2, <3>1, <3>2
  <2>2. CASE \E i \in 1..Len(new) : new[i] = e
    <3>1. PICK i \in 1..b : new[i] = e
      BY <1>2, <2>2
    <3>2. a + i \in 1..Len(out2) /\ out2[a + i] = new[i]
      BY <1>1, <1>2
    <3> QED BY <3>1, <3>2
  <2> QED BY <1>0, <2>1, <2>2
<1> QED BY <1>5, <1>6, <1>7 DEF OutgoingOK

\* The ASDUs that the new events and what follows them are queued as.
AddedBy(new, others) == [i \in DOMAIN new |-> Asdu("soe", new[i])] \o others

\* What is queued for the events of one task and the values behind them.
LEMMA AddedIs ==
    ASSUME NEW last \in EventNumbers, NEW new \in Seq(1..last), NEW others \in {<<>>, <<Asdu("values", 0)>>}
    PROVE  LET more == AddedBy(new, others) IN
           /\ more \in Seq(Asdus) /\ Len(new) \in Nat /\ Len(more) \in Nat /\ Len(new) <= Len(more)
           /\ \A i \in 1..Len(new) : more[i].event = new[i]
           /\ \A i \in (Len(new) + 1)..Len(more) : more[i].event = 0
<1> DEFINE q == [i \in DOMAIN new |-> Asdu("soe", new[i])]
           n == Len(new)
           l == Len(others)
           more == q \o others
<1>1. n \in Nat /\ DOMAIN new = 1..n /\ \A i \in 1..n : new[i] \in 1..last
  BY LenProperties, ElementOfSeq
<1>2. 1..last \subseteq EventNumbers
  BY SoeAssumption DEF EventNumbers
<1>3. q \in [1..n -> Asdus] /\ \A i \in 1..n : q[i].event = new[i]
  BY <1>1, <1>2 DEF Asdu, Asdus
<1>4. q \in Seq(Asdus) /\ Len(q) = n
  <2> HIDE DEF q
  <2> QED BY <1>1, <1>3, MapProperties
<1>5. others \in Seq(Asdus) /\ l \in Nat /\ \A i \in 1..l : others[i].event = 0
  <2> DEFINE f == Asdu("values", 0)
  <2>1. f \in Asdus /\ f.event = 0
    BY SoeAssumption DEF Asdu, Asdus, EventNumbers
  <2>2. others = <<>> \/ others = <<f>>
    OBVIOUS
  <2> HIDE DEF f
  <2>3. CASE others = <<>>
    BY <2>3
  <2>4. CASE others = <<f>>
    BY <2>1, <2>4
  <2> QED BY <2>2, <2>3, <2>4
<1> HIDE DEF q
<1>6. /\ more \in Seq(Asdus) /\ Len(more) = n + l
      /\ \A i \in 1..(n + l) : more[i] = IF i <= n THEN q[i] ELSE others[i - n]
  BY <1>4, <1>5, ConcatProperties
<1> HIDE DEF more, n, l
<1>7. ASSUME NEW i \in 1..n PROVE more[i].event = new[i]
  <2>1. i \in 1..(n + l) /\ i <= n
    BY <1>1, <1>5
  <2> QED BY <1>3, <1>6, <2>1
<1>8. ASSUME NEW i \in (n + 1)..Len(more) PROVE more[i].event = 0
  <2> DEFINE k == i - n
  <2>1. i \in 1..(n + l) /\ ~(i <= n) /\ k \in 1..l
    BY <1>1, <1>5, <1>6
  <2>2. more[i] = others[k]
    BY <1>6, <2>1
  <2> HIDE DEF k
  <2> QED BY <1>5, <2>1, <2>2
<1>9. Len(more) \in Nat /\ n <= Len(more)
  BY <1>1, <1>5, <1>6
<1> QED BY <1>1, <1>6, <1>7, <1>8, <1>9 DEF AddedBy, more, n, q

\* The queues of the slave after new events were queued.
LEMMA SideExtended ==
    ASSUME NEW s \in Sessions, NEW t \in Sessions, NEW taken, NEW last \in EventNumbers, NEW unacked,
           Side("slave", s, taken, last, unacked), s.active,
           NEW new \in Seq(1..last), NEW others \in {<<>>, <<Asdu("values", 0)>>},
           MayFollow(new, s.seen, unacked),
           t.active = s.active, t.unacked = s.unacked, t.sent = s.sent,
           t.seen = s.seen \cup Range(new), t.sinceAck = s.sinceAck, t.control = s.control,
           t.pending = s.pending \o AddedBy(new, others)
    PROVE  Side("slave", t, taken, last, unacked)
<1> DEFINE more == AddedBy(new, others)
           n == Len(new)
           out == OutgoingOf(s)
           out2 == OutgoingOf(t)
           seen == s.seen
           wider == t.seen
<1>1. QueuesOK(s, taken, last, unacked)
  BY DEF Side
<1>2. /\ more \in Seq(Asdus) /\ n \in Nat /\ Len(more) \in Nat /\ n <= Len(more)
      /\ \A i \in 1..n : more[i].event = new[i]
      /\ \A i \in (n + 1)..Len(more) : more[i].event = 0
  BY AddedIs
<1>3. t.pending = s.pending \o more
  OBVIOUS
<1> HIDE DEF more
<1>4. /\ out \in Seq(EventNumbers) /\ out2 \in Seq(EventNumbers)
      /\ Len(out) \in Nat /\ Len(more) \in Nat /\ Len(out2) = Len(out) + Len(more)
      /\ \A i \in 1..Len(out) : out2[i] = out[i]
      /\ \A i \in 1..Len(more) : out2[Len(out) + i] = more[i].event
  BY <1>2, <1>3, OutgoingMore
<1> HIDE DEF out, out2
<1>5. Extends(out2, out, new)
  <2> DEFINE a == Len(out)
             b == Len(more)
  <2>1. /\ a \in Nat /\ b \in Nat /\ Len(out2) = a + b /\ n \in Nat /\ n <= b
        /\ \A i \in 1..b : out2[a + i] = more[i].event
    BY <1>2, <1>4
  <2> HIDE DEF a, b, n
  <2>2. ASSUME NEW i \in 1..n PROVE out2[a + i] = new[i]
    <3>1. i \in 1..b
      BY <2>1
    <3> QED BY <1>2, <2>1, <3>1
  <2>3. ASSUME NEW i \in (a + n + 1)..Len(out2) PROVE out2[i] = 0
    <3> DEFINE k == i - a
    <3>1. k \in 1..b /\ k \in (n + 1)..b /\ a + k = i
      BY <2>1
    <3> HIDE DEF k
    <3>2. out2[a + k] = more[k].event /\ more[k].event = 0
      BY <1>2, <2>1, <3>1 DEF b
    <3> QED BY <3>1, <3>2
  <2>4. Len(out2) \in Nat /\ a + n <= Len(out2)
    BY <2>1
  <2> QED BY <1>4, <2>2, <2>3, <2>4 DEF Extends, a, n
<1>6. /\ seen \subseteq 1..last /\ OutgoingOK(out, seen, taken, unacked)
      /\ \A i \in 1..Len(s.control) : s.control[i].event = 0
  BY <1>1 DEF QueuesOK, out
<1>7. /\ wider = seen \cup Range(new)
      /\ \A i \in 1..Len(new) : new[i] \in Range(new) /\ new[i] \in 1..last
      /\ \A e \in Range(new) : \E i \in 1..Len(new) : new[i] = e
  <2>1. DOMAIN new = 1..Len(new)
    OBVIOUS
  <2>2. \A i \in 1..Len(new) : new[i] \in 1..last
    BY ElementOfSeq
  <2> QED BY <2>1, <2>2 DEF Range
<1>9. Gains(wider, seen, new) /\ wider \subseteq 1..last
  <2> HIDE DEF seen, wider
  <2> QED BY <1>6, <1>7 DEF Gains
<1>10. last \in Nat /\ seen \in SUBSET (1..last) /\ MayFollow(new, seen, unacked)
  BY <1>6, SoeAssumption DEF EventNumbers
<1> HIDE DEF seen, wider, n
<1>11. OutgoingOK(out2, wider, taken, unacked)
  <2>1. out \in Seq(EventNumbers) /\ out2 \in Seq(EventNumbers) /\ new \in Seq(1..last)
    BY <1>4
  <2>2. OutgoingOK(out, seen, taken, unacked) /\ Gains(wider, seen, new)
    BY <1>6, <1>9
  <2> QED BY ONLY <1>5, <1>10, <2>1, <2>2, ExtendedOK
<1>12. QueuesOK(t, taken, last, unacked)
  BY <1>6, <1>9, <1>11 DEF QueuesOK, out2, wider
<1> QED BY <1>12 DEF Side

\* What queueing new events and what follows them does to a session.
Queued(a, s, new) ==
    /\ a.s.active = s.active /\ a.s.seen = s.seen \cup Range(new)
    /\ a.out \in Seq(Frames) /\ \A i \in 1..Len(a.out) : a.out[i].type = "I"
    /\ ~s.active => a.out = <<>>
MayQueue(s, new, others) == s.active \/ (new = <<>> /\ others = <<>>)

\* The slave queues new events and what follows them, or none while it is not active.
LEMMA MidEvents ==
    ASSUME NEW s, NEW m, NEW ws, NEW wm, NEW taken, NEW last \in EventNumbers, NEW unacked,
           NEW o, NEW k, NEW oy, NEW ky,
           Mid("slave", s, m, ws, wm, taken, last, unacked, o, k, oy, ky), o \/ ~s.active,
           NEW new \in Seq(1..last), NEW others \in {<<>>, <<Asdu("values", 0)>>},
           MayFollow(new, s.seen, unacked), MayQueue(s, new, others)
    PROVE  LET a == EnqueuedSoes("slave", s, new, others) IN
           /\ Mid("slave", a.s, m, ws, wm \o a.out, taken, last, unacked, o, k, oy, ky)
           /\ Queued(a, s, new)
<1> DEFINE more == AddedBy(new, others)
           x == [s EXCEPT !.seen = @ \cup Range(new)]
           t == [x EXCEPT !.control = x.control \o <<>>, !.pending = x.pending \o more]
           a == TrySendPending("slave", t)
           wider == s.seen \cup Range(new)
           c == s.control
           p == s.pending \o more
<1>1. s \in Sessions /\ Side("slave", s, taken, last, unacked) /\ last \in Nat
  BY SoeAssumption DEF Mid, Pair, EventNumbers
<1>2. more \in Seq(Asdus)
  BY AddedIs
<1>3. wider \in SUBSET Events
  <2>1. \A e \in Range(new) : \E i \in 1..Len(new) : new[i] = e
    BY DEF Range
  <2>2. \A i \in 1..Len(new) : new[i] \in 1..last
    BY ElementOfSeq
  <2>3. 1..last \subseteq Events
    BY SoeAssumption DEF EventNumbers, Events
  <2>4. s.seen \in SUBSET Events
    BY <1>1 DEF Sessions
  <2> QED BY <2>1, <2>2, <2>3, <2>4
<1> HIDE DEF more
<1>4. /\ t \in Sessions /\ t.active = s.active /\ t.sendSeq = s.sendSeq /\ t.acked = s.acked
      /\ t.unacked = s.unacked /\ t.sent = s.sent /\ t.recvSeq = s.recvSeq
      /\ t.control = s.control /\ t.pending = s.pending \o more /\ t.seen = wider
      /\ t.sinceAck = s.sinceAck
  <2>1. p \in Seq(Asdus) /\ s.control \o <<>> = c /\ c \in Seq(Asdus)
    BY <1>1, <1>2 DEF Sessions
  <2>2. x.control = s.control /\ x.pending = s.pending
    BY <1>1 DEF Sessions
  <2>3. t = [s EXCEPT !.seen = wider, !.control = c, !.pending = p]
    <3>1. t = [x EXCEPT !.control = c, !.pending = p]
      BY <2>1, <2>2
    <3> HIDE DEF c, p
    <3> QED BY <1>1, <3>1 DEF Sessions
  <2> HIDE DEF t, c, p, wider
  <2>4. t \in Sessions
    BY <1>1, <1>3, <2>1, <2>3 DEF Sessions
  <2>5. /\ t.active = s.active /\ t.sendSeq = s.sendSeq /\ t.acked = s.acked
        /\ t.unacked = s.unacked /\ t.sent = s.sent /\ t.recvSeq = s.recvSeq
        /\ t.control = c /\ t.pending = p /\ t.seen = wider
        /\ t.sinceAck = s.sinceAck
    BY <1>1, <2>3 DEF Sessions
  <2> QED BY <2>4, <2>5 DEF c, p
<1> HIDE DEF t
<1>5. Side("slave", t, taken, last, unacked)
  <2>1. CASE s.active
    <3>1. t.pending = s.pending \o AddedBy(new, others) /\ t.seen = s.seen \cup Range(new)
      BY <1>4 DEF more
    <3> QED BY <1>1, <1>4, <2>1, <3>1, SideExtended
  <2>2. CASE ~s.active
    <3>1. new = <<>> /\ others = <<>>
      BY <2>2 DEF MayQueue
    <3>2. Range(new) = {}
      BY <3>1 DEF Range
    <3>3. Len(more) = 0
      <4> DEFINE q == [i \in DOMAIN new |-> Asdu("soe", new[i])]
      <4>1. q = <<>>
        <5>1. q \in [1..0 -> Asdus]
          BY <3>1
        <5>2. q \in Seq(Asdus) /\ Len(q) = 0
          <6> HIDE DEF q
          <6> QED BY <5>1, MapProperties
        <5> QED BY <5>2, EmptySeq
      <4> QED BY <3>1, <4>1 DEF more, AddedBy
    <3>4. t.pending = s.pending /\ t.seen = s.seen
      <4>1. more = <<>>
        BY <1>2, <3>3, EmptySeq
      <4>2. s.pending \o <<>> = s.pending
        BY <1>1 DEF Sessions
      <4> QED BY <1>4, <3>2, <4>1, <4>2
    <3>5. t.sinceAck < W["slave"]
      BY <1>1, <1>4 DEF Side
    <3> QED BY <1>1, <1>4, <3>4, <3>5, SideSame
  <2> QED BY <2>1, <2>2
<1>6. Mid("slave", t, m, ws, wm, taken, last, unacked, o, k, oy, ky)
  BY <1>1, <1>4, <1>5, TwoEnds, MidSame
<1> HIDE DEF a, wider
<1>7. /\ Mid("slave", a.s, m, ws, wm \o a.out, taken, last, unacked, o, k, oy, ky)
      /\ Alike(a.s, t)
      /\ a.out \in Seq(Frames) /\ \A i \in 1..Len(a.out) : a.out[i].type = "I"
      /\ t.control = <<>> /\ t.pending = <<>> => a.out = <<>>
  <2>1. o \/ ~t.active
    BY <1>4
  <2> QED BY <1>1, <1>6, <2>1, TwoEnds, MidSend DEF a
<1>8. a.s.active = s.active /\ a.s.seen = wider
  BY <1>4, <1>7 DEF Alike, Kept
<1>9. ~s.active => a.out = <<>>
  <2>1. ~s.active => t.control = <<>> /\ t.pending = <<>>
    BY <1>4, <1>5 DEF Side
  <2> QED BY <1>7, <2>1
<1>10. EnqueuedSoes("slave", s, new, others) = a
  BY DEF EnqueuedSoes, Enqueued, a, t, more, AddedBy
<1>11. Queued(a, s, new)
  BY <1>7, <1>8, <1>9 DEF Queued, wider
<1> QED BY <1>7, <1>10, <1>11

\* The slave queues the events of a task and sends what its window allows.
LEMMA LinkedPosted ==
    ASSUME NEW s, NEW m, NEW ws, NEW wm, NEW taken, NEW last \in EventNumbers, NEW unacked,
           Linked(s, m, ws, wm, taken, last, unacked),
           NEW new \in Seq(1..last), MayFollow(new, s.seen, unacked), s.active \/ new = <<>>
    PROVE  LET a == EnqueuedSoes("slave", s, new, <<>>) IN
           /\ Linked(a.s, m, ws, wm \o a.out, taken, last, unacked)
           /\ a.s.active = s.active /\ a.s.seen = s.seen \cup Range(new)
<1> DEFINE o == s.active \/ ~m.active
           k == s.active
           others == <<>>
           a == EnqueuedSoes("slave", s, new, <<>>)
<1>1. /\ s \in Sessions /\ m \in Sessions /\ ws \in Seq(Frames) /\ wm \in Seq(Frames)
      /\ s.active \in BOOLEAN /\ m.active \in BOOLEAN
      /\ Mid("slave", s, m, ws, wm, taken, last, unacked, o, k, TRUE, TRUE)
      /\ m.control = <<>>
      /\ ToSlaveOK(s.active, m.active, ws) /\ ToMasterOK(s.active, m.active, wm)
  BY LinkedParts
<1>2. o \/ ~s.active
  OBVIOUS
<1> HIDE DEF o, k
<1>3. others \in {<<>>, <<Asdu("values", 0)>>} /\ MayQueue(s, new, others)
  BY DEF MayQueue
<1>4. a = EnqueuedSoes("slave", s, new, others)
  OBVIOUS
<1> HIDE DEF others, a
<1>5. /\ Mid("slave", a.s, m, ws, wm \o a.out, taken, last, unacked, o, k, TRUE, TRUE)
      /\ a.s.active = s.active /\ a.s.seen = s.seen \cup Range(new)
      /\ a.out \in Seq(Frames) /\ \A i \in 1..Len(a.out) : a.out[i].type = "I"
      /\ ~s.active => a.out = <<>>
  <2> DEFINE yes == TRUE
  <2>1. Mid("slave", s, m, ws, wm, taken, last, unacked, o, k, yes, yes) /\ (o \/ ~s.active)
    BY <1>1, <1>2
  <2>2. last \in EventNumbers /\ new \in Seq(1..last) /\ MayFollow(new, s.seen, unacked)
    OBVIOUS
  <2> HIDE DEF yes
  <2>3. LET e == EnqueuedSoes("slave", s, new, others) IN
        /\ Mid("slave", e.s, m, ws, wm \o e.out, taken, last, unacked, o, k, yes, yes)
        /\ Queued(e, s, new)
    BY ONLY <1>3, <2>1, <2>2, MidEvents
  <2> QED BY <1>4, <2>3 DEF Queued, yes
<1>6. ToMasterOK(s.active, m.active, wm \o a.out)
  <2>1. CASE s.active
    <3>1. s.active = TRUE /\ \A i \in 1..Len(a.out) : Data(a.out[i])
      BY <1>1, <1>5, <2>1 DEF Data
    <3>2. ToMasterOK(TRUE, m.active, wm)
      BY <1>1, <3>1
    <3>3. ToMasterOK(TRUE, m.active, wm \o a.out)
      BY <1>1, <1>5, <3>1, <3>2, ToMasterMore
    <3> QED BY <3>1, <3>3
  <2>2. CASE ~s.active
    <3>1. wm \o a.out = wm
      BY <1>1, <1>5, <2>2
    <3> QED BY <1>1, <3>1
  <2> QED BY <2>1, <2>2
<1>7. o = (a.s.active \/ ~m.active) /\ k = a.s.active
  BY <1>5 DEF o, k
<1>8. ToSlaveOK(a.s.active, m.active, ws) /\ ToMasterOK(a.s.active, m.active, wm \o a.out)
  BY <1>1, <1>5, <1>6
<1>9. Linked(a.s, m, ws, wm \o a.out, taken, last, unacked)
  BY <1>1, <1>5, <1>7, <1>8, LinkedFrom
<1> QED BY <1>5, <1>9 DEF a

\* With nothing on its way to an end, no acknowledgement is.
LEMMA MidKnown ==
    ASSUME NEW end, NEW x, NEW y, NEW wx, NEW wy, NEW taken, NEW last, NEW unacked,
           NEW ox, NEW kx, NEW oy, NEW ky,
           Mid(end, x, y, wx, wy, taken, last, unacked, ox, kx, oy, ky), ox, wx = <<>>
    PROVE  Mid(end, x, y, wx, wy, taken, last, unacked, ox, TRUE, oy, ky)
<1>1. Pair(x, y, wx, wy, ox, kx, oy, ky) /\ Both(x, y, wx, wy, taken, ox, kx, oy, ky)
  BY DEF Mid
<1>2. Acks(x, y.recvSeq, wx)
  BY DEF Acks
<1>3. Pair(x, y, wx, wy, ox, TRUE, oy, ky)
  BY <1>1 DEF Pair
<1>4. Both(x, y, wx, wy, taken, ox, TRUE, oy, ky)
  BY <1>1, <1>2 DEF Both
<1> QED BY <1>3, <1>4 DEF Mid

Begun(s, new, others) == EnqueuedSoes("slave", [s EXCEPT !.active = TRUE], new, others)

\* The slave starts the transfer, and queues the events no master
\* acknowledged.
LEMMA LinkedStart ==
    ASSUME NEW s, NEW m, NEW ws, NEW wm, NEW taken, NEW last \in EventNumbers, NEW unacked,
           Linked(s, m, ws, wm, taken, last, unacked), ws # <<>>, Head(ws).type = "STARTDT_ACT",
           NEW new \in Seq(1..last), MayFollow(new, {}, unacked),
           NEW others \in {<<>>, <<Asdu("values", 0)>>}, NEW f \in Frames, f.type = "STARTDT_CON"
    PROVE  LET a == Begun(s, new, others) IN
           /\ Linked(a.s, m, Tail(ws), wm \o (<<f>> \o a.out), taken, last, unacked)
           /\ a.s.active = TRUE /\ a.s.seen = Range(new)
<1> DEFINE o == s.active \/ ~m.active
           k == s.active
           x == [s EXCEPT !.active = TRUE]
           v == Tail(ws)
           w == wm \o <<f>>
           a == EnqueuedSoes("slave", x, new, others)
<1>1. /\ s \in Sessions /\ m \in Sessions /\ ws \in Seq(Frames) /\ wm \in Seq(Frames)
      /\ s.active \in BOOLEAN /\ m.active \in BOOLEAN
      /\ Mid("slave", s, m, ws, wm, taken, last, unacked, o, k, TRUE, TRUE)
      /\ m.control = <<>>
      /\ ToSlaveOK(s.active, m.active, ws) /\ ToMasterOK(s.active, m.active, wm)
  BY LinkedParts
<1>2. s.active = FALSE /\ m.active = FALSE /\ v = <<>>
  BY <1>1, ToSlaveStart
<1>3. o /\ o = (TRUE \/ ~m.active)
  BY <1>2
<1>4. Side("slave", s, taken, last, unacked) /\ last \in Nat
  BY <1>1, SoeAssumption DEF Mid, EventNumbers
<1>5. /\ x \in Sessions /\ x.active = TRUE /\ x.sendSeq = s.sendSeq /\ x.acked = s.acked
      /\ x.unacked = s.unacked /\ x.sent = s.sent /\ x.recvSeq = s.recvSeq
      /\ x.control = s.control /\ x.pending = s.pending /\ x.seen = {} /\ x.sinceAck = s.sinceAck
      /\ s.seen = {}
  <2>1. s.seen = {}
    BY <1>2, <1>4 DEF Side
  <2>2. x \in Sessions
    BY <1>1 DEF Sessions
  <2> QED BY <1>1, <2>1, <2>2 DEF Sessions
<1> HIDE DEF o, k, x
<1>6. Side("slave", x, taken, last, unacked)
  <2>1. OutgoingOf(x) = OutgoingOf(s)
    BY <1>5 DEF OutgoingOf
  <2>2. QueuesOK(x, taken, last, unacked)
    BY <1>4, <1>5, <2>1 DEF Side, QueuesOK
  <2> QED BY <1>4, <1>5, <2>2 DEF Side
<1>7. Mid("slave", x, m, v, wm, taken, last, unacked, o, k, TRUE, TRUE)
  <2>1. Mid("slave", s, m, v, wm, taken, last, unacked, o, k, TRUE, TRUE)
    BY <1>1, <1>4, TwoEnds, MidRead
  <2> HIDE DEF v
  <2> QED BY <1>4, <1>5, <1>6, <2>1, TwoEnds, MidSame
<1> HIDE DEF v
<1>8. Mid("slave", x, m, v, w, taken, last, unacked, o, k, TRUE, TRUE)
  <2> DEFINE yes == TRUE
             end == "slave"
  <2>1. Mid(end, x, m, v, wm, taken, last, unacked, o, k, yes, yes) /\ end \in Ends
    BY <1>7, TwoEnds
  <2>2. f \in Frames /\ f.type # "I" /\ (f.type = "S" => f.nr = x.recvSeq)
    OBVIOUS
  <2> HIDE DEF yes, end
  <2>3. Mid(end, x, m, v, wm \o <<f>>, taken, last, unacked, o, k, yes, yes)
    BY ONLY <1>4, <2>1, <2>2, MidWrite
  <2> QED BY <2>3 DEF yes, end
<1>9. w \in Seq(Frames) /\ ToMasterOK(TRUE, FALSE, w)
  <2>1. ToMasterOK(FALSE, FALSE, wm)
    BY <1>1, <1>2
  <2>2. wm \in Seq(Frames)
    BY <1>1
  <2> QED BY <2>1, <2>2, WireAppend, ToMasterStart
<1> HIDE DEF w, a
<1>10. /\ Mid("slave", a.s, m, v, w \o a.out, taken, last, unacked, o, k, TRUE, TRUE)
       /\ a.s.active = TRUE /\ a.s.seen = Range(new)
       /\ a.out \in Seq(Frames) /\ \A i \in 1..Len(a.out) : a.out[i].type = "I"
  <2>1. x.active /\ (o \/ ~x.active) /\ MayFollow(new, x.seen, unacked)
    BY <1>3, <1>5
  <2> DEFINE yes == TRUE
             more == others
  <2>2. more \in {<<>>, <<Asdu("values", 0)>>} /\ MayQueue(x, new, more)
    BY <2>1 DEF MayQueue
  <2>4. Mid("slave", x, m, v, w, taken, last, unacked, o, k, yes, yes)
    BY <1>8
  <2>5. last \in EventNumbers /\ new \in Seq(1..last)
    OBVIOUS
  <2> HIDE DEF yes, more
  <2>3. LET e == EnqueuedSoes("slave", x, new, more) IN
        /\ Mid("slave", e.s, m, v, w \o e.out, taken, last, unacked, o, k, yes, yes)
        /\ Queued(e, x, new)
    BY ONLY <2>1, <2>2, <2>4, <2>5, MidEvents
  <2> QED BY <1>5, <2>3 DEF Queued, yes, more, a
<1>11. Mid("slave", a.s, m, v, w \o a.out, taken, last, unacked, o, TRUE, TRUE, TRUE)
  BY <1>2, <1>3, <1>10, MidKnown
<1>12. ToMasterOK(TRUE, FALSE, w \o a.out)
  BY <1>9, <1>10, ToMasterMore DEF Data
<1>13. ToSlaveOK(TRUE, FALSE, v)
  BY <1>2 DEF ToSlaveOK
<1>14. o = (a.s.active \/ ~m.active) /\ TRUE = a.s.active
  BY <1>3, <1>10
<1>15. ToSlaveOK(a.s.active, m.active, v) /\ ToMasterOK(a.s.active, m.active, w \o a.out)
  BY <1>2, <1>10, <1>12, <1>13
<1>16. Linked(a.s, m, v, w \o a.out, taken, last, unacked)
  BY <1>1, <1>11, <1>14, <1>15, LinkedFrom
<1>17. w \o a.out = wm \o (<<f>> \o a.out)
  <2> DEFINE ff == <<f>>
             ao == a.out
  <2>1. ff \in Seq(Frames) /\ ao \in Seq(Frames)
    BY <1>10
  <2> HIDE DEF ff, ao
  <2>2. (wm \o ff) \o ao = wm \o (ff \o ao)
    BY <1>1, <2>1, WireAssociative
  <2> QED BY <2>2 DEF w, ff, ao
<1> QED BY <1>10, <1>16, <1>17 DEF a, v, x, Begun

-----------------------------------------------------------------------------
(* The steps of the system. *)

\* What a session handles and writes changes one session and both wires.
LEMMA HandledSlave ==
    ASSUME LinkTyped, NEW s \in Sessions, NEW out, Handled("slave", s, out),
           wire["slave"] # <<>>, wire["master"] \o out \in Seq(Frames)
    PROVE  /\ sess' \in [Ends -> Sessions] /\ wire' \in [Ends -> Seq(Frames)]
           /\ sess'["slave"] = s /\ sess'["master"] = sess["master"]
           /\ wire'["slave"] = Tail(wire["slave"]) /\ wire'["master"] = wire["master"] \o out
<1>1. sess \in [Ends -> Sessions] /\ wire \in [Ends -> Seq(Frames)]
  BY DEF LinkTyped
<1>2. wire["slave"] \in Seq(Frames)
  BY <1>1, TwoEnds
<1>3. Tail(wire["slave"]) \in Seq(Frames)
  BY <1>2, HeadTailProperties
<1>4. sess' = [sess EXCEPT !["slave"] = s]
      /\ wire' = [wire EXCEPT !["slave"] = Tail(@), !["master"] = @ \o out]
  BY TwoEnds DEF Handled
<1> QED BY <1>1, <1>3, <1>4, TwoEnds

\* What a handler of the master changes.
LEMMA HandledMaster ==
    ASSUME LinkTyped, NEW m \in Sessions, NEW out, Handled("master", m, out),
           wire["master"] # <<>>, wire["slave"] \o out \in Seq(Frames)
    PROVE  /\ sess' \in [Ends -> Sessions] /\ wire' \in [Ends -> Seq(Frames)]
           /\ sess'["slave"] = sess["slave"] /\ sess'["master"] = m
           /\ wire'["slave"] = wire["slave"] \o out /\ wire'["master"] = Tail(wire["master"])
<1>1. sess \in [Ends -> Sessions] /\ wire \in [Ends -> Seq(Frames)]
  BY DEF LinkTyped
<1>2. wire["master"] \in Seq(Frames)
  BY <1>1, TwoEnds
<1>3. Tail(wire["master"]) \in Seq(Frames)
  BY <1>2, HeadTailProperties
<1>4. sess' = [sess EXCEPT !["master"] = m]
      /\ wire' = [wire EXCEPT !["master"] = Tail(@), !["slave"] = @ \o out]
  BY TwoEnds DEF Handled
<1> QED BY <1>1, <1>3, <1>4, TwoEnds

\* What the slave writes is on its way to the master.
LEMMA WritesSlave ==
    ASSUME LinkTyped, NEW out, Writes("slave", out), wire["master"] \o out \in Seq(Frames)
    PROVE  /\ wire' \in [Ends -> Seq(Frames)]
           /\ wire'["slave"] = wire["slave"] /\ wire'["master"] = wire["master"] \o out
BY TwoEnds DEF Writes, LinkTyped

\* What the master writes is on its way to the slave.
LEMMA WritesMaster ==
    ASSUME LinkTyped, NEW out, Writes("master", out), wire["slave"] \o out \in Seq(Frames)
    PROVE  /\ wire' \in [Ends -> Seq(Frames)]
           /\ wire'["slave"] = wire["slave"] \o out /\ wire'["master"] = wire["master"]
BY TwoEnds DEF Writes, LinkTyped

\* An acknowledgement of received events only removes some from the
\* unacknowledged ones.
LEMMA MarkIs ==
    ASSUME SoeInv, NEW es \in SUBSET received, Mark(es), stored' = stored
    PROVE  /\ acked' \subseteq 1..stored /\ Unacknowledged' \subseteq Unacknowledged
           /\ faults' \in 0..MaxFaults
           /\ \E zs \in SUBSET received : acked' = acked \cup zs
<1>1. acked \subseteq 1..stored /\ received \subseteq 1..stored /\ faults \in 0..MaxFaults
  BY DEF SoeInv, StoreTyped, LinkTyped
<1>2. Records' = Records /\ Records \subseteq 1..stored
  BY DEF Records
<1>3. CASE acked' = acked \cup (es \cap Records) /\ UNCHANGED faults
  <2>1. es \cap Records \in SUBSET received
    OBVIOUS
  <2> QED BY <1>1, <1>2, <1>3, <2>1 DEF Unacknowledged
<1>4. CASE faults < MaxFaults /\ faults' = faults + 1 /\ UNCHANGED acked
  <2>1. faults' \in 0..MaxFaults
    BY <1>1, <1>4, SoeAssumption
  <2>2. {} \in SUBSET received /\ acked' = acked \cup {}
    BY <1>4
  <2> QED BY <1>1, <1>2, <1>4, <2>1, <2>2 DEF Unacknowledged
<1> QED BY <1>3, <1>4 DEF Mark

\* A step of the connection that is not a new event: the slave's session keeps
\* what it has seen, or is not active.
LEMMA LinkStep ==
    ASSUME SoeInv, up, up' = up, alarm' = alarm,
           stored' = stored, unposted' = unposted, posted' = posted,
           acked' \subseteq 1..stored, Unacknowledged' \subseteq Unacknowledged,
           received' \subseteq 1..stored, faults' \in 0..MaxFaults, stops' \in 0..MaxStops,
           sess' \in [Ends -> Sessions], wire' \in [Ends -> Seq(Frames)],
           Linked(sess'["slave"], sess'["master"], wire'["slave"], wire'["master"], received',
                  stored, Unacknowledged),
           ~sess'["slave"].active \/ Kept(sess'["slave"], sess["slave"])
    PROVE  SoeInv'
<1>1. LinkTyped'
  BY DEF LinkTyped, SoeInv
<1>2. StoreTyped'
  BY DEF StoreTyped, SoeInv
<1>3. IdleWhenDown' /\ alarm' = FALSE
  BY DEF IdleWhenDown, SoeInv
<1>4. stored \in Nat
  BY SoeAssumption DEF StoreTyped, SoeInv, EventNumbers
<1>5. Linked(sess'["slave"], sess'["master"], wire'["slave"], wire'["master"], received',
             stored', Unacknowledged')
  <2> DEFINE fewer == Unacknowledged'
             s == sess'["slave"]
             m == sess'["master"]
             ws == wire'["slave"]
             wm == wire'["master"]
             more == received'
             all == Unacknowledged
  <2>1. Linked(s, m, ws, wm, more, stored, all) /\ fewer \cap (1..stored) \subseteq all /\ stored <= stored
    BY <1>4
  <2> HIDE DEF fewer, s, m, ws, wm, more, all
  <2>2. Linked(s, m, ws, wm, more, stored, fewer)
    BY ONLY <1>4, <2>1, LinkedFewer
  <2> QED BY <2>2 DEF fewer, s, m, ws, wm, more
<1>6. NoneSkipped(sess'["slave"], Unacknowledged', unposted', posted')
  <2>1. NoneSkipped(sess["slave"], Unacknowledged, unposted, posted)
    BY DEF SoeInv
  <2> QED BY <2>1 DEF NoneSkipped, Kept
<1> QED BY <1>1, <1>2, <1>3, <1>5, <1>6 DEF SoeInv

\* The invariant, by its parts.
LEMMA InvParts ==
    ASSUME SoeInv
    PROVE  /\ LinkTyped /\ StoreTyped /\ IdleWhenDown /\ alarm = FALSE
           /\ stored \in Nat /\ stored \in EventNumbers
           /\ acked \subseteq 1..stored /\ received \subseteq 1..stored
           /\ faults \in 0..MaxFaults /\ stops \in 0..MaxStops
           /\ sess \in [Ends -> Sessions] /\ wire \in [Ends -> Seq(Frames)]
           /\ sess["slave"] \in Sessions /\ sess["master"] \in Sessions
           /\ wire["slave"] \in Seq(Frames) /\ wire["master"] \in Seq(Frames)
           /\ Linked(sess["slave"], sess["master"], wire["slave"], wire["master"], received,
                     stored, Unacknowledged)
           /\ NoneSkipped(sess["slave"], Unacknowledged, unposted, posted)
           /\ Unacknowledged \subseteq 1..stored
<1>1. LinkTyped /\ StoreTyped /\ IdleWhenDown /\ alarm = FALSE
  BY DEF SoeInv
<1>2. stored \in Nat /\ stored \in EventNumbers
  BY <1>1, SoeAssumption DEF StoreTyped, EventNumbers
<1>3. /\ sess \in [Ends -> Sessions] /\ wire \in [Ends -> Seq(Frames)]
      /\ faults \in 0..MaxFaults /\ stops \in 0..MaxStops
  BY <1>1 DEF LinkTyped
<1>4. /\ sess["slave"] \in Sessions /\ sess["master"] \in Sessions
      /\ wire["slave"] \in Seq(Frames) /\ wire["master"] \in Seq(Frames)
  BY <1>3, TwoEnds
<1>5. Unacknowledged \subseteq 1..stored
  BY DEF Unacknowledged, Records
<1> QED BY <1>1, <1>2, <1>3, <1>4, <1>5 DEF SoeInv, StoreTyped

\* What an end writes are frames.
LEMMA LinkedFrames ==
    ASSUME NEW s, NEW m, NEW ws, NEW wm, NEW taken, NEW last, NEW unacked,
           Linked(s, m, ws, wm, taken, last, unacked)
    PROVE  s \in Sessions /\ m \in Sessions /\ ws \in Seq(Frames) /\ wm \in Seq(Frames)
BY LinkedParts

\* Sessions as they are without a connection.
Fresh ==
    /\ sess = [e \in Ends |-> NewSession] /\ wire = [e \in Ends |-> <<>>]
    /\ posted = <<>> /\ alarm = FALSE /\ up \in BOOLEAN
    /\ faults \in 0..MaxFaults /\ stops \in 0..MaxStops
    /\ stored \in EventNumbers /\ unposted \in {0, stored}
    /\ acked \subseteq 1..stored /\ received \subseteq 1..stored

\* The invariant holds whenever there is no connection and the store is in
\* order.
LEMMA FreshInv == Fresh => SoeInv
<1> SUFFICES ASSUME Fresh PROVE SoeInv
  OBVIOUS
<1> USE DEF Fresh
<1>1. NewSession \in Sessions /\ ~NewSession.active
  BY NewSessionIs
<1>2. <<>> \in Seq(Frames) /\ <<>> \in Seq(1..stored) /\ Len(<<>>) = 0
  OBVIOUS
<1>3. LinkTyped
  BY <1>1, <1>2 DEF LinkTyped
<1>4. StoreTyped
  BY <1>2 DEF StoreTyped
<1>5. IdleWhenDown
  BY DEF IdleWhenDown
<1>6. /\ sess["slave"] = NewSession /\ sess["master"] = NewSession
      /\ wire["slave"] = <<>> /\ wire["master"] = <<>>
  BY TwoEnds
<1>7. Linked(NewSession, NewSession, <<>>, <<>>, received, stored, Unacknowledged)
  BY LinkedFresh
<1>8. NoneSkipped(NewSession, Unacknowledged, unposted, posted)
  BY <1>1 DEF NoneSkipped
<1> QED BY <1>3, <1>4, <1>5, <1>6, <1>7, <1>8 DEF SoeInv

\* It holds initially.
LEMMA InvInit == SoeInit => SoeInv
<1>1. 0 \in EventNumbers /\ 0 \in 0..MaxFaults /\ 0 \in 0..MaxStops
  BY SoeAssumption DEF EventNumbers
<1> QED BY <1>1, FreshInv DEF SoeInit, Fresh

\* A step that loses the connection keeps it.
LEMMA InvFresh ==
    ASSUME SoeInv, Disconnected, alarm' = alarm, stored' = stored, UNCHANGED <<received, stops>>,
           faults' \in 0..MaxFaults, acked' = acked, unposted' \in {0, stored}
    PROVE  SoeInv'
<1>1. Fresh'
  BY InvParts DEF Disconnected, Fresh, StoreTyped
<1>2. Fresh' => SoeInv'
  BY FreshInv, PTL
<1> QED BY <1>1, <1>2

\* So does a connection that breaks,
LEMMA InvDrop == ASSUME SoeInv, Drop PROVE SoeInv'
<1>1. faults' \in 0..MaxFaults
  BY InvParts, SoeAssumption DEF Drop
<1>2. unposted \in {0, stored}
  BY DEF SoeInv, StoreTyped
<1> QED BY <1>1, <1>2, InvFresh DEF Drop, storeVars

\* and a crash of the process.
LEMMA InvCrash == ASSUME SoeInv, Crash PROVE SoeInv'
<1>1. faults' \in 0..MaxFaults
  BY InvParts, SoeAssumption DEF Crash
<1> QED BY <1>1, InvFresh DEF Crash

\* A connection starts with the request for the data transfer.
LEMMA InvConnect == ASSUME SoeInv, Connect PROVE SoeInv'
<1> DEFINE f == UFrame("STARTDT_ACT")
           s == NewSession
           m == NewSession
           ws == <<>>
           none == <<>>
           all == Unacknowledged
<1>1. /\ sess = [e \in Ends |-> NewSession] /\ wire = [e \in Ends |-> <<>>] /\ posted = <<>>
      /\ up' = TRUE /\ wire' = [wire EXCEPT !["slave"] = <<f>>]
      /\ UNCHANGED <<sess, posted, alarm, stored, acked, unposted, received, faults, stops>>
  BY InvParts DEF Connect, IdleWhenDown, storeVars
<1>2. f \in Frames /\ f.type = "STARTDT_ACT" /\ <<f>> \in Seq(Frames)
  BY DEF UFrame, Frames
<1>3. Linked(s, m, ws, none, received, stored, all)
  BY LinkedFresh
<1>4. ~s.active /\ ~m.active /\ Len(ws) = 0 /\ ws \o <<f>> = <<f>>
  BY NewSessionIs
<1> HIDE DEF f, s, m, ws, none, all
<1>5. Linked(s, m, <<f>>, none, received, stored, all)
  <2>1. stored \in Nat
    BY InvParts
  <2>2. \A i \in 1..Len(ws) : ws[i].type # "STARTDT_ACT"
    BY <1>4
  <2>3. /\ f.type = "STARTDT_ACT" /\ ~m.active /\ ~s.active
        /\ \A i \in 1..Len(ws) : ws[i].type # "STARTDT_ACT"
    BY <1>2, <1>4, <2>2
  <2>4. Linked(s, m, ws \o <<f>>, none, received, stored, all)
    BY ONLY <2>1, <1>2, <1>3, <2>3, LinkedRequest
  <2> QED BY <2>4, <1>4
<1>6. /\ wire' \in [Ends -> Seq(Frames)] /\ wire'["slave"] = <<f>> /\ wire'["master"] = none
      /\ sess'["slave"] = s /\ sess'["master"] = m
  BY <1>1, <1>2, TwoEnds, InvParts DEF none, s, m
<1>7. LinkTyped' /\ StoreTyped' /\ IdleWhenDown' /\ alarm' = FALSE
  BY <1>1, <1>6, InvParts DEF LinkTyped, StoreTyped, IdleWhenDown
<1>8. Unacknowledged' = all
  BY <1>1 DEF Unacknowledged, Records, all
<1>9. Linked(sess'["slave"], sess'["master"], wire'["slave"], wire'["master"], received',
             stored', Unacknowledged')
  BY <1>1, <1>5, <1>6, <1>8
<1>10. NoneSkipped(sess'["slave"], Unacknowledged', unposted', posted')
  BY SMTT(30), <1>1, <1>8, InvParts DEF all
<1> QED BY <1>7, <1>9, <1>10 DEF SoeInv

\* What the steps do to the events received and acknowledged.
Acknowledges ==
    UNCHANGED <<stored, received>> /\ \E zs \in SUBSET received : acked' = acked \cup zs
Receives ==
    UNCHANGED <<stored, acked>> /\ \E e \in 0..stored : received' = received \cup ({e} \ {0})

\* An I frame that the session takes.
LEMMA ReceivedI ==
    ASSUME NEW end, ReceiveI(end), sess[end].active, AckValid(sess[end], Head(wire[end]).nr),
           Head(wire[end]).ns = sess[end].recvSeq
    PROVE  LET f == Head(wire[end])
               z == Reply(end, sess[end], f) IN
           /\ Mark(Acknowledged(sess[end], f.nr)) /\ Handled(end, z.s, z.out)
           /\ received' = received \cup ({f.body.event} \ {0})
           /\ UNCHANGED <<up, posted, alarm, stored, unposted, stops>>
<1> DEFINE f == Head(wire[end])
           s == sess[end]
           z == Reply(end, s, f)
<1>1. s.active /\ AckValid(s, f.nr) /\ f.ns = s.recvSeq
  OBVIOUS
<1>2. /\ UNCHANGED <<stored, unposted, stops>>
      /\ Mark(Acknowledged(s, f.nr))
      /\ \E a \in {AfterAck(end, s, f.nr)} :
         \E c \in {Counted(end, a.s)} :
         \E p \in {Processed(end, c.s, f.body)} :
             Handled(end, p.s, a.out \o c.out \o p.out)
      /\ received' = received \cup ({f.body.event} \ {0})
      /\ UNCHANGED <<up, posted, alarm>>
  BY SMTT(30), <1>1 DEF ReceiveI
<1>3. Handled(end, z.s, z.out)
  BY ZenonT(40), <1>2 DEF Reply
<1> QED BY ZenonT(40), <1>2, <1>3

\* The slave takes data.
LEMMA InvSlaveI ==
    ASSUME SoeInv, ReceiveI("slave")
    PROVE  SoeInv' /\ Acknowledges
<1> DEFINE s == sess["slave"]
           m == sess["master"]
           ws == wire["slave"]
           wm == wire["master"]
           f == Head(ws)
           z == Reply("slave", s, f)
           es == Acknowledged(s, f.nr)
           all == Unacknowledged
<1>1. up /\ ws # <<>> /\ f.type = "I"
  BY DEF ReceiveI, Arrives
<1>2. stored \in Nat /\ Linked(s, m, ws, wm, received, stored, all)
  BY InvParts
<1>3. /\ s.active /\ AckValid(s, f.nr) /\ es \subseteq received
      /\ f.ns = s.recvSeq /\ f.body.event = 0
      /\ Linked(z.s, m, Tail(ws), wm \o z.out, received, stored, all) /\ Kept(z.s, s)
  <2> HIDE DEF s, m, ws, wm, all
  <2> QED BY ONLY <1>1, <1>2, LinkedSlaveI DEF f, z, es
<1>4. /\ Mark(es) /\ Handled("slave", z.s, z.out)
      /\ received' = received \cup ({f.body.event} \ {0})
      /\ UNCHANGED <<up, posted, alarm, stored, unposted, stops>>
  BY <1>3, ReceivedI
<1> HIDE DEF f, z, es, all
<1>5. received' = received
  BY <1>3, <1>4
<1>6. /\ acked' \subseteq 1..stored /\ Unacknowledged' \subseteq Unacknowledged
      /\ faults' \in 0..MaxFaults
      /\ \E zs \in SUBSET received : acked' = acked \cup zs
  BY <1>3, <1>4, MarkIs
<1>7. z.s \in Sessions /\ wm \o z.out \in Seq(Frames)
  BY <1>3, LinkedFrames
<1>8. /\ sess' \in [Ends -> Sessions] /\ wire' \in [Ends -> Seq(Frames)]
      /\ sess'["slave"] = z.s /\ sess'["master"] = m
      /\ wire'["slave"] = Tail(ws) /\ wire'["master"] = wm \o z.out
  BY <1>1, <1>4, <1>7, HandledSlave, InvParts
<1>9. Linked(sess'["slave"], sess'["master"], wire'["slave"], wire'["master"], received',
             stored, Unacknowledged)
  BY <1>3, <1>5, <1>8 DEF all
<1>10. SoeInv'
  BY <1>1, <1>3, <1>4, <1>5, <1>6, <1>8, <1>9, InvParts, LinkStep
<1> QED BY <1>4, <1>5, <1>6, <1>10 DEF Acknowledges

\* The master takes data.
LEMMA InvMasterI ==
    ASSUME SoeInv, ReceiveI("master")
    PROVE  SoeInv' /\ Receives
<1> DEFINE s == sess["slave"]
           m == sess["master"]
           ws == wire["slave"]
           wm == wire["master"]
           f == Head(wm)
           z == Reply("master", m, f)
           es == Acknowledged(m, f.nr)
           more == received \cup ({f.body.event} \ {0})
           all == Unacknowledged
<1>1. up /\ wm # <<>> /\ f.type = "I"
  BY DEF ReceiveI, Arrives
<1>2. stored \in Nat /\ Linked(s, m, ws, wm, received, stored, all)
  BY InvParts
<1>3. /\ m.active /\ AckValid(m, f.nr) /\ es \subseteq {}
      /\ f.ns = m.recvSeq /\ f.body.event \in 0..stored
      /\ Linked(s, z.s, ws \o z.out, Tail(wm), more, stored, all)
  <2> HIDE DEF s, m, ws, wm, all
  <2> QED BY ONLY <1>1, <1>2, LinkedMasterI DEF f, z, es, more
<1>4. /\ Mark(es) /\ Handled("master", z.s, z.out)
      /\ received' = more
      /\ UNCHANGED <<up, posted, alarm, stored, unposted, stops>>
  BY <1>3, ReceivedI
<1> HIDE DEF z, es, all
<1>5. UNCHANGED <<acked, faults>>
  <2>1. es = {}
    BY <1>3
  <2> QED BY <1>4, <2>1 DEF Mark
<1>6. received' \subseteq 1..stored
  BY <1>2, <1>3, <1>4, InvParts
<1>7. Unacknowledged' = Unacknowledged
  BY <1>4, <1>5 DEF Unacknowledged, Records
<1>8. z.s \in Sessions /\ ws \o z.out \in Seq(Frames)
  BY <1>3, LinkedFrames
<1>9. /\ sess' \in [Ends -> Sessions] /\ wire' \in [Ends -> Seq(Frames)]
      /\ sess'["slave"] = s /\ sess'["master"] = z.s
      /\ wire'["slave"] = ws \o z.out /\ wire'["master"] = Tail(wm)
  BY <1>1, <1>4, <1>8, HandledMaster, InvParts
<1>10. Linked(sess'["slave"], sess'["master"], wire'["slave"], wire'["master"], received',
              stored, Unacknowledged)
  BY <1>3, <1>4, <1>9 DEF all
<1>11. Kept(sess'["slave"], s)
  BY <1>9 DEF Kept
<1>12. acked' \subseteq 1..stored /\ faults' \in 0..MaxFaults /\ stops' \in 0..MaxStops
  BY <1>4, <1>5, InvParts
<1>13. SoeInv'
  BY <1>1, <1>4, <1>6, <1>7, <1>9, <1>10, <1>11, <1>12, LinkStep
<1> QED BY <1>3, <1>4, <1>5, <1>13 DEF Receives

\* A step of the connection that leaves the store and the events alone.
LEMMA InvMoves ==
    ASSUME SoeInv, up, UNCHANGED <<up, posted, alarm, storeVars, received, faults>>,
           stops' \in 0..MaxStops,
           sess' \in [Ends -> Sessions], wire' \in [Ends -> Seq(Frames)],
           Linked(sess'["slave"], sess'["master"], wire'["slave"], wire'["master"], received,
                  stored, Unacknowledged),
           ~sess'["slave"].active \/ Kept(sess'["slave"], sess["slave"])
    PROVE  SoeInv'
<1>1. /\ UNCHANGED <<up, posted, alarm, stored, acked, unposted, received, faults>>
      /\ acked' \subseteq 1..stored /\ received' \subseteq 1..stored /\ faults' \in 0..MaxFaults
  BY InvParts DEF storeVars
<1>2. Unacknowledged' \subseteq Unacknowledged
  BY <1>1 DEF Unacknowledged, Records
<1> QED BY <1>1, <1>2, LinkStep

\* What an acknowledgement inside the window changes.
LEMMA ReceivedS ==
    ASSUME NEW end, ReceiveS(end), sess[end].active, AckValid(sess[end], Head(wire[end]).nr)
    PROVE  LET nr == Head(wire[end]).nr
               a == AfterAck(end, sess[end], nr) IN
           /\ Mark(Acknowledged(sess[end], nr)) /\ Handled(end, a.s, a.out)
           /\ UNCHANGED <<up, posted, alarm, stored, unposted, received, stops>>
<1> DEFINE nr == Head(wire[end]).nr
           s == sess[end]
<1>1. s.active /\ AckValid(s, nr)
  OBVIOUS
<1> QED BY <1>1 DEF ReceiveS

\* A frame that a session ignores.
LEMMA IgnoredS ==
    ASSUME NEW end, ReceiveS(end), ~sess[end].active
    PROVE  /\ Handled(end, sess[end], <<>>)
           /\ UNCHANGED <<up, posted, alarm, storeVars, received, faults, stops>>
BY DEF ReceiveS, storeVars

\* The slave takes an acknowledgement.
LEMMA InvSlaveS ==
    ASSUME SoeInv, ReceiveS("slave")
    PROVE  SoeInv' /\ Acknowledges
<1> DEFINE s == sess["slave"]
           m == sess["master"]
           ws == wire["slave"]
           wm == wire["master"]
           nr == Head(ws).nr
           a == AfterAck("slave", s, nr)
           es == Acknowledged(s, nr)
           all == Unacknowledged
<1>1. up /\ ws # <<>> /\ Head(ws).type = "S"
  BY DEF ReceiveS, Arrives
<1>2. stored \in Nat /\ Linked(s, m, ws, wm, received, stored, all)
  BY InvParts
<1>3. /\ ~s.active => Linked(s, m, Tail(ws), wm, received, stored, all)
      /\ s.active =>
            /\ AckValid(s, nr) /\ es \subseteq received
            /\ Linked(a.s, m, Tail(ws), wm \o a.out, received, stored, all) /\ Kept(a.s, s)
  <2> HIDE DEF s, m, ws, wm, all
  <2> QED BY ONLY <1>1, <1>2, LinkedSlaveS DEF nr, a, es
<1>4. CASE ~s.active
  <2>1. Handled("slave", s, <<>>) /\ UNCHANGED <<up, posted, alarm, storeVars, received, faults, stops>>
    BY <1>4, IgnoredS
  <2>2. wm \in Seq(Frames) /\ wm \o <<>> = wm
    BY InvParts
  <2>3. /\ sess' \in [Ends -> Sessions] /\ wire' \in [Ends -> Seq(Frames)]
        /\ sess'["slave"] = s /\ sess'["master"] = m
        /\ wire'["slave"] = Tail(ws) /\ wire'["master"] = wm
    <3> DEFINE out == <<>>
    <3>1. Handled("slave", s, out) /\ wm \o out = wm
      BY <2>1, <2>2
    <3> HIDE DEF out
    <3> QED BY <1>1, <2>2, <3>1, InvParts, HandledSlave
  <2>4. Linked(sess'["slave"], sess'["master"], wire'["slave"], wire'["master"], received,
               stored, Unacknowledged)
    BY <1>3, <1>4, <2>3
  <2>5. stops' \in 0..MaxStops /\ ~sess'["slave"].active
    BY <1>4, <2>1, <2>3, InvParts
  <2>6. SoeInv'
    BY <1>1, <2>1, <2>3, <2>4, <2>5, InvMoves
  <2>7. {} \in SUBSET received /\ acked' = acked \cup {} /\ UNCHANGED <<stored, received>>
    BY <2>1 DEF storeVars
  <2> QED BY <2>6, <2>7 DEF Acknowledges
<1>5. CASE s.active
  <2>1. /\ AckValid(s, nr) /\ es \subseteq received
        /\ Linked(a.s, m, Tail(ws), wm \o a.out, received, stored, all) /\ Kept(a.s, s)
    BY <1>3, <1>5
  <2>2. /\ Mark(es) /\ Handled("slave", a.s, a.out)
        /\ UNCHANGED <<up, posted, alarm, stored, unposted, received, stops>>
    BY <1>5, <2>1, ReceivedS
  <2> HIDE DEF nr, a, es, all
  <2>3. /\ acked' \subseteq 1..stored /\ Unacknowledged' \subseteq Unacknowledged
        /\ faults' \in 0..MaxFaults
        /\ \E zs \in SUBSET received : acked' = acked \cup zs
    BY <2>1, <2>2, MarkIs
  <2>4. a.s \in Sessions /\ wm \o a.out \in Seq(Frames)
    BY <2>1, LinkedFrames
  <2>5. /\ sess' \in [Ends -> Sessions] /\ wire' \in [Ends -> Seq(Frames)]
        /\ sess'["slave"] = a.s /\ sess'["master"] = m
        /\ wire'["slave"] = Tail(ws) /\ wire'["master"] = wm \o a.out
    BY <1>1, <2>2, <2>4, HandledSlave, InvParts
  <2>6. Linked(sess'["slave"], sess'["master"], wire'["slave"], wire'["master"], received',
               stored, Unacknowledged)
    BY <2>1, <2>2, <2>5 DEF all
  <2>7. SoeInv'
    BY <1>1, <2>1, <2>2, <2>3, <2>5, <2>6, InvParts, LinkStep
  <2> QED BY <2>2, <2>3, <2>7 DEF Acknowledges
<1>6. s.active \in BOOLEAN
  BY InvParts DEF Sessions
<1> QED BY <1>4, <1>5, <1>6

\* The master takes an acknowledgement.
LEMMA InvMasterS ==
    ASSUME SoeInv, ReceiveS("master")
    PROVE  SoeInv' /\ UNCHANGED <<stored, received, acked>>
<1> DEFINE s == sess["slave"]
           m == sess["master"]
           ws == wire["slave"]
           wm == wire["master"]
           nr == Head(wm).nr
           a == AfterAck("master", m, nr)
           es == Acknowledged(m, nr)
           all == Unacknowledged
<1>1. up /\ wm # <<>> /\ Head(wm).type = "S"
  BY DEF ReceiveS, Arrives
<1>2. stored \in Nat /\ Linked(s, m, ws, wm, received, stored, all)
  BY InvParts
<1>3. /\ m.active /\ AckValid(m, nr) /\ es \subseteq {}
      /\ Linked(s, a.s, ws \o a.out, Tail(wm), received, stored, all)
  <2> HIDE DEF s, m, ws, wm, all
  <2> QED BY ONLY <1>1, <1>2, LinkedMasterS DEF nr, a, es
<1>4. /\ Mark(es) /\ Handled("master", a.s, a.out)
      /\ UNCHANGED <<up, posted, alarm, stored, unposted, received, stops>>
  BY <1>3, ReceivedS
<1> HIDE DEF nr, a, es, all
<1>5. UNCHANGED <<acked, faults>>
  <2>1. es = {}
    BY <1>3
  <2> QED BY <1>4, <2>1 DEF Mark
<1>6. a.s \in Sessions /\ ws \o a.out \in Seq(Frames)
  BY <1>3, LinkedFrames
<1>7. /\ sess' \in [Ends -> Sessions] /\ wire' \in [Ends -> Seq(Frames)]
      /\ sess'["slave"] = s /\ sess'["master"] = a.s
      /\ wire'["slave"] = ws \o a.out /\ wire'["master"] = Tail(wm)
  BY <1>1, <1>4, <1>6, HandledMaster, InvParts
<1>8. Linked(sess'["slave"], sess'["master"], wire'["slave"], wire'["master"], received,
             stored, Unacknowledged)
  BY <1>3, <1>7 DEF all
<1>9. Kept(sess'["slave"], s)
  BY <1>7 DEF Kept
<1>10. stops' \in 0..MaxStops /\ UNCHANGED <<up, posted, alarm, storeVars, received, faults>>
  BY <1>4, <1>5, InvParts DEF storeVars
<1>11. SoeInv'
  BY <1>1, <1>7, <1>8, <1>9, <1>10, InvMoves
<1> QED BY <1>4, <1>5, <1>11

\* The slave acknowledges on its own.
LEMMA InvLateSlave ==
    ASSUME SoeInv, AcknowledgeLate("slave")
    PROVE  SoeInv'
<1> DEFINE s == sess["slave"]
           m == sess["master"]
           ws == wire["slave"]
           wm == wire["master"]
           a == SendSFrame(s)
           all == Unacknowledged
<1>1. /\ up /\ s.active /\ sess' = [sess EXCEPT !["slave"] = a.s] /\ Writes("slave", a.out)
      /\ UNCHANGED <<up, posted, alarm, storeVars, received, faults, stops>>
  BY DEF AcknowledgeLate
<1>2. stored \in Nat /\ Linked(s, m, ws, wm, received, stored, all)
  BY InvParts
<1>3. Linked(a.s, m, ws, wm \o a.out, received, stored, all) /\ Kept(a.s, s)
  <2> HIDE DEF s, m, ws, wm, all
  <2> QED BY ONLY <1>1, <1>2, LinkedLateSlave DEF a
<1> HIDE DEF a, all
<1>4. a.s \in Sessions /\ wm \o a.out \in Seq(Frames)
  BY <1>3, LinkedFrames
<1>5. wire' \in [Ends -> Seq(Frames)] /\ wire'["slave"] = ws /\ wire'["master"] = wm \o a.out
  BY <1>1, <1>4, WritesSlave, InvParts
<1>6. sess' \in [Ends -> Sessions] /\ sess'["slave"] = a.s /\ sess'["master"] = m
  BY <1>1, <1>4, TwoEnds, InvParts
<1>7. Linked(sess'["slave"], sess'["master"], wire'["slave"], wire'["master"], received,
             stored, Unacknowledged)
  BY <1>3, <1>5, <1>6 DEF all
<1> QED BY <1>1, <1>3, <1>5, <1>6, <1>7, InvParts, InvMoves

\* The master acknowledges on its own.
LEMMA InvLateMaster ==
    ASSUME SoeInv, AcknowledgeLate("master")
    PROVE  SoeInv'
<1> DEFINE s == sess["slave"]
           m == sess["master"]
           ws == wire["slave"]
           wm == wire["master"]
           a == SendSFrame(m)
           all == Unacknowledged
<1>1. /\ up /\ m.active /\ sess' = [sess EXCEPT !["master"] = a.s] /\ Writes("master", a.out)
      /\ UNCHANGED <<up, posted, alarm, storeVars, received, faults, stops>>
  BY DEF AcknowledgeLate
<1>2. stored \in Nat /\ Linked(s, m, ws, wm, received, stored, all)
  BY InvParts
<1>3. Linked(s, a.s, ws \o a.out, wm, received, stored, all)
  <2> HIDE DEF s, m, ws, wm, all
  <2> QED BY ONLY <1>1, <1>2, LinkedLateMaster DEF a
<1> HIDE DEF a, all
<1>4. a.s \in Sessions /\ ws \o a.out \in Seq(Frames)
  BY <1>3, LinkedFrames
<1>5. wire' \in [Ends -> Seq(Frames)] /\ wire'["slave"] = ws \o a.out /\ wire'["master"] = wm
  BY <1>1, <1>4, WritesMaster, InvParts
<1>6. sess' \in [Ends -> Sessions] /\ sess'["slave"] = s /\ sess'["master"] = a.s
  BY <1>1, <1>4, TwoEnds, InvParts
<1>7. Linked(sess'["slave"], sess'["master"], wire'["slave"], wire'["master"], received,
             stored, Unacknowledged)
  BY <1>3, <1>5, <1>6 DEF all
<1>8. Kept(sess'["slave"], s)
  BY <1>6 DEF Kept
<1> QED BY <1>1, <1>5, <1>6, <1>7, <1>8, InvParts, InvMoves

\* The slave stops the transfer.
LEMMA InvStop ==
    ASSUME SoeInv, ReceiveStop
    PROVE  SoeInv'
<1> DEFINE s == sess["slave"]
           m == sess["master"]
           ws == wire["slave"]
           wm == wire["master"]
           z == Deactivated(s)
           f == UFrame("STOPDT_CON")
           all == Unacknowledged
<1>1. /\ up /\ ws # <<>> /\ Head(ws).type = "STOPDT_ACT" /\ Handled("slave", z, <<f>>)
      /\ UNCHANGED <<up, posted, alarm, storeVars, received, faults, stops>>
  BY DEF ReceiveStop, Arrives
<1>2. stored \in Nat /\ Linked(s, m, ws, wm, received, stored, all) /\ s \in Sessions
  BY InvParts
<1>3. f \in Frames /\ f.type = "STOPDT_CON"
  BY DEF UFrame, Frames
<1>4. ~z.active
  BY <1>2 DEF Deactivated, Sessions
<1>5. Linked(z, m, Tail(ws), wm \o <<f>>, received, stored, all)
  <2> HIDE DEF s, m, ws, wm, all, f
  <2> QED BY ONLY <1>1, <1>2, <1>3, LinkedStop DEF z
<1> HIDE DEF z, f, all
<1>6. z \in Sessions /\ wm \o <<f>> \in Seq(Frames)
  BY <1>5, LinkedFrames
<1>7. /\ sess' \in [Ends -> Sessions] /\ wire' \in [Ends -> Seq(Frames)]
      /\ sess'["slave"] = z /\ sess'["master"] = m
      /\ wire'["slave"] = Tail(ws) /\ wire'["master"] = wm \o <<f>>
  BY <1>1, <1>6, HandledSlave, InvParts
<1>8. Linked(sess'["slave"], sess'["master"], wire'["slave"], wire'["master"], received,
             stored, Unacknowledged)
  BY <1>5, <1>7 DEF all
<1> QED BY <1>1, <1>4, <1>7, <1>8, InvParts, InvMoves

\* The master learns that the transfer was stopped.
LEMMA InvStopCon ==
    ASSUME SoeInv, ReceiveStopCon
    PROVE  SoeInv'
<1> DEFINE s == sess["slave"]
           m == sess["master"]
           ws == wire["slave"]
           wm == wire["master"]
           z == Deactivated(m)
           out == <<>>
           all == Unacknowledged
<1>1. /\ up /\ wm # <<>> /\ Head(wm).type = "STOPDT_CON" /\ Handled("master", z, out)
      /\ UNCHANGED <<up, posted, alarm, storeVars, received, faults, stops>>
  BY DEF ReceiveStopCon, Arrives
<1>2. stored \in Nat /\ Linked(s, m, ws, wm, received, stored, all)
  BY InvParts
<1>3. Linked(s, z, ws, Tail(wm), received, stored, all)
  <2> HIDE DEF s, m, ws, wm, all
  <2> QED BY ONLY <1>1, <1>2, LinkedStopCon DEF z
<1>4. ws \o out = ws /\ ws \in Seq(Frames)
  BY InvParts
<1> HIDE DEF z, out, all
<1>5. z \in Sessions
  BY <1>3, LinkedFrames
<1>6. /\ sess' \in [Ends -> Sessions] /\ wire' \in [Ends -> Seq(Frames)]
      /\ sess'["slave"] = s /\ sess'["master"] = z
      /\ wire'["slave"] = ws /\ wire'["master"] = Tail(wm)
  BY <1>1, <1>4, <1>5, HandledMaster, InvParts
<1>7. Linked(sess'["slave"], sess'["master"], wire'["slave"], wire'["master"], received,
             stored, Unacknowledged)
  BY <1>3, <1>6 DEF all
<1>8. Kept(sess'["slave"], s)
  BY <1>6 DEF Kept
<1> QED BY <1>1, <1>6, <1>7, <1>8, InvParts, InvMoves

\* The master learns that the transfer was started.
LEMMA InvStartCon ==
    ASSUME SoeInv, ReceiveStartCon
    PROVE  SoeInv'
<1> DEFINE s == sess["slave"]
           m == sess["master"]
           ws == wire["slave"]
           wm == wire["master"]
           ctl == IF m.autoSent THEN <<>> ELSE <<Asdu("interrogation", 0)>>
           a == Enqueued("master", [m EXCEPT !.active = TRUE, !.autoSent = TRUE], ctl, <<>>)
           all == Unacknowledged
<1>1. /\ up /\ wm # <<>> /\ Head(wm).type = "STARTDT_CON" /\ Handled("master", a.s, a.out)
      /\ UNCHANGED <<up, posted, alarm, storeVars, received, faults, stops>>
  BY DEF ReceiveStartCon, Arrives
<1>2. stored \in Nat /\ Linked(s, m, ws, wm, received, stored, all)
  BY InvParts
<1>3. ctl \in {<<>>, <<Asdu("interrogation", 0)>>}
  OBVIOUS
<1>4. Linked(s, a.s, ws \o a.out, Tail(wm), received, stored, all)
  <2> HIDE DEF s, m, ws, wm, all, ctl
  <2> QED BY ONLY <1>1, <1>2, <1>3, LinkedStartCon DEF a
<1> HIDE DEF a, all
<1>5. a.s \in Sessions /\ ws \o a.out \in Seq(Frames)
  BY <1>4, LinkedFrames
<1>6. /\ sess' \in [Ends -> Sessions] /\ wire' \in [Ends -> Seq(Frames)]
      /\ sess'["slave"] = s /\ sess'["master"] = a.s
      /\ wire'["slave"] = ws \o a.out /\ wire'["master"] = Tail(wm)
  BY <1>1, <1>5, HandledMaster, InvParts
<1>7. Linked(sess'["slave"], sess'["master"], wire'["slave"], wire'["master"], received,
             stored, Unacknowledged)
  BY <1>4, <1>6 DEF all
<1>8. Kept(sess'["slave"], s)
  BY <1>6 DEF Kept
<1> QED BY <1>1, <1>6, <1>7, <1>8, InvParts, InvMoves

\* The master asks for a stop.
LEMMA InvStopTransfer ==
    ASSUME SoeInv, StopTransfer
    PROVE  SoeInv'
<1> DEFINE s == sess["slave"]
           m == sess["master"]
           ws == wire["slave"]
           wm == wire["master"]
           f == UFrame("STOPDT_ACT")
           all == Unacknowledged
<1>1. /\ up /\ m.active /\ Writes("master", <<f>>) /\ stops < MaxStops /\ stops' = stops + 1
      /\ UNCHANGED <<up, sess, posted, alarm, storeVars, received, faults>>
  BY DEF StopTransfer
<1>2. stored \in Nat /\ Linked(s, m, ws, wm, received, stored, all)
  BY InvParts
<1>3. f \in Frames /\ f.type = "STOPDT_ACT"
  BY DEF UFrame, Frames
<1>4. Linked(s, m, ws \o <<f>>, wm, received, stored, all)
  <2> HIDE DEF s, m, ws, wm, all, f
  <2> QED BY ONLY <1>1, <1>2, <1>3, LinkedRequest
<1> HIDE DEF f, all
<1>5. ws \o <<f>> \in Seq(Frames)
  BY <1>4, LinkedFrames
<1>6. wire' \in [Ends -> Seq(Frames)] /\ wire'["slave"] = ws \o <<f>> /\ wire'["master"] = wm
  BY <1>1, <1>5, WritesMaster, InvParts
<1>7. /\ sess' \in [Ends -> Sessions] /\ sess'["slave"] = s /\ sess'["master"] = m
      /\ Kept(sess'["slave"], s)
  BY <1>1, InvParts DEF Kept
<1>8. Linked(sess'["slave"], sess'["master"], wire'["slave"], wire'["master"], received,
             stored, Unacknowledged)
  BY <1>4, <1>6, <1>7 DEF all
<1>9. stops' \in 0..MaxStops
  BY <1>1, InvParts, SoeAssumption
<1> QED BY <1>1, <1>6, <1>7, <1>8, <1>9, InvMoves

\* The master asks for the transfer again.
LEMMA InvRestartTransfer ==
    ASSUME SoeInv, RestartTransfer
    PROVE  SoeInv'
<1> DEFINE s == sess["slave"]
           m == sess["master"]
           ws == wire["slave"]
           wm == wire["master"]
           f == UFrame("STARTDT_ACT")
           all == Unacknowledged
<1>1. /\ up /\ ~m.active /\ Writes("master", <<f>>)
      /\ \A i \in DOMAIN ws : ws[i].type # "STARTDT_ACT"
      /\ \A i \in DOMAIN wm : wm[i].type # "STARTDT_CON"
      /\ UNCHANGED <<up, sess, posted, alarm, storeVars, received, faults, stops>>
  BY DEF RestartTransfer
<1>2. /\ stored \in Nat /\ Linked(s, m, ws, wm, received, stored, all)
      /\ ws \in Seq(Frames) /\ wm \in Seq(Frames)
  BY InvParts
<1>3. f \in Frames /\ f.type = "STARTDT_ACT"
  BY DEF UFrame, Frames
<1>4. DOMAIN ws = 1..Len(ws) /\ DOMAIN wm = 1..Len(wm)
  BY <1>2
<1>5. ~s.active
  <2>1. ToMasterOK(s.active, m.active, wm)
    BY <1>2, LinkedParts
  <2> QED BY <1>1, <1>4, <2>1 DEF ToMasterOK
<1>6. /\ f.type = "STARTDT_ACT" /\ ~m.active /\ ~s.active
      /\ \A i \in 1..Len(ws) : ws[i].type # "STARTDT_ACT"
  BY <1>1, <1>3, <1>4, <1>5
<1>7. Linked(s, m, ws \o <<f>>, wm, received, stored, all)
  <2> HIDE DEF s, m, ws, wm, all, f
  <2> QED BY ONLY <1>2, <1>3, <1>6, LinkedRequest
<1> HIDE DEF f, all
<1>8. ws \o <<f>> \in Seq(Frames)
  BY <1>7, LinkedFrames
<1>9. wire' \in [Ends -> Seq(Frames)] /\ wire'["slave"] = ws \o <<f>> /\ wire'["master"] = wm
  BY <1>1, <1>8, WritesMaster, InvParts
<1>10. /\ sess' \in [Ends -> Sessions] /\ sess'["slave"] = s /\ sess'["master"] = m
       /\ Kept(sess'["slave"], s)
  BY <1>1, InvParts DEF Kept
<1>11. Linked(sess'["slave"], sess'["master"], wire'["slave"], wire'["master"], received,
              stored, Unacknowledged)
  BY <1>7, <1>9, <1>10 DEF all
<1> QED BY <1>1, <1>9, <1>10, <1>11, InvParts, InvMoves

\* The slave's session has seen only events of the store.
LEMMA SeenStored ==
    ASSUME NEW s, NEW m, NEW ws, NEW wm, NEW taken, NEW last, NEW unacked,
           Linked(s, m, ws, wm, taken, last, unacked)
    PROVE  s.seen \subseteq 1..last /\ (~s.active => s.seen = {})
<1>1. Side("slave", s, taken, last, unacked)
  BY LinkedParts DEF Mid
<1> QED BY <1>1 DEF Side, QueuesOK

\* An event is stored.
LEMMA InvStoreEvent ==
    ASSUME SoeInv, StoreEvent
    PROVE  SoeInv'
<1> DEFINE s == sess["slave"]
           m == sess["master"]
           ws == wire["slave"]
           wm == wire["master"]
           fewer == Unacknowledged'
           newest == stored'
           all == Unacknowledged
<1>1. /\ unposted = 0 /\ stored < MaxEvents /\ stored' = stored + 1 /\ unposted' = stored + 1
      /\ UNCHANGED <<up, sess, wire, posted, alarm, acked, received, faults, stops>>
  BY DEF StoreEvent, connVars
<1>2. stored \in Nat /\ Linked(s, m, ws, wm, received, stored, all)
  BY InvParts
<1>3. newest \in Nat /\ stored <= newest
  BY <1>1, <1>2
<1>4. fewer \cap (1..stored) \subseteq all
  BY <1>1, <1>2, SoeAssumption DEF Unacknowledged, Records
<1>5. Linked(s, m, ws, wm, received, newest, fewer)
  <2> HIDE DEF s, m, ws, wm, all, fewer, newest
  <2> QED BY ONLY <1>2, <1>3, <1>4, LinkedFewer
<1>6. StoreTyped'
  <2>1. posted \in Seq(1..stored) /\ \A i, j \in 1..Len(posted) : i < j => posted[i] < posted[j]
    BY DEF SoeInv, StoreTyped
  <2>2. posted \in Seq(1..(stored + 1)) /\ \A i \in 1..Len(posted) : posted[i] < stored + 1
    BY <1>2, <2>1
  <2>3. stored + 1 \in EventNumbers
    BY <1>1, <1>2, SoeAssumption DEF EventNumbers
  <2>4. acked \subseteq 1..(stored + 1) /\ received \subseteq 1..(stored + 1)
    BY <1>2, InvParts
  <2> QED BY <1>1, <2>1, <2>2, <2>3, <2>4 DEF StoreTyped
<1>7. NoneSkipped(s, fewer, stored + 1, posted)
  <2> SUFFICES ASSUME s.active, NEW e \in fewer
               PROVE  /\ \A f \in s.seen : e < f => e \in s.seen
                      /\ e \in s.seen \/ e = stored + 1 \/ \E i \in 1..Len(posted) : posted[i] = e
    BY DEF NoneSkipped
  <2>1. e \in all \/ e = stored + 1
    BY <1>1, <1>2, <1>4 DEF Unacknowledged, Records
  <2>2. CASE e = stored + 1
    <3>1. s.seen \subseteq 1..stored
      BY <1>2, SeenStored
    <3> QED BY <1>2, <2>2, <3>1
  <2>3. CASE e \in all
    <3>1. e # 0
      BY <1>2, <2>3, InvParts
    <3>2. NoneSkipped(s, all, 0, posted)
      BY <1>1, InvParts
    <3> QED BY <2>3, <3>1, <3>2 DEF NoneSkipped
  <2> QED BY <2>1, <2>2, <2>3
<1>8. LinkTyped' /\ IdleWhenDown' /\ alarm' = FALSE
  BY <1>1, InvParts DEF LinkTyped, IdleWhenDown
<1> QED BY <1>1, <1>5, <1>6, <1>7, <1>8 DEF SoeInv

\* A stored event is posted to the thread of the connection.
LEMMA InvPostEvent ==
    ASSUME SoeInv, PostEvent
    PROVE  SoeInv'
<1> DEFINE s == sess["slave"]
           all == Unacknowledged
<1>1. /\ unposted # 0 /\ posted' = (IF up THEN Append(posted, unposted) ELSE posted)
      /\ unposted' = 0
      /\ UNCHANGED <<up, sess, wire, alarm, stored, acked, received, faults, stops>>
  BY DEF PostEvent
<1>2. /\ stored \in Nat /\ unposted \in 1..stored
      /\ posted \in Seq(1..stored) /\ Len(posted) \in Nat
      /\ \A i, j \in 1..Len(posted) : i < j => posted[i] < posted[j]
      /\ \A i \in 1..Len(posted) : posted[i] < unposted
  BY <1>1, InvParts DEF StoreTyped
<1>3. Unacknowledged' = all
  BY <1>1 DEF Unacknowledged, Records
<1>4. Len(Append(posted, unposted)) = Len(posted) + 1
      /\ \A i \in 1..(Len(posted) + 1) :
            Append(posted, unposted)[i] = IF i <= Len(posted) THEN posted[i] ELSE unposted
  BY <1>2
<1>5. posted' \in Seq(1..stored)
      /\ \A i, j \in 1..Len(posted') : i < j => posted'[i] < posted'[j]
  <2>1. CASE up
    <3>1. Append(posted, unposted) \in Seq(1..stored)
      BY <1>2
    <3> DEFINE n == Len(posted)
               q == Append(posted, unposted)
    <3>2. /\ n \in Nat /\ Len(q) = n + 1 /\ \A i \in 1..n : q[i] = posted[i] /\ posted[i] \in 1..stored
          /\ q[n + 1] = unposted /\ \A i \in 1..n : posted[i] < unposted
          /\ \A i, j \in 1..n : i < j => posted[i] < posted[j]
      BY <1>2, <1>4
    <3> HIDE DEF n, q
    <3>3. ASSUME NEW i \in 1..(n + 1), NEW j \in 1..(n + 1), i < j PROVE q[i] < q[j]
      <4>1. i \in 1..n
        BY <3>2, <3>3
      <4>2. CASE j = n + 1
        BY <3>2, <4>1, <4>2
      <4>3. CASE j \in 1..n
        BY <3>2, <3>3, <4>1, <4>3
      <4> QED BY <3>2, <4>2, <4>3
    <3>4. posted' = q
      BY <1>1, <2>1 DEF q
    <3> QED BY <3>1, <3>2, <3>3, <3>4 DEF q
  <2>2. CASE ~up
    BY <1>1, <1>2, <2>2
  <2> QED BY <2>1, <2>2
<1>6. NoneSkipped(s, all, 0, posted')
  <2> SUFFICES ASSUME s.active, NEW e \in all
               PROVE  /\ \A f \in s.seen : e < f => e \in s.seen
                      /\ e \in s.seen \/ e = 0 \/ \E i \in 1..Len(posted') : posted'[i] = e
    BY DEF NoneSkipped
  <2>1. up
    <3>1. ~up => s = NewSession
      BY InvParts, TwoEnds DEF IdleWhenDown
    <3> QED BY <3>1, NewSessionIs
  <2>2. NoneSkipped(s, all, unposted, posted)
    BY InvParts
  <2>3. posted' = Append(posted, unposted)
    BY <1>1, <2>1
  <2>4. CASE e = unposted
    BY <1>2, <1>4, <2>2, <2>3, <2>4 DEF NoneSkipped
  <2>5. CASE \E i \in 1..Len(posted) : posted[i] = e
    BY <1>2, <1>4, <2>2, <2>3, <2>5 DEF NoneSkipped
  <2> QED BY <2>2, <2>4, <2>5 DEF NoneSkipped
<1>7. StoreTyped'
  BY <1>1, <1>5, InvParts DEF StoreTyped
<1>8. LinkTyped' /\ alarm' = FALSE
  BY <1>1, InvParts DEF LinkTyped
<1>9. IdleWhenDown'
  BY <1>1, InvParts DEF IdleWhenDown
<1>10. Linked(sess'["slave"], sess'["master"], wire'["slave"], wire'["master"], received',
              stored', Unacknowledged')
  BY <1>1, <1>3, InvParts
<1>11. NoneSkipped(sess'["slave"], Unacknowledged', unposted', posted')
  BY <1>1, <1>3, <1>6
<1> QED BY <1>7, <1>8, <1>9, <1>10, <1>11 DEF SoeInv

\* A step of the slave's session that queues events.
LEMMA InvEvents ==
    ASSUME SoeInv, up, UNCHANGED <<up, alarm, storeVars, received, faults, stops>>,
           posted' = posted \/ (posted # <<>> /\ posted' = Tail(posted)),
           sess' \in [Ends -> Sessions], wire' \in [Ends -> Seq(Frames)],
           Linked(sess'["slave"], sess'["master"], wire'["slave"], wire'["master"], received,
                  stored, Unacknowledged),
           NoneSkipped(sess'["slave"], Unacknowledged, unposted, posted')
    PROVE  SoeInv'
<1>1. UNCHANGED <<up, alarm, stored, acked, unposted, received, faults, stops>>
  BY DEF storeVars
<1>2. Unacknowledged' = Unacknowledged
  BY <1>1 DEF Unacknowledged, Records
<1>3. LinkTyped' /\ IdleWhenDown' /\ alarm' = FALSE
  BY <1>1, InvParts DEF LinkTyped, IdleWhenDown
<1>4. StoreTyped'
  <2>1. /\ posted \in Seq(1..stored)
        /\ \A i, j \in 1..Len(posted) : i < j => posted[i] < posted[j]
        /\ unposted # 0 => \A i \in 1..Len(posted) : posted[i] < unposted
    BY InvParts DEF StoreTyped
  <2>2. /\ posted' \in Seq(1..stored)
        /\ \A i, j \in 1..Len(posted') : i < j => posted'[i] < posted'[j]
        /\ unposted # 0 => \A i \in 1..Len(posted') : posted'[i] < unposted
    <3>1. CASE posted' = posted
      BY SMTT(30), <2>1, <3>1
    <3>2. CASE posted # <<>> /\ posted' = Tail(posted)
      <4>1. /\ Tail(posted) \in Seq(1..stored) /\ Len(Tail(posted)) = Len(posted) - 1
            /\ \A i \in 1..Len(Tail(posted)) : Tail(posted)[i] = posted[i + 1]
        BY <2>1, <3>2, HeadTailProperties
      <4>2. Len(posted) \in Nat
        BY <2>1
      <4>3. \A i \in 1..Len(Tail(posted)) : i + 1 \in 1..Len(posted)
        BY <4>1, <4>2
      <4>4. \A i, j \in 1..Len(Tail(posted)) : i < j => i + 1 < j + 1
        BY <4>1, <4>2
      <4> QED BY ZenonT(40), <2>1, <3>2, <4>1, <4>3, <4>4
    <3> QED BY <3>1, <3>2
  <2> QED BY <1>1, <2>2, InvParts DEF StoreTyped
<1>5. Linked(sess'["slave"], sess'["master"], wire'["slave"], wire'["master"], received',
             stored', Unacknowledged')
  BY <1>1, <1>2
<1>6. NoneSkipped(sess'["slave"], Unacknowledged', unposted', posted')
  BY <1>1, <1>2
<1> QED BY <1>3, <1>4, <1>5, <1>6 DEF SoeInv

\* The slave starts the transfer.
LEMMA InvStart ==
    ASSUME SoeInv, ReceiveStart
    PROVE  SoeInv'
<1> DEFINE s == sess["slave"]
           m == sess["master"]
           ws == wire["slave"]
           wm == wire["master"]
           f == UFrame("STARTDT_CON")
           t == [s EXCEPT !.active = TRUE]
           others == <<Asdu("values", 0)>>
           all == Unacknowledged
           new == Ascending(all)
           a == EnqueuedSoes("slave", t, new, others)
<1>1. /\ up /\ ws # <<>> /\ Head(ws).type = "STARTDT_ACT"
      /\ \E x \in {IF s.active THEN [s |-> s, out |-> <<>>] ELSE Activated(t)} :
            Handled("slave", x.s, <<f>> \o x.out)
      /\ UNCHANGED <<up, posted, alarm, storeVars, received, faults, stops>>
  BY DEF ReceiveStart, Arrives
<1>2. /\ stored \in Nat /\ stored \in EventNumbers /\ s \in Sessions
      /\ Linked(s, m, ws, wm, received, stored, all) /\ all \in SUBSET (1..stored)
  BY InvParts
<1>3. s.active = FALSE
  <2>1. /\ s.active \in BOOLEAN /\ m.active \in BOOLEAN /\ ws \in Seq(Frames)
        /\ ToSlaveOK(s.active, m.active, ws)
    BY <1>2, LinkedParts
  <2> QED BY <1>1, <2>1, ToSlaveStart
<1>4. NewSoes(t, all) = new
  <2>1. t.active = TRUE /\ t.seen = {}
    BY <1>2, <1>3, SeenStored DEF Sessions
  <2>2. {e \in all : t.active /\ e \notin t.seen} = all
    BY <2>1
  <2> QED BY <2>2 DEF NewSoes
<1>5. Handled("slave", a.s, <<f>> \o a.out)
  BY <1>1, <1>3, <1>4 DEF Activated
<1>6. /\ new \in Seq(1..stored) /\ Range(new) = all
      /\ \A i, j \in 1..Len(new) : i < j => new[i] < new[j]
  BY <1>2, AscendingIs
<1>7. MayFollow(new, {}, all)
  BY <1>6 DEF MayFollow
<1>8. f \in Frames /\ f.type = "STARTDT_CON" /\ others \in {<<>>, <<Asdu("values", 0)>>}
  BY DEF UFrame, Frames
<1>9. /\ Linked(a.s, m, Tail(ws), wm \o (<<f>> \o a.out), received, stored, all)
      /\ a.s.active = TRUE /\ a.s.seen = Range(new)
  <2> DEFINE taken == received
             last == stored
  <2>1. /\ Linked(s, m, ws, wm, taken, last, all) /\ ws # <<>> /\ Head(ws).type = "STARTDT_ACT"
        /\ last \in EventNumbers /\ new \in Seq(1..last) /\ MayFollow(new, {}, all)
        /\ f \in Frames /\ f.type = "STARTDT_CON" /\ others \in {<<>>, <<Asdu("values", 0)>>}
    BY <1>1, <1>2, <1>6, <1>7, <1>8
  <2> HIDE DEF s, m, ws, wm, all, f, others, new, taken, last
  <2>2. LET b == Begun(s, new, others) IN
        /\ Linked(b.s, m, Tail(ws), wm \o (<<f>> \o b.out), taken, last, all)
        /\ b.s.active = TRUE /\ b.s.seen = Range(new)
    BY ONLY <2>1, LinkedStart
  <2> QED BY <2>2 DEF a, t, taken, last, Begun
<1> DEFINE out == <<f>> \o a.out
<1>10. Linked(a.s, m, Tail(ws), wm \o out, received, stored, all) /\ Handled("slave", a.s, out)
  BY <1>5, <1>9
<1> HIDE DEF a, new, out, all
<1>11. a.s \in Sessions /\ wm \o out \in Seq(Frames)
  BY <1>10, LinkedFrames
<1>12. /\ sess' \in [Ends -> Sessions] /\ wire' \in [Ends -> Seq(Frames)]
       /\ sess'["slave"] = a.s /\ sess'["master"] = m
       /\ wire'["slave"] = Tail(ws) /\ wire'["master"] = wm \o out
  BY <1>1, <1>10, <1>11, HandledSlave, InvParts
<1>13. Linked(sess'["slave"], sess'["master"], wire'["slave"], wire'["master"], received,
              stored, Unacknowledged)
  BY <1>10, <1>12 DEF all
<1>14. NoneSkipped(sess'["slave"], Unacknowledged, unposted, posted')
  BY <1>6, <1>9, <1>12 DEF NoneSkipped, all
<1>15. /\ UNCHANGED <<up, alarm, storeVars, received, faults, stops>> /\ posted' = posted
  BY <1>1
<1> QED BY <1>1, <1>12, <1>13, <1>14, <1>15, InvEvents

\* Which event the next task queues, if any.
LEMMA InvRunPosted ==
    ASSUME SoeInv, RunPosted
    PROVE  SoeInv'
<1> DEFINE s == sess["slave"]
           m == sess["master"]
           ws == wire["slave"]
           wm == wire["master"]
           h == Head(posted)
           es == {e \in {h} : s.active /\ e \notin s.seen}
           all == Unacknowledged
           new == Ascending(es)
           none == <<>>
           a == EnqueuedSoes("slave", s, new, none)
<1>1. /\ up /\ posted # <<>> /\ sess' = [sess EXCEPT !["slave"] = a.s] /\ Writes("slave", a.out)
      /\ posted' = Tail(posted)
      /\ UNCHANGED <<up, alarm, storeVars, received, faults, stops>>
  BY DEF RunPosted, NewSoes
<1>2. /\ stored \in Nat /\ stored \in EventNumbers /\ s \in Sessions
      /\ Linked(s, m, ws, wm, received, stored, all) /\ all \in SUBSET (1..stored)
      /\ NoneSkipped(s, all, unposted, posted)
  BY InvParts
<1>3. /\ posted \in Seq(1..stored) /\ Len(posted) \in Nat /\ unposted \in Nat
      /\ \A i, j \in 1..Len(posted) : i < j => posted[i] < posted[j]
      /\ unposted # 0 => \A i \in 1..Len(posted) : posted[i] < unposted
  BY <1>2, InvParts DEF StoreTyped
<1>4. /\ Len(posted) >= 1 /\ h = posted[1] /\ h \in 1..stored
      /\ Tail(posted) \in Seq(1..stored) /\ Len(Tail(posted)) = Len(posted) - 1
      /\ \A i \in 1..Len(Tail(posted)) : Tail(posted)[i] = posted[i + 1]
  <2>1. h \in 1..stored /\ Tail(posted) \in Seq(1..stored) /\ Len(Tail(posted)) = Len(posted) - 1
        /\ \A i \in 1..Len(Tail(posted)) : Tail(posted)[i] = posted[i + 1]
    BY <1>1, <1>3, HeadTailProperties
  <2>2. Len(posted) # 0
    BY <1>1, <1>3, EmptySeq
  <2>3. h = posted[1]
    BY <1>1, <1>3
  <2> QED BY <1>3, <2>1, <2>2, <2>3
<1>5. es \in SUBSET (1..stored) /\ s.seen \subseteq 1..stored
  BY <1>2, <1>4, SeenStored
<1>6. /\ new \in Seq(1..stored) /\ Range(new) = es
      /\ \A i, j \in 1..Len(new) : i < j => new[i] < new[j]
      /\ \A i \in 1..Len(new) : new[i] \in es
  <2> HIDE DEF es
  <2> QED BY ONLY <1>2, <1>5, AscendingIs DEF new
<1>7. MayFollow(new, s.seen, all)
  <2> SUFFICES ASSUME NEW i \in 1..Len(new)
               PROVE  new[i] \notin s.seen /\ (new[i] \in all => \A e \in s.seen : e < new[i])
    BY <1>6 DEF MayFollow
  <2>1. new[i] \in es
    BY <1>6
  <2>2. new[i] = h /\ s.active /\ h \notin s.seen
    BY <2>1
  <2>3. ASSUME h \in all, NEW e \in s.seen PROVE e < h
    <3>1. ~(h < e)
      BY <1>2, <2>2, <2>3 DEF NoneSkipped
    <3>2. e \in Nat /\ h \in Nat /\ e # h
      BY <1>4, <1>5, <2>2, <2>3
    <3> QED BY <3>1, <3>2
  <2> HIDE DEF h, new
  <2> QED BY <2>2, <2>3
<1>8. s.active \/ new = none
  <2>1. ASSUME ~s.active PROVE new = none
    <3>1. es = {}
      BY <2>1
    <3>2. Len(new) = 0
      <4> HIDE DEF es, new
      <4>1. Len(new) \in Nat /\ \A i \in 1..Len(new) : new[i] \in {}
        BY <1>6, <3>1
      <4>2. Len(new) # 0 => 1 \in 1..Len(new)
        BY <4>1
      <4> QED BY <4>1, <4>2
    <3> QED BY <1>6, <3>2, EmptySeq
  <2> QED BY <2>1
<1>9. /\ Linked(a.s, m, ws, wm \o a.out, received, stored, all)
      /\ a.s.active = s.active /\ a.s.seen = s.seen \cup Range(new)
  <2> DEFINE taken == received
             last == stored
  <2>1. /\ Linked(s, m, ws, wm, taken, last, all) /\ last \in EventNumbers
        /\ new \in Seq(1..last) /\ MayFollow(new, s.seen, all)
    BY <1>2, <1>6, <1>7
  <2>2. s.active \/ new = <<>>
    BY <1>8
  <2> HIDE DEF s, m, ws, wm, all, new, taken, last
  <2>3. LET b == EnqueuedSoes("slave", s, new, <<>>) IN
        /\ Linked(b.s, m, ws, wm \o b.out, taken, last, all)
        /\ b.s.active = s.active /\ b.s.seen = s.seen \cup Range(new)
    BY ONLY <2>1, <2>2, LinkedPosted
  <2> QED BY <2>3 DEF a, none, taken, last
<1> HIDE DEF a, new, none, all
<1>10. a.s \in Sessions /\ wm \o a.out \in Seq(Frames)
  BY <1>9, LinkedFrames
<1>11. wire' \in [Ends -> Seq(Frames)] /\ wire'["slave"] = ws /\ wire'["master"] = wm \o a.out
  BY <1>1, <1>10, WritesSlave, InvParts
<1>12. sess' \in [Ends -> Sessions] /\ sess'["slave"] = a.s /\ sess'["master"] = m
  BY <1>1, <1>10, TwoEnds, InvParts
<1>13. Linked(sess'["slave"], sess'["master"], wire'["slave"], wire'["master"], received,
              stored, Unacknowledged)
  BY <1>9, <1>11, <1>12 DEF all
<1>14. NoneSkipped(a.s, all, unposted, Tail(posted))
  <2> SUFFICES ASSUME s.active, NEW e \in all
               PROVE  /\ \A f \in a.s.seen : e < f => e \in a.s.seen
                      /\ \/ e \in a.s.seen \/ e = unposted
                         \/ \E i \in 1..Len(Tail(posted)) : Tail(posted)[i] = e
    BY <1>9 DEF NoneSkipped
  <2>1. a.s.seen = s.seen \cup es /\ h \in a.s.seen
    BY <1>6, <1>9
  <2>2. e \in 1..stored
    BY <1>2
  <2>3. /\ \A f \in s.seen : e < f => e \in s.seen
        /\ e \in s.seen \/ e = unposted \/ \E i \in 1..Len(posted) : posted[i] = e
    BY <1>2 DEF NoneSkipped
  <2>4. ASSUME NEW i \in 1..Len(posted), posted[i] = e
        PROVE  e = h \/ (h < e /\ \E k \in 1..Len(Tail(posted)) : Tail(posted)[k] = e)
    <3>1. CASE i = 1
      BY <1>4, <2>4, <3>1
    <3>2. CASE i > 1
      <4>1. i - 1 \in 1..Len(Tail(posted)) /\ (i - 1) + 1 = i /\ 1 \in 1..Len(posted) /\ 1 < i
        BY <1>3, <1>4, <3>2
      <4>2. Tail(posted)[i - 1] = e
        BY <1>4, <2>4, <4>1
      <4>3. h < e
        BY <1>3, <1>4, <2>4, <4>1
      <4> QED BY <4>1, <4>2, <4>3
    <3> QED BY <3>1, <3>2
  <2>5. e = unposted => h < e
    BY <1>3, <1>4, <2>2
  <2>6. e \in a.s.seen \/ (h < e /\ (e = unposted \/ \E k \in 1..Len(Tail(posted)) : Tail(posted)[k] = e))
    BY <2>1, <2>3, <2>4, <2>5
  <2>7. ASSUME NEW f \in a.s.seen, e < f PROVE e \in a.s.seen
    <3>1. f \in s.seen \/ f = h
      BY <2>1, <2>7
    <3>2. CASE f \in s.seen
      BY <2>1, <2>3, <2>7, <3>2
    <3>3. CASE f = h
      <4>1. ~(h < e)
        BY <1>4, <2>2, <2>7, <3>3
      <4> QED BY <2>6, <4>1
    <3> QED BY <3>1, <3>2, <3>3
  <2> QED BY <2>6, <2>7
<1>15. NoneSkipped(sess'["slave"], Unacknowledged, unposted, posted')
  BY <1>1, <1>12, <1>14 DEF all
<1> QED BY <1>1, <1>11, <1>12, <1>13, <1>15, InvEvents

\* A step that changes nothing.
LEMMA InvStutter == ASSUME SoeInv, UNCHANGED soeVars PROVE SoeInv'
<1>1. UNCHANGED <<up, sess, wire, posted, alarm, stored, acked, unposted, received, faults, stops>>
  BY DEF soeVars, connVars, storeVars
<1>2. Unacknowledged' = Unacknowledged
  BY <1>1 DEF Unacknowledged, Records
<1>3. LinkTyped' /\ StoreTyped' /\ IdleWhenDown'
  BY <1>1, InvParts DEF LinkTyped, StoreTyped, IdleWhenDown
<1> QED BY <1>1, <1>2, <1>3, InvParts DEF SoeInv

\* Every step keeps the invariant.
LEMMA InvNext == ASSUME SoeInv, [SoeNext]_soeVars PROVE SoeInv'
<1>1. ASSUME NEW end \in Ends, ReceiveI(end) \/ ReceiveS(end) \/ AcknowledgeLate(end)
      PROVE  SoeInv'
  <2>1. end = "slave" \/ end = "master"
    BY SoeAssumption
  <2>2. CASE end = "slave"
    BY <1>1, <2>2, InvSlaveI, InvSlaveS, InvLateSlave
  <2>3. CASE end = "master"
    BY <1>1, <2>3, InvMasterI, InvMasterS, InvLateMaster
  <2> QED BY <2>1, <2>2, <2>3
<1>2. CASE Transmit
  <2>1. CASE ReceiveStart
    BY <2>1, InvStart
  <2>2. CASE ReceiveStartCon
    BY <2>2, InvStartCon
  <2>3. CASE ReceiveStop
    BY <2>3, InvStop
  <2>4. CASE ReceiveStopCon
    BY <2>4, InvStopCon
  <2>5. CASE RunPosted
    BY <2>5, InvRunPosted
  <2> QED BY <1>1, <1>2, <2>1, <2>2, <2>3, <2>4, <2>5 DEF Transmit
<1>3. CASE Connect
  BY <1>3, InvConnect
<1>4. CASE Drop
  BY <1>4, InvDrop
<1>5. CASE Crash
  BY <1>5, InvCrash
<1>6. CASE StoreEvent
  BY <1>6, InvStoreEvent
<1>7. CASE PostEvent
  BY <1>7, InvPostEvent
<1>8. CASE StopTransfer
  BY <1>8, InvStopTransfer
<1>9. CASE RestartTransfer
  BY <1>9, InvRestartTransfer
<1>10. CASE UNCHANGED soeVars
  BY <1>10, InvStutter
<1> QED BY <1>1, <1>2, <1>3, <1>4, <1>5, <1>6, <1>7, <1>8, <1>9, <1>10 DEF SoeNext

\* The invariant of both sessions, the wires and the store.
THEOREM SoeInvariant == SoeSpec => []SoeInv
BY InvInit, InvNext, PTL DEF SoeSpec

\* The invariant has the type invariant,
LEMMA InvTyped == SoeInv => SoeTypeOK
<1> SUFFICES ASSUME SoeInv PROVE SoeTypeOK
  OBVIOUS
<1> DEFINE s == sess["slave"]
           m == sess["master"]
           ws == wire["slave"]
           wm == wire["master"]
<1>1. Linked(s, m, ws, wm, received, stored, Unacknowledged) /\ s \in Sessions /\ m \in Sessions
  BY InvParts
<1>2. /\ Windowed(s) /\ Windowed(m)
      /\ Side("slave", s, received, stored, Unacknowledged)
      /\ Side("master", m, received, stored, Unacknowledged)
  BY <1>1, LinkedParts, TwoEnds DEF Mid, Pair
<1> HIDE DEF s, m, ws, wm
<1>3. stored \in 0..MaxEvents /\ stored \in Nat /\ MaxEvents \in Nat /\ SeqMod \in Nat
  BY InvParts, SoeAssumption, SessionAssumption DEF EventNumbers
<1>4. 1..stored \subseteq Events
  BY <1>3 DEF Events
<1>5. ASSUME NEW end \in Ends, NEW x \in Sessions, Windowed(x),
             Side(end, x, received, stored, Unacknowledged)
      PROVE  SessionTypeOK(end, x)
  <2>1. /\ {x.active, x.ackPending, x.autoSent} \subseteq BOOLEAN
        /\ {x.sendSeq, x.acked, x.recvSeq} \subseteq 0..(SeqMod - 1)
        /\ x.unacked \in Nat /\ x.sinceAck \in Nat /\ x.sent \in Seq(EventNumbers)
        /\ x.seen \subseteq Events
    BY DEF Sessions, SeqNumbers
  <2>2. K[end] \in Nat /\ W[end] \in Nat
    BY SeqModBound, SessionAssumption
  <2>3. x.unacked <= K[end] /\ x.sinceAck < W[end] /\ Len(x.sent) = x.unacked
    BY <1>5 DEF Windowed, Side
  <2>4. x.unacked \in 0..K[end] /\ x.sinceAck \in 0..(W[end] - 1)
    BY <2>1, <2>2, <2>3
  <2>5. \A i \in DOMAIN x.sent : x.sent[i] \in Events \cup {0}
    <3>1. \A i \in DOMAIN x.sent : x.sent[i] \in EventNumbers
      BY <2>1
    <3>2. EventNumbers \subseteq Events \cup {0}
      BY <1>3 DEF EventNumbers, Events
    <3> QED BY <3>1, <3>2
  <2> QED BY <2>1, <2>3, <2>4, <2>5 DEF SessionTypeOK
<1>6. \A end \in Ends : SessionTypeOK(end, sess[end])
  <2>1. SessionTypeOK("slave", s) /\ SessionTypeOK("master", m)
    BY <1>1, <1>2, <1>5, TwoEnds
  <2> QED BY <2>1, SoeAssumption DEF s, m
<1>7. /\ {up, alarm} \subseteq BOOLEAN /\ unposted \in 0..MaxEvents
      /\ acked \subseteq Events /\ received \subseteq Events
  BY <1>3, <1>4, InvParts DEF LinkTyped, StoreTyped
<1>8. \A i \in DOMAIN posted : posted[i] \in Events
  <2>1. posted \in Seq(1..stored)
    BY InvParts DEF StoreTyped
  <2>2. DOMAIN posted = 1..Len(posted)
    BY <2>1
  <2>3. \A i \in DOMAIN posted : posted[i] \in 1..stored
    BY <2>1, <2>2, ElementOfSeq
  <2> QED BY <1>4, <2>3
<1> QED BY <1>3, <1>6, <1>7, <1>8, InvParts DEF SoeTypeOK

\* the order of what is sent or queued,
LEMMA InvOutgoing ==
    ASSUME SoeInv
    PROVE  /\ Outgoing \in Seq(EventNumbers) /\ DOMAIN Outgoing = 1..Len(Outgoing)
           /\ OutgoingOK(Outgoing, sess["slave"].seen, received, Unacknowledged)
<1> DEFINE s == sess["slave"]
<1>1. Linked(s, sess["master"], wire["slave"], wire["master"], received, stored, Unacknowledged)
      /\ s \in Sessions
  BY InvParts
<1>2. Side("slave", s, received, stored, Unacknowledged)
  BY <1>1, LinkedParts DEF Mid
<1>3. OutgoingOf(s) \in Seq(EventNumbers)
  <2> HIDE DEF s
  <2> QED BY <1>1, OutgoingIs
<1>4. DOMAIN OutgoingOf(s) = 1..Len(OutgoingOf(s))
  BY <1>3
<1> QED BY <1>2, <1>3, <1>4 DEF Side, QueuesOK, Outgoing

\* the safety of the store,
LEMMA InvSafe == SoeInv => SoeSafe
<1> SUFFICES ASSUME SoeInv PROVE SoeSafe
  OBVIOUS
<1>1. SoeTypeOK /\ NoFalseAlarm
  BY InvTyped, InvParts DEF NoFalseAlarm
<1>2. SentInOrder
  <2>1. InOrder(Outgoing, Unacknowledged) /\ DOMAIN Outgoing = 1..Len(Outgoing)
    BY InvOutgoing DEF OutgoingOK
  <2> QED BY <2>1 DEF InOrder, SentInOrder
<1> QED BY <1>1, <1>2 DEF SoeSafe

\* and that no event is lost.
LEMMA InvNotLost == SoeInv => NoSoeLost
<1> SUFFICES ASSUME SoeInv, sess["slave"].active, NEW e \in Unacknowledged \ received
             PROVE  \/ e = unposted
                    \/ \E i \in DOMAIN posted : posted[i] = e
                    \/ \E i \in DOMAIN Outgoing : Outgoing[i] = e
  BY DEF NoSoeLost
<1>1. posted \in Seq(1..stored)
  BY InvParts DEF StoreTyped
<1>2. DOMAIN posted = 1..Len(posted)
  BY <1>1
<1>3. e \in sess["slave"].seen \/ e = unposted \/ \E i \in 1..Len(posted) : posted[i] = e
  BY InvParts DEF NoneSkipped
<1>4. e \in sess["slave"].seen => \E i \in DOMAIN Outgoing : Outgoing[i] = e
  BY InvOutgoing DEF OutgoingOK
<1> QED BY <1>2, <1>3, <1>4

\* Both ends stay well typed and never take each other for broken, and an
\* activation sends no event twice and none of its stored events behind a newer one.
THEOREM SoeIsSafe == SoeSpec => []SoeSafe
BY SoeInvariant, InvSafe, PTL

\* While the transfer is active, an event of the store that the master has not
\* got is on its way, queued, posted or about to be posted.
THEOREM SoeNeverLost == SoeSpec => []NoSoeLost
BY SoeInvariant, InvNotLost, PTL

\* Every step is a step of the delivery of events, or changes nothing of it.
LEMMA StepDelivers ==
    ASSUME SoeInv, [SoeNext]_soeVars
    PROVE  [Delivery!DeliveryNext]_(Delivery!deliveryVars)
<1> DEFINE Goal == [Delivery!DeliveryNext]_(Delivery!deliveryVars)
<1>1. ASSUME UNCHANGED <<stored, received, acked>> PROVE Goal
  BY <1>1 DEF Delivery!deliveryVars
<1>2. ASSUME Acknowledges PROVE Goal
  <2>1. Delivery!Acknowledge
    BY <1>2 DEF Acknowledges, Delivery!Acknowledge
  <2> QED BY <2>1 DEF Delivery!DeliveryNext
<1>3. ASSUME Receives PROVE Goal
  <2>1. PICK e \in 0..stored : received' = received \cup ({e} \ {0})
    BY <1>3 DEF Receives
  <2>2. UNCHANGED <<stored, acked>> /\ stored \in Nat
    BY <1>3, InvParts DEF Receives
  <2>3. CASE e = 0
    BY <1>1, <2>1, <2>2, <2>3
  <2>4. CASE e # 0
    <3>1. e \in 1..stored /\ received' = received \cup {e}
      BY <2>1, <2>2, <2>4
    <3>2. Delivery!Receive
      BY <2>2, <3>1 DEF Delivery!Receive
    <3> QED BY <3>2 DEF Delivery!DeliveryNext
  <2> QED BY <2>3, <2>4
<1> SUFFICES Goal
  OBVIOUS
<1> HIDE DEF Goal
<1>4. ASSUME NEW end \in Ends, ReceiveI(end) \/ ReceiveS(end) \/ AcknowledgeLate(end) PROVE Goal
  <2>1. end = "slave" \/ end = "master"
    BY SoeAssumption
  <2>2. CASE AcknowledgeLate(end)
    BY <1>1, <2>2 DEF AcknowledgeLate, storeVars
  <2>3. CASE end = "slave" /\ (ReceiveI(end) \/ ReceiveS(end))
    BY <1>2, <2>3, InvSlaveI, InvSlaveS
  <2>4. CASE end = "master" /\ (ReceiveI(end) \/ ReceiveS(end))
    BY <1>1, <1>3, <2>4, InvMasterI, InvMasterS
  <2> QED BY <1>4, <2>1, <2>2, <2>3, <2>4
<1>5. CASE StoreEvent
  <2>1. Delivery!Store
    BY <1>5 DEF StoreEvent, Delivery!Store
  <2> QED BY <2>1 DEF Goal, Delivery!DeliveryNext
<1>6. CASE Transmit
  <2>1. CASE ReceiveStart \/ ReceiveStartCon \/ ReceiveStop \/ ReceiveStopCon \/ RunPosted
    BY <1>1, <2>1 DEF ReceiveStart, ReceiveStartCon, ReceiveStop, ReceiveStopCon, RunPosted, storeVars
  <2> QED BY <1>4, <1>6, <2>1 DEF Transmit
<1>7. CASE Connect \/ Drop \/ Crash
  BY <1>1, <1>7 DEF Connect, Drop, Crash, storeVars
<1>8. CASE PostEvent \/ StopTransfer \/ RestartTransfer
  BY <1>1, <1>8 DEF PostEvent, StopTransfer, RestartTransfer, storeVars
<1>9. CASE UNCHANGED soeVars
  BY <1>1, <1>9 DEF soeVars, storeVars
<1> QED BY <1>4, <1>5, <1>6, <1>7, <1>8, <1>9 DEF SoeNext

\* An event counts as acknowledged only after the master got it: every step of
\* the sessions and the store is a step of the abstract delivery, or none.
THEOREM SoeImplementsDelivery == SoeSpec => ImplementsDelivery
<1>1. SoeInit => Delivery!DeliveryInit
  BY DEF SoeInit, Delivery!DeliveryInit
<1>2. SoeInv /\ [SoeNext]_soeVars => [Delivery!DeliveryNext]_(Delivery!deliveryVars)
  BY StepDelivers
<1> QED BY <1>1, <1>2, SoeInvariant, PTL DEF SoeSpec, ImplementsDelivery, Delivery!DeliverySpec

=============================================================================
