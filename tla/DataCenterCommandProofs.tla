----------------------- MODULE DataCenterCommandProofs ----------------------
(***************************************************************************)
(* Theorems about ExecuteCommand, for any set of commands, connections and *)
(* configuration requests: the lanes keep moving while the configuration   *)
(* changes under the commands, a command is answered and cached as its     *)
(* target said, and commands of a lane are sent in the order of tickets.   *)
(***************************************************************************)
EXTENDS DataCenterCommand, DataCenterStoreProofs

LaneRecords == [next : Nat, serving : Nat, cancelled : SUBSET Nat]
Targets == [key : Keys, id : ConnIds, tag : Tags]

CommandRecords ==
    [pc : {"start", "routed", "admitted", "queued", "done"} \cup Holding,
     stop : {"none", "cancelled", "deadline"},
     route : {"none", "NO_ROUTE", "AMBIGUOUS_ROUTE", "TARGET_UNAVAILABLE", "ONE"},
     dst : Targets \cup {NoDst},
     src : Endpoints \cup {NoDst},
     ticket : Nat,
     outcome : {"none", "accepted", "rejected", "unavailable", "expired", "cancelled"},
     result : {"none", "ERROR", "STOPPED", "NO_ROUTE", "AMBIGUOUS_ROUTE", "TARGET_UNAVAILABLE",
               "TIMEOUT", "INTERNAL_ERROR", "REJECTED", "ACCEPTED"}]

CommandsTyped ==
    /\ cmds \in [Commands -> CommandRecords]
    /\ lanes \in [Keys -> LaneRecords]
    /\ target \in [Commands -> {"idle", "sent", "executing", "accepted", "rejected", "lost"}]

\* A command knows its target point since it was routed, its source endpoint
\* since the call, and what it makes of the call is what its target said.
CommandOK(c) ==
    /\ cmds[c].pc = "routed" /\ cmds[c].route = "ONE" => cmds[c].dst \in Targets
    /\ cmds[c].pc \in {"admitted", "queued"} \cup Holding => cmds[c].dst \in Targets
    /\ cmds[c].pc \in {"calling", "returned", "accepted", "storing"} => cmds[c].src \in Endpoints
    /\ cmds[c].pc = "returned" => /\ cmds[c].outcome # "none"
                                  /\ cmds[c].outcome = "accepted" => target[c] = "accepted"
                                  /\ cmds[c].outcome = "rejected" => target[c] = "rejected"
    /\ cmds[c].pc \in {"accepted", "storing"} => target[c] = "accepted"
    /\ cmds[c].result # "none" => cmds[c].pc = "done"
    /\ cmds[c].result = "ACCEPTED" => target[c] = "accepted"
    /\ cmds[c].result = "REJECTED" => target[c] = "rejected"

\* Only commands that were reported as accepted are in the cache.
CachedIsAccepted ==
    \A p \in Points : latestByDst[p] # NoUpdate /\ latestByDst[p].val \in Commands =>
        cmds[latestByDst[p].val].result = "ACCEPTED"

-----------------------------------------------------------------------------
(* One lane.  A lane is a value, so what keeps it right is said of a lane, *)
(* of the commands in it, of those that hold it, and of their tickets.     *)

LaneOK(l, in, held, tk) ==
    /\ l \in LaneRecords
    /\ l.serving <= l.next
    /\ \A t \in l.cancelled : l.serving < t /\ t < l.next
    /\ \A c \in in : /\ tk[c] \in Nat
                     /\ l.serving <= tk[c] /\ tk[c] < l.next
                     /\ tk[c] \notin l.cancelled
    /\ \A c, d \in in : tk[c] = tk[d] => c = d
    /\ held \subseteq in
    /\ \A c \in held : tk[c] = l.serving
    /\ \A t \in Nat : l.serving <= t /\ t < l.next =>
          t \in l.cancelled \/ \E c \in in : tk[c] = t

\* The loop that skips the tickets given up stops at an open one, has passed
\* only tickets given up, and has forgotten exactly those.
LEMMA SkipLemma ==
    ASSUME NEW l \in LaneRecords, NEW from \in Nat, NEW m \in ServingFrom(l, from)
    PROVE  /\ m \in LaneRecords
           /\ m.next = l.next
           /\ from <= m.serving /\ m.serving <= m.next
           /\ m.serving \notin l.cancelled
           /\ \A t \in Nat : from <= t /\ t < m.serving => t \in l.cancelled
           /\ \A t \in Nat : t \in m.cancelled <=>
                   t \in l.cancelled /\ ~(from <= t /\ t <= m.serving)
<1> USE DEF LaneRecords
<1>1. PICK n \in FirstOpen(l, from) :
          m = [next |-> l.next, serving |-> n, cancelled |-> l.cancelled \ (from..n)]
  BY DEF ServingFrom
<1>2. /\ n \in from..l.next
      /\ n \notin l.cancelled
      /\ from..(n - 1) \subseteq l.cancelled
  BY <1>1 DEF FirstOpen
<1>3. n \in Nat /\ from <= n /\ n <= l.next
  BY <1>2
<1>4. \A t \in Nat : from <= t /\ t < n => t \in from..(n - 1)
  BY <1>3
<1> QED
  BY <1>1, <1>2, <1>3, <1>4

\* A lane is right whatever the tickets of the commands that are not in it.
LEMMA LaneFrame ==
    ASSUME NEW l, NEW in, NEW held, NEW tk, NEW tk2, LaneOK(l, in, held, tk),
           \A c \in in : tk2[c] = tk[c]
    PROVE  LaneOK(l, in, held, tk2)
<1>1. \A c \in held : tk2[c] = tk[c]
  BY DEF LaneOK
<1> QED BY <1>1 DEF LaneOK

\* reserveCommandTicket: the new ticket is behind all others.
LEMMA LaneReserve ==
    ASSUME NEW l, NEW in, NEW held, NEW tk, NEW c, LaneOK(l, in, held, tk),
           c \notin in, tk[c] = l.next
    PROVE  LaneOK(WithReserved(l), in \cup {c}, held, tk)
<1> DEFINE m == WithReserved(l)
<1>1. /\ m \in LaneRecords
      /\ m.next = l.next + 1 /\ m.serving = l.serving /\ m.cancelled = l.cancelled
  BY DEF LaneOK, WithReserved, LaneRecords
<1> HIDE DEF m
<1>2. /\ l.next \in Nat /\ l.serving \in Nat /\ l.cancelled \subseteq Nat
      /\ l.serving <= l.next
  BY DEF LaneOK, LaneRecords
<1>3. ASSUME NEW t \in Nat, l.serving <= t, t < l.next + 1, t \notin l.cancelled
      PROVE  \E d \in in \cup {c} : tk[d] = t
  <2>1. CASE t = l.next
    BY <2>1
  <2>2. CASE t # l.next
    <3>1. t < l.next
      BY <1>2, <1>3, <2>2
    <3> QED BY <1>3, <3>1 DEF LaneOK
  <2> QED BY <2>1, <2>2
<1>4. \A d \in in \cup {c} : /\ tk[d] \in Nat
                             /\ l.serving <= tk[d] /\ tk[d] < l.next + 1
                             /\ tk[d] \notin l.cancelled
  BY <1>2 DEF LaneOK
<1>5. \A d, e \in in \cup {c} : tk[d] = tk[e] => d = e
  BY <1>2 DEF LaneOK
<1>6. \A t \in l.cancelled : l.serving < t /\ t < l.next + 1
  BY <1>2 DEF LaneOK
<1>7. held \subseteq in \cup {c} /\ \A d \in held : tk[d] = l.serving
  BY DEF LaneOK
<1> QED BY <1>1, <1>2, <1>3, <1>4, <1>5, <1>6, <1>7 DEF LaneOK, m

\* waitCommandTicket when the turn has come.
LEMMA LaneTake ==
    ASSUME NEW l, NEW in, NEW held, NEW tk, NEW c \in in, LaneOK(l, in, held, tk),
           tk[c] = l.serving
    PROVE  LaneOK(l, in, held \cup {c}, tk)
<1> QED BY DEF LaneOK

\* A ticket given up while it waits is skipped later; the lane stays where it is.
LEMMA LaneGiveUp ==
    ASSUME NEW l, NEW in, NEW held, NEW tk, NEW c \in in, LaneOK(l, in, held, tk),
           tk[c] # l.serving, NEW m \in Abandoned(l, tk[c])
    PROVE  LaneOK(m, in \ {c}, held, tk)
<1> DEFINE k == [l EXCEPT !.cancelled = l.cancelled \cup {tk[c]}]
<1>1. l \in LaneRecords /\ tk[c] \in Nat
  BY DEF LaneOK
<1>2. /\ k \in LaneRecords
      /\ k.next = l.next /\ k.serving = l.serving /\ k.cancelled = l.cancelled \cup {tk[c]}
  BY <1>1 DEF LaneRecords
<1>3. m \in ServingFrom(k, l.serving)
  BY DEF Abandoned
<1> HIDE DEF k
<1>4. l.serving \in Nat /\ l.next \in Nat /\ l.cancelled \subseteq Nat
  BY <1>1 DEF LaneRecords
<1>5. /\ m \in LaneRecords
      /\ m.next = l.next
      /\ l.serving <= m.serving
      /\ \A t \in Nat : l.serving <= t /\ t < m.serving => t \in k.cancelled
      /\ \A t \in Nat : t \in m.cancelled <=>
             t \in k.cancelled /\ ~(l.serving <= t /\ t <= m.serving)
  BY <1>2, <1>3, <1>4, SkipLemma
<1>6. l.serving \notin k.cancelled
  BY <1>2, <1>4 DEF LaneOK
<1>7. m.serving = l.serving
  <2>1. m.serving \in Nat
    BY <1>5 DEF LaneRecords
  <2> QED BY <1>4, <1>5, <1>6, <2>1
<1>8. \A t \in Nat : t \in m.cancelled <=> t \in l.cancelled \/ t = tk[c]
  BY <1>2, <1>4, <1>5, <1>6, <1>7 DEF LaneOK
<1>9. m.cancelled \subseteq Nat
  BY <1>5 DEF LaneRecords
<1>10. \A t \in m.cancelled : m.serving < t /\ t < m.next
  BY <1>1, <1>4, <1>5, <1>7, <1>8, <1>9 DEF LaneOK
<1>11. \A d \in in \ {c} : /\ tk[d] \in Nat
                           /\ m.serving <= tk[d] /\ tk[d] < m.next
                           /\ tk[d] \notin m.cancelled
  BY <1>5, <1>7, <1>8 DEF LaneOK
<1>12. \A t \in Nat : m.serving <= t /\ t < m.next =>
          t \in m.cancelled \/ \E d \in in \ {c} : tk[d] = t
  BY <1>5, <1>7, <1>8 DEF LaneOK
<1>13. held \subseteq in \ {c} /\ \A d \in held : tk[d] = m.serving
  BY <1>7 DEF LaneOK
<1>14. m.serving <= m.next /\ \A d, e \in in \ {c} : tk[d] = tk[e] => d = e
  BY <1>5, <1>7 DEF LaneOK
<1> QED BY <1>5, <1>10, <1>11, <1>12, <1>13, <1>14 DEF LaneOK

\* CommandLease::release: the lane goes on to the next ticket not given up.
LEMMA LaneRelease ==
    ASSUME NEW l, NEW in, NEW held, NEW tk, NEW c \in held, LaneOK(l, in, held, tk),
           NEW m \in Released(l)
    PROVE  LaneOK(m, in \ {c}, held \ {c}, tk)
<1>1. /\ l \in LaneRecords
      /\ l.serving \in Nat /\ l.next \in Nat /\ l.cancelled \subseteq Nat
  BY DEF LaneOK, LaneRecords
<1>2. c \in in /\ tk[c] = l.serving /\ l.serving < l.next
  BY DEF LaneOK
<1>3. /\ m \in LaneRecords
      /\ m.next = l.next
      /\ l.serving + 1 <= m.serving /\ m.serving <= m.next
      /\ m.serving \notin l.cancelled
      /\ \A t \in Nat : l.serving + 1 <= t /\ t < m.serving => t \in l.cancelled
      /\ \A t \in Nat : t \in m.cancelled <=>
             t \in l.cancelled /\ ~(l.serving + 1 <= t /\ t <= m.serving)
  BY <1>1, SkipLemma DEF Released
<1>4. m.serving \in Nat /\ m.cancelled \subseteq Nat
  BY <1>3 DEF LaneRecords
<1>5. held \ {c} = {}
  BY <1>2 DEF LaneOK
<1>6. \A t \in m.cancelled : m.serving < t /\ t < m.next
  BY <1>1, <1>3, <1>4 DEF LaneOK
<1>7. ASSUME NEW d \in in \ {c}
      PROVE  /\ tk[d] \in Nat
             /\ m.serving <= tk[d] /\ tk[d] < m.next
             /\ tk[d] \notin m.cancelled
  <2>1. /\ tk[d] \in Nat /\ tk[d] # l.serving /\ l.serving <= tk[d]
        /\ tk[d] < l.next /\ tk[d] \notin l.cancelled
    BY <1>2 DEF LaneOK
  <2>2. l.serving + 1 <= tk[d]
    BY <1>1, <2>1
  <2> QED BY <1>3, <1>4, <2>1, <2>2
<1>8. ASSUME NEW t \in Nat, m.serving <= t, t < m.next, t \notin m.cancelled
      PROVE  \E d \in in \ {c} : tk[d] = t
  <2>1. l.serving < t /\ t < l.next
    BY <1>1, <1>3, <1>4, <1>8
  <2>2. t \notin l.cancelled
    BY <1>1, <1>3, <1>4, <1>8
  <2>3. PICK d \in in : tk[d] = t
    BY <1>1, <2>1, <2>2 DEF LaneOK
  <2> QED BY <1>1, <1>2, <2>1, <2>3
<1>9. \A d, e \in in \ {c} : tk[d] = tk[e] => d = e
  BY DEF LaneOK
<1> QED BY <1>3, <1>5, <1>6, <1>7, <1>8, <1>9 DEF LaneOK

-----------------------------------------------------------------------------
(* The lanes of the service. *)

HoldersOf(k) == {c \in Commands : cmds[c].pc \in Holding /\ cmds[c].dst.key = k}
Tickets == [c \in Commands |-> cmds[c].ticket]

LanesOK == \A k \in Keys : LaneOK(lanes[k], InLaneOf(k), HoldersOf(k), Tickets)

OthersSame(c) == \A d \in Commands : d # c => cmds'[d] = cmds[d]

InLane(pc) == pc \in {"queued"} \cup Holding

\* A step that moves no command into, within or out of a lane.
LEMMA LanesFrame ==
    ASSUME LanesOK, lanes' = lanes,
           \A c \in Commands :
               /\ InLane(cmds'[c].pc) <=> InLane(cmds[c].pc)
               /\ cmds'[c].pc \in Holding <=> cmds[c].pc \in Holding
               /\ InLane(cmds[c].pc) => /\ cmds'[c].dst = cmds[c].dst
                                        /\ cmds'[c].ticket = cmds[c].ticket
    PROVE  LanesOK'
<1> SUFFICES ASSUME NEW k \in Keys
             PROVE  LaneOK(lanes'[k], InLaneOf(k)', HoldersOf(k)', Tickets')
  BY DEF LanesOK
<1>1. InLaneOf(k)' = InLaneOf(k) /\ HoldersOf(k)' = HoldersOf(k)
  BY DEF InLaneOf, HoldersOf, InLane
<1>2. \A c \in InLaneOf(k) : Tickets'[c] = Tickets[c]
  BY DEF InLaneOf, Tickets, InLane
<1>3. LaneOK(lanes[k], InLaneOf(k), HoldersOf(k), Tickets)
  BY DEF LanesOK
<1>4. LaneOK(lanes[k], InLaneOf(k), HoldersOf(k), Tickets')
  BY <1>2, <1>3, LaneFrame
<1> QED BY <1>1, <1>4

\* A lane that the command of the step is not in.
LEMMA OtherLaneFrame ==
    ASSUME LanesOK, NEW c \in Commands, OthersSame(c), NEW k \in Keys, lanes'[k] = lanes[k],
           c \notin InLaneOf(k), c \notin InLaneOf(k)'
    PROVE  LaneOK(lanes'[k], InLaneOf(k)', HoldersOf(k)', Tickets')
<1>1. InLaneOf(k)' = InLaneOf(k) /\ HoldersOf(k)' = HoldersOf(k)
  BY DEF InLaneOf, HoldersOf, OthersSame
<1>2. \A d \in InLaneOf(k) : Tickets'[d] = Tickets[d]
  BY DEF InLaneOf, Tickets, OthersSame
<1>3. LaneOK(lanes[k], InLaneOf(k), HoldersOf(k), Tickets)
  BY DEF LanesOK
<1>4. LaneOK(lanes[k], InLaneOf(k), HoldersOf(k), Tickets')
  BY <1>2, <1>3, LaneFrame
<1> QED BY <1>1, <1>4

LEMMA LanesReserve ==
    ASSUME CommandsTyped, LanesOK, NEW c \in Commands, CommandOK(c), ReserveTicket(c)
    PROVE  LanesOK'
<1>0. PICK k \in Keys : k = cmds[c].dst.key
  BY DEF ReserveTicket, At, CommandOK, Targets
<1>1. /\ cmds[c].pc = "admitted"
      /\ lanes' = [lanes EXCEPT ![k] = WithReserved(lanes[k])]
      /\ cmds' = [cmds EXCEPT ![c].pc = "queued", ![c].ticket = lanes[k].next]
  BY <1>0 DEF ReserveTicket, At
<1>2. /\ OthersSame(c)
      /\ cmds'[c].pc = "queued" /\ cmds'[c].dst = cmds[c].dst
      /\ cmds'[c].ticket = lanes[k].next
  BY <1>0, <1>1 DEF CommandsTyped, CommandRecords, OthersSame
<1>3. \A j \in Keys : j # k => LaneOK(lanes'[j], InLaneOf(j)', HoldersOf(j)', Tickets')
  <2> SUFFICES ASSUME NEW j \in Keys, j # k
               PROVE  LaneOK(lanes'[j], InLaneOf(j)', HoldersOf(j)', Tickets')
    OBVIOUS
  <2>1. c \notin InLaneOf(j) /\ c \notin InLaneOf(j)' /\ lanes'[j] = lanes[j]
    BY <1>0, <1>1, <1>2 DEF InLaneOf, CommandsTyped
  <2> QED BY <1>2, <2>1, OtherLaneFrame
<1>4. LaneOK(lanes'[k], InLaneOf(k)', HoldersOf(k)', Tickets')
  <2>1. /\ c \notin InLaneOf(k) /\ InLaneOf(k)' = InLaneOf(k) \cup {c}
        /\ HoldersOf(k)' = HoldersOf(k)
    BY <1>0, <1>1, <1>2 DEF InLaneOf, HoldersOf, OthersSame, Holding
  <2>2. /\ \A d \in InLaneOf(k) : Tickets'[d] = Tickets[d]
        /\ Tickets'[c] = lanes[k].next
    <3>1. \A d \in InLaneOf(k) : d \in Commands /\ d # c
      BY <2>1 DEF InLaneOf
    <3>2. \A d \in Commands : d # c => Tickets'[d] = Tickets[d]
      BY <1>2 DEF Tickets, OthersSame
    <3>3. Tickets'[c] = lanes[k].next
      BY <1>2 DEF Tickets
    <3> QED BY <3>1, <3>2, <3>3
  <2>3. LaneOK(lanes[k], InLaneOf(k), HoldersOf(k), Tickets)
    BY <1>0, <1>1 DEF LanesOK
  <2>4. LaneOK(lanes[k], InLaneOf(k), HoldersOf(k), Tickets')
    BY <2>2, <2>3, LaneFrame
  <2>5. lanes'[k] = WithReserved(lanes[k])
    BY <1>0, <1>1 DEF CommandsTyped
  <2>6. LaneOK(WithReserved(lanes[k]), InLaneOf(k) \cup {c}, HoldersOf(k), Tickets')
    BY <2>1, <2>2, <2>4, LaneReserve
  <2> QED BY <2>1, <2>5, <2>6
<1> QED BY <1>3, <1>4 DEF LanesOK

LEMMA LanesTake ==
    ASSUME CommandsTyped, LanesOK, NEW c \in Commands, CommandOK(c), TakeTurn(c)
    PROVE  LanesOK'
<1>0. PICK k \in Keys : k = cmds[c].dst.key
  BY DEF TakeTurn, At, CommandOK, Targets
<1>1. /\ cmds[c].pc = "queued" /\ lanes' = lanes
      /\ lanes[k].serving = cmds[c].ticket
      /\ cmds' = [cmds EXCEPT ![c].pc = "holding"]
  BY <1>0 DEF TakeTurn, At, Step
<1>2. /\ OthersSame(c)
      /\ cmds'[c].pc = "holding" /\ cmds'[c].dst = cmds[c].dst
      /\ cmds'[c].ticket = cmds[c].ticket
  BY <1>0, <1>1 DEF CommandsTyped, CommandRecords, OthersSame
<1>3. \A j \in Keys : j # k => LaneOK(lanes'[j], InLaneOf(j)', HoldersOf(j)', Tickets')
  <2> SUFFICES ASSUME NEW j \in Keys, j # k
               PROVE  LaneOK(lanes'[j], InLaneOf(j)', HoldersOf(j)', Tickets')
    OBVIOUS
  <2>1. c \notin InLaneOf(j) /\ c \notin InLaneOf(j)' /\ lanes'[j] = lanes[j]
    BY <1>0, <1>1, <1>2 DEF InLaneOf
  <2> QED BY <1>2, <2>1, OtherLaneFrame
<1>4. LaneOK(lanes'[k], InLaneOf(k)', HoldersOf(k)', Tickets')
  <2>1. /\ c \in InLaneOf(k) /\ InLaneOf(k)' = InLaneOf(k)
        /\ HoldersOf(k)' = HoldersOf(k) \cup {c}
    BY <1>0, <1>1, <1>2 DEF InLaneOf, HoldersOf, OthersSame, Holding
  <2>2. Tickets' = Tickets /\ Tickets[c] = lanes[k].serving
    BY <1>0, <1>1, <1>2 DEF Tickets, OthersSame
  <2>3. LaneOK(lanes[k], InLaneOf(k), HoldersOf(k), Tickets)
    BY <1>0, <1>1 DEF LanesOK
  <2>4. LaneOK(lanes[k], InLaneOf(k), HoldersOf(k) \cup {c}, Tickets)
    BY <2>1, <2>2, <2>3, LaneTake
  <2> QED BY <1>0, <1>1, <2>1, <2>2, <2>4
<1> QED BY <1>3, <1>4 DEF LanesOK

\* A command leaves its lane: lane m of it is right without the command.
LEMMA LanesLeave ==
    ASSUME CommandsTyped, LanesOK, NEW c \in Commands, CommandOK(c), InLane(cmds[c].pc),
           NEW result, cmds' = Finished(c, result),
           NEW m, lanes' = [lanes EXCEPT ![cmds[c].dst.key] = m],
           LaneOK(m, InLaneOf(cmds[c].dst.key) \ {c}, HoldersOf(cmds[c].dst.key) \ {c}, Tickets)
    PROVE  LanesOK'
<1>0. PICK k \in Keys : k = cmds[c].dst.key
  BY DEF CommandOK, Targets, InLane
<1>2. /\ OthersSame(c)
      /\ cmds'[c].pc = "done" /\ cmds'[c].ticket = cmds[c].ticket
  BY DEF CommandsTyped, CommandRecords, OthersSame, Finished
<1>3. \A j \in Keys : j # k => LaneOK(lanes'[j], InLaneOf(j)', HoldersOf(j)', Tickets')
  <2> SUFFICES ASSUME NEW j \in Keys, j # k
               PROVE  LaneOK(lanes'[j], InLaneOf(j)', HoldersOf(j)', Tickets')
    OBVIOUS
  <2>1. c \notin InLaneOf(j) /\ c \notin InLaneOf(j)' /\ lanes'[j] = lanes[j]
    BY <1>0, <1>2 DEF InLaneOf, CommandsTyped, Holding
  <2> QED BY <1>2, <2>1, OtherLaneFrame
<1>4. LaneOK(lanes'[k], InLaneOf(k)', HoldersOf(k)', Tickets')
  <2>1. InLaneOf(k)' = InLaneOf(k) \ {c} /\ HoldersOf(k)' = HoldersOf(k) \ {c}
    BY <1>0, <1>2 DEF InLaneOf, HoldersOf, OthersSame, Holding
  <2>2. Tickets' = Tickets
    BY <1>0, <1>2 DEF Tickets, OthersSame
  <2>3. lanes'[k] = m
    BY <1>0 DEF CommandsTyped
  <2> QED BY <1>0, <2>1, <2>2, <2>3
<1> QED BY <1>3, <1>4 DEF LanesOK

LEMMA LanesGiveUp ==
    ASSUME CommandsTyped, LanesOK, NEW c \in Commands, CommandOK(c), GiveUpTurn(c)
    PROVE  LanesOK'
<1> DEFINE k == cmds[c].dst.key
<1>1. PICK m \in Abandoned(lanes[k], cmds[c].ticket) :
        /\ lanes' = [lanes EXCEPT ![k] = m]
        /\ cmds' = Finished(c, "STOPPED")
        /\ lanes[k].serving # cmds[c].ticket /\ cmds[c].pc = "queued"
  BY DEF GiveUpTurn, At
<1>2. k \in Keys
  BY <1>1 DEF CommandOK, Targets
<1>3. /\ c \in InLaneOf(k) /\ HoldersOf(k) \ {c} = HoldersOf(k)
      /\ Tickets[c] = cmds[c].ticket
  BY <1>1 DEF InLaneOf, HoldersOf, Tickets, Holding
<1>4. LaneOK(lanes[k], InLaneOf(k), HoldersOf(k), Tickets)
  BY <1>2 DEF LanesOK
<1>5. LaneOK(m, InLaneOf(k) \ {c}, HoldersOf(k), Tickets)
  BY <1>1, <1>3, <1>4, LaneGiveUp
<1> QED BY <1>1, <1>3, <1>5, LanesLeave DEF InLane

LEMMA LanesRelease ==
    ASSUME CommandsTyped, LanesOK, NEW c \in Commands, CommandOK(c), cmds[c].pc \in Holding,
           NEW result, cmds' = Finished(c, result), ReleaseLane(c)
    PROVE  LanesOK'
<1> DEFINE k == cmds[c].dst.key
<1>1. PICK m \in Released(lanes[k]) : lanes' = [lanes EXCEPT ![k] = m]
  BY DEF ReleaseLane
<1>2. k \in Keys
  BY DEF CommandOK, Targets
<1>3. c \in HoldersOf(k)
  BY DEF HoldersOf
<1>4. LaneOK(lanes[k], InLaneOf(k), HoldersOf(k), Tickets)
  BY <1>2 DEF LanesOK
<1>5. LaneOK(m, InLaneOf(k) \ {c}, HoldersOf(k) \ {c}, Tickets)
  BY <1>1, <1>3, <1>4, LaneRelease
<1> QED BY <1>1, <1>5, LanesLeave DEF InLane

-----------------------------------------------------------------------------
(* What each step of a command leaves: its own record is right again. *)

CommandInv ==
    /\ StoreInv
    /\ CommandsTyped
    /\ \A c \in Commands : CommandOK(c)
    /\ LanesOK
    /\ CachedIsAccepted

Moved(c) ==
    /\ CommandsTyped'
    /\ CommandOK(c)'
    /\ OthersSame(c)
    /\ \A d \in Commands : d # c => target'[d] = target[d]
    /\ cmds[c].result = "ACCEPTED" => cmds'[c].result = "ACCEPTED"

LEMMA StopMoves ==
    ASSUME CommandsTyped, NEW c \in Commands, CommandOK(c), Stop(c)
    PROVE  Moved(c)
<1>1. PICK why \in {"cancelled", "deadline"} :
        /\ cmds' = [cmds EXCEPT ![c].stop = why]
        /\ lanes' = lanes /\ target' = target /\ cmds[c] \in CommandRecords
  BY DEF Stop, CommandsTyped
<1> QED
  BY <1>1 DEF Moved, CommandsTyped, CommandRecords, CommandOK, OthersSame, Holding

LEMMA RouteMoves ==
    ASSUME StoreInv, CommandsTyped, NEW c \in Commands, CommandOK(c), Route(c)
    PROVE  Moved(c)
<1>1. cmds[c].pc = "start" /\ cmds[c] \in CommandRecords /\ lanes' = lanes /\ target' = target
  BY DEF Route, At, Return, CommandsTyped
<1>2. CASE cmds' = Finished(c, "ERROR")
  BY <1>1, <1>2 DEF Finished, Moved, CommandsTyped, CommandRecords, CommandOK, OthersSame, Holding
<1>3. ASSUME NEW src \in Resolved(CommandSrc[c]),
             cmds' = [cmds EXCEPT ![c].pc = "routed", ![c].route = RouteOf(src)],
             RouteOf(src) # "ONE"
      PROVE  Moved(c)
  <2>1. RouteOf(src) \in {"NO_ROUTE", "AMBIGUOUS_ROUTE", "TARGET_UNAVAILABLE"}
    BY <1>3 DEF RouteOf
  <2> QED
    BY <1>1, <1>3, <2>1 DEF Moved, CommandsTyped, CommandRecords, CommandOK, OthersSame, Holding
<1>4. ASSUME NEW src \in Resolved(CommandSrc[c]), RouteOf(src) = "ONE", NEW d \in DstsOf(src),
             cmds' = [cmds EXCEPT ![c].pc = "routed", ![c].route = "ONE",
                        ![c].dst = [key |-> d.key, id |-> connIdsByKey[d.key], tag |-> d.tag]]
      PROVE  Moved(c)
  <2>1. d \in Endpoints /\ Registered(d.key)
    <3>1. d \in Endpoints
      BY DEF DstsOf, StoreInv, CoreInv, CoreTypeOK, Routes
    <3>2. Registered(d.key)
      BY <1>4 DEF RouteOf
    <3> QED BY <3>1, <3>2
  <2>2. [key |-> d.key, id |-> connIdsByKey[d.key], tag |-> d.tag] \in Targets
    BY <2>1 DEF Endpoints, Targets, Registered, StoreInv, CoreInv, CoreTypeOK
  <2> DEFINE t == [key |-> d.key, id |-> connIdsByKey[d.key], tag |-> d.tag]
  <2>3. t \in Targets /\ cmds' = [cmds EXCEPT ![c].pc = "routed", ![c].route = "ONE", ![c].dst = t]
    BY <1>4, <2>2
  <2> HIDE DEF t
  <2> QED
    BY <1>1, <2>3 DEF Moved, CommandsTyped, CommandRecords, CommandOK, OthersSame, Holding
<1> QED BY <1>2, <1>3, <1>4 DEF Route, Return

LEMMA CheckAfterRouteMoves ==
    ASSUME CommandsTyped, NEW c \in Commands, CommandOK(c), CheckAfterRoute(c)
    PROVE  Moved(c)
<1>1. /\ cmds[c].pc = "routed" /\ cmds[c] \in CommandRecords
      /\ lanes' = lanes /\ target' = target
  BY DEF CheckAfterRoute, At, Return, CommandsTyped, Step
<1>2. CASE cmds' = Finished(c, "STOPPED")
  BY <1>1, <1>2 DEF Finished, Moved, CommandsTyped, CommandRecords, CommandOK, OthersSame, Holding
<1>3. CASE cmds' = Finished(c, cmds[c].route) /\ cmds[c].route # "ONE"
  BY <1>1, <1>3 DEF Finished, Moved, CommandsTyped, CommandRecords, CommandOK, OthersSame, Holding
<1>4. CASE cmds' = [cmds EXCEPT ![c].pc = "admitted"] /\ cmds[c].route = "ONE"
  BY <1>1, <1>4 DEF Moved, CommandsTyped, CommandRecords, CommandOK, OthersSame, Holding
<1> QED BY <1>2, <1>3, <1>4 DEF CheckAfterRoute, Return, Step

\* With its lane, the command keeps what it knows.
LEMMA ReserveMoves ==
    ASSUME CommandsTyped, NEW c \in Commands, CommandOK(c), ReserveTicket(c)
    PROVE  Moved(c)
<1>1. /\ cmds[c].pc = "admitted" /\ cmds[c] \in CommandRecords /\ target' = target
      /\ cmds[c].dst.key \in Keys
  BY DEF ReserveTicket, At, CommandsTyped, CommandOK, Targets
<1>2. PICK k \in Keys :
        /\ lanes' = [lanes EXCEPT ![k] = WithReserved(lanes[k])]
        /\ cmds' = [cmds EXCEPT ![c].pc = "queued", ![c].ticket = lanes[k].next]
  BY <1>1 DEF ReserveTicket
<1>3. lanes[k].next \in Nat /\ WithReserved(lanes[k]) \in LaneRecords
  BY DEF WithReserved, LaneRecords, CommandsTyped
<1>4. lanes' \in [Keys -> LaneRecords]
  BY <1>2, <1>3 DEF CommandsTyped
<1> QED
  BY <1>1, <1>2, <1>3, <1>4 DEF Moved, CommandsTyped, CommandRecords, CommandOK, OthersSame, Holding

LEMMA TakeTurnMoves ==
    ASSUME CommandsTyped, NEW c \in Commands, CommandOK(c), TakeTurn(c)
    PROVE  Moved(c)
<1>1. /\ cmds[c].pc = "queued" /\ cmds[c] \in CommandRecords
      /\ lanes' = lanes /\ target' = target
      /\ cmds' = [cmds EXCEPT ![c].pc = "holding"]
  BY DEF TakeTurn, At, CommandsTyped, Step
<1> QED
  BY <1>1 DEF Moved, CommandsTyped, CommandRecords, CommandOK, OthersSame, Holding

\* A return: the result is an answer of the target only if the target gave it.
LEMMA FinishedMoves ==
    ASSUME CommandsTyped, NEW c \in Commands, CommandOK(c), cmds[c].pc # "done",
           NEW result \in {"ERROR", "STOPPED", "TARGET_UNAVAILABLE", "TIMEOUT", "INTERNAL_ERROR",
                          "REJECTED", "ACCEPTED"},
           cmds' = Finished(c, result), target' = target, lanes' \in [Keys -> LaneRecords],
           result = "REJECTED" => target[c] = "rejected",
           result = "ACCEPTED" => target[c] = "accepted"
    PROVE  Moved(c)
<1>1. cmds[c] \in CommandRecords
  BY DEF CommandsTyped
<1> QED
  BY <1>1 DEF Finished, Moved, CommandsTyped, CommandRecords, CommandOK, OthersSame, Holding

LEMMA LaneRecordsReleased ==
    ASSUME CommandsTyped, NEW c \in Commands, cmds[c].dst \in Targets, ReleaseLane(c)
    PROVE  lanes' \in [Keys -> LaneRecords]
<1>1. PICK k \in Keys : k = cmds[c].dst.key
  BY DEF Targets
<1>2. PICK m \in Released(lanes[k]) : lanes' = [lanes EXCEPT ![k] = m]
  BY <1>1 DEF ReleaseLane
<1>3. lanes[k] \in LaneRecords /\ lanes[k].serving + 1 \in Nat
  BY DEF CommandsTyped, LaneRecords
<1>4. m \in LaneRecords
  BY <1>3, SkipLemma DEF Released
<1> QED BY <1>2, <1>4 DEF CommandsTyped

LEMMA GiveUpMoves ==
    ASSUME CommandsTyped, NEW c \in Commands, CommandOK(c), GiveUpTurn(c)
    PROVE  Moved(c)
<1>1. /\ cmds[c].pc = "queued" /\ target' = target /\ cmds' = Finished(c, "STOPPED")
      /\ cmds[c].ticket \in Nat
  BY DEF GiveUpTurn, At, CommandsTyped, CommandRecords
<1>2. PICK k \in Keys : k = cmds[c].dst.key
  BY <1>1 DEF CommandOK, Targets
<1>3. PICK m \in Abandoned(lanes[k], cmds[c].ticket) : lanes' = [lanes EXCEPT ![k] = m]
  BY <1>2 DEF GiveUpTurn
<1> DEFINE l == [lanes[k] EXCEPT !.cancelled = lanes[k].cancelled \cup {cmds[c].ticket}]
<1>4. l \in LaneRecords /\ lanes[k].serving \in Nat
  BY <1>1 DEF CommandsTyped, LaneRecords
<1>5. m \in ServingFrom(l, lanes[k].serving)
  BY DEF Abandoned
<1>6. m \in LaneRecords
  BY <1>4, <1>5, SkipLemma
<1>7. lanes' \in [Keys -> LaneRecords]
  BY <1>3, <1>6 DEF CommandsTyped
<1> QED BY <1>1, <1>7, FinishedMoves

LEMMA CheckBeforeCallMoves ==
    ASSUME CommandsTyped, NEW c \in Commands, CommandOK(c), CheckBeforeCall(c)
    PROVE  Moved(c)
<1>1. cmds[c].pc = "holding" /\ cmds[c] \in CommandRecords /\ cmds[c].dst \in Targets
  BY DEF CheckBeforeCall, At, CommandsTyped, CommandOK, Holding
<1>2. CASE ReturnHolding(c, "STOPPED")
  BY <1>1, <1>2, LaneRecordsReleased, FinishedMoves DEF ReturnHolding
<1>3. CASE Step(c, "checked") /\ UNCHANGED <<lanes, target>>
  BY <1>1, <1>3 DEF Step, Moved, CommandsTyped, CommandRecords, CommandOK, OthersSame, Holding
<1> QED BY <1>2, <1>3 DEF CheckBeforeCall

LEMMA CallTargetMoves ==
    ASSUME CommandsTyped, NEW c \in Commands, CommandOK(c), CallTarget(c)
    PROVE  Moved(c)
<1>1. cmds[c].pc = "checked" /\ cmds[c] \in CommandRecords /\ cmds[c].dst \in Targets
  BY DEF CallTarget, At, CommandsTyped, CommandOK, Holding
<1>2. CASE ReturnHolding(c, "ERROR")
  BY <1>1, <1>2, LaneRecordsReleased, FinishedMoves DEF ReturnHolding
<1>3. ASSUME NEW src \in Resolved(CommandSrc[c]), lanes' = lanes,
             cmds' = [cmds EXCEPT ![c].pc = "calling", ![c].src = src],
             target' = [target EXCEPT ![c] = "sent"]
      PROVE  Moved(c)
  <2>1. src \in Endpoints
    BY CommandAssumption DEF Resolved, Endpoints
  <2> QED
    BY <1>1, <1>3, <2>1 DEF Moved, CommandsTyped, CommandRecords, CommandOK, OthersSame, Holding
<1> QED BY <1>2, <1>3 DEF CallTarget

LEMMA CallReturnsMoves ==
    ASSUME CommandsTyped, NEW c \in Commands, CommandOK(c), CallReturns(c)
    PROVE  Moved(c)
<1>1. cmds[c].pc = "calling" /\ cmds[c] \in CommandRecords /\ lanes' = lanes
  BY DEF CallReturns, At, CommandsTyped
<1>2. PICK o \in CallOutcome(c) :
        /\ cmds' = [cmds EXCEPT ![c].pc = "returned", ![c].outcome = o]
        /\ target' = IF o = "unavailable" THEN [target EXCEPT ![c] = "lost"] ELSE target
  BY DEF CallReturns
<1>3. /\ o \in {"accepted", "rejected", "unavailable", "expired", "cancelled"}
      /\ o = "accepted" => target[c] = "accepted"
      /\ o = "rejected" => target[c] = "rejected"
  BY <1>2 DEF CallOutcome
<1> QED
  BY <1>1, <1>2, <1>3 DEF Moved, CommandsTyped, CommandRecords, CommandOK, OthersSame, Holding

LEMMA CheckAfterCallMoves ==
    ASSUME CommandsTyped, NEW c \in Commands, CommandOK(c), CheckAfterCall(c)
    PROVE  Moved(c)
<1>1. cmds[c].pc = "returned" /\ cmds[c] \in CommandRecords /\ cmds[c].dst \in Targets
  BY DEF CheckAfterCall, At, CommandsTyped, CommandOK, Holding
<1>2. CASE ReturnHolding(c, "STOPPED")
  BY <1>1, <1>2, LaneRecordsReleased, FinishedMoves DEF ReturnHolding
<1>3. CASE cmds[c].outcome # "accepted" /\ ReturnHolding(c, ResultOf(cmds[c].outcome))
  <2>1. cmds[c].outcome \in {"rejected", "unavailable", "expired", "cancelled"}
    BY <1>1, <1>3 DEF CommandOK, CommandRecords
  <2>2. /\ ResultOf(cmds[c].outcome) \in {"TIMEOUT", "TARGET_UNAVAILABLE", "INTERNAL_ERROR", "REJECTED"}
        /\ ResultOf(cmds[c].outcome) = "REJECTED" => cmds[c].outcome = "rejected"
    BY <2>1 DEF ResultOf
  <2>3. ResultOf(cmds[c].outcome) = "REJECTED" => target[c] = "rejected"
    BY <1>1, <2>2 DEF CommandOK
  <2> QED BY <1>1, <1>3, <2>2, <2>3, LaneRecordsReleased, FinishedMoves DEF ReturnHolding
<1>4. CASE cmds[c].outcome = "accepted" /\ Step(c, "accepted") /\ UNCHANGED <<lanes, target>>
  BY <1>1, <1>4 DEF Step, Moved, CommandsTyped, CommandRecords, CommandOK, OthersSame, Holding
<1> QED BY <1>2, <1>3, <1>4 DEF CheckAfterCall

LEMMA CheckBeforeStoreMoves ==
    ASSUME CommandsTyped, NEW c \in Commands, CommandOK(c), CheckBeforeStore(c)
    PROVE  Moved(c)
<1>1. cmds[c].pc = "accepted" /\ cmds[c] \in CommandRecords /\ cmds[c].dst \in Targets
  BY DEF CheckBeforeStore, At, CommandsTyped, CommandOK, Holding
<1>2. CASE ReturnHolding(c, "STOPPED")
  BY <1>1, <1>2, LaneRecordsReleased, FinishedMoves DEF ReturnHolding
<1>3. CASE Step(c, "storing") /\ UNCHANGED <<lanes, target>>
  BY <1>1, <1>3 DEF Step, Moved, CommandsTyped, CommandRecords, CommandOK, OthersSame, Holding
<1> QED BY <1>2, <1>3 DEF CheckBeforeStore

LEMMA StoreAcceptedMoves ==
    ASSUME CommandsTyped, NEW c \in Commands, CommandOK(c), StoreAccepted(c)
    PROVE  Moved(c)
<1>1. /\ cmds[c].pc = "storing" /\ cmds[c].dst \in Targets /\ target' = target
      /\ ReleaseLane(c) /\ target[c] = "accepted"
  BY DEF StoreAccepted, At, CommandOK, Holding, ReturnHolding
<1>2. cmds' = Finished(c, "ACCEPTED") \/ cmds' = Finished(c, "INTERNAL_ERROR")
  BY DEF StoreAccepted, ReturnHolding
<1> QED BY <1>1, <1>2, LaneRecordsReleased, FinishedMoves

LEMMA TargetExecutesMoves ==
    ASSUME CommandsTyped, NEW c \in Commands, CommandOK(c), TargetExecutes(c)
    PROVE  Moved(c)
<1>1. PICK t \in {"executing", "accepted", "rejected"} :
        /\ target' = [target EXCEPT ![c] = t]
        /\ target[c] \in {"sent", "executing"}
        /\ cmds' = cmds /\ lanes' = lanes
  BY DEF TargetExecutes
<1> QED
  BY <1>1 DEF Moved, CommandsTyped, CommandRecords, CommandOK, OthersSame, Holding

-----------------------------------------------------------------------------
(* What a command does to the lanes and to the rest of the service. *)

LEMMA LanesStep ==
    ASSUME CommandsTyped, LanesOK, NEW c \in Commands, CommandOK(c), Moved(c),
           Stop(c) \/ Proceed(c) \/ TargetExecutes(c)
    PROVE  LanesOK'
<1> DEFINE Kept == /\ InLane(cmds'[c].pc) <=> InLane(cmds[c].pc)
                   /\ cmds'[c].pc \in Holding <=> cmds[c].pc \in Holding
                   /\ InLane(cmds[c].pc) => /\ cmds'[c].dst = cmds[c].dst
                                            /\ cmds'[c].ticket = cmds[c].ticket
<1>1. Kept /\ lanes' = lanes => LanesOK'
  <2> SUFFICES ASSUME Kept, lanes' = lanes PROVE LanesOK'
    OBVIOUS
  <2>1. \A d \in Commands :
           /\ InLane(cmds'[d].pc) <=> InLane(cmds[d].pc)
           /\ cmds'[d].pc \in Holding <=> cmds[d].pc \in Holding
           /\ InLane(cmds[d].pc) => /\ cmds'[d].dst = cmds[d].dst
                                    /\ cmds'[d].ticket = cmds[d].ticket
    BY DEF Moved, OthersSame
  <2> QED BY <2>1, LanesFrame
<1>2. cmds[c] \in CommandRecords
  BY DEF CommandsTyped
<1>3. CASE Stop(c)
  <2>1. Kept /\ lanes' = lanes
    BY <1>2, <1>3 DEF Stop, CommandsTyped, CommandRecords
  <2> QED BY <1>1, <2>1
<1>4. CASE Route(c)
  <2>1. Kept /\ lanes' = lanes
    BY <1>2, <1>4 DEF Route, Return, Finished, At, CommandsTyped, CommandRecords, InLane, Holding
  <2> QED BY <1>1, <2>1
<1>5. CASE CheckAfterRoute(c)
  <2>1. Kept /\ lanes' = lanes
    BY <1>2, <1>5 DEF CheckAfterRoute, Return, Step, Finished, At, CommandsTyped, CommandRecords,
                      InLane, Holding
  <2> QED BY <1>1, <2>1
<1>6. CASE ReserveTicket(c)
  BY <1>6, LanesReserve
<1>7. CASE TakeTurn(c)
  BY <1>7, LanesTake
<1>8. CASE GiveUpTurn(c)
  BY <1>8, LanesGiveUp
<1>9. ASSUME NEW result, ReturnHolding(c, result), cmds[c].pc \in Holding PROVE LanesOK'
  BY <1>9, LanesRelease DEF ReturnHolding
<1>10. ASSUME NEW pc \in Holding, Step(c, pc), UNCHANGED lanes, cmds[c].pc \in Holding
       PROVE  LanesOK'
  <2>1. Kept
    BY <1>2, <1>10 DEF Step, CommandsTyped, CommandRecords, InLane
  <2> QED BY <1>1, <1>10, <2>1
<1>11. CASE CheckBeforeCall(c)
  <2>1. cmds[c].pc \in Holding /\ "checked" \in Holding
    BY <1>11 DEF CheckBeforeCall, At, Holding
  <2> QED BY <1>9, <1>10, <1>11, <2>1 DEF CheckBeforeCall
<1>12. CASE CallTarget(c)
  <2>1. cmds[c].pc \in Holding
    BY <1>12 DEF CallTarget, At, Holding
  <2>2. CASE ReturnHolding(c, "ERROR")
    BY <1>9, <2>1, <2>2
  <2>3. ASSUME NEW src, cmds' = [cmds EXCEPT ![c].pc = "calling", ![c].src = src]
        PROVE  Kept
    BY <1>2, <2>1, <2>3 DEF CommandsTyped, CommandRecords, InLane, Holding
  <2> QED BY <1>1, <1>12, <2>2, <2>3 DEF CallTarget
<1>13. CASE CallReturns(c)
  <2>1. Kept /\ lanes' = lanes
    BY <1>2, <1>13 DEF CallReturns, At, CommandsTyped, CommandRecords, InLane, Holding
  <2> QED BY <1>1, <2>1
<1>14. CASE CheckAfterCall(c)
  <2>1. cmds[c].pc \in Holding /\ "accepted" \in Holding
    BY <1>14 DEF CheckAfterCall, At, Holding
  <2> QED BY <1>9, <1>10, <1>14, <2>1 DEF CheckAfterCall
<1>15. CASE CheckBeforeStore(c)
  <2>1. cmds[c].pc \in Holding /\ "storing" \in Holding
    BY <1>15 DEF CheckBeforeStore, At, Holding
  <2> QED BY <1>9, <1>10, <1>15, <2>1 DEF CheckBeforeStore
<1>16. CASE StoreAccepted(c)
  <2>1. cmds[c].pc \in Holding
    BY <1>16 DEF StoreAccepted, At, Holding
  <2> QED BY <1>16, <2>1, LanesRelease DEF StoreAccepted, ReturnHolding
<1>17. CASE TargetExecutes(c)
  <2>1. Kept /\ lanes' = lanes
    BY <1>17 DEF TargetExecutes
  <2> QED BY <1>1, <2>1
<1> QED BY <1>3, <1>4, <1>5, <1>6, <1>7, <1>8, <1>11, <1>12, <1>13, <1>14, <1>15, <1>16, <1>17
        DEF Proceed

\* A command changes the core only when it is stored as a latest value.
LEMMA CoreStep ==
    ASSUME NEW c \in Commands, Stop(c) \/ Proceed(c) \/ TargetExecutes(c)
    PROVE  \/ UNCHANGED <<coreVars, storeVars>>
           \/ /\ StoreAcceptedCommand(c, cmds[c].src, cmds[c].dst)
              /\ cmds[c].pc = "storing"
              /\ cmds' = Finished(c, "ACCEPTED")
              /\ UNCHANGED storeVars
BY DEF Stop, Proceed, TargetExecutes, Route, CheckAfterRoute, ReserveTicket, TakeTurn, GiveUpTurn,
       CheckBeforeCall, CallTarget, CallReturns, CheckAfterCall, CheckBeforeStore, StoreAccepted,
       Return, ReturnHolding, Step, At

\* The value a command leaves in the cache is an update of its target point.
LEMMA AcceptedUpdate ==
    ASSUME StoreInv, NEW c \in Commands, NEW src \in Endpoints, NEW dst \in Targets,
           StoreAcceptedCommand(c, src, dst)
    PROVE  \E u \in Updates :
              /\ u.val = c
              /\ latestByDst' = [latestByDst EXCEPT ![<<dst.id, dst.tag>>] = u]
<1> DEFINE u == [srcId |-> connIdsByKey[src.key], srcTag |-> src.tag,
                 dstId |-> dst.id, dstTag |-> dst.tag, val |-> c]
<1>1. connIdsByKey[src.key] \in ConnIds
  BY DEF StoreAcceptedCommand, Registered, Endpoints, StoreInv, CoreInv, CoreTypeOK
<1>2. u \in Updates /\ u.val = c
  BY <1>1 DEF Endpoints, Targets, Updates, Values
<1> QED BY <1>2 DEF StoreAcceptedCommand

-----------------------------------------------------------------------------
(* The theorems of the specification. *)

LEMMA CommandInitLemma == CommandInit => CommandInv
<1> SUFFICES ASSUME CommandInit PROVE CommandInv
  OBVIOUS
<1>1. StoreInv
  BY StoreInitLemma DEF CommandInit
<1>2. CommandsTyped
  BY DEF CommandInit, CommandsTyped, CommandRecords, FreshCommand, LaneRecords, NewLane
<1>3. \A c \in Commands : CommandOK(c)
  BY DEF CommandInit, CommandOK, FreshCommand, Holding
<1>4. LanesOK
  <2> SUFFICES ASSUME NEW k \in Keys
               PROVE  LaneOK(lanes[k], InLaneOf(k), HoldersOf(k), Tickets)
    BY DEF LanesOK
  <2>1. InLaneOf(k) = {} /\ HoldersOf(k) = {}
    BY DEF CommandInit, InLaneOf, HoldersOf, FreshCommand, Holding
  <2>2. lanes[k] = [next |-> 0, serving |-> 0, cancelled |-> {}]
    BY DEF CommandInit, NewLane
  <2> QED BY <2>1, <2>2 DEF LaneOK, LaneRecords
<1>5. CachedIsAccepted
  BY DEF CommandInit, StoreInit, CoreInit, CachedIsAccepted
<1> QED BY <1>1, <1>2, <1>3, <1>4, <1>5 DEF CommandInv

LEMMA CommandStepLemma == CommandInv /\ [CommandNext]_cmdVars => CommandInv'
<1> SUFFICES ASSUME CommandInv, [CommandNext]_cmdVars PROVE CommandInv'
  OBVIOUS
<1> USE DEF CommandInv
<1>1. ASSUME EditConfigRpc \/ \E k \in Keys : DeleteConnectionRpc(k), UNCHANGED <<cmds, lanes, target>>
      PROVE  CommandInv'
  <2>1. StoreInv'
    BY <1>1, StoreStepLemma DEF StoreNext
  <2>2. \A p \in Points : latestByDst'[p] \in {NoUpdate, latestByDst[p]}
    BY <1>1, EditLeavesLatest, DeleteTakesLatest DEF latestVars
  <2>3. CachedIsAccepted'
    BY <1>1, <2>2 DEF CachedIsAccepted
  <2>4. CommandsTyped' /\ \A c \in Commands : CommandOK(c)'
    BY <1>1 DEF CommandsTyped, CommandOK
  <2>5. LanesOK'
    BY <1>1, LanesFrame
  <2> QED BY <2>1, <2>3, <2>4, <2>5
<1>2. ASSUME NEW c \in Commands, Stop(c) \/ Proceed(c) \/ TargetExecutes(c)
      PROVE  CommandInv'
  <2>1. Moved(c)
    BY <1>2, StopMoves, RouteMoves, CheckAfterRouteMoves, ReserveMoves, TakeTurnMoves, GiveUpMoves,
       CheckBeforeCallMoves, CallTargetMoves, CallReturnsMoves, CheckAfterCallMoves,
       CheckBeforeStoreMoves, StoreAcceptedMoves, TargetExecutesMoves DEF Proceed
  <2>2. LanesOK'
    BY <1>2, <2>1, LanesStep
  <2>3. \A d \in Commands : CommandOK(d)'
    BY <2>1 DEF Moved, OthersSame, CommandOK
  <2>4. \A d \in Commands : cmds[d].result = "ACCEPTED" => cmds'[d].result = "ACCEPTED"
    BY <2>1 DEF Moved, OthersSame
  <2>5. CASE UNCHANGED <<coreVars, storeVars>>
    <3>1. StoreInv'
      BY <2>5, StoreStepLemma DEF storeAndCoreVars
    <3>2. CachedIsAccepted'
      BY <2>4, <2>5 DEF CachedIsAccepted, coreVars
    <3> QED BY <2>1, <2>2, <2>3, <3>1, <3>2 DEF Moved
  <2>6. CASE /\ StoreAcceptedCommand(c, cmds[c].src, cmds[c].dst)
             /\ cmds[c].pc = "storing"
             /\ cmds' = Finished(c, "ACCEPTED")
             /\ UNCHANGED storeVars
    <3>1. cmds[c].src \in Endpoints /\ cmds[c].dst \in Targets
      BY <2>6 DEF CommandOK, Holding
    <3>2. PICK u \in Updates :
            /\ u.val = c
            /\ latestByDst' = [latestByDst EXCEPT ![<<cmds[c].dst.id, cmds[c].dst.tag>>] = u]
      BY <2>6, <3>1, AcceptedUpdate
    <3>3. /\ latestByDst \in [Points -> Updates \cup {NoUpdate}]
          /\ latestByDst' \in [Points -> Updates \cup {NoUpdate}]
          /\ latestBySrc \in [Points -> 0..MaxSequence]
          /\ sourceSequence \in 0..MaxSequence
      BY <3>2 DEF StoreInv, CoreInv, CoreTypeOK
    <3>4. StoreInv'
      BY <2>6, <3>3, StoreInvFrame DEF StoreAcceptedCommand
    <3>5. cmds'[c].result = "ACCEPTED"
      BY <2>6 DEF Finished, CommandsTyped, CommandRecords
    <3>6. \A p \in Points : latestByDst'[p] \in {u, latestByDst[p]}
      BY <3>2, <3>3
    <3>7. CachedIsAccepted'
      BY <2>4, <3>2, <3>5, <3>6 DEF CachedIsAccepted
    <3> QED BY <2>1, <2>2, <2>3, <3>4, <3>7 DEF Moved
  <2> QED BY <1>2, <2>5, <2>6, CoreStep
<1>3. CASE UNCHANGED cmdVars
  <2>1. UNCHANGED <<coreVars, storeVars, cmds, lanes, target>>
    BY <1>3 DEF cmdVars
  <2>2. StoreInv'
    BY <2>1, StoreStepLemma DEF storeAndCoreVars
  <2>3. CachedIsAccepted'
    BY <2>1 DEF CachedIsAccepted, coreVars
  <2>4. CommandsTyped' /\ \A c \in Commands : CommandOK(c)'
    BY <2>1 DEF CommandsTyped, CommandOK
  <2>5. LanesOK'
    BY <2>1, LanesFrame
  <2> QED BY <2>2, <2>3, <2>4, <2>5
<1> QED BY <1>1, <1>2, <1>3 DEF CommandNext

\* The invariant that makes ExecuteCommand correct holds in every state.
THEOREM CommandInvariant == CommandSpec => []CommandInv
<1> QED BY CommandInitLemma, CommandStepLemma, PTL DEF CommandSpec

\* Whichever return path a command takes, and however connections are renamed
\* and deleted under it, one command at a time holds a lane, and each lane
\* stands at the ticket of a command in it.
THEOREM CommandIsSafe == CommandSpec => []CommandSafe
<1>1. CommandInv => CommandSafe
  <2> SUFFICES ASSUME CommandInv PROVE CommandSafe
    OBVIOUS
  <2>1. CommandTypeOK
    <3>1. \A c \in Commands : cmds[c] \in CommandRecords /\ CommandOK(c)
      BY DEF CommandInv, CommandsTyped
    <3>2. NoDst \notin Targets
      BY CoreAssumption DEF NoDst, Targets
    <3>3. \A c \in Commands :
            /\ cmds[c].pc \in {"start", "routed", "admitted", "queued", "done"} \cup Holding
            /\ cmds[c].dst = NoDst \/ cmds[c].dst \in Targets
            /\ cmds[c].pc \in {"admitted", "queued"} \cup Holding => cmds[c].dst # NoDst
      BY <3>1, <3>2 DEF CommandRecords, CommandOK
    <3> QED BY <3>3 DEF CommandTypeOK, CommandInv, StoreInv, CommandsTyped, Targets, LaneRecords
  <2>2. LanesNotStuck
    <3> SUFFICES ASSUME NEW k \in Keys
                 PROVE  /\ \/ lanes[k].serving = lanes[k].next
                           \/ \E c \in InLaneOf(k) : cmds[c].ticket = lanes[k].serving
                        /\ lanes[k].serving = lanes[k].next => lanes[k].cancelled = {}
      BY DEF LanesNotStuck
    <3>1. /\ LaneOK(lanes[k], InLaneOf(k), HoldersOf(k), Tickets)
          /\ lanes[k].serving \in Nat /\ lanes[k].next \in Nat /\ lanes[k].cancelled \subseteq Nat
      BY DEF CommandInv, LanesOK, CommandsTyped, LaneRecords
    <3>2. lanes[k].serving \notin lanes[k].cancelled
      BY <3>1 DEF LaneOK
    <3>3. lanes[k].serving < lanes[k].next => \E c \in InLaneOf(k) : Tickets[c] = lanes[k].serving
      BY <3>1, <3>2 DEF LaneOK
    <3>4. lanes[k].serving <= lanes[k].next
      BY <3>1 DEF LaneOK
    <3>5. \A c \in InLaneOf(k) : Tickets[c] = cmds[c].ticket
      BY DEF InLaneOf, Tickets
    <3>6. lanes[k].serving = lanes[k].next => lanes[k].cancelled = {}
      BY <3>1 DEF LaneOK
    <3> QED BY <3>1, <3>3, <3>4, <3>5, <3>6
  <2>3. HeldByOne
    <3> SUFFICES ASSUME NEW c \in Commands, NEW d \in Commands, cmds[c].pc \in Holding,
                        cmds[d].pc \in Holding, cmds[c].dst.key = cmds[d].dst.key
                 PROVE  c = d
      BY DEF HeldByOne
    <3>1. PICK k \in Keys : k = cmds[c].dst.key
      BY DEF CommandInv, CommandOK, Targets
    <3>2. LaneOK(lanes[k], InLaneOf(k), HoldersOf(k), Tickets)
      BY DEF CommandInv, LanesOK
    <3>3. {c, d} \subseteq HoldersOf(k)
      BY <3>1 DEF HoldersOf
    <3> QED BY <3>2, <3>3 DEF LaneOK
  <2> QED BY <2>1, <2>2, <2>3 DEF CommandSafe
<1> QED BY <1>1, CommandInvariant, PTL

\* A command is reported as accepted or rejected only when its target said so,
\* and a command in the cache was accepted and reported as accepted.
THEOREM AnswersAreAlwaysTheTargets == CommandSpec => []AnswersAreTheTargets
<1>1. CommandInv => AnswersAreTheTargets
  BY DEF CommandInv, CommandOK, CachedIsAccepted, AnswersAreTheTargets
<1> QED BY <1>1, CommandInvariant, PTL

\* A command that is sent to its target has the lowest ticket of its lane:
\* commands go out in the order in which they were accepted into the lane.
THEOREM CommandsSentInTicketOrder == CommandSpec => SentInTicketOrder
<1>1. CommandInv => \A c, d \in Commands :
          cmds[c].pc = "checked" /\ d \in InLaneOf(cmds[c].dst.key) \ {c} =>
              cmds[c].ticket < cmds[d].ticket
  <2> SUFFICES ASSUME CommandInv, NEW c \in Commands, NEW d \in Commands,
                      cmds[c].pc = "checked", d \in InLaneOf(cmds[c].dst.key) \ {c}
               PROVE  cmds[c].ticket < cmds[d].ticket
    OBVIOUS
  <2>1. PICK k \in Keys : k = cmds[c].dst.key
    BY DEF CommandInv, CommandOK, Targets, Holding
  <2>2. /\ LaneOK(lanes[k], InLaneOf(k), HoldersOf(k), Tickets)
        /\ lanes[k].serving \in Nat
    BY DEF CommandInv, LanesOK, CommandsTyped, LaneRecords
  <2>3. c \in HoldersOf(k) /\ c \in InLaneOf(k) /\ d \in InLaneOf(k) /\ d # c
    BY <2>1 DEF HoldersOf, InLaneOf, Holding
  <2>4. /\ Tickets[c] = lanes[k].serving /\ lanes[k].serving <= Tickets[d]
        /\ Tickets[d] # Tickets[c] /\ Tickets[d] \in Nat
    BY <2>2, <2>3 DEF LaneOK
  <2> QED BY <2>2, <2>4 DEF Tickets
<1>2. CommandInv /\ [CommandNext]_cmdVars =>
        [\A c, d \in Commands :
            /\ cmds[c].pc = "checked" /\ cmds'[c].pc = "calling"
            /\ d \in InLaneOf(cmds[c].dst.key) \ {c}
            => cmds[c].ticket < cmds[d].ticket]_cmdVars
  BY <1>1
<1> QED BY <1>2, CommandInvariant, PTL DEF CommandSpec, SentInTicketOrder
=============================================================================
