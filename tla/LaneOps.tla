------------------------------ MODULE LaneOps -------------------------------
(***************************************************************************)
(* A command lane (struct CommandLane): a ticket dispenser, the ticket now *)
(* being served, and the tickets given up while they waited.  A lane is a  *)
(* value here, so that one lane and a map of lanes use the same operators. *)
(***************************************************************************)
EXTENDS Naturals

NewLane == [next |-> 0, serving |-> 0, cancelled |-> {}]

\* reserveCommandTicket: the caller's ticket is the lane's next before this.
WithReserved(l) == [l EXCEPT !.next = l.next + 1]

\* The first ticket from `from` on that nobody gave up.  The set has at most
\* one element; it has one because the tickets given up are below l.next.
FirstOpen(l, from) ==
    {n \in from..l.next : n \notin l.cancelled /\ from..(n - 1) \subseteq l.cancelled}

\* The loop that skips the tickets given up, erasing each one it passes.
ServingFrom(l, from) ==
    {[next |-> l.next, serving |-> n, cancelled |-> l.cancelled \ (from..n)]
        : n \in FirstOpen(l, from)}

\* waitCommandTicket on a cancellation or on the deadline.
Abandoned(l, t) ==
    ServingFrom([l EXCEPT !.cancelled = l.cancelled \cup {t}], l.serving)

\* Mutant: a release that does not skip the tickets given up.
ReleasedToNext(l) == {[l EXCEPT !.serving = l.serving + 1]}

\* CommandLease::release by the holder of the ticket being served.
Released(l) == ServingFrom(l, l.serving + 1)

=============================================================================
