----------------------------- MODULE MCAgcGroup ------------------------------
(* Two members, one or two totals, two callers that ask small sets of things. *)
EXTENDS AgcGroup

CONSTANTS a, b

Op(op) == [op |-> op, val |-> None]
World(group, first, second, events, faults) ==
    [group |-> group, beat |-> Alive,
     left |-> [ask |-> [r \in {a, b} |-> IF r = a THEN first ELSE second],
               events |-> events, faults |-> faults, failed |-> FALSE, crossed |-> FALSE]]
Off == [op |-> "function", val |-> FALSE]
On == [op |-> "function", val |-> TRUE]
Remote == [op |-> "remote", val |-> FALSE]
Set(v) == [op |-> "total", val |-> v]
Stopped == [NewGroup EXCEPT !.beat = Alive, !.avail = Members]
One == [Alive EXCEPT !["m2"].ok = FALSE]
StoppedWithOne == [NewGroup EXCEPT !.beat = One, !.avail = {"m1"}]
MCWorlds ==
    {World(Running("t1", "p1"), {Op("stop"), Op("start")}, {Set("p2")}, 0, 0),
     World(Running("t1", "p1"), {Op("start")}, {Op("stop")}, 0, 0),
     World(Running("t1", "p1"), {Off, On}, {Set("p2")}, 1, 0),
     World(Running("t1", "p1"), {Remote}, {Set("p2"), Off}, 0, 0),
     World(Running("t1", "p1"), {}, {Set("p2")}, 1, 1),
     [World(StoppedWithOne, {Op("delete")}, {Op("start"), Set("p2")}, 0, 0) EXCEPT !.beat = One],
     [World(StoppedWithOne, {Op("delete")}, {Op("upsert")}, 0, 1) EXCEPT !.beat = One],
     World(Absent, {Op("upsert")}, {Off}, 0, 0),
     World(Stopped, {Op("tune")}, {Op("untune")}, 0, 0),
     World(Stopped, {Op("tune")}, {Op("start")}, 0, 0)}

\* A group that was told a total before, upserted and started over one heartbeat.
MCStaleWorlds ==
    {[World([StoppedWithOne EXCEPT !.cmd = "p1"], {Op("upsert")}, {Op("start")}, 2, 0) EXCEPT !.beat = One]}
=============================================================================
