---------------------------- MODULE MCModbusLinks -----------------------------
(* Two names, a device with two possible settings and another device. *)
EXTENDS ModbusLinks

CONSTANTS N1, N2, A, B

MCConfigs == {<<"d1", "s1">>, <<"d1", "s2">>, <<"d2", "s1">>}
MCTables == {{}, {A}, {B}}
On(c, t) == [cfg |-> c, table |-> t]
S1 == <<"d1", "s1">>
World(a, b, e, st, sp, c, f, k) ==
    [saved |-> [n \in {N1, N2} |-> IF n = N1 THEN a ELSE b],
     left |-> [edits |-> e, starts |-> st, stops |-> sp, commands |-> c, faults |-> f, crashes |-> k]]
MCWorlds ==
    {World(On(S1, {A}), On(S1, {B}), 0, 0, 2, 0, 0, 0),
     World(On(S1, {A}), None, 1, 1, 1, 1, 0, 0),
     World(On(S1, {A}), None, 1, 0, 1, 0, 1, 1),
     World(On(S1, {A}), None, 1, 0, 0, 0, 2, 0),
     World(None, None, 3, 0, 0, 0, 1, 0),
     World(None, None, 2, 0, 0, 0, 1, 1)}
MCNames == {N1, N2}

=============================================================================
