------------------------ MODULE MCDataCenterCommand -------------------------
(* Two commands from one source point to one target point.  The first names *)
(* its source by key, the second by conn_id.                                *)
EXTENDS DataCenterCommand

CONSTANTS KA, KB, KC, T1, C1, C2

EP(k, t) == [key |-> k, tag |-> t]

TwoKeys == {KA, KB}
ThreeKeys == {KA, KB, KC}
MCTags == {T1}
MCCommands == {C1, C2}
Forward == [src |-> EP(KA, T1), dst |-> EP(KB, T1)]
MCRouteRequests == {{Forward}}
MCCommandSrc == [c \in MCCommands |-> 
    [key |-> IF c = C1 THEN KA ELSE NoKey, id |-> 1, tag |-> T1]]
=============================================================================
