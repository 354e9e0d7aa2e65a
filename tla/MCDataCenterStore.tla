------------------------- MODULE MCDataCenterStore --------------------------
(* Small instances of DataCenterStore: two or three connection keys, two    *)
(* tags, and route requests that overlap in their source and their target.  *)
EXTENDS DataCenterStore

CONSTANTS KA, KB, KC, T1, T2

EP(k, t) == [key |-> k, tag |-> t]
Forward  == [src |-> EP(KA, T1), dst |-> EP(KB, T1)]

Back     == [src |-> EP(KB, T2), dst |-> EP(KA, T1)]

MCKeys == {KA, KB, KC}
MCTags == {T1, T2}
MCRouteRequests == {{Forward, Back}}
MCTagRequests == {{T1}}
=============================================================================
