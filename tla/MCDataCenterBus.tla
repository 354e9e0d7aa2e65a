-------------------------- MODULE MCDataCenterBus ---------------------------
(* A source KA and a target KB; both tags of KA are routed to KB, one of    *)
(* them to both tags.  Publications of one and of two points.               *)
EXTENDS DataCenterBus

CONSTANTS KA, KB, T1, T2, S1

EP(k, t) == [key |-> k, tag |-> t]

MCKeys == {KA, KB}
MCTags == {T1, T2}
MCSubs == {S1}
Fanout == {[src |-> EP(KA, T1), dst |-> EP(KB, T1)], [src |-> EP(KA, T1), dst |-> EP(KB, T2)],
           [src |-> EP(KA, T2), dst |-> EP(KB, T2)]}
MCRouteRequests == {Fanout}
MCFilters == {{}, {T2}}
MCPublishRequests == {<<<<1, T1>>>>, <<<<1, T2>>, <<1, T2>>>>}
=============================================================================
