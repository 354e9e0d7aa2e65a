-------------------------- MODULE MCModuleManager ---------------------------
(* Every dependency graph over three modules, cycles and self-dependencies  *)
(* included, with at most one module in error or one version range unmet.   *)
EXTENDS ModuleManager

CONSTANTS M1, M2, M3, RPC

MCModules == {M1, M2, M3}
MCCallers == {Boot, RPC}
MCBootLists == {<<M1, M3>>}

AllDeps == [MCModules -> SUBSET MCModules]
Loopless == {d \in AllDeps : \A m \in {M2, M3} : m \notin d[m]}
MCGraphs ==
    [deps : Loopless, bad : {{}, {M2}}, unmet : {{}}]
        \cup [deps : Loopless, bad : {{}}, unmet : {{<<M1, M2>>}}]
ChainGraphs == {[deps |-> [m \in MCModules |-> IF m = M3 THEN {M2} ELSE {}],
                 bad |-> {}, unmet |-> {}]}
=============================================================================
