---------------------------- MODULE ModuleGraph ----------------------------
(***************************************************************************)
(* The dependency graph ModuleManager builds from the manifests of the     *)
(* libraries in ./module, what the depth-first searches over it have as    *)
(* their state, and, as a reference for their results, what is reachable.  *)
(*                                                                         *)
(* A graph g is a record: g.deps, the dependencies each manifest lists;    *)
(* g.bad, the modules with a manifest_error; g.unmet, the dependencies     *)
(* <<m, d>> whose version range the installed version of d is outside of.  *)
(***************************************************************************)
EXTENDS Naturals, Sequences, SequencesExt

CONSTANT Modules \* the module libraries found

Edges == Modules \X Modules
AllGraphs == [deps : [Modules -> SUBSET Modules], bad : SUBSET Modules, unmet : SUBSET Edges]

\* A manifest with an error contributes no dependency in either direction.
DependenciesOf(g, m) == IF m \in g.bad THEN {} ELSE g.deps[m]
DependentsOf(g, m)   == {n \in Modules : m \in DependenciesOf(g, n)}

\* What resolveStartOrder checks on the way from m to its dependency d.
Usable(g, m, d) == d \notin g.bad /\ <<m, d>> \notin g.unmet

\* Where the two searches lead from each module, and what they may pass.
Leads(g, op) ==
    [m \in Modules |-> IF op = "start" THEN DependenciesOf(g, m) ELSE DependentsOf(g, m)]
Passes(g, op, m, n) == op = "start" => Usable(g, m, n)

\* A call of dfs that is under way: the module it visits, and those it leads to
\* that the call has not looked at yet.
Frame(next, m) == [mod |-> m, left |-> next[m]]

Visiting(stack) == {stack[i].mod : i \in DOMAIN stack}

\* The innermost call has looked at n.
Passed(stack, n) == [stack EXCEPT ![Len(stack)].left = @ \ {n}]

-----------------------------------------------------------------------------
(* The reference: what is reachable, by sets rather than by a search. *)

Closed(next, S) == \A m \in S : next[m] \subseteq S

\* The least closed set around m.
Reach(next, m) == {n \in Modules : \A S \in SUBSET Modules : m \in S /\ Closed(next, S) => n \in S}

NeededBy(g, m)  == Reach(Leads(g, "start"), m)
NeedersOf(g, m) == Reach(Leads(g, "stop"), m)

Cyclic(next, S) == \E m \in S : \E n \in next[m] : m \in Reach(next, n)

\* When a module can be started: nothing it needs is in error, outside of its
\* version range, or in a cycle.
Startable(g, m) ==
    LET need == NeededBy(g, m) IN
    /\ need \cap g.bad = {}
    /\ \A n \in need : \A d \in g.deps[n] : Usable(g, n, d)
    /\ ~Cyclic(g.deps, need)

\* When it can be stopped: only a cycle among its dependents prevents it.
Stoppable(g, m) == ~Cyclic(Leads(g, "stop"), NeedersOf(g, m))

=============================================================================
