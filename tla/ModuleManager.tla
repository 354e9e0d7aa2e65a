--------------------------- MODULE ModuleManager ----------------------------
(***************************************************************************)
(* ModuleManager: StartModule loads a module after all its dependencies,   *)
(* waiting for each of them to serve its socket, and unloads what it       *)
(* loaded when a step fails; StopModule unloads a module after everything  *)
(* that depends on it.  The boot thread starts the configured modules with *)
(* the same code, while the RPCs are already being served.                 *)
(*                                                                         *)
(* There is no lock: a call reads libInfoVec_ and edits it in steps, and   *)
(* calls of several threads interleave.  With Overlap = FALSE a call       *)
(* begins when no other is in progress, which is how one operator works.   *)
(* What a concurrent edit does to the vector itself is not modelled.       *)
(***************************************************************************)
EXTENDS ModuleGraph

CONSTANTS Graphs,     \* dependency graphs the manifests may describe
          Callers,    \* threads that make calls; Boot is one of them
          Boot,
          BootLists,  \* auto_start_modules, and the modules found in SQLite
          ConfigPusher, \* the module UPPER mode does not start at boot
          Overlap     \* whether calls may overlap

ASSUME ManagerAssumption ==
    /\ Boot \in Callers
    /\ Graphs \subseteq AllGraphs
    /\ \A l \in BootLists : l \in Seq(Modules)
    /\ Overlap \in BOOLEAN

VARIABLES graph,    \* moduleInfoByName_ and reverseDependencies_, after the scan
          upperMode,
          loaded,   \* libInfoVec_: the names of the loaded modules, in load order
          calls,    \* what each thread is doing
          bootList  \* the modules the boot thread has still to start

managerVars == <<graph, upperMode, loaded, calls, bootList>>

\* stack holds the calls of dfs under way, order the modules it has visited and
\* then those that are still to be started or stopped.  before, ready and asked
\* are history: the modules loaded when the call began, the ones it saw serving,
\* and what it was asked.
NoCall == [pc |-> "idle", asked |-> "none", mod |-> "none", stack |-> <<>>, order |-> <<>>,
           started |-> <<>>, result |-> "none", before |-> {}, ready |-> {}]

ManagerInit ==
    /\ graph \in Graphs
    /\ upperMode \in BOOLEAN
    /\ loaded = <<>>
    /\ calls = [c \in Callers |-> NoCall]
    /\ bootList \in BootLists

Running == ToSet(loaded)

Busy(c) == calls[c].pc \notin {"idle", "done"}
MayCall(c) == ~Busy(c) /\ (Overlap \/ \A d \in Callers : ~Busy(d))

Called(c, op, m) ==
    [NoCall EXCEPT !.pc = "searching", !.asked = op, !.mod = m, !.before = Running,
                   !.stack = <<Frame(Leads(graph, op), m)>>]

\* The call ends with a result; what it searched for is forgotten.
Ended(k, result) ==
    [k EXCEPT !.pc = "done", !.result = result, !.stack = <<>>, !.order = <<>>]

Returned(c, result) == [calls EXCEPT ![c] = Ended(calls[c], result)]

At(c, pc) == calls[c].pc = pc

-----------------------------------------------------------------------------
(* resolveStartOrder and resolveStopOrder, one look of dfs at a time. *)

\* A module that is being visited is met again, or one that cannot be used.
Unsearchable(k, n) ==
    n \in Visiting(k.stack) \/ ~Passes(graph, k.asked, Last(k.stack).mod, n)

Refuse(c) ==
    /\ At(c, "searching")
    /\ \E n \in Last(calls[c].stack).left : Unsearchable(calls[c], n)
    /\ calls' = Returned(c, "refused")
    /\ UNCHANGED <<graph, upperMode, loaded, bootList>>

\* The search looks at the next module, and visits it unless it has before.
Descend(c) ==
    /\ At(c, "searching")
    /\ LET k == calls[c] IN
       \E n \in Last(k.stack).left :
          /\ ~Unsearchable(k, n)
          /\ calls' = [calls EXCEPT ![c].stack =
                IF n \in ToSet(k.order) THEN Passed(k.stack, n)
                ELSE Append(Passed(k.stack, n), Frame(Leads(graph, k.asked), n))]
    /\ UNCHANGED <<graph, upperMode, loaded, bootList>>

\* A module that leads nowhere else is listed; with the first one, the search
\* is over.
List(c) ==
    /\ At(c, "searching")
    /\ LET k == calls[c]
           listed == [k EXCEPT !.stack = Front(@), !.order = Append(@, Last(k.stack).mod)]
       IN
       /\ Last(k.stack).left = {}
       /\ calls' = [calls EXCEPT ![c] =
             IF Len(k.stack) > 1 THEN listed
             ELSE [listed EXCEPT !.pc = IF k.asked = "start" THEN "looking" ELSE "stopping"]]
    /\ UNCHANGED <<graph, upperMode, loaded, bootList>>

-----------------------------------------------------------------------------
(* startModuleByName. *)

\* A module in error is refused, and one that runs is left as it is.
StartCall(c, m) ==
    LET k == Called(c, "start", m) IN
    calls' = [calls EXCEPT ![c] = IF m \in graph.bad THEN Ended(k, "refused")
                                  ELSE IF m \in Running THEN Ended(k, "ok") ELSE k]

StartModule(c, m) ==
    /\ c # Boot /\ MayCall(c)
    /\ StartCall(c, m)
    /\ UNCHANGED <<graph, upperMode, loaded, bootList>>

\* The boot thread goes on to the next module whatever became of the last one.
BootStart ==
    /\ bootList # <<>> /\ MayCall(Boot)
    /\ bootList' = Tail(bootList)
    /\ IF upperMode /\ Head(bootList) = ConfigPusher THEN UNCHANGED calls
       ELSE StartCall(Boot, Head(bootList))
    /\ UNCHANGED <<graph, upperMode, loaded>>

Current(c) == Head(calls[c].order)

\* moduleIsDependencyOfLaterModule.
NeededLater(c) ==
    \E n \in ToSet(Tail(calls[c].order)) : Current(c) \in DependenciesOf(graph, n)

\* On to the next module of the order, or to the end of the call.
Advanced(c, rec) ==
    LET rest == Tail(rec.order) IN
    [calls EXCEPT ![c] = [rec EXCEPT !.order = rest,
        !.pc = IF rest = <<>> THEN "done" ELSE "looking",
        !.result = IF rest = <<>> THEN "ok" ELSE "none"]]

\* A running module is skipped, but one that is needed must be serving; if it
\* is not, the call ends without unloading what it has loaded.
Look(c) ==
    /\ At(c, "looking")
    /\ \/ /\ Current(c) \notin Running
          /\ calls' = [calls EXCEPT ![c].pc = "loading"]
       \/ /\ Current(c) \in Running /\ ~NeededLater(c)
          /\ calls' = Advanced(c, calls[c])
       \/ /\ Current(c) \in Running /\ NeededLater(c)
          /\ \/ calls' = Advanced(c, [calls[c] EXCEPT !.ready = @ \cup {Current(c)}])
             \/ calls' = Returned(c, "unready")
    /\ UNCHANGED <<graph, upperMode, loaded, bootList>>

\* LibInfo::create: loading the library or creating the module may throw.
Load(c) ==
    /\ At(c, "loading")
    /\ \/ /\ loaded' = Append(loaded, Current(c))
          /\ calls' = IF NeededLater(c) THEN [calls EXCEPT ![c].pc = "awaiting"]
                      ELSE Advanced(c, [calls[c] EXCEPT !.started = Append(@, Current(c))])
       \/ /\ calls' = [calls EXCEPT ![c].pc = "undoing"]
          /\ UNCHANGED loaded
    /\ UNCHANGED <<graph, upperMode, bootList>>

\* Mutant: nobody waits for a dependency to serve its socket.
AwaitNothing(c) ==
    /\ At(c, "awaiting")
    /\ calls' = Advanced(c, [calls[c] EXCEPT !.started = Append(@, Current(c))])
    /\ UNCHANGED <<graph, upperMode, loaded, bootList>>

\* Mutant: the module that does not answer is not unloaded with the others.
AwaitForgetting(c) ==
    /\ At(c, "awaiting")
    /\ \/ calls' = Advanced(c, [calls[c] EXCEPT !.started = Append(@, Current(c)),
                                                !.ready = @ \cup {Current(c)}])
       \/ calls' = [calls EXCEPT ![c].pc = "undoing"]
    /\ UNCHANGED <<graph, upperMode, loaded, bootList>>

\* waitForInnerGrpcReady, for at most five seconds; if it fails, the module
\* itself is unloaded first and then the ones before it.
Await(c) ==
    /\ At(c, "awaiting")
    /\ \/ calls' = Advanced(c, [calls[c] EXCEPT !.started = Append(@, Current(c)),
                                                !.ready = @ \cup {Current(c)}])
       \/ calls' = [calls EXCEPT ![c] =
             [calls[c] EXCEPT !.pc = "undoing", !.started = Append(@, Current(c))]]
    /\ UNCHANGED <<graph, upperMode, loaded, bootList>>

\* stopRunningModuleByName: the first entry of that name is erased.
WithoutModule(m) ==
    LET i == CHOOSE j \in DOMAIN loaded : loaded[j] = m /\ \A k \in 1..(j - 1) : loaded[k] # m
    IN IF m \in Running THEN RemoveAt(loaded, i) ELSE loaded

\* Mutant: what was loaded is unloaded in the order in which it was loaded.
UndoForwards(c) ==
    /\ At(c, "undoing")
    /\ IF calls[c].started = <<>> THEN calls' = Returned(c, "failed") /\ UNCHANGED loaded
       ELSE /\ loaded' = WithoutModule(Head(calls[c].started))
            /\ calls' = [calls EXCEPT ![c].started = Tail(@)]
    /\ UNCHANGED <<graph, upperMode, bootList>>

Undo(c) ==
    /\ At(c, "undoing")
    /\ IF calls[c].started = <<>> THEN calls' = Returned(c, "failed") /\ UNCHANGED loaded
       ELSE /\ loaded' = WithoutModule(Last(calls[c].started))
            /\ calls' = [calls EXCEPT ![c].started = Front(@)]
    /\ UNCHANGED <<graph, upperMode, bootList>>

-----------------------------------------------------------------------------
(* stopModuleByName. *)

\* Stopping does not ask whether the module runs, or whether its manifest is
\* in error: what depends on it is stopped all the same.
StopModule(c, m) ==
    /\ c # Boot /\ MayCall(c)
    /\ calls' = [calls EXCEPT ![c] = Called(c, "stop", m)]
    /\ UNCHANGED <<graph, upperMode, loaded, bootList>>

StopNext(c) ==
    /\ At(c, "stopping")
    /\ loaded' = WithoutModule(Current(c))
    /\ LET rest == Tail(calls[c].order) IN
         calls' = [calls EXCEPT ![c] = [calls[c] EXCEPT !.order = rest,
                     !.pc = IF rest = <<>> THEN "done" ELSE "stopping",
                     !.result = IF rest = <<>> THEN "ok" ELSE "none"]]
    /\ UNCHANGED <<graph, upperMode, bootList>>

ManagerNext ==
    \/ BootStart
    \/ \E c \in Callers, m \in Modules : StartModule(c, m) \/ StopModule(c, m)
    \/ \E c \in Callers : Refuse(c) \/ Descend(c) \/ List(c)
    \/ \E c \in Callers : Look(c) \/ Load(c) \/ Await(c) \/ Undo(c) \/ StopNext(c)

ManagerSpec == ManagerInit /\ [][ManagerNext]_managerVars

-----------------------------------------------------------------------------

ManagerTypeOK ==
    /\ graph \in Graphs /\ upperMode \in BOOLEAN
    /\ loaded \in Seq(Modules) /\ bootList \in Seq(Modules)
    /\ \A c \in Callers :
         /\ calls[c].pc \in {"idle", "searching", "looking", "loading", "awaiting", "undoing", "stopping", "done"}
         /\ calls[c].stack \in Seq([mod : Modules, left : SUBSET Modules])
         /\ calls[c].pc = "searching" => calls[c].stack # <<>>
         /\ calls[c].order \in Seq(Modules) /\ calls[c].started \in Seq(Modules)
         /\ calls[c].pc \in {"looking", "loading", "awaiting", "stopping"} => calls[c].order # <<>>

\* The README's claim: a module that runs is not started a second time.
NoDoubleStart == IsInjective(loaded)

\* A running module never runs without a module it depends on, at any step of
\* a start, of the undoing of a start, or of a cascading stop.
DependenciesRun == \A m \in Running : DependenciesOf(graph, m) \subseteq Running

\* A module is loaded only after everything its manifest names was seen to
\* serve by the same call.
LoadedAfterReady ==
    [][\A c \in Callers :
          calls[c].pc = "loading" /\ Len(loaded') > Len(loaded)
          => DependenciesOf(graph, Current(c)) \subseteq calls[c].ready]_managerVars

\* What a call leaves running is what it was asked for: a start that succeeds
\* adds exactly what the module needs, a stop removes exactly what needs the
\* module, and a call that fails changes nothing.  The exception is a start
\* that found a running dependency not serving: it keeps what it had loaded.
AsAsked(k) ==
    CASE k.result = "ok" /\ k.asked = "start" -> Running = k.before \cup NeededBy(graph, k.mod)
      [] k.result = "ok" /\ k.asked = "stop"  -> Running = k.before \ NeedersOf(graph, k.mod)
      [] k.result = "unready" -> /\ k.before \subseteq Running
                                 /\ Running \subseteq k.before \cup NeededBy(graph, k.mod)
      [] OTHER -> Running = k.before

OutcomeAsAsked ==
    [][\A c \in Callers :
          calls'[c] # calls[c] /\ calls'[c].pc = "done" => AsAsked(calls[c])']_managerVars

\* A call is refused exactly when the graph gives a reason for it.
RefusedWithReason ==
    \A c \in Callers : LET k == calls[c] IN
        k.pc = "done" =>
            /\ k.asked = "start" /\ k.mod \notin k.before =>
                  (k.result = "refused") = ~Startable(graph, k.mod)
            /\ k.asked = "stop" => (k.result = "refused") = ~Stoppable(graph, k.mod)

\* No module runs without what it depends on, at any step of a start, an undo
\* or a stop, and a call is refused exactly when the graph gives a reason.
ManagerSafe == ManagerTypeOK /\ DependenciesRun /\ RefusedWithReason
=============================================================================
