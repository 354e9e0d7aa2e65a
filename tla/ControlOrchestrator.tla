------------------------- MODULE ControlOrchestrator --------------------------
(***************************************************************************)
(* Sequences of commands.  A sequence runs because a client calls it, or   *)
(* because a command reached a connection of this module in DataCenter     *)
(* (a panel) and its source point is the trigger of the sequence.  Each    *)
(* step is itself a command sent through DataCenter, so a run waits for    *)
(* the lane of a connection while the command that triggered it holds the  *)
(* lane of its panel, and while it holds the lock of its own sequence; a   *)
(* step may reach a panel again and trigger another run.                   *)
(*                                                                         *)
(* The path of names that a request id carries is read back as it was      *)
(* written.  That is so when no name, and no request id that a client      *)
(* chooses, contains the marker "\x1eCO_PATH=" that begins the path, which *)
(* nothing in the code checks: splitRequestId looks for the last marker,   *)
(* and one inside a name would lose the names before it.                   *)
(***************************************************************************)
EXTENDS LaneOps, SequencesExt

CONSTANTS Names,       \* sequence names
          Workflows,   \* the workflows that clients save
          Devices,     \* connections of protocol modules
          Panels,      \* connections of this module
          Worlds,      \* what is stored at the start, DataCenter's routes from points
                       \* to connections, and bounds: the calls and how many edits
          Manual,      \* request ids of calls of ExecuteSequence
          Clients,     \* request ids of the commands of protocol modules
          Outlet,      \* the source point of each of those commands
          Requests,    \* every request id (bound: how deep runs nest)
          Nobody,      \* no sequence, no trigger
          MaxPath,     \* kMaxWorkflowPath
          LoadsFirst   \* whether calls arrive only after the stored sequences are loaded

\* makeRequestId: the request of an attempt at a step of a run.
RequestOf(r, k, a) == Append(r, <<k, a>>)

\* A step with the trigger as its source would run its own sequence again.
ValidWorkflow(w) ==
    /\ w.name \in Names
    /\ DOMAIN w.steps = 1..Len(w.steps) /\ Len(w.steps) \in 1..8
    /\ \A k \in DOMAIN w.steps :
         /\ w.trigger # Nobody => w.steps[k].source # w.trigger
         /\ w.steps[k].check \in {"none", "stop", "retry"}
         /\ w.steps[k].retries \in 0..100

NoFlow == [name |-> Nobody, trigger |-> Nobody, steps |-> <<>>]

\* A stored table: a workflow under its own name, or none.
IsTable(t) ==
    DOMAIN t = Names /\ \A s \in Names : t[s] = NoFlow \/ (ValidWorkflow(t[s]) /\ t[s].name = s)

Conns == Devices \cup Panels

\* A request id is the path of steps that led to it; it starts with a call or
\* with the command of a client.
ASSUME OrchestratorAssumption ==
    /\ \A w \in Workflows : ValidWorkflow(w)
    /\ \A x \in Worlds :
         /\ IsTable(x.stored) /\ x.left \in [edits : Nat, calls : SUBSET (Names \X BOOLEAN)]
         /\ \A p \in DOMAIN x.routes : x.routes[p] \in Conns
    /\ Nobody \notin Names
    /\ Clients \cup Manual \subseteq Requests /\ Clients \cap Manual = {}
    /\ Requests \subseteq Seq(UNION {Range(r) : r \in Requests}) /\ <<>> \notin Requests
    /\ \A r \in Clients \cup Manual : Len(r) = 1
    /\ MaxPath \in Nat /\ LoadsFirst \in BOOLEAN

VARIABLES sequences, \* sequences_: the workflow of each name
          locks,     \* sequenceLocks_: which mutex each name has, 0 if none
          saved,     \* the table of the module in conf/config.db
          load,      \* how far LoadPersistedConfig is, and the table it has read
          left,      \* how many edits and which calls of sequences are left
          runs,      \* executions, named by the call or the command that began them
          cmds,      \* ExecuteCommand handlers of DataCenter, by request id
          lanes,     \* DataCenter's lane for each connection
          routes     \* DataCenter's routes

configVars == <<sequences, locks, saved, load, left>>
busVars == <<cmds, lanes, routes>>
orchVars == <<configVars, runs, busVars>>

\* Before it begins, a run or a command has no more state than that.
IdleRun == [pc |-> "idle", result |-> "none"]
FreeCmd == [pc |-> "free", target |-> "none"]

\* A run that has been called, and a command that was sent.
NewRun(s, valued, path) ==
    [pc |-> "called", seq |-> s, valued |-> valued, path |-> path, flow |-> NoFlow, lock |-> 0,
     step |-> 0, attempt |-> 0, confirmed |-> {}, result |-> "none"]

NewCmd(src, path) ==
    [pc |-> "sent", src |-> src, path |-> path, conn |-> Nobody, ticket |-> 0,
     target |-> "none", result |-> "none"]

Installed(table) == [s \in Names |-> IF table[s] # NoFlow THEN 1 ELSE 0]

OrchInit ==
    /\ \E x \in Worlds :
         /\ saved = x.stored /\ routes = x.routes /\ left = x.left
    /\ sequences = [s \in Names |-> NoFlow] /\ locks = [s \in Names |-> 0]
    /\ load = [at |-> "none", table |-> saved]
    /\ runs = [r \in Requests |-> IdleRun]
    /\ cmds = [c \in Requests |-> FreeCmd]
    /\ lanes = [k \in Conns |-> NewLane]

-----------------------------------------------------------------------------

\* The module's server is up before the stored sequences are.
Serving == LoadsFirst => load.at = "done"

\* saveLocked, by its two outcomes: the whole table is written, or nothing is.
Save ==
    /\ Serving /\ left.edits > 0 /\ left' = [left EXCEPT !.edits = @ - 1]
    /\ \/ saved' = sequences'
       \/ saved' = saved /\ sequences' # saved

\* A mutex is made once for each name, and it stays when the sequence goes.
UpsertSequence(w) ==
    /\ sequences' = [sequences EXCEPT ![w.name] = w]
    /\ locks' = [locks EXCEPT ![w.name] = IF @ = 0 THEN 1 ELSE @]
    /\ Save
    /\ UNCHANGED <<load, runs, busVars>>

\* Mutant: the mutex of a sequence goes with it.
DeleteWithLock(s) ==
    /\ sequences[s] # NoFlow
    /\ sequences' = [sequences EXCEPT ![s] = NoFlow]
    /\ locks' = [locks EXCEPT ![s] = @ + 1]
    /\ Save
    /\ UNCHANGED <<load, runs, busVars>>

DeleteSequence(s) ==
    /\ sequences[s] # NoFlow
    /\ sequences' = [sequences EXCEPT ![s] = NoFlow]
    /\ Save
    /\ UNCHANGED <<locks, load, runs, busVars>>

\* LoadPersistedConfig reads the table without the manager's mutex and installs
\* it with a new mutex for each name; the module's server serves by then.  When
\* the table cannot be read the module goes on without it.
ReadStored ==
    /\ load.at = "none"
    /\ \E at \in {"read", "done"} : load' = [at |-> at, table |-> saved]
    /\ UNCHANGED <<sequences, locks, saved, left, runs, busVars>>

InstallStored ==
    /\ load.at = "read"
    /\ load' = [load EXCEPT !.at = "done"]
    /\ sequences' = load.table
    /\ locks' = [s \in Names |-> locks[s] + Installed(load.table)[s]]
    /\ UNCHANGED <<saved, left, runs, busVars>>

EditSequences ==
    \/ \E w \in Workflows : UpsertSequence(w)
    \/ \E s \in Names : DeleteSequence(s)
    \/ ReadStored \/ InstallStored

-----------------------------------------------------------------------------

Goes(r, pc) == runs' = [runs EXCEPT ![r].pc = pc]
Ends(r, result) == runs' = [runs EXCEPT ![r].pc = "done", ![r].result = result]
Fails(r) == Ends(r, "FAILED")

\* A call of ExecuteSequence by its RPC, with a trigger value or without.
CallSequence(r, s, valued) ==
    /\ Serving /\ runs[r].pc = "idle" /\ <<s, valued>> \in left.calls
    /\ runs' = [runs EXCEPT ![r] = NewRun(s, valued, <<>>)]
    /\ UNCHANGED <<configVars, busVars>>

\* ExecuteTriggeredCommand: the one sequence that the source of c triggers.
MatchTrigger(c) ==
    /\ cmds[c].target = "run" /\ runs[c].pc = "idle"
    /\ LET found == {s \in Names : sequences[s] # NoFlow /\ sequences[s].trigger = cmds[c].src} IN
         \/ Cardinality(found) # 1 /\ Fails(c)
         \/ /\ Cardinality(found) = 1
            /\ \E s \in found : runs' = [runs EXCEPT ![c] = NewRun(s, TRUE, cmds[c].path)]
    /\ UNCHANGED <<configVars, busVars>>

\* Mutant: the path of the request is not looked at.
TakeAnyWorkflow(r) ==
    /\ runs[r].pc = "called"
    /\ LET s == runs[r].seq IN
         \/ sequences[s] = NoFlow /\ Fails(r)
         \/ /\ sequences[s] # NoFlow
            /\ runs' = [runs EXCEPT ![r].pc = "locking", ![r].flow = sequences[s], ![r].lock = locks[s]]
    /\ UNCHANGED <<configVars, busVars>>

\* The start of ExecuteSequence: what is in the request's path is not run again;
\* the workflow is copied and its mutex looked up.
TakeWorkflow(r) ==
    /\ runs[r].pc = "called"
    /\ LET s == runs[r].seq
           path == runs[r].path
           refused == Len(path) >= MaxPath \/ \E i \in DOMAIN path : path[i] = s
       IN \/ (refused \/ sequences[s] = NoFlow) /\ Fails(r)
          \/ /\ ~refused /\ sequences[s] # NoFlow
             /\ runs' = [runs EXCEPT ![r].pc = "locking", ![r].flow = sequences[s], ![r].lock = locks[s]]
    /\ UNCHANGED <<configVars, busVars>>

Inside == {"stepping", "calling", "verifying"}
Holds(r) == runs[r].pc \in Inside

TakeLock(r) ==
    /\ runs[r].pc = "locking"
    /\ \A q \in Requests : Holds(q) => runs[q].seq # runs[r].seq \/ runs[q].lock # runs[r].lock
    /\ runs' = [runs EXCEPT ![r].pc = "stepping", ![r].step = 1, ![r].attempt = 1]
    /\ UNCHANGED <<configVars, busVars>>

\* A workflow with a trigger sends its steps from points of its own.
SourceOf(r) ==
    IF runs[r].flow.trigger # Nobody THEN <<runs[r].seq, runs[r].step>>
                                     ELSE runs[r].flow.steps[runs[r].step].source

Current(r) == RequestOf(r, runs[r].step, runs[r].attempt)

\* The request of the step goes out, with this sequence added to its path; a
\* step that passes the trigger's value needs one.
SendStep(r) ==
    /\ runs[r].pc = "stepping"
    /\ LET step == runs[r].flow.steps[runs[r].step]  c == Current(r) IN
         \/ step.passes /\ ~runs[r].valued /\ Fails(r) /\ UNCHANGED cmds
         \/ /\ step.passes => runs[r].valued
            /\ c \in Requests /\ cmds[c].pc = "free"
            /\ cmds' = [cmds EXCEPT ![c] = NewCmd(SourceOf(r), Append(runs[r].path, runs[r].seq))]
            /\ Goes(r, "calling")
    /\ UNCHANGED <<configVars, lanes, routes>>

\* Run r after its current step.
Advanced(r) ==
    IF runs[r].step = Len(runs[r].flow.steps)
      THEN [runs[r] EXCEPT !.pc = "done", !.result = "ACCEPTED"]
      ELSE [runs[r] EXCEPT !.pc = "stepping", !.step = @ + 1, !.attempt = 1]

\* Mutant: any answer is taken for an acceptance.
TakeAnyAnswer(r) ==
    /\ runs[r].pc = "calling" /\ cmds[Current(r)].pc = "done"
    /\ LET check == runs[r].flow.steps[runs[r].step].check IN
         IF check # "none" THEN Goes(r, "verifying") ELSE runs' = [runs EXCEPT ![r] = Advanced(r)]
    /\ UNCHANGED <<configVars, busVars>>

TakeAnswer(r) ==
    /\ runs[r].pc = "calling" /\ cmds[Current(r)].pc = "done"
    /\ LET check == runs[r].flow.steps[runs[r].step].check IN
         CASE cmds[Current(r)].result # "ACCEPTED" -> Fails(r)
           [] cmds[Current(r)].result = "ACCEPTED" /\ check # "none" -> Goes(r, "verifying")
           [] OTHER -> runs' = [runs EXCEPT ![r] = Advanced(r)]
    /\ UNCHANGED <<configVars, busVars>>

\* The state is read until it is as expected or the time is over; then the
\* command is sent again, or the run fails.
Verify(r) ==
    /\ runs[r].pc = "verifying"
    /\ LET step == runs[r].flow.steps[runs[r].step]
           again == step.check = "retry" /\ runs[r].attempt <= step.retries
       IN \/ runs' = [runs EXCEPT ![r] = [Advanced(r) EXCEPT !.confirmed = @ \cup {runs[r].step}]]
          \/ again /\ runs' = [runs EXCEPT ![r].pc = "stepping", ![r].attempt = @ + 1]
          \/ ~again /\ Fails(r)
    /\ UNCHANGED <<configVars, busVars>>

\* The caller's cancellation or deadline, or the sequence's total time, noticed
\* at the next point where the code looks.  A call in progress is then cut off,
\* and its handler in DataCenter may go on for a while.
StopRun(r) ==
    /\ runs[r].pc \in {"called", "locking"} \cup Inside
    /\ Fails(r)
    /\ UNCHANGED <<configVars, busVars>>

Run(r) ==
    \/ MatchTrigger(r) \/ TakeWorkflow(r) \/ TakeLock(r) \/ SendStep(r) \/ TakeAnswer(r) \/ Verify(r)

-----------------------------------------------------------------------------

\* A protocol module sends a command to DataCenter.
SendCommand(c) ==
    /\ Serving /\ cmds[c].pc = "free"
    /\ cmds' = [cmds EXCEPT ![c] = NewCmd(Outlet[c], <<>>)]
    /\ UNCHANGED <<configVars, runs, lanes, routes>>

Finish(c, result) == cmds' = [cmds EXCEPT ![c].pc = "done", ![c].result = result]

\* Mutant: a command that ends keeps its turn.
KeepTurn(c) == \E l \in {lanes[cmds[c].conn]} : lanes' = [lanes EXCEPT ![cmds[c].conn] = l]

Release(c) == \E l \in Released(lanes[cmds[c].conn]) : lanes' = [lanes EXCEPT ![cmds[c].conn] = l]

RouteCommand(c) ==
    /\ cmds[c].pc = "sent"
    /\ IF cmds[c].src \notin DOMAIN routes THEN Finish(c, "FAILED") /\ UNCHANGED lanes
       ELSE LET k == routes[cmds[c].src] IN
              /\ cmds' = [cmds EXCEPT ![c].pc = "queued", ![c].conn = k, ![c].ticket = lanes[k].next]
              /\ lanes' = [lanes EXCEPT ![k] = WithReserved(lanes[k])]
    /\ UNCHANGED <<configVars, runs, routes>>

\* Its turn in the lane has come, and the target module is called: a device's,
\* or this one's.
CallTarget(c) ==
    /\ cmds[c].pc = "queued" /\ lanes[cmds[c].conn].serving = cmds[c].ticket
    /\ cmds' = [cmds EXCEPT ![c].pc = "calling",
                            ![c].target = IF cmds[c].conn \in Panels THEN "run" ELSE "sent"]
    /\ UNCHANGED <<configVars, runs, lanes, routes>>

\* The device may answer late: its module does not end with the call.
DeviceAnswers(c) ==
    /\ cmds[c].target = "sent"
    /\ \E answer \in {"ACCEPTED", "REJECTED"} : cmds' = [cmds EXCEPT ![c].target = answer]
    /\ UNCHANGED <<configVars, runs, lanes, routes>>

Answer(c) == IF cmds[c].target = "run" THEN runs[c].result ELSE cmds[c].target

TargetReturns(c) ==
    /\ cmds[c].pc = "calling" /\ Answer(c) \in {"ACCEPTED", "REJECTED", "FAILED"}
    /\ Finish(c, IF Answer(c) = "ACCEPTED" THEN "ACCEPTED" ELSE "FAILED")
    /\ Release(c)
    /\ UNCHANGED <<configVars, runs, routes>>

\* A call to a target has a time limit, also when its caller set none.
CallExpires(c) ==
    /\ cmds[c].pc = "calling"
    /\ Finish(c, "FAILED") /\ Release(c)
    /\ UNCHANGED <<configVars, runs, routes>>

\* The caller's cancellation or deadline, noticed before the target is called.
StopCommand(c) ==
    /\ \/ cmds[c].pc = "sent" /\ UNCHANGED lanes
       \/ /\ cmds[c].pc = "queued"
          /\ LET l == lanes[cmds[c].conn] IN
               \/ l.serving = cmds[c].ticket /\ Release(c)
               \/ /\ l.serving # cmds[c].ticket
                  /\ \E m \in Abandoned(l, cmds[c].ticket) : lanes' = [lanes EXCEPT ![cmds[c].conn] = m]
    /\ Finish(c, "FAILED")
    /\ UNCHANGED <<configVars, runs, routes>>

Serve(c) == RouteCommand(c) \/ CallTarget(c) \/ TargetReturns(c) \/ CallExpires(c)

OrchNext ==
    \/ EditSequences
    \/ \E r \in Manual, s \in Names, valued \in BOOLEAN : CallSequence(r, s, valued)
    \/ \E c \in Clients : SendCommand(c)
    \/ \E r \in Requests : Run(r) \/ StopRun(r) \/ Serve(r) \/ StopCommand(r) \/ DeviceAnswers(r)

OrchSpec == OrchInit /\ [][OrchNext]_orchVars

\* Some thread runs on, and a call to a target has a time limit.  The commands
\* of steps have a deadline, which comes; those of clients and the calls of
\* sequences need not have one.  As there are finitely many calls, no thread is
\* passed over for ever.
Advances ==
    \/ ReadStored \/ InstallStored
    \/ \E r \in Requests : Run(r) \/ Serve(r) \/ (r \notin Clients /\ StopCommand(r))

FairOrchSpec == OrchSpec /\ WF_orchVars(Advances)

-----------------------------------------------------------------------------

OrchTypeOK ==
    /\ IsTable(sequences) /\ IsTable(saved)
    /\ locks \in [Names -> Nat] /\ left.edits \in Nat
    /\ \A r \in Requests :
         /\ runs[r].pc \in {"idle", "called", "locking", "done"} \cup Inside
         /\ runs[r].pc \in {"locking"} \cup Inside =>
              ValidWorkflow(runs[r].flow) /\ runs[r].flow.name = runs[r].seq /\ runs[r].lock > 0
         /\ Holds(r) => runs[r].step \in DOMAIN runs[r].flow.steps
         /\ cmds[r].pc \in {"free", "sent", "queued", "calling", "done"}
         /\ cmds[r].pc \in {"queued", "calling"} => cmds[r].conn \in Conns

\* An edit that cannot be saved leaves the sequences as they were: what is in
\* memory never pretends to have been saved.
EditsAreSaved ==
    [][left'.edits # left.edits => sequences' \in {sequences, saved'}]_orchVars

\* Two runs of one sequence never interleave their steps, though the sequence
\* may be deleted and saved anew, or changed, while a run of it goes on.  That
\* takes LoadsFirst: a sequence that is saved before the load ends gets another
\* mutex from the load.
OneAtATime == \A q, r \in Requests : Holds(q) /\ Holds(r) /\ runs[q].seq = runs[r].seq => q = r

\* Whether the target took the command of an attempt at step k of run r.
Taken(r, k) == \E c \in Requests : Front(c) = r /\ Last(c)[1] = k /\ Answer(c) = "ACCEPTED"

Done(r, k) == Taken(r, k) /\ (runs[r].flow.steps[k].check # "none" => k \in runs[r].confirmed)

\* The trigger's value, or any later command, goes out only when the targets of
\* all steps before it took their commands and the states asked for were seen,
\* and a run is reported as accepted only when that holds of all its steps.
PreconditionsFirst ==
    /\ \A c \in Requests : cmds[c].pc # "free" /\ Len(c) > 1 =>
         \A j \in 1..(Last(c)[1] - 1) : Done(Front(c), j)
    /\ \A r \in Requests : runs[r].result = "ACCEPTED" =>
         \A k \in DOMAIN runs[r].flow.steps : Done(r, k)

\* A run never waits for the lock of a run whose step it serves: what leads
\* back to a sequence of its own callers is refused before the lock.
NeverAwaitsItsCaller ==
    \A q, r \in Requests :
        /\ Holds(q) /\ IsStrictPrefix(q, r) /\ runs[r].pc \in {"locking"} \cup Inside
        => runs[q].seq # runs[r].seq

\* Runs that wait for each other's locks and lanes all end, by their deadlines
\* if need be, and so do the commands that wait in the lanes.
RunsEnd ==
    []<>(\A r \in Requests : runs[r].pc \in {"idle", "done"} /\ cmds[r].pc \in {"free", "done"})

\* With LoadsFirst, two runs of one sequence never interleave their steps, though
\* the sequence may be deleted and saved anew while a run of it goes on.
OrchSafe == OrchTypeOK /\ OneAtATime
=============================================================================
