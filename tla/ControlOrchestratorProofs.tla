---------------------- MODULE ControlOrchestratorProofs -----------------------
(***************************************************************************)
(* Runs of one sequence exclude each other, but for those on a mutex that  *)
(* the load of the stored sequences replaced, and a run never waits for    *)
(* the lock of one whose step it serves: for any sequences, any requests   *)
(* and any nesting, whether calls come before the load or not.             *)
(***************************************************************************)
EXTENDS ControlOrchestrator, SequenceTheorems, TLAPS

RunFields == {"pc", "seq", "valued", "path", "flow", "lock", "step", "attempt", "confirmed", "result"}
CmdFields == {"pc", "src", "path", "conn", "ticket", "target", "result"}
PastTake == {"locking", "stepping", "calling", "verifying"}
Active == {"called"} \cup PastTake

\* A run before it begins, a triggered run for which no sequence was found, or
\* one that was called.
RunShape(x) ==
    \/ x = IdleRun
    \/ DOMAIN x = {"pc", "result"} /\ x.pc = "done"
    \/ /\ DOMAIN x = RunFields /\ x.pc \in Active \cup {"done"}
       /\ x.seq \in Names /\ x.path \in Seq(Names)

\* A run that has its workflow has the mutex of the sequence, which none of its
\* callers runs.
RunSound(x) ==
    /\ x.pc \in PastTake =>
         /\ ValidWorkflow(x.flow) /\ x.flow.name = x.seq
         /\ x.lock \in Nat /\ x.lock > 0
         /\ \A i \in DOMAIN x.path : x.path[i] # x.seq
    /\ x.pc \in Inside => x.step \in DOMAIN x.flow.steps

CmdShape(x) ==
    \/ x = FreeCmd
    \/ /\ DOMAIN x = CmdFields /\ x.pc \in {"sent", "queued", "calling", "done"}
       /\ x.path \in Seq(Names)
       /\ x.pc \in {"queued", "calling"} => x.conn \in Conns

LeftSound ==
    DOMAIN left = {"edits", "calls"} /\ left.edits \in Nat /\ left.calls \subseteq Names \X BOOLEAN

TablesSound ==
    /\ IsTable(sequences) /\ IsTable(saved)
    /\ DOMAIN load = {"at", "table"} /\ load.at \in {"none", "read", "done"} /\ IsTable(load.table)
    /\ LeftSound
    /\ locks \in [Names -> Nat]
    /\ \A s \in Names : sequences[s] # NoFlow => locks[s] > 0
    /\ \A p \in DOMAIN routes : routes[p] \in Conns

RunsSound == DOMAIN runs = Requests /\ \A r \in Requests : RunShape(runs[r]) /\ RunSound(runs[r])
CmdsSound == DOMAIN cmds = Requests /\ \A c \in Requests : CmdShape(cmds[c])

OrchShape == TablesSound /\ RunsSound /\ CmdsSound

\* q is among the callers of r.
Above(q, r) == Len(q) < Len(r) /\ \A i \in 1..Len(q) : q[i] = r[i]
InPath(q, path) == DOMAIN runs[q] = RunFields /\ \E i \in DOMAIN path : path[i] = runs[q].seq

\* The path of a command, and of a run, has the sequences of all its callers.
PathsTold ==
    \A q, r \in Requests : Above(q, r) =>
        /\ cmds[r].pc # "free" => InPath(q, cmds[r].path)
        /\ runs[r].pc \in Active => InPath(q, runs[r].path)

\* The load has replaced the mutex of s: s is stored, and it had been saved anew
\* before the load ended, which made the first one.
LockReplaced(s) == load.at = "done" /\ load.table[s] # NoFlow /\ locks[s] = 2

\* A name gets one mutex when it is first saved, or by the load, and only the
\* load replaces one; nobody else is inside with the same mutex.
LocksSound ==
    /\ \A s \in Names :
         locks[s] <= 1 + (IF load.at = "done" THEN Installed(load.table)[s] ELSE 0)
    /\ \A r \in Requests : runs[r].pc \in PastTake => runs[r].lock <= locks[runs[r].seq]
    /\ \A q, r \in Requests :
         Holds(q) /\ Holds(r) /\ runs[q].seq = runs[r].seq /\ runs[q].lock = runs[r].lock => q = r

\* Two runs of one sequence are inside together only when the load replaced the
\* mutex of that sequence, and then on different mutexes.
ExclusiveButForLoad ==
    \A q, r \in Requests :
        Holds(q) /\ Holds(r) /\ runs[q].seq = runs[r].seq /\ q # r =>
            LockReplaced(runs[q].seq) /\ runs[q].lock # runs[r].lock

\* Nothing is begun, and nothing made, before the load has ended.
NothingBeforeLoad ==
    /\ \A s \in Names : locks[s] <= 1
    /\ load.at # "done" =>
         /\ \A s \in Names : locks[s] = 0
         /\ \A r \in Requests : runs[r].pc = "idle" /\ cmds[r].pc = "free"

-----------------------------------------------------------------------------
\* Request ids.

LEMMA RequestIds ==
    ASSUME NEW r \in Requests
    PROVE  /\ r \in Seq(UNION {Range(x) : x \in Requests})
           /\ Len(r) \in Nat /\ Len(r) > 0 /\ DOMAIN r = 1..Len(r)
           /\ r \in Clients \cup Manual => Len(r) = 1
  BY OrchestratorAssumption

\* Who is above a step's request is the run that sends it, or above that run.
LEMMA AboveStep ==
    ASSUME NEW q \in Requests, NEW r \in Requests, NEW k, NEW a,
           RequestOf(r, k, a) \in Requests, Above(q, RequestOf(r, k, a))
    PROVE  q = r \/ Above(q, r)
  <1> DEFINE X == UNION {Range(x) : x \in Requests}
             c == RequestOf(r, k, a)
  <1>1. q \in Seq(X) /\ r \in Seq(X)
    BY RequestIds
  <1>2. Len(c) = Len(r) + 1 /\ \A i \in 1..Len(r) : c[i] = r[i]
    BY <1>1 DEF RequestOf
  <1>3. CASE Len(q) = Len(r)
    BY <1>1, <1>2, <1>3, SeqEqual DEF Above
  <1>4. CASE Len(q) # Len(r)
    BY <1>1, <1>2, <1>4 DEF Above
  <1> QED BY <1>3, <1>4

LEMMA StrictPrefixIsAbove ==
    ASSUME NEW q \in Requests, NEW r \in Requests, IsStrictPrefix(q, r)
    PROVE  Above(q, r)
  <1> DEFINE X == UNION {Range(x) : x \in Requests}
  <1>1. q \in Seq(X) /\ r \in Seq(X) /\ Len(q) <= Len(r) /\ q # r
    BY RequestIds DEF IsStrictPrefix, IsPrefix
  <1>2. \A i \in 1..Len(q) : q[i] = r[i]
    <2>1. SubSeq(q, 1, Len(q)) = SubSeq(r, 1, Len(q))
      BY DEF IsStrictPrefix, IsPrefix
    <2>2. TAKE i \in 1..Len(q)
    <2>3. SubSeq(q, 1, Len(q))[i] = q[i] /\ SubSeq(r, 1, Len(q))[i] = r[i]
      BY <1>1
    <2> QED BY <2>1, <2>3
  <1>3. Len(q) # Len(r)
    BY <1>1, <1>2, SeqEqual
  <1> QED BY <1>1, <1>2, <1>3 DEF Above

-----------------------------------------------------------------------------
\* What one action makes of a run or of a command.

LEMMA NewRunSound ==
    ASSUME NEW s \in Names, NEW v, NEW path \in Seq(Names)
    PROVE  RunShape(NewRun(s, v, path)) /\ RunSound(NewRun(s, v, path))
  BY DEF RunShape, RunSound, NewRun, Active, PastTake, Inside, RunFields

LEMMA EndedRunSound ==
    ASSUME NEW x, RunShape(x), NEW result
    PROVE  LET y == [x EXCEPT !.pc = "done", !.result = result] IN RunShape(y) /\ RunSound(y)
  BY DEF RunShape, RunSound, IdleRun, Active, PastTake, Inside, RunFields

\* The stages after the mutex is taken: only these fields change.
LEMMA InsideRunSound ==
    ASSUME NEW x, RunShape(x), RunSound(x), x.pc \in Inside, NEW pc \in Inside
    PROVE  LET y == [x EXCEPT !.pc = pc] IN RunShape(y) /\ RunSound(y)
  BY DEF RunShape, RunSound, IdleRun, Active, PastTake, Inside, RunFields

LEMMA RetriedRunSound ==
    ASSUME NEW x, RunShape(x), RunSound(x), x.pc \in Inside, NEW attempt
    PROVE  LET y == [x EXCEPT !.pc = "stepping", !.attempt = attempt] IN RunShape(y) /\ RunSound(y)
  BY DEF RunShape, RunSound, IdleRun, Active, PastTake, Inside, RunFields

LEMMA AdvancedRunSound ==
    ASSUME NEW x, RunShape(x), RunSound(x), x.pc \in Inside, NEW step \in DOMAIN x.flow.steps
    PROVE  LET y == [x EXCEPT !.pc = "stepping", !.step = step, !.attempt = 1]
           IN RunShape(y) /\ RunSound(y)
  BY DEF RunShape, RunSound, IdleRun, Active, PastTake, Inside, RunFields

LEMMA ConfirmedRunSound ==
    ASSUME NEW x, RunShape(x), RunSound(x), NEW confirmed
    PROVE  LET y == [x EXCEPT !.confirmed = confirmed] IN RunShape(y) /\ RunSound(y)
  BY DEF RunShape, RunSound, IdleRun, Active, PastTake, Inside, RunFields

LEMMA LockedRunSound ==
    ASSUME NEW x, RunShape(x), RunSound(x), x.pc = "locking"
    PROVE  LET y == [x EXCEPT !.pc = "stepping", !.step = 1, !.attempt = 1]
           IN RunShape(y) /\ RunSound(y)
  BY DEF RunShape, RunSound, IdleRun, Active, PastTake, Inside, RunFields, ValidWorkflow

LEMMA TakenRunSound ==
    ASSUME NEW x, RunShape(x), x.pc = "called", NEW flow, ValidWorkflow(flow), flow.name = x.seq,
           NEW lock \in Nat, lock > 0, \A i \in DOMAIN x.path : x.path[i] # x.seq
    PROVE  LET y == [x EXCEPT !.pc = "locking", !.flow = flow, !.lock = lock]
           IN RunShape(y) /\ RunSound(y)
  BY DEF RunShape, RunSound, IdleRun, Active, PastTake, Inside, RunFields

-----------------------------------------------------------------------------
\* Every step keeps the shape of the tables, the runs and the commands.

LEMMA RunChanged ==
    ASSUME RunsSound, NEW r \in Requests, NEW y, RunShape(y), RunSound(y),
           runs' = [runs EXCEPT ![r] = y]
    PROVE  RunsSound'
  BY DEF RunsSound, RunShape, RunSound

LEMMA CmdChanged ==
    ASSUME CmdsSound, NEW c \in Requests, NEW y, CmdShape(y), cmds' = [cmds EXCEPT ![c] = y]
    PROVE  CmdsSound'
  BY DEF CmdsSound, CmdShape

LEMMA RunEnds ==
    ASSUME RunsSound, NEW r \in Requests, NEW result, Ends(r, result)
    PROVE  RunsSound'
  <1> DEFINE y == [runs[r] EXCEPT !.pc = "done", !.result = result]
  <1>1. RunShape(y) /\ RunSound(y)
    BY EndedRunSound DEF RunsSound
  <1>2. runs' = [runs EXCEPT ![r] = y]
    BY DEF Ends, RunsSound
  <1> QED BY <1>1, <1>2, RunChanged

LEMMA SaveSound ==
    ASSUME TablesSound, IsTable(sequences'), Save
    PROVE  IsTable(saved') /\ LeftSound'
  <1>1. IsTable(saved')
    BY DEF TablesSound, Save
  <1>2. LeftSound'
    BY DEF TablesSound, Save, LeftSound
  <1> QED BY <1>1, <1>2

LEMMA EditsShape ==
    ASSUME OrchShape, EditSequences
    PROVE  OrchShape'
  <1>1. RunsSound' /\ CmdsSound'
    BY DEF OrchShape, RunsSound, RunShape, RunSound, CmdsSound, CmdShape, EditSequences, UpsertSequence,
           DeleteSequence, ReadStored, InstallStored, busVars
  <1>2. ASSUME NEW w \in Workflows, UpsertSequence(w)
        PROVE  TablesSound'
    <2>1. ValidWorkflow(w) /\ w.name \in Names
      BY OrchestratorAssumption DEF ValidWorkflow
    <2>2. IsTable(sequences')
      BY <1>2, <2>1 DEF OrchShape, TablesSound, IsTable, UpsertSequence
    <2>3. IsTable(saved') /\ LeftSound'
      BY <1>2, <2>2, SaveSound DEF UpsertSequence, OrchShape
    <2>4. locks' \in [Names -> Nat] /\ \A s \in Names : sequences'[s] # NoFlow => locks'[s] > 0
      BY <1>2, <2>1 DEF OrchShape, TablesSound, UpsertSequence, IsTable
    <2> QED BY <1>2, <2>2, <2>3, <2>4 DEF OrchShape, TablesSound, UpsertSequence, busVars, IsTable
  <1>3. ASSUME NEW s \in Names, DeleteSequence(s)
        PROVE  TablesSound'
    <2>1. IsTable(sequences')
      BY <1>3 DEF OrchShape, TablesSound, IsTable, DeleteSequence
    <2>2. IsTable(saved') /\ LeftSound'
      BY <1>3, <2>1, SaveSound DEF DeleteSequence, OrchShape
    <2>3. \A n \in Names : sequences'[n] # NoFlow => locks'[n] > 0
      BY <1>3 DEF OrchShape, TablesSound, DeleteSequence, IsTable
    <2> QED BY <1>3, <2>1, <2>2, <2>3 DEF OrchShape, TablesSound, DeleteSequence, busVars, IsTable
  <1>4. ReadStored => TablesSound'
    BY DEF OrchShape, TablesSound, LeftSound, ReadStored, busVars, IsTable
  <1>5. InstallStored => TablesSound'
    BY DEF OrchShape, TablesSound, LeftSound, InstallStored, Installed, busVars, IsTable
  <1> QED BY <1>1, <1>2, <1>3, <1>4, <1>5 DEF EditSequences, OrchShape

LEMMA RunShapeStep ==
    ASSUME OrchShape, NEW r \in Requests, Run(r) \/ StopRun(r)
    PROVE  OrchShape'
  <1> DEFINE x == runs[r]
  <1>0. RunShape(x) /\ RunSound(x) /\ CmdShape(cmds[r]) /\ DOMAIN runs = Requests
    BY DEF OrchShape, RunsSound, CmdsSound
  <1>1. TablesSound'
    BY DEF OrchShape, TablesSound, LeftSound, IsTable, Run, MatchTrigger, TakeWorkflow, TakeLock, SendStep,
           TakeAnswer, Verify, StopRun, configVars, busVars
  <1>2. RunsSound'
    <2>1. CASE MatchTrigger(r)
      <3> DEFINE found == {s \in Names : sequences[s] # NoFlow /\ sequences[s].trigger = cmds[r].src}
      <3>1. CASE Fails(r)
        BY <3>1, RunEnds DEF Fails, OrchShape
      <3>2. CASE \E s \in found : runs' = [runs EXCEPT ![r] = NewRun(s, TRUE, cmds[r].path)]
        <4>1. cmds[r].path \in Seq(Names)
          BY <2>1, <1>0 DEF MatchTrigger, CmdShape, FreeCmd
        <4> QED BY <3>2, <4>1, NewRunSound, RunChanged DEF OrchShape
      <3> QED BY <2>1, <3>1, <3>2 DEF MatchTrigger
    <2>2. CASE TakeWorkflow(r)
      <3>1. CASE Fails(r)
        BY <3>1, RunEnds DEF Fails, OrchShape
      <3>2. CASE /\ \A i \in DOMAIN x.path : x.path[i] # x.seq
                 /\ sequences[x.seq] # NoFlow
                 /\ runs' = [runs EXCEPT ![r].pc = "locking", ![r].flow = sequences[x.seq],
                                         ![r].lock = locks[x.seq]]
        <4> DEFINE y == [x EXCEPT !.pc = "locking", !.flow = sequences[x.seq], !.lock = locks[x.seq]]
        <4>1. x.pc = "called" /\ x.seq \in Names
          BY <2>2, <1>0 DEF TakeWorkflow, RunShape, IdleRun
        <4>2. /\ ValidWorkflow(sequences[x.seq]) /\ sequences[x.seq].name = x.seq
              /\ locks[x.seq] \in Nat /\ locks[x.seq] > 0
          BY <3>2, <4>1 DEF OrchShape, TablesSound, IsTable
        <4>3. RunShape(y) /\ RunSound(y)
          BY <1>0, <3>2, <4>1, <4>2, TakenRunSound
        <4>4. runs' = [runs EXCEPT ![r] = y]
          BY <1>0, <3>2
        <4> QED BY <4>3, <4>4, RunChanged DEF OrchShape
      <3> QED BY <2>2, <3>1, <3>2 DEF TakeWorkflow
    <2>3. CASE TakeLock(r)
      <3> DEFINE y == [x EXCEPT !.pc = "stepping", !.step = 1, !.attempt = 1]
      <3>1. RunShape(y) /\ RunSound(y)
        BY <2>3, <1>0, LockedRunSound DEF TakeLock
      <3>2. runs' = [runs EXCEPT ![r] = y]
        BY <2>3, <1>0 DEF TakeLock
      <3> QED BY <3>1, <3>2, RunChanged DEF OrchShape
    <2>4. ASSUME NEW pc \in Inside, x.pc \in Inside, Goes(r, pc)
          PROVE  RunsSound'
      <3> DEFINE y == [x EXCEPT !.pc = pc]
      <3>1. RunShape(y) /\ RunSound(y)
        BY <2>4, <1>0, InsideRunSound
      <3>2. runs' = [runs EXCEPT ![r] = y]
        BY <2>4, <1>0 DEF Goes
      <3> QED BY <3>1, <3>2, RunChanged DEF OrchShape
    <2>5. ASSUME x.pc \in Inside
          PROVE  /\ RunShape(Advanced(r)) /\ RunSound(Advanced(r))
                 /\ LET z == [Advanced(r) EXCEPT !.confirmed = @ \cup {x.step}] IN RunShape(z) /\ RunSound(z)
      <3>1. CASE x.step = Len(x.flow.steps)
        BY <3>1, <1>0, <2>5, EndedRunSound
           DEF Advanced, RunShape, RunSound, IdleRun, Active, PastTake, Inside, RunFields
      <3>2. CASE x.step # Len(x.flow.steps)
        <4>1. x.step + 1 \in DOMAIN x.flow.steps
          BY <1>0, <2>5, <3>2 DEF RunSound, ValidWorkflow, Inside, PastTake
        <4>2. Advanced(r) = [x EXCEPT !.pc = "stepping", !.step = x.step + 1, !.attempt = 1]
          BY <3>2 DEF Advanced
        <4> DEFINE y(step) == [x EXCEPT !.pc = "stepping", !.step = step, !.attempt = 1]
        <4> HIDE DEF y
        <4>3. \A step \in DOMAIN x.flow.steps : RunShape(y(step)) /\ RunSound(y(step))
          BY <1>0, <2>5, AdvancedRunSound DEF y
        <4>4. RunShape(y(x.step + 1)) /\ RunSound(y(x.step + 1))
          BY <4>1, <4>3
        <4>5. RunShape(Advanced(r)) /\ RunSound(Advanced(r))
          BY <4>2, <4>4 DEF y
        <4> QED BY <4>5, ConfirmedRunSound
      <3> QED BY <3>1, <3>2
    <2>6. CASE SendStep(r)
      BY <2>6, <2>4, RunEnds DEF SendStep, Fails, OrchShape, Inside
    <2>7. CASE TakeAnswer(r)
      BY <2>7, <2>4, <2>5, RunEnds, RunChanged DEF TakeAnswer, Fails, OrchShape, Inside
    <2>8. CASE Verify(r)
      <3>1. x.pc \in Inside
        BY <2>8 DEF Verify, Inside
      <3>2. CASE runs' = [runs EXCEPT ![r] = [Advanced(r) EXCEPT !.confirmed = @ \cup {runs[r].step}]]
        BY <3>1, <3>2, <2>5, RunChanged DEF OrchShape
      <3>3. CASE runs' = [runs EXCEPT ![r].pc = "stepping", ![r].attempt = @ + 1]
        <4> DEFINE y == [x EXCEPT !.pc = "stepping", !.attempt = x.attempt + 1]
        <4>1. RunShape(y) /\ RunSound(y)
          BY <1>0, <3>1, RetriedRunSound
        <4>2. runs' = [runs EXCEPT ![r] = y]
          BY <1>0, <3>3
        <4> QED BY <4>1, <4>2, RunChanged DEF OrchShape
      <3>4. CASE Fails(r)
        BY <3>4, RunEnds DEF Fails, OrchShape
      <3> QED BY <2>8, <3>2, <3>3, <3>4 DEF Verify
    <2>9. CASE StopRun(r)
      BY <2>9, RunEnds DEF StopRun, Fails, OrchShape
    <2> QED BY <2>1, <2>2, <2>3, <2>6, <2>7, <2>8, <2>9 DEF Run
  <1>3. CmdsSound'
    <2>1. CASE SendStep(r) /\ ~UNCHANGED cmds
      <3> DEFINE c == Current(r)
                 y == NewCmd(SourceOf(r), Append(x.path, x.seq))
      <3>1. c \in Requests /\ cmds' = [cmds EXCEPT ![c] = y]
        BY <2>1 DEF SendStep
      <3>2. x.path \in Seq(Names) /\ x.seq \in Names
        BY <1>0, <2>1 DEF SendStep, RunShape, IdleRun
      <3>3. Append(x.path, x.seq) \in Seq(Names)
        BY <3>2
      <3>4. CmdShape(y)
        BY <3>3 DEF CmdShape, NewCmd, CmdFields
      <3> QED BY <3>1, <3>4, CmdChanged DEF OrchShape
    <2>2. CASE UNCHANGED cmds
      BY <2>2 DEF OrchShape, CmdsSound
    <2> QED BY <2>1, <2>2
       DEF Run, MatchTrigger, TakeWorkflow, TakeLock, SendStep, TakeAnswer, Verify, StopRun, busVars
  <1> QED BY <1>1, <1>2, <1>3 DEF OrchShape

\* A command that ends, or goes on to a connection or to its target.
LEMMA CmdShapeStep ==
    ASSUME OrchShape, NEW c \in Requests, Serve(c) \/ StopCommand(c) \/ DeviceAnswers(c)
    PROVE  OrchShape'
  <1> DEFINE x == cmds[c]
  <1>0. CmdShape(x) /\ DOMAIN cmds = Requests
    BY DEF OrchShape, CmdsSound
  <1>1. UNCHANGED <<configVars, runs, routes>>
    BY DEF Serve, RouteCommand, CallTarget, TargetReturns, CallExpires, StopCommand, DeviceAnswers
  <1>2. TablesSound' /\ RunsSound'
    BY <1>1 DEF OrchShape, TablesSound, LeftSound, IsTable, RunsSound, RunShape, RunSound, configVars
  <1>3. ASSUME NEW result, x.pc # "free", Finish(c, result)
        PROVE  CmdsSound'
    <2> DEFINE y == [x EXCEPT !.pc = "done", !.result = result]
    <2>1. CmdShape(y)
      BY <1>0, <1>3 DEF CmdShape, FreeCmd, CmdFields
    <2>2. cmds' = [cmds EXCEPT ![c] = y]
      BY <1>0, <1>3 DEF Finish
    <2> QED BY <2>1, <2>2, CmdChanged DEF OrchShape
  <1>4. ASSUME NEW k \in Conns, NEW ticket, x.pc = "sent",
               cmds' = [cmds EXCEPT ![c].pc = "queued", ![c].conn = k, ![c].ticket = ticket]
        PROVE  CmdsSound'
    <2> DEFINE y == [x EXCEPT !.pc = "queued", !.conn = k, !.ticket = ticket]
    <2>1. CmdShape(y)
      BY <1>0, <1>4 DEF CmdShape, FreeCmd, CmdFields
    <2>2. cmds' = [cmds EXCEPT ![c] = y]
      BY <1>0, <1>4
    <2> QED BY <2>1, <2>2, CmdChanged DEF OrchShape
  <1>5. CASE RouteCommand(c)
    <2>1. CASE x.src \notin DOMAIN routes
      <3>1. x.pc # "free" /\ Finish(c, "FAILED")
        BY <1>5, <2>1 DEF RouteCommand
      <3> QED BY <1>2, <1>3, <3>1 DEF OrchShape
    <2>2. CASE x.src \in DOMAIN routes
      <3>1. routes[x.src] \in Conns
        BY <2>2 DEF OrchShape, TablesSound
      <3> DEFINE k == routes[x.src]
      <3>2. /\ x.pc = "sent"
            /\ cmds' = [cmds EXCEPT ![c].pc = "queued", ![c].conn = k, ![c].ticket = lanes[k].next]
        BY <1>5, <2>2 DEF RouteCommand
      <3> QED BY <1>2, <1>4, <3>1, <3>2 DEF OrchShape
    <2> QED BY <2>1, <2>2
  <1>6. CASE CallTarget(c)
    <2> DEFINE y(target) == [x EXCEPT !.pc = "calling", !.target = target]
    <2>1. \A target : CmdShape(y(target))
      BY <1>0, <1>6 DEF CallTarget, CmdShape, FreeCmd, CmdFields
    <2>2. PICK target : cmds' = [cmds EXCEPT ![c] = y(target)]
      BY <1>0, <1>6 DEF CallTarget
    <2> HIDE DEF y
    <2> QED BY <1>2, <2>1, <2>2, CmdChanged DEF OrchShape
  <1>7. CASE DeviceAnswers(c)
    <2> DEFINE y(target) == [x EXCEPT !.target = target]
    <2>1. \A target : CmdShape(y(target))
      BY <1>0, <1>7 DEF DeviceAnswers, CmdShape, FreeCmd, CmdFields
    <2>2. PICK target : cmds' = [cmds EXCEPT ![c] = y(target)]
      BY <1>0, <1>7 DEF DeviceAnswers
    <2> HIDE DEF y
    <2> QED BY <1>2, <2>1, <2>2, CmdChanged DEF OrchShape
  <1>8. TargetReturns(c) \/ CallExpires(c) \/ StopCommand(c) => CmdsSound'
    BY <1>3 DEF TargetReturns, CallExpires, StopCommand
  <1> QED BY <1>2, <1>5, <1>6, <1>7, <1>8 DEF Serve, OrchShape

LEMMA ShapeInit == OrchInit => OrchShape
  <1> SUFFICES ASSUME OrchInit PROVE OrchShape
    OBVIOUS
  <1>1. PICK w \in Worlds : saved = w.stored /\ routes = w.routes /\ left = w.left
    BY DEF OrchInit
  <1>2. IsTable(saved) /\ LeftSound /\ \A p \in DOMAIN routes : routes[p] \in Conns
    BY <1>1, OrchestratorAssumption DEF LeftSound
  <1>3. IsTable(sequences) /\ \A s \in Names : sequences[s] = NoFlow
    BY DEF OrchInit, IsTable
  <1>4. TablesSound
    BY <1>2, <1>3 DEF OrchInit, TablesSound
  <1>5. RunsSound /\ CmdsSound
    BY DEF OrchInit, RunsSound, CmdsSound, RunShape, RunSound, CmdShape, IdleRun, PastTake, Inside
  <1> QED BY <1>4, <1>5 DEF OrchShape

LEMMA ShapeStep ==
    ASSUME OrchShape, [OrchNext]_orchVars
    PROVE  OrchShape'
  <1>1. ASSUME NEW r \in Manual, NEW s \in Names, NEW valued \in BOOLEAN, CallSequence(r, s, valued)
        PROVE  OrchShape'
    <2>1. r \in Requests /\ <<>> \in Seq(Names)
      BY OrchestratorAssumption
    <2>2. RunsSound'
      BY <1>1, <2>1, NewRunSound, RunChanged DEF CallSequence, OrchShape
    <2>3. TablesSound' /\ CmdsSound'
      BY <1>1 DEF CallSequence, OrchShape, TablesSound, LeftSound, IsTable, CmdsSound, CmdShape,
                  configVars, busVars
    <2> QED BY <2>2, <2>3 DEF OrchShape
  <1>2. ASSUME NEW c \in Clients, SendCommand(c)
        PROVE  OrchShape'
    <2>1. c \in Requests /\ CmdShape(NewCmd(Outlet[c], <<>>))
      BY OrchestratorAssumption DEF CmdShape, NewCmd, CmdFields
    <2>2. CmdsSound'
      BY <1>2, <2>1, CmdChanged DEF SendCommand, OrchShape
    <2>3. TablesSound' /\ RunsSound'
      BY <1>2 DEF SendCommand, OrchShape, TablesSound, LeftSound, IsTable, RunsSound, RunShape, RunSound,
                  configVars
    <2> QED BY <2>2, <2>3 DEF OrchShape
  <1>3. CASE UNCHANGED orchVars
    BY <1>3 DEF OrchShape, TablesSound, LeftSound, IsTable, RunsSound, RunShape, RunSound, CmdsSound, CmdShape,
                orchVars, configVars, busVars
  <1> QED BY <1>1, <1>2, <1>3, EditsShape, RunShapeStep, CmdShapeStep DEF OrchNext

\* Tables, runs and commands keep their form in every behaviour.
THEOREM ShapeInvariant == OrchSpec => []OrchShape
  BY ShapeInit, ShapeStep, PTL DEF OrchSpec

\* A stored or served workflow is always valid and under its own name; a run
\* inside its workflow is at a step of it and holds a mutex that was made.
THEOREM OrchestratorTypeCorrect == OrchSpec => []OrchTypeOK
  <1>1. OrchShape => OrchTypeOK
    BY DEF OrchShape, OrchTypeOK, TablesSound, LeftSound, RunsSound, CmdsSound, RunShape, RunSound, CmdShape,
           Holds, IdleRun, FreeCmd, PastTake, Active, Inside
  <1> QED BY <1>1, ShapeInvariant, PTL

-----------------------------------------------------------------------------
\* How a step changes the runs and the commands.

\* A run that was called keeps its sequence.
RunsKept ==
    \A q \in Requests : DOMAIN runs[q] = RunFields =>
        DOMAIN runs'[q] = RunFields /\ runs'[q].seq = runs[q].seq

\* Where the path of an active run, or of a command, comes from.
RunPathFrom ==
    \A r \in Requests : runs'[r].pc \in Active =>
        \/ runs[r].pc \in Active /\ runs'[r].path = runs[r].path
        \/ r \in Manual
        \/ cmds[r].pc # "free" /\ runs'[r].path = cmds[r].path

CmdPathFrom ==
    \A c \in Requests : cmds'[c].pc # "free" =>
        \/ cmds[c].pc # "free" /\ cmds'[c].path = cmds[c].path
        \/ c \in Clients
        \/ \E r \in Requests : /\ c = RequestOf(r, runs[r].step, runs[r].attempt)
                               /\ runs[r].pc \in Active
                               /\ cmds'[c].path = Append(runs[r].path, runs[r].seq)

\* Where a mutex comes from.
LockFrom ==
    \A r \in Requests :
        /\ runs'[r].pc \in PastTake =>
             \/ runs[r].pc \in PastTake /\ runs'[r].lock = runs[r].lock
             \/ /\ runs[r].pc = "called" /\ DOMAIN runs[r] = RunFields /\ runs[r].seq \in Names
                /\ runs'[r].lock = locks[runs[r].seq]
        /\ runs'[r].pc \in Inside => runs[r].pc \in Inside \/ TakeLock(r)

StepFacts == RunsKept /\ RunPathFrom /\ CmdPathFrom /\ LockFrom

LEMMA NoRunsChange ==
    ASSUME UNCHANGED runs
    PROVE  RunsKept /\ RunPathFrom /\ LockFrom
  BY DEF RunsKept, RunPathFrom, LockFrom

\* A run that was called goes on as y.
LEMMA RunGoesOn ==
    ASSUME NEW r \in Requests, DOMAIN runs = Requests, NEW y, runs' = [runs EXCEPT ![r] = y],
           DOMAIN runs[r] = RunFields, DOMAIN y = RunFields, runs[r].pc \in Active,
           y.seq = runs[r].seq, y.path = runs[r].path,
           y.pc \in PastTake =>
             \/ runs[r].pc \in PastTake /\ y.lock = runs[r].lock
             \/ runs[r].pc = "called" /\ runs[r].seq \in Names /\ y.lock = locks[runs[r].seq],
           y.pc \in Inside => runs[r].pc \in Inside \/ TakeLock(r)
    PROVE  RunsKept /\ RunPathFrom /\ LockFrom
  <1>1. RunsKept /\ RunPathFrom
    BY DEF RunsKept, RunPathFrom
  <1>2. LockFrom
    BY DEF LockFrom
  <1> QED BY <1>1, <1>2

LEMMA RunStepFacts ==
    ASSUME OrchShape, NEW r \in Requests, Run(r) \/ StopRun(r)
    PROVE  StepFacts
  <1>0. RunShape(runs[r]) /\ CmdShape(cmds[r]) /\ DOMAIN runs = Requests /\ DOMAIN cmds = Requests
    BY DEF OrchShape, RunsSound, CmdsSound
  <1> DEFINE x == runs[r]
  <1>1. CASE MatchTrigger(r)
    <2>1. x = IdleRun /\ cmds[r].pc # "free" /\ UNCHANGED cmds
      BY <1>0, <1>1 DEF MatchTrigger, RunShape, CmdShape, FreeCmd, Active, PastTake, busVars
    <2>2. PICK y : /\ runs' = [runs EXCEPT ![r] = y]
                   /\ y.pc \notin PastTake
                   /\ y.pc \in Active => y.path = cmds[r].path
      BY <1>0, <1>1, <2>1 DEF MatchTrigger, Fails, Ends, IdleRun, NewRun, Active, PastTake
    <2>3. RunsKept
      BY <1>0, <2>1, <2>2 DEF RunsKept, IdleRun, RunFields
    <2>4. RunPathFrom
      BY <1>0, <2>1, <2>2 DEF RunPathFrom
    <2>5. LockFrom
      BY <1>0, <2>1, <2>2 DEF LockFrom, PastTake, Inside
    <2>6. CmdPathFrom
      BY <2>1 DEF CmdPathFrom
    <2> QED BY <2>3, <2>4, <2>5, <2>6 DEF StepFacts
  <1>2. ASSUME NEW y, runs' = [runs EXCEPT ![r] = y], DOMAIN x = RunFields, DOMAIN y = RunFields,
               x.pc \in Active, y.seq = x.seq, y.path = x.path,
               y.pc \in PastTake => \/ x.pc \in PastTake /\ y.lock = x.lock
                                    \/ x.pc = "called" /\ x.seq \in Names /\ y.lock = locks[x.seq],
               y.pc \in Inside => x.pc \in Inside \/ TakeLock(r),
               UNCHANGED cmds
        PROVE  StepFacts
    <2>1. CmdPathFrom
      BY <1>2 DEF CmdPathFrom
    <2> QED BY <1>0, <1>2, <2>1, RunGoesOn DEF StepFacts
  <1>3. CASE TakeWorkflow(r)
    <2>1. x.pc = "called" /\ DOMAIN x = RunFields /\ x.seq \in Names /\ UNCHANGED cmds
      BY <1>0, <1>3 DEF TakeWorkflow, RunShape, IdleRun, busVars
    <2>2. PICK y : /\ runs' = [runs EXCEPT ![r] = y] /\ DOMAIN y = RunFields
                   /\ y.seq = x.seq /\ y.path = x.path /\ y.pc \in {"done", "locking"}
                   /\ y.pc = "locking" => y.lock = locks[x.seq]
      BY <1>0, <1>3, <2>1 DEF TakeWorkflow, Fails, Ends, RunFields
    <2> QED BY <1>2, <2>1, <2>2 DEF Active, PastTake, Inside
  <1>4. CASE TakeLock(r)
    <2>1. x.pc = "locking" /\ DOMAIN x = RunFields /\ UNCHANGED cmds
      BY <1>0, <1>4 DEF TakeLock, RunShape, IdleRun, busVars
    <2> DEFINE y == [x EXCEPT !.pc = "stepping", !.step = 1, !.attempt = 1]
    <2>2. DOMAIN y = RunFields /\ y.seq = x.seq /\ y.path = x.path /\ y.lock = x.lock
      BY <2>1 DEF RunFields
    <2>3. runs' = [runs EXCEPT ![r] = y]
      BY <1>0, <1>4 DEF TakeLock
    <2>4. x.pc \in Active /\ x.pc \in PastTake
      BY <2>1 DEF Active, PastTake
    <2> HIDE DEF y
    <2>5. RunsKept /\ RunPathFrom
      BY <1>0, <2>1, <2>2, <2>3, <2>4 DEF RunsKept, RunPathFrom
    <2>6. LockFrom
      BY <1>0, <1>4, <2>2, <2>3, <2>4 DEF LockFrom
    <2>7. CmdPathFrom
      BY <2>1 DEF CmdPathFrom
    <2> QED BY <2>5, <2>6, <2>7 DEF StepFacts
  <1>5. ASSUME x.pc \in Inside
        PROVE  /\ DOMAIN x = RunFields
               /\ x.pc \in Active /\ x.pc \in PastTake
    BY <1>0, <1>5 DEF RunShape, IdleRun, Active, PastTake, Inside
  <1>6. ASSUME x.pc \in Active, UNCHANGED cmds, Fails(r)
        PROVE  StepFacts
    <2> DEFINE y == [x EXCEPT !.pc = "done", !.result = "FAILED"]
    <2>1. DOMAIN x = RunFields
      BY <1>0, <1>6 DEF RunShape, IdleRun, Active, PastTake
    <2>2. /\ DOMAIN y = RunFields /\ y.seq = x.seq /\ y.path = x.path
          /\ y.pc \notin PastTake /\ y.pc \notin Inside
      BY <2>1 DEF RunFields, PastTake, Inside
    <2>3. runs' = [runs EXCEPT ![r] = y]
      BY <1>0, <1>6 DEF Fails, Ends
    <2> HIDE DEF y
    <2> QED BY <1>2, <1>6, <2>1, <2>2, <2>3
  <1>7. ASSUME x.pc \in Inside, UNCHANGED cmds,
                NEW y, runs' = [runs EXCEPT ![r] = y], DOMAIN y = RunFields,
                y.seq = x.seq, y.path = x.path, y.lock = x.lock
         PROVE  StepFacts
    <2>1. x.pc \in Active /\ x.pc \in PastTake /\ DOMAIN x = RunFields
      BY <1>5, <1>7
    <2>2. RunsKept /\ RunPathFrom
      BY <1>0, <1>7, <2>1 DEF RunsKept, RunPathFrom
    <2>3. LockFrom
      BY <1>0, <1>7, <2>1 DEF LockFrom
    <2>4. CmdPathFrom
      BY <1>7 DEF CmdPathFrom
    <2> QED BY <2>2, <2>3, <2>4 DEF StepFacts
  <1>8. ASSUME x.pc \in Inside, UNCHANGED cmds, NEW pc, Goes(r, pc)
         PROVE  StepFacts
    <2> DEFINE y == [x EXCEPT !.pc = pc]
    <2>1. DOMAIN y = RunFields /\ y.seq = x.seq /\ y.path = x.path /\ y.lock = x.lock
      BY <1>5, <1>8 DEF RunFields
    <2>2. runs' = [runs EXCEPT ![r] = y]
      BY <1>0, <1>8 DEF Goes
    <2> HIDE DEF y
    <2> QED BY <1>7, <1>8, <2>1, <2>2
  <1>9. CASE SendStep(r)
    <2>1. x.pc \in Inside
      BY <1>9 DEF SendStep, Inside
    <2>2. CASE UNCHANGED cmds
      BY <1>5, <1>6, <1>9, <1>8, <2>1, <2>2 DEF SendStep
    <2>3. CASE Goes(r, "calling") /\ ~UNCHANGED cmds
      <3>1. DOMAIN [x EXCEPT !.pc = "calling"] = RunFields
        BY <1>5, <2>1
      <3>2. RunsKept /\ RunPathFrom /\ LockFrom
        BY <1>0, <1>5, <2>1, <2>3, <3>1, RunGoesOn DEF Goes, RunFields
      <3>3. CmdPathFrom
        BY <1>0, <1>5, <1>9, <2>1, <2>3 DEF SendStep, CmdPathFrom, NewCmd, Current
      <3> QED BY <3>2, <3>3 DEF StepFacts
    <2> QED BY <1>9, <2>2, <2>3 DEF SendStep
  <1>10. CASE TakeAnswer(r) \/ Verify(r)
    <2>1. x.pc \in Inside /\ UNCHANGED cmds
      BY <1>10 DEF TakeAnswer, Verify, Inside, busVars
    <2>2. CASE Fails(r)
      BY <1>5, <1>6, <2>1, <2>2
    <2>3. CASE Goes(r, "verifying")
      BY <1>8, <2>1, <2>3
    <2>4. DOMAIN x = RunFields
      BY <1>5, <2>1
    <2>5. /\ DOMAIN Advanced(r) = RunFields
          /\ Advanced(r).seq = x.seq /\ Advanced(r).path = x.path /\ Advanced(r).lock = x.lock
      BY <2>4 DEF Advanced, RunFields
    <2>6. CASE runs' = [runs EXCEPT ![r] = Advanced(r)]
      BY <1>7, <2>1, <2>5, <2>6
    <2>7. CASE runs' = [runs EXCEPT ![r] = [Advanced(r) EXCEPT !.confirmed = @ \cup {runs[r].step}]]
      <3> DEFINE y == [Advanced(r) EXCEPT !.confirmed = @ \cup {runs[r].step}]
      <3>1. DOMAIN y = RunFields /\ y.seq = x.seq /\ y.path = x.path /\ y.lock = x.lock
        BY <2>5 DEF RunFields
      <3>2. runs' = [runs EXCEPT ![r] = y]
        BY <2>7
      <3> HIDE DEF y
      <3> QED BY <1>7, <2>1, <3>1, <3>2
    <2>8. CASE runs' = [runs EXCEPT ![r].pc = "stepping", ![r].attempt = @ + 1]
      <3> DEFINE y == [x EXCEPT !.pc = "stepping", !.attempt = @ + 1]
      <3>1. DOMAIN y = RunFields /\ y.seq = x.seq /\ y.path = x.path /\ y.lock = x.lock
        BY <2>4 DEF RunFields
      <3>2. runs' = [runs EXCEPT ![r] = y]
        BY <1>0, <2>8
      <3> HIDE DEF y
      <3> QED BY <1>7, <2>1, <3>1, <3>2
    <2> QED BY <1>10, <2>2, <2>3, <2>6, <2>7, <2>8 DEF TakeAnswer, Verify
  <1>11. CASE StopRun(r)
    BY <1>6, <1>11 DEF StopRun, Active, PastTake, Inside, busVars
  <1> QED BY <1>1, <1>3, <1>4, <1>9, <1>10, <1>11 DEF Run

LEMMA CmdStepFacts ==
    ASSUME OrchShape, NEW c \in Requests, Serve(c) \/ StopCommand(c) \/ DeviceAnswers(c)
    PROVE  StepFacts
  <1>0. CmdShape(cmds[c]) /\ DOMAIN cmds = Requests
    BY DEF OrchShape, CmdsSound
  <1>1. UNCHANGED runs
    BY DEF Serve, RouteCommand, CallTarget, TargetReturns, CallExpires, StopCommand, DeviceAnswers
  <1>2. cmds[c].pc # "free"
    BY <1>0 DEF CmdShape, FreeCmd, Serve, RouteCommand, CallTarget, TargetReturns, CallExpires, StopCommand,
                DeviceAnswers
  <1>3. CmdPathFrom
    <2>1. cmds'[c].path = cmds[c].path /\ \A d \in Requests \ {c} : cmds'[d] = cmds[d]
      <3>1. DOMAIN cmds[c] = CmdFields
        BY <1>0, <1>2 DEF CmdShape, FreeCmd
      <3>2. ASSUME NEW result, Finish(c, result)
            PROVE  cmds'[c].path = cmds[c].path /\ \A d \in Requests \ {c} : cmds'[d] = cmds[d]
        BY <1>0, <3>1, <3>2 DEF Finish, CmdFields
      <3>3. CASE RouteCommand(c)
        BY <1>0, <3>1, <3>2, <3>3 DEF RouteCommand, CmdFields
      <3>4. CASE CallTarget(c) \/ DeviceAnswers(c)
        BY <1>0, <3>1, <3>4 DEF CallTarget, DeviceAnswers, CmdFields
      <3> QED BY <3>2, <3>3, <3>4 DEF Serve, TargetReturns, CallExpires, StopCommand
    <2> QED BY <1>2, <2>1 DEF CmdPathFrom
  <1> QED BY <1>1, <1>3, NoRunsChange DEF StepFacts

LEMMA NextFacts ==
    ASSUME OrchShape, [OrchNext]_orchVars
    PROVE  StepFacts
  <1>1. ASSUME UNCHANGED <<runs, cmds>> PROVE StepFacts
    BY <1>1, NoRunsChange DEF StepFacts, CmdPathFrom
  <1>2. EditSequences \/ UNCHANGED orchVars => UNCHANGED <<runs, cmds>>
    BY DEF EditSequences, UpsertSequence, DeleteSequence, ReadStored, InstallStored, orchVars, busVars
  <1>3. ASSUME NEW r \in Manual, NEW s \in Names, NEW valued \in BOOLEAN, CallSequence(r, s, valued)
        PROVE  StepFacts
    <2>1. r \in Requests /\ DOMAIN runs = Requests /\ RunShape(runs[r]) /\ UNCHANGED cmds
      BY <1>3, OrchestratorAssumption DEF OrchShape, RunsSound, CallSequence, busVars
    <2>2. runs[r] = IdleRun /\ runs' = [runs EXCEPT ![r] = NewRun(s, valued, <<>>)]
      BY <1>3, <2>1 DEF CallSequence, RunShape, Active, PastTake
    <2> QED BY <1>3, <2>1, <2>2
        DEF StepFacts, RunsKept, RunPathFrom, CmdPathFrom, LockFrom, IdleRun, NewRun, RunFields, PastTake, Inside
  <1>4. ASSUME NEW c \in Clients, SendCommand(c)
        PROVE  StepFacts
    <2>1. UNCHANGED runs /\ CmdPathFrom
      BY <1>4 DEF SendCommand, OrchShape, CmdsSound, CmdPathFrom
    <2> QED BY <2>1, NoRunsChange DEF StepFacts
  <1> QED BY <1>1, <1>2, <1>3, <1>4, RunStepFacts, CmdStepFacts DEF OrchNext

-----------------------------------------------------------------------------
\* The paths of requests.

LEMMA NobodyAboveRoots ==
    ASSUME NEW q \in Requests, NEW r \in Clients \cup Manual
    PROVE  ~Above(q, r)
  <1>1. r \in Requests /\ Len(r) = 1
    BY OrchestratorAssumption, RequestIds
  <1>2. Len(q) \in Nat /\ Len(q) > 0
    BY RequestIds
  <1> QED BY <1>1, <1>2 DEF Above

LEMMA InPathStays ==
    ASSUME RunsKept, NEW q \in Requests, NEW path, InPath(q, path)
    PROVE  DOMAIN runs'[q] = RunFields /\ \E i \in DOMAIN path : path[i] = runs'[q].seq
  BY DEF RunsKept, InPath

LEMMA PathsStep ==
    ASSUME OrchShape, OrchShape', PathsTold, [OrchNext]_orchVars
    PROVE  PathsTold'
  <1>0. StepFacts
    BY NextFacts
  <1> SUFFICES ASSUME NEW q \in Requests, NEW r \in Requests, Above(q, r)
               PROVE  /\ cmds'[r].pc # "free" => InPath(q, cmds[r].path)'
                      /\ runs'[r].pc \in Active => InPath(q, runs[r].path)'
    BY DEF PathsTold, Above
  <1>1. r \notin Clients \cup Manual
    BY NobodyAboveRoots
  <1>2. ASSUME runs'[r].pc \in Active PROVE InPath(q, runs[r].path)'
    <2>1. \E path : InPath(q, path) /\ runs'[r].path = path
      BY <1>0, <1>1, <1>2 DEF StepFacts, RunPathFrom, PathsTold
    <2> QED BY <1>0, <2>1, InPathStays DEF StepFacts, InPath
  <1>3. ASSUME cmds'[r].pc # "free" PROVE InPath(q, cmds[r].path)'
    <2>1. CASE cmds[r].pc # "free" /\ cmds'[r].path = cmds[r].path
      <3>1. InPath(q, cmds[r].path)
        BY <2>1 DEF PathsTold
      <3> QED BY <1>0, <2>1, <3>1, InPathStays DEF StepFacts, InPath
    <2>2. ASSUME NEW p \in Requests, r = RequestOf(p, runs[p].step, runs[p].attempt),
                 runs[p].pc \in Active, cmds'[r].path = Append(runs[p].path, runs[p].seq)
          PROVE  InPath(q, cmds[r].path)'
      <3>1. DOMAIN runs[p] = RunFields /\ runs[p].path \in Seq(Names) /\ runs[p].seq \in Names
        BY <2>2 DEF OrchShape, RunsSound, RunShape, IdleRun, Active, PastTake
      <3>2. /\ DOMAIN cmds'[r].path = 1..(Len(runs[p].path) + 1)
            /\ cmds'[r].path[Len(runs[p].path) + 1] = runs[p].seq
            /\ \A i \in DOMAIN runs[p].path : i \in DOMAIN cmds'[r].path /\ cmds'[r].path[i] = runs[p].path[i]
            /\ Len(runs[p].path) \in Nat
        BY <2>2, <3>1
      <3>3. q = p \/ Above(q, p)
        BY <2>2, AboveStep
      <3>4. InPath(q, cmds'[r].path)
        <4>1. CASE q = p
          BY <3>1, <3>2, <4>1 DEF InPath
        <4>2. CASE Above(q, p)
          BY <2>2, <3>2, <4>2 DEF PathsTold, InPath
        <4> QED BY <3>3, <4>1, <4>2
      <3> QED BY <1>0, <3>4, InPathStays DEF StepFacts, InPath
    <2> QED BY <1>0, <1>1, <1>3, <2>1, <2>2 DEF StepFacts, CmdPathFrom
  <1> QED BY <1>2, <1>3

\* Whatever sequences there are and however their steps lead to each other, a
\* run never waits for, or holds, the lock of the sequence of one of its callers.
THEOREM NoRunAwaitsItsCaller == OrchSpec => []NeverAwaitsItsCaller
  <1>1. OrchInit => PathsTold
    BY DEF OrchInit, PathsTold, IdleRun, FreeCmd, Active, PastTake
  <1>2. OrchShape /\ OrchShape' /\ PathsTold /\ [OrchNext]_orchVars => PathsTold'
    BY PathsStep
  <1>3. OrchShape /\ PathsTold => NeverAwaitsItsCaller
    <2> SUFFICES ASSUME OrchShape, PathsTold, NEW q \in Requests, NEW r \in Requests, Holds(q),
                        IsStrictPrefix(q, r), runs[r].pc \in PastTake
                 PROVE  runs[q].seq # runs[r].seq
      BY DEF NeverAwaitsItsCaller, PastTake, Inside
    <2>1. InPath(q, runs[r].path)
      BY StrictPrefixIsAbove DEF PathsTold, Active
    <2>2. \A i \in DOMAIN runs[r].path : runs[r].path[i] # runs[r].seq
      BY DEF OrchShape, RunsSound, RunSound
    <2> QED BY <2>1, <2>2 DEF InPath
  <1> QED BY <1>1, <1>2, <1>3, ShapeInvariant, PTL DEF OrchSpec

-----------------------------------------------------------------------------
\* The mutex of a sequence.

LEMMA LocksChange ==
    ASSUME [OrchNext]_orchVars
    PROVE  UNCHANGED <<locks, load>> \/ EditSequences
  <1>1. ASSUME NEW r \in Requests, Run(r) \/ StopRun(r) PROVE UNCHANGED <<locks, load>>
    BY <1>1 DEF Run, MatchTrigger, TakeWorkflow, TakeLock, SendStep, TakeAnswer, Verify, StopRun, configVars
  <1>2. ASSUME NEW r \in Requests, Serve(r) \/ StopCommand(r) \/ DeviceAnswers(r) PROVE UNCHANGED <<locks, load>>
    BY <1>2 DEF Serve, RouteCommand, CallTarget, TargetReturns, CallExpires, StopCommand, DeviceAnswers, configVars
  <1> QED BY <1>1, <1>2 DEF OrchNext, CallSequence, SendCommand, orchVars, configVars

\* What an edit, or the load, does to the mutexes: they are never taken back.
LEMMA MutexesMade ==
    ASSUME OrchShape, LocksSound, [OrchNext]_orchVars, NEW s \in Names
    PROVE  /\ locks[s] \in Nat /\ locks'[s] \in Nat /\ locks[s] <= locks'[s]
           /\ locks'[s] <= 1 + (IF load'.at = "done" THEN Installed(load'.table)[s] ELSE 0)
  <1>1. /\ locks \in [Names -> Nat] /\ load.at \in {"none", "read", "done"}
        /\ locks[s] <= 1 + (IF load.at = "done" THEN Installed(load.table)[s] ELSE 0)
        /\ Installed(load.table)[s] \in {0, 1}
    BY DEF OrchShape, TablesSound, LocksSound, Installed
  <1>2. CASE UNCHANGED <<locks, load>>
    BY <1>1, <1>2
  <1>3. ASSUME NEW w \in Workflows, UpsertSequence(w)
        PROVE  locks'[s] \in Nat /\ locks[s] <= locks'[s] /\ (locks'[s] = locks[s] \/ locks'[s] = 1)
               /\ load' = load
    BY <1>1, <1>3 DEF UpsertSequence
  <1>4. CASE InstallStored
    BY <1>1, <1>4 DEF InstallStored, OrchShape, TablesSound
  <1>5. CASE ReadStored
    <2>1. Installed(load'.table)[s] \in {0, 1} /\ locks' = locks
      BY <1>5 DEF ReadStored, Installed
    <2> QED BY <1>1, <1>5, <2>1 DEF ReadStored
  <1> QED BY <1>1, <1>2, <1>3, <1>4, <1>5, LocksChange DEF EditSequences, DeleteSequence

LEMMA LocksStep ==
    ASSUME OrchShape, LocksSound, [OrchNext]_orchVars
    PROVE  LocksSound'
  <1>0. StepFacts
    BY NextFacts
  <1>1. \A s \in Names : /\ locks[s] \in Nat /\ locks'[s] \in Nat /\ locks[s] <= locks'[s]
                         /\ locks'[s] <= 1 + (IF load'.at = "done" THEN Installed(load'.table)[s] ELSE 0)
    BY MutexesMade
  <1>2. ASSUME NEW r \in Requests, runs'[r].pc \in PastTake
        PROVE  runs'[r].lock <= locks'[runs'[r].seq]
    <2>1. CASE runs[r].pc \in PastTake /\ runs'[r].lock = runs[r].lock
      <3>1. /\ DOMAIN runs[r] = RunFields /\ runs[r].lock \in Nat /\ runs[r].seq \in Names
            /\ runs[r].lock <= locks[runs[r].seq]
        BY <2>1 DEF OrchShape, RunsSound, RunShape, RunSound, IdleRun, PastTake, LocksSound
      <3> QED BY <1>0, <1>1, <2>1, <3>1 DEF StepFacts, RunsKept
    <2>2. CASE /\ DOMAIN runs[r] = RunFields /\ runs[r].seq \in Names
               /\ runs'[r].lock = locks[runs[r].seq]
      BY <1>0, <1>1, <2>2 DEF StepFacts, RunsKept
    <2> QED BY <1>0, <1>2, <2>1, <2>2 DEF StepFacts, LockFrom
  <1>4. ASSUME NEW q \in Requests, NEW r \in Requests, runs'[q].pc \in Inside, runs'[r].pc \in Inside,
               runs'[q].seq = runs'[r].seq, runs'[q].lock = runs'[r].lock, q # r
        PROVE  FALSE
    <2>1. ASSUME NEW p \in Requests, runs'[p].pc \in Inside
          PROVE  /\ runs[p].pc \in PastTake /\ runs'[p].seq = runs[p].seq
                 /\ runs'[p].lock = runs[p].lock
      <3>1. runs[p].pc \in PastTake
        BY <1>0, <2>1 DEF StepFacts, LockFrom, TakeLock, PastTake, Inside
      <3>2. DOMAIN runs[p] = RunFields
        BY <3>1 DEF OrchShape, RunsSound, RunShape, IdleRun, PastTake
      <3>3. runs'[p].lock = runs[p].lock
        BY <1>0, <2>1, <3>1 DEF StepFacts, LockFrom, PastTake, Inside
      <3> QED BY <1>0, <3>1, <3>2, <3>3 DEF StepFacts, RunsKept
    <2>2. runs[q].seq = runs[r].seq /\ runs[q].lock = runs[r].lock
      BY <1>4, <2>1
    <2>3. ~(runs[q].pc \in Inside /\ runs[r].pc \in Inside)
      BY <1>4, <2>2 DEF LocksSound, Holds
    <2>4. ASSUME NEW p \in {q, r}, NEW o \in {q, r}, o # p, TakeLock(p)
          PROVE  FALSE
      <3>1. runs'[o] = runs[o]
        BY <2>4 DEF TakeLock, OrchShape, RunsSound
      <3>2. Holds(o)
        BY <1>4, <3>1 DEF Holds
      <3> QED BY <2>2, <2>4, <3>2 DEF TakeLock
    <2>5. TakeLock(q) \/ TakeLock(r)
      BY <1>0, <1>4, <2>3 DEF StepFacts, LockFrom
    <2> QED BY <1>4, <2>4, <2>5
  <1> QED BY <1>1, <1>2, <1>4 DEF LocksSound, Holds

\* With LoadsFirst, nothing begins before the load.
LEMMA LoadFirstStep ==
    ASSUME LoadsFirst, OrchShape, NothingBeforeLoad, [OrchNext]_orchVars
    PROVE  NothingBeforeLoad'
  <1>1. \A s \in Names : locks'[s] <= 1
    <2>1. CASE UNCHANGED locks
      BY <2>1 DEF NothingBeforeLoad
    <2>2. ASSUME NEW w \in Workflows, UpsertSequence(w)
          PROVE  \A s \in Names : locks'[s] <= 1
      BY <2>2 DEF UpsertSequence, NothingBeforeLoad, OrchShape, TablesSound
    <2>3. CASE InstallStored
      BY <2>3 DEF InstallStored, Installed, NothingBeforeLoad, OrchShape, TablesSound
    <2> QED BY <2>1, <2>2, <2>3, LocksChange DEF EditSequences, DeleteSequence, ReadStored
  <1>2. ASSUME load'.at # "done"
        PROVE  /\ \A s \in Names : locks'[s] = 0
               /\ \A r \in Requests : runs'[r].pc = "idle" /\ cmds'[r].pc = "free"
    <2>1. load.at # "done"
      BY <1>2, LocksChange
      DEF OrchShape, TablesSound, EditSequences, UpsertSequence, DeleteSequence, ReadStored, InstallStored
    <2>2. /\ ~Serving /\ \A s \in Names : locks[s] = 0
          /\ \A r \in Requests : runs[r].pc = "idle" /\ cmds[r].pc = "free"
          /\ \A r \in Requests : cmds[r].target = "none"
      BY <2>1 DEF NothingBeforeLoad, Serving, OrchShape, CmdsSound, CmdShape, FreeCmd
    <2>3. ASSUME NEW r \in Requests, Run(r) \/ StopRun(r) \/ Serve(r) \/ StopCommand(r) \/ DeviceAnswers(r)
          PROVE  FALSE
      BY <2>2, <2>3
      DEF Run, MatchTrigger, TakeWorkflow, TakeLock, SendStep, TakeAnswer, Verify, StopRun, Inside, Serve,
          RouteCommand, CallTarget, TargetReturns, CallExpires, StopCommand, DeviceAnswers
    <2>4. CASE ReadStored \/ UNCHANGED orchVars
      BY <2>2, <2>4 DEF ReadStored, orchVars, configVars, busVars
    <2>5. ~InstallStored
      BY <1>2 DEF InstallStored, OrchShape, TablesSound
    <2> QED BY <2>2, <2>3, <2>4, <2>5
        DEF OrchNext, EditSequences, UpsertSequence, DeleteSequence, Save, CallSequence, SendCommand
  <1> QED BY <1>1, <1>2 DEF NothingBeforeLoad

\* LocksSound holds in every behaviour, whether calls come before the load or
\* not.
LEMMA LocksInvariant == OrchSpec => []LocksSound
  <1>1. OrchInit => LocksSound
    BY DEF OrchInit, LocksSound, Holds, IdleRun, PastTake, Inside, Installed
  <1>2. OrchShape /\ LocksSound /\ [OrchNext]_orchVars => LocksSound'
    BY LocksStep
  <1> QED BY <1>1, <1>2, ShapeInvariant, PTL DEF OrchSpec

\* Whatever is deleted, saved anew or changed meanwhile, and also when calls are
\* served before the load has ended, two runs of a sequence are inside together
\* only if that sequence was saved before the load ended and the load gave it
\* another mutex; then each run has one of the two.
THEOREM SequencesAreExclusive == OrchSpec => []ExclusiveButForLoad
  <1>1. OrchShape /\ LocksSound => ExclusiveButForLoad
    <2> SUFFICES ASSUME OrchShape, LocksSound, NEW q \in Requests, NEW r \in Requests,
                        Holds(q), Holds(r), runs[q].seq = runs[r].seq, q # r
                 PROVE  LockReplaced(runs[q].seq) /\ runs[q].lock # runs[r].lock
      BY DEF ExclusiveButForLoad
    <2> DEFINE s == runs[q].seq
    <2>1. ASSUME NEW p \in {q, r}
          PROVE  /\ runs[p].seq = s /\ s \in Names
                 /\ runs[p].lock \in Nat /\ runs[p].lock > 0 /\ runs[p].lock <= locks[s]
      BY DEF Holds, OrchShape, RunsSound, RunShape, RunSound, IdleRun, PastTake, Inside, LocksSound
    <2>2. runs[q].lock # runs[r].lock
      BY DEF LocksSound
    <2>3. locks[s] \in Nat /\ locks[s] >= 2
      BY <2>1, <2>2 DEF OrchShape, TablesSound
    <2>4. locks[s] <= 1 + (IF load.at = "done" THEN Installed(load.table)[s] ELSE 0)
      BY <2>1 DEF LocksSound
    <2> HIDE DEF s
    <2>5. load.at = "done" /\ load.table[s] # NoFlow /\ locks[s] = 2
      BY <2>1, <2>3, <2>4 DEF Installed
    <2> QED BY <2>2, <2>5 DEF LockReplaced, s
  <1> QED BY <1>1, LocksInvariant, ShapeInvariant, PTL

\* Types and mutual exclusion, OrchSafe, hold in every behaviour unless the load
\* has replaced the mutex of a sequence.
THEOREM OrchestratorIsSafe == OrchSpec => [](OrchSafe \/ \E s \in Names : LockReplaced(s))
  <1>1. OrchShape /\ OrchTypeOK /\ ExclusiveButForLoad => OrchSafe \/ \E s \in Names : LockReplaced(s)
    <2> SUFFICES ASSUME OrchShape, OrchTypeOK, ExclusiveButForLoad, ~OneAtATime
                 PROVE  \E s \in Names : LockReplaced(s)
      BY DEF OrchSafe
    <2>1. PICK q \in Requests : Holds(q) /\ LockReplaced(runs[q].seq)
      BY DEF OneAtATime, ExclusiveButForLoad
    <2>2. runs[q].seq \in Names
      BY <2>1 DEF Holds, OrchShape, RunsSound, RunShape, IdleRun, Inside
    <2> QED BY <2>1, <2>2
  <1> QED BY <1>1, ShapeInvariant, OrchestratorTypeCorrect, SequencesAreExclusive, PTL

\* The load replaces no mutex when calls are served only after it, which is what
\* the run of ControlOrchestrator.cfg takes for granted.
LEMMA LoadFirstReplacesNone ==
    ASSUME LoadsFirst
    PROVE  OrchSpec => [](\A s \in Names : ~LockReplaced(s))
  <1>1. OrchInit => NothingBeforeLoad
    BY DEF OrchInit, NothingBeforeLoad, IdleRun, FreeCmd
  <1>2. OrchShape /\ NothingBeforeLoad /\ [OrchNext]_orchVars => NothingBeforeLoad'
    BY LoadFirstStep
  <1>3. NothingBeforeLoad => \A s \in Names : ~LockReplaced(s)
    BY DEF NothingBeforeLoad, LockReplaced
  <1> QED BY <1>1, <1>2, <1>3, ShapeInvariant, PTL DEF OrchSpec

-----------------------------------------------------------------------------
\* Preconditions.

\* What is known of outcomes: an accepted command was accepted by its target,
\* and a run that waits for an answer has sent a command.
OutcomesSound ==
    /\ \A c \in Requests :
         /\ cmds[c].pc \in {"free", "sent", "queued"} => cmds[c].target = "none"
         /\ cmds[c].pc = "done" /\ cmds[c].result = "ACCEPTED" => Answer(c) = "ACCEPTED"
    /\ \A r \in Requests :
         /\ runs[r].result = "ACCEPTED" => DOMAIN runs[r] = RunFields /\ runs[r].pc = "done"
         /\ DOMAIN runs[r] = RunFields => runs[r].step \in Nat
         /\ runs[r].pc = "called" => runs[r].step = 0
         /\ runs[r].pc = "calling" => Current(r) \in Requests

\* The steps before the current one are done, and a step is verified only when
\* its target took the command.
StepsDone ==
    \A r \in Requests : DOMAIN runs[r] = RunFields =>
        \A k : /\ k \in 1..(runs[r].step - 1) => Done(r, k)
               /\ runs[r].pc = "verifying" /\ k = runs[r].step => Taken(r, k)
               /\ runs[r].result = "ACCEPTED" /\ k \in DOMAIN runs[r].flow.steps => Done(r, k)

\* A step's command was sent by a run that had its workflow, after the steps
\* before it.
SentBy(c, r, k, a) ==
    /\ c = RequestOf(r, k, a)
    /\ DOMAIN runs[r] = RunFields /\ runs[r].pc # "called"
    /\ \A j \in 1..(k - 1) : Done(r, j)

SentAfter ==
    \A c \in Requests : cmds[c].pc # "free" =>
        c \in Clients \/ \E r \in Requests, k \in Nat : \E a : SentBy(c, r, k, a)

PrecondInv == OutcomesSound /\ StepsDone /\ SentAfter

\* An accepted answer stays accepted; a run keeps its workflow and what it has
\* confirmed.
AnswersKept == \A c \in Requests : Answer(c) = "ACCEPTED" => Answer(c)' = "ACCEPTED"
FlowsKept ==
    \A r \in Requests : DOMAIN runs[r] = RunFields /\ runs[r].pc # "called" =>
        /\ DOMAIN runs'[r] = RunFields /\ runs'[r].pc # "called"
        /\ runs'[r].flow = runs[r].flow /\ runs[r].confirmed \subseteq runs'[r].confirmed

LEMMA StepParts ==
    ASSUME NEW r \in Requests, NEW k, NEW a
    PROVE  LET c == RequestOf(r, k, a)
           IN Len(c) > 1 /\ Front(c) = r /\ Last(c)[1] = k
  <1> DEFINE Ids == UNION {Range(x) : x \in Requests}
             X == Ids \cup {<<k, a>>}
             c == RequestOf(r, k, a)
  <1>1. r \in Seq(X) /\ Len(r) \in Nat /\ Len(r) > 0
    <2>1. r \in Seq(Ids)
      BY RequestIds
    <2> HIDE DEF Ids
    <2>2. r \in Seq(X)
      BY <2>1, SeqMonotonic
    <2> QED BY <2>2, RequestIds
  <1>2. c \in Seq(X) /\ Len(c) = Len(r) + 1 /\ c[Len(c)] = <<k, a>> /\ \A i \in 1..Len(r) : c[i] = r[i]
    <2> HIDE DEF Ids
    <2>1. <<k, a>> \in X
      OBVIOUS
    <2>2. c = Append(r, <<k, a>>)
      BY DEF RequestOf
    <2> HIDE DEF X, c
    <2> QED BY <1>1, <2>1, <2>2, AppendProperties
  <1>3. Front(c) = r
    <2>1. Front(c) = SubSeq(c, 1, Len(r))
      BY <1>1, <1>2 DEF Front
    <2>2. /\ SubSeq(c, 1, Len(r)) \in Seq(X) /\ Len(SubSeq(c, 1, Len(r))) = Len(r)
          /\ \A i \in 1..Len(r) : SubSeq(c, 1, Len(r))[i] = r[i]
      BY <1>1, <1>2
    <2> QED BY <1>1, <2>1, <2>2, SeqEqual
  <1> QED BY <1>1, <1>2, <1>3 DEF Last

LEMMA TakenStays ==
    ASSUME AnswersKept, NEW r, NEW k, Taken(r, k)
    PROVE  Taken(r, k)'
  BY DEF AnswersKept, Taken

LEMMA DoneStays ==
    ASSUME AnswersKept, FlowsKept, NEW r \in Requests, DOMAIN runs[r] = RunFields, runs[r].pc # "called",
           NEW k, Done(r, k)
    PROVE  Done(r, k)'
  BY TakenStays DEF Done, FlowsKept

LEMMA SentStays ==
    ASSUME AnswersKept, FlowsKept, NEW c, NEW r \in Requests, NEW k, NEW a, SentBy(c, r, k, a)
    PROVE  SentBy(c, r, k, a)'
  BY DoneStays DEF SentBy, FlowsKept

\* A step that changes neither runs nor commands.
LEMMA NothingHappens ==
    ASSUME UNCHANGED <<runs, cmds>>
    PROVE  AnswersKept /\ FlowsKept
  BY DEF AnswersKept, FlowsKept, Answer

LEMMA CmdAnswersKept ==
    ASSUME OrchShape, OutcomesSound, NEW c \in Requests, Serve(c) \/ StopCommand(c) \/ DeviceAnswers(c)
    PROVE  /\ AnswersKept /\ FlowsKept /\ UNCHANGED runs
           /\ \A d \in Requests : cmds[d].pc # "free" <=> cmds'[d].pc # "free"
           /\ OutcomesSound'
  <1> DEFINE x == cmds[c]
  <1>0. DOMAIN cmds = Requests /\ CmdShape(x)
    BY DEF OrchShape, CmdsSound
  <1>1. UNCHANGED runs
    BY DEF Serve, RouteCommand, CallTarget, TargetReturns, CallExpires, StopCommand, DeviceAnswers
  <1>2. x.pc # "free"
    BY <1>0 DEF CmdShape, FreeCmd, Serve, RouteCommand, CallTarget, TargetReturns, CallExpires, StopCommand,
                DeviceAnswers
  <1>3. DOMAIN x = CmdFields
    BY <1>0, <1>2 DEF CmdShape, FreeCmd
  <1>4. PICK y : /\ cmds' = [cmds EXCEPT ![c] = y] /\ y.pc # "free"
                 /\ \/ y.target = x.target
                    \/ x.pc = "queued" /\ y.pc = "calling"
                    \/ x.target = "sent" /\ y.pc = x.pc /\ y.result = x.result
                 /\ y.pc \in {"sent", "queued"} => \/ x.pc \in {"sent", "queued"} /\ y.target = x.target
                                                   \/ x.target = "sent" /\ y.pc = x.pc
                 /\ y.pc = "done" /\ y.result = "ACCEPTED" =>
                      \/ x.pc = "done" /\ x.result = "ACCEPTED"
                      \/ y.target = x.target /\ Answer(c) = "ACCEPTED"
    <2>1. ASSUME NEW result, Finish(c, result), result # "ACCEPTED" \/ Answer(c) = "ACCEPTED"
          PROVE  \E y : /\ cmds' = [cmds EXCEPT ![c] = y] /\ y.pc = "done" /\ y.target = x.target
                        /\ y.result = "ACCEPTED" => Answer(c) = "ACCEPTED"
      <3> DEFINE y == [x EXCEPT !.pc = "done", !.result = result]
      <3>1. cmds' = [cmds EXCEPT ![c] = y] /\ y.pc = "done" /\ y.target = x.target /\ y.result = result
        BY <1>0, <1>3, <2>1 DEF Finish, CmdFields
      <3> HIDE DEF y
      <3> QED BY <2>1, <3>1
    <2>2. CASE TargetReturns(c)
      <3>1. \E result : Finish(c, result) /\ (result # "ACCEPTED" \/ Answer(c) = "ACCEPTED")
        BY <2>2 DEF TargetReturns
      <3> QED BY <2>1, <3>1
    <2>3. CASE CallExpires(c) \/ StopCommand(c)
      BY <2>1, <2>3 DEF CallExpires, StopCommand
    <2>4. CASE RouteCommand(c)
      <3>1. CASE Finish(c, "FAILED")
        BY <2>1, <3>1
      <3>2. CASE x.src \in DOMAIN routes
        <4> DEFINE k == routes[x.src]
                   y == [x EXCEPT !.pc = "queued", !.conn = k, !.ticket = lanes[k].next]
        <4>1. cmds' = [cmds EXCEPT ![c] = y] /\ x.pc = "sent"
          BY <1>0, <2>4, <3>2 DEF RouteCommand
        <4>2. y.pc = "queued" /\ y.target = x.target
          BY <1>3 DEF CmdFields
        <4> HIDE DEF y
        <4> QED BY <4>1, <4>2
      <3> QED BY <2>4, <3>1, <3>2 DEF RouteCommand
    <2>5. CASE CallTarget(c)
      <3> DEFINE y == [x EXCEPT !.pc = "calling", !.target = IF x.conn \in Panels THEN "run" ELSE "sent"]
      <3>1. cmds' = [cmds EXCEPT ![c] = y] /\ x.pc = "queued"
        BY <1>0, <2>5 DEF CallTarget
      <3>2. y.pc = "calling"
        BY <1>3 DEF CmdFields
      <3> HIDE DEF y
      <3> QED BY <3>1, <3>2
    <2>6. CASE DeviceAnswers(c)
      <3>1. PICK answer : cmds' = [cmds EXCEPT ![c].target = answer]
        BY <2>6 DEF DeviceAnswers
      <3> DEFINE y == [x EXCEPT !.target = answer]
      <3>2. cmds' = [cmds EXCEPT ![c] = y] /\ y.pc = x.pc /\ y.result = x.result /\ x.target = "sent"
        BY <1>0, <1>3, <2>6, <3>1 DEF DeviceAnswers, CmdFields
      <3> HIDE DEF y
      <3> QED BY <1>2, <3>2
    <2> QED BY <2>2, <2>3, <2>4, <2>5, <2>6 DEF Serve
  <1>5. AnswersKept
    <2> SUFFICES ASSUME Answer(c) = "ACCEPTED" PROVE Answer(c)' = "ACCEPTED"
      BY <1>0, <1>1, <1>4 DEF AnswersKept, Answer
    <2>1. x.target # "sent" /\ x.target # "none"
      BY DEF Answer
    <2>2. y.target = x.target
      BY <1>2, <1>4, <2>1 DEF OutcomesSound
    <2> QED BY <1>0, <1>1, <1>4, <2>2 DEF Answer
  <1>6. FlowsKept
    BY <1>1 DEF FlowsKept
  <1>7. OutcomesSound'
    <2>1. ASSUME NEW d \in Requests
          PROVE  /\ cmds'[d].pc \in {"free", "sent", "queued"} => cmds'[d].target = "none"
                 /\ cmds'[d].pc = "done" /\ cmds'[d].result = "ACCEPTED" => Answer(d)' = "ACCEPTED"
      <3>1. CASE d # c
        BY <1>0, <1>1, <1>4, <1>5, <3>1 DEF OutcomesSound, AnswersKept
      <3>2. CASE d = c
        BY <1>0, <1>2, <1>4, <1>5, <3>2 DEF OutcomesSound, AnswersKept
      <3> QED BY <3>1, <3>2
    <2> QED BY <1>1, <2>1 DEF OutcomesSound, Current
  <1>8. \A d \in Requests : cmds[d].pc # "free" <=> cmds'[d].pc # "free"
    BY <1>0, <1>2, <1>4
  <1> QED BY <1>1, <1>5, <1>6, <1>7, <1>8

\* A run that is not over goes on as y.
LEMMA RunAnswersKept ==
    ASSUME OrchShape, OutcomesSound, NEW r \in Requests, NEW y, runs' = [runs EXCEPT ![r] = y],
           runs[r].pc # "done",
           \A c \in Requests : cmds[c].pc # "free" => cmds'[c] = cmds[c],
           DOMAIN runs[r] = RunFields /\ runs[r].pc # "called" =>
               /\ DOMAIN y = RunFields /\ y.pc # "called"
               /\ y.flow = runs[r].flow /\ runs[r].confirmed \subseteq y.confirmed
    PROVE  AnswersKept /\ FlowsKept
  <1>0. DOMAIN runs = Requests
    BY DEF OrchShape, RunsSound
  <1>1. AnswersKept
    <2> SUFFICES ASSUME NEW c \in Requests, Answer(c) = "ACCEPTED" PROVE Answer(c)' = "ACCEPTED"
      BY DEF AnswersKept
    <2>1. cmds[c].pc # "free"
      BY DEF OrchShape, CmdsSound, CmdShape, FreeCmd, OutcomesSound, Answer
    <2>2. cmds[c].target = "run" => c # r
      BY DEF OutcomesSound, Answer
    <2> QED BY <1>0, <2>1, <2>2 DEF Answer
  <1>2. FlowsKept
    BY <1>0 DEF FlowsKept
  <1> QED BY <1>1, <1>2

LEMMA RunOutcome ==
    ASSUME OrchShape, PrecondInv, AnswersKept, FlowsKept, UNCHANGED cmds,
           NEW r \in Requests, NEW y, runs' = [runs EXCEPT ![r] = y],
           y.pc # "calling", y.pc = "called" => y.step = 0,
           DOMAIN y = RunFields => y.step \in Nat,
           y.result = "ACCEPTED" => DOMAIN y = RunFields /\ y.pc = "done",
           \A k : DOMAIN y = RunFields =>
                   /\ k \in 1..(y.step - 1) => Done(r, k)'
                   /\ y.pc = "verifying" /\ k = y.step => Taken(r, k)'
                   /\ y.result = "ACCEPTED" /\ k \in DOMAIN y.flow.steps => Done(r, k)'
    PROVE  PrecondInv'
  <1>0. DOMAIN runs = Requests
    BY DEF OrchShape, RunsSound
  <1>1. OutcomesSound'
    <2>1. ASSUME NEW c \in Requests
          PROVE  /\ cmds'[c].pc \in {"free", "sent", "queued"} => cmds'[c].target = "none"
                 /\ cmds'[c].pc = "done" /\ cmds'[c].result = "ACCEPTED" => Answer(c)' = "ACCEPTED"
      BY DEF PrecondInv, OutcomesSound, AnswersKept
    <2>2. ASSUME NEW q \in Requests
          PROVE  /\ runs'[q].result = "ACCEPTED" => DOMAIN runs'[q] = RunFields /\ runs'[q].pc = "done"
                 /\ DOMAIN runs'[q] = RunFields => runs'[q].step \in Nat
                 /\ runs'[q].pc = "called" => runs'[q].step = 0
                 /\ runs'[q].pc = "calling" => Current(q)' \in Requests
      BY <1>0 DEF PrecondInv, OutcomesSound, Current
    <2> QED BY <2>1, <2>2 DEF OutcomesSound
  <1>2. StepsDone'
    <2> SUFFICES ASSUME NEW q \in Requests, DOMAIN runs'[q] = RunFields, NEW k
                 PROVE  /\ k \in 1..(runs'[q].step - 1) => Done(q, k)'
                        /\ runs'[q].pc = "verifying" /\ k = runs'[q].step => Taken(q, k)'
                        /\ runs'[q].result = "ACCEPTED" /\ k \in DOMAIN runs'[q].flow.steps => Done(q, k)'
      BY DEF StepsDone
    <2>1. CASE q = r
      BY <1>0, <2>1
    <2>2. CASE q # r
      <3>1. runs'[q] = runs[q]
        BY <1>0, <2>2
      <3>2. CASE runs[q].pc = "called"
        <4>1. runs[q].step = 0 /\ runs[q].result # "ACCEPTED"
          BY <3>2 DEF PrecondInv, OutcomesSound
        <4> QED BY <3>1, <3>2, <4>1
      <3>3. CASE runs[q].pc # "called"
        <4>1. DOMAIN runs[q] = RunFields
          BY <3>1
        <4>2. /\ Done(q, k) => Done(q, k)'
              /\ Taken(q, k) => Taken(q, k)'
          BY <3>3, <4>1, DoneStays, TakenStays
        <4> QED BY <3>1, <4>1, <4>2 DEF PrecondInv, StepsDone
      <3> QED BY <3>2, <3>3
    <2> QED BY <2>1, <2>2
  <1>3. SentAfter'
    <2> SUFFICES ASSUME NEW c \in Requests, cmds'[c].pc # "free", c \notin Clients
                 PROVE  \E q \in Requests, k \in Nat : \E a : SentBy(c, q, k, a)'
      BY DEF SentAfter
    <2>1. PICK q \in Requests, k \in Nat : \E a : SentBy(c, q, k, a)
      BY DEF PrecondInv, SentAfter
    <2> QED BY <2>1, SentStays
  <1> QED BY <1>1, <1>2, <1>3 DEF PrecondInv

\* A run goes on with the step it is at, or with the next one once that is done.
LEMMA RunProceeds ==
    ASSUME OrchShape, PrecondInv, UNCHANGED cmds, NEW r \in Requests, NEW y, runs' = [runs EXCEPT ![r] = y],
           DOMAIN runs[r] = RunFields, DOMAIN y = RunFields, runs[r].pc # "done",
           y.pc \notin {"called", "calling"},
           runs[r].pc # "called" => y.flow = runs[r].flow /\ runs[r].confirmed \subseteq y.confirmed,
           NEW over \in BOOLEAN,
           over => /\ runs[r].pc \in Inside /\ Taken(r, runs[r].step)
                   /\ y.flow.steps[runs[r].step].check # "none" => runs[r].step \in y.confirmed,
           \/ y.step = runs[r].step
           \/ y.step = 1
           \/ y.step = runs[r].step + 1 /\ over,
           y.pc = "verifying" => y.step = runs[r].step /\ Taken(r, runs[r].step),
           y.result = "ACCEPTED" =>
               over /\ y.pc = "done" /\ y.step = runs[r].step /\ runs[r].step = Len(runs[r].flow.steps)
    PROVE  PrecondInv'
  <1> DEFINE x == runs[r]
  <1>0. DOMAIN runs = Requests
    BY DEF OrchShape, RunsSound
  <1>1. AnswersKept /\ FlowsKept
    BY RunAnswersKept DEF PrecondInv
  <1>2. x.step \in Nat /\ y.step \in Nat
    BY DEF PrecondInv, OutcomesSound
  <1>3. ASSUME NEW k, over, k = x.step PROVE Done(r, k)'
    <2>1. Taken(r, k)'
      <3>1. Taken(r, k)
        BY <1>3
      <3> QED BY <1>1, <3>1, TakenStays
    <2>2. y.flow.steps[k].check # "none" => k \in y.confirmed
      BY <1>3
    <2> QED BY <1>0, <2>1, <2>2 DEF Done
  <1>4. ASSUME NEW k, k \in 1..(y.step - 1) PROVE Done(r, k)'
    <2>1. CASE k \in 1..(x.step - 1)
      <3>1. x.pc # "called"
        BY <1>2, <2>1 DEF PrecondInv, OutcomesSound
      <3>2. Done(r, k)
        BY <2>1 DEF PrecondInv, StepsDone
      <3> QED BY <1>1, <3>1, <3>2, DoneStays
    <2>2. CASE k = x.step /\ over
      BY <1>3, <2>2
    <2> QED BY <1>2, <1>4, <2>1, <2>2
  <1>5. ASSUME NEW k, y.pc = "verifying", k = y.step PROVE Taken(r, k)'
    <2>1. Taken(r, k)
      BY <1>5
    <2> QED BY <1>1, <2>1, TakenStays
  <1>6. ASSUME NEW k, y.result = "ACCEPTED", k \in DOMAIN y.flow.steps PROVE Done(r, k)'
    <2>1. x.pc \in Inside /\ y.flow = x.flow
      BY <1>6 DEF Inside
    <2>2. DOMAIN y.flow.steps = 1..x.step
      BY <1>6, <2>1 DEF OrchShape, RunsSound, RunSound, ValidWorkflow, PastTake, Inside
    <2>3. k = x.step \/ k \in 1..(y.step - 1)
      BY <1>2, <1>6, <2>2
    <2> QED BY <1>3, <1>4, <1>6, <2>3
  <1> QED BY <1>1, <1>2, <1>4, <1>5, <1>6, RunOutcome

LEMMA PrecondFails ==
    ASSUME OrchShape, PrecondInv, NEW r \in Requests, runs[r].pc # "done", UNCHANGED cmds, Fails(r)
    PROVE  PrecondInv'
  <1> DEFINE x == runs[r]
             y == [x EXCEPT !.pc = "done", !.result = "FAILED"]
  <1>0. DOMAIN runs = Requests /\ RunShape(x)
    BY DEF OrchShape, RunsSound
  <1>1. runs' = [runs EXCEPT ![r] = y]
    BY <1>0 DEF Fails, Ends
  <1>2. CASE DOMAIN x = RunFields
    <2>1. /\ DOMAIN y = RunFields /\ y.pc = "done" /\ y.result = "FAILED" /\ y.step = x.step
          /\ y.flow = x.flow /\ y.confirmed = x.confirmed
      BY <1>2 DEF RunFields
    <2> HIDE DEF y
    <2> QED BY <1>1, <1>2, <2>1, RunProceeds
  <1>3. CASE DOMAIN x # RunFields
    <2>1. x = IdleRun
      BY <1>0, <1>3 DEF RunShape
    <2>2. DOMAIN y # RunFields /\ y.pc = "done" /\ y.result = "FAILED"
      BY <2>1 DEF IdleRun, RunFields
    <2> HIDE DEF y
    <2>3. AnswersKept /\ FlowsKept
      BY <1>1, <1>3, RunAnswersKept DEF PrecondInv
    <2> QED BY <1>1, <2>2, <2>3, RunOutcome
  <1> QED BY <1>2, <1>3

LEMMA PrecondNewRun ==
    ASSUME OrchShape, PrecondInv, NEW r \in Requests, runs[r].pc = "idle", UNCHANGED cmds,
           NEW s, NEW v, NEW path, runs' = [runs EXCEPT ![r] = NewRun(s, v, path)]
    PROVE  PrecondInv'
  <1> DEFINE y == NewRun(s, v, path)
  <1>1. runs[r] = IdleRun
    BY DEF OrchShape, RunsSound, RunShape, Active, PastTake
  <1>2. y.pc = "called" /\ y.step = 0 /\ y.result = "none" /\ DOMAIN runs[r] # RunFields
    BY <1>1 DEF NewRun, IdleRun, RunFields
  <1>3. runs' = [runs EXCEPT ![r] = y]
    OBVIOUS
  <1> HIDE DEF y
  <1>4. AnswersKept /\ FlowsKept
    BY <1>2, <1>3, RunAnswersKept DEF PrecondInv
  <1>5. \A k : k \notin 1..(y.step - 1)
    BY <1>2
  <1>6. /\ y.pc # "calling" /\ y.pc # "verifying" /\ y.result # "ACCEPTED"
        /\ y.step \in Nat
    BY <1>2
  <1>7. \A k : DOMAIN y = RunFields =>
          /\ k \in 1..(y.step - 1) => Done(r, k)'
          /\ y.pc = "verifying" /\ k = y.step => Taken(r, k)'
          /\ y.result = "ACCEPTED" /\ k \in DOMAIN y.flow.steps => Done(r, k)'
    BY <1>5, <1>6
  <1> QED BY <1>2, <1>3, <1>4, <1>6, <1>7, RunOutcome

LEMMA PrecondSendStep ==
    ASSUME OrchShape, PrecondInv, NEW r \in Requests, SendStep(r), ~Fails(r)
    PROVE  PrecondInv'
  <1> DEFINE x == runs[r]
             c == Current(r)
             y == [x EXCEPT !.pc = "calling"]
             d == NewCmd(SourceOf(r), Append(x.path, x.seq))
  <1>0. DOMAIN runs = Requests /\ DOMAIN cmds = Requests /\ x.pc = "stepping" /\ DOMAIN x = RunFields
    BY DEF OrchShape, RunsSound, CmdsSound, RunShape, IdleRun, SendStep
  <1>1. /\ runs' = [runs EXCEPT ![r] = y] /\ c \in Requests /\ cmds[c].pc = "free"
        /\ cmds' = [cmds EXCEPT ![c] = d]
    BY <1>0 DEF SendStep, Goes
  <1>2. /\ DOMAIN y = RunFields /\ y.pc = "calling" /\ y.step = x.step /\ y.attempt = x.attempt
        /\ y.flow = x.flow /\ y.confirmed = x.confirmed /\ y.result = x.result
    BY <1>0 DEF RunFields
  <1>3. d.pc = "sent" /\ d.target = "none"
    BY DEF NewCmd
  <1>4. x.step \in Nat
    BY <1>0 DEF PrecondInv, OutcomesSound
  <1>5. c = RequestOf(r, x.step, x.attempt)
    BY DEF Current
  <1> HIDE DEF y, d, c
  <1>6. \A q \in Requests : cmds[q].pc # "free" => cmds'[q] = cmds[q]
    BY <1>0, <1>1
  <1>7. AnswersKept /\ FlowsKept
    BY <1>0, <1>1, <1>2, <1>6, RunAnswersKept DEF PrecondInv
  <1>8. OutcomesSound'
    <2>1. ASSUME NEW q \in Requests
          PROVE  /\ cmds'[q].pc \in {"free", "sent", "queued"} => cmds'[q].target = "none"
                 /\ cmds'[q].pc = "done" /\ cmds'[q].result = "ACCEPTED" => Answer(q)' = "ACCEPTED"
      BY <1>0, <1>1, <1>3, <1>7 DEF PrecondInv, OutcomesSound, AnswersKept
    <2>2. ASSUME NEW q \in Requests
          PROVE  /\ runs'[q].result = "ACCEPTED" => DOMAIN runs'[q] = RunFields /\ runs'[q].pc = "done"
                 /\ DOMAIN runs'[q] = RunFields => runs'[q].step \in Nat
                 /\ runs'[q].pc = "called" => runs'[q].step = 0
      BY <1>0, <1>1, <1>2 DEF PrecondInv, OutcomesSound
    <2>3. ASSUME NEW q \in Requests, runs'[q].pc = "calling"
          PROVE  Current(q)' \in Requests
      <3>1. CASE q = r
        BY <1>0, <1>1, <1>2, <1>5, <3>1 DEF Current
      <3>2. CASE q # r
        BY <1>0, <1>1, <2>3, <3>2 DEF PrecondInv, OutcomesSound, Current
      <3> QED BY <3>1, <3>2
    <2> QED BY <2>1, <2>2, <2>3 DEF OutcomesSound
  <1>9. StepsDone'
    <2> SUFFICES ASSUME NEW q \in Requests, DOMAIN runs'[q] = RunFields, NEW k
                 PROVE  /\ k \in 1..(runs'[q].step - 1) => Done(q, k)'
                        /\ runs'[q].pc = "verifying" /\ k = runs'[q].step => Taken(q, k)'
                        /\ runs'[q].result = "ACCEPTED" /\ k \in DOMAIN runs'[q].flow.steps => Done(q, k)'
      BY DEF StepsDone
    <2>1. /\ DOMAIN runs[q] = RunFields /\ runs'[q].step = runs[q].step /\ runs'[q].flow = runs[q].flow
          /\ runs'[q].result = runs[q].result
          /\ runs'[q].pc = "verifying" => runs[q].pc = "verifying"
      BY <1>0, <1>1, <1>2
    <2>2. CASE runs[q].pc = "called"
      <3>1. runs[q].step = 0 /\ runs[q].result # "ACCEPTED"
        BY <2>2 DEF PrecondInv, OutcomesSound
      <3> QED BY <2>1, <2>2, <3>1
    <2>3. CASE runs[q].pc # "called"
      <3>1. /\ Done(q, k) => Done(q, k)'
            /\ Taken(q, k) => Taken(q, k)'
        BY <1>7, <2>1, <2>3, DoneStays, TakenStays
      <3> QED BY <2>1, <3>1 DEF PrecondInv, StepsDone
    <2> QED BY <2>2, <2>3
  <1>10. SentAfter'
    <2> SUFFICES ASSUME NEW q \in Requests, cmds'[q].pc # "free", q \notin Clients
                 PROVE  \E p \in Requests, k \in Nat : \E a : SentBy(q, p, k, a)'
      BY DEF SentAfter
    <2>1. CASE q = c
      <3>1. SentBy(c, r, x.step, x.attempt)
        BY <1>0, <1>5 DEF SentBy, PrecondInv, StepsDone
      <3>2. PICK k \in Nat : \E a : SentBy(c, r, k, a)
        BY <1>4, <3>1
      <3> QED BY <1>7, <2>1, <3>2, SentStays
    <2>2. CASE q # c
      <3>1. cmds[q].pc # "free"
        BY <1>0, <1>1, <2>2
      <3>2. PICK p \in Requests, k \in Nat : \E a : SentBy(q, p, k, a)
        BY <3>1 DEF PrecondInv, SentAfter
      <3> QED BY <1>7, <3>2, SentStays
    <2> QED BY <2>1, <2>2
  <1> QED BY <1>8, <1>9, <1>10 DEF PrecondInv

LEMMA PrecondRun ==
    ASSUME OrchShape, PrecondInv, NEW r \in Requests, Run(r) \/ StopRun(r)
    PROVE  PrecondInv'
  <1> DEFINE x == runs[r]
  <1>0. DOMAIN runs = Requests /\ RunShape(x) /\ RunSound(x)
    BY DEF OrchShape, RunsSound
  <1>1. CASE MatchTrigger(r)
    <2>1. x.pc = "idle" /\ UNCHANGED cmds
      BY <1>1 DEF MatchTrigger, busVars
    <2>2. CASE Fails(r)
      BY <2>1, <2>2, PrecondFails
    <2>3. CASE \E s \in Names : runs' = [runs EXCEPT ![r] = NewRun(s, TRUE, cmds[r].path)]
      <3>1. PICK s \in Names : runs' = [runs EXCEPT ![r] = NewRun(s, TRUE, cmds[r].path)]
        BY <2>3
      <3> QED BY <2>1, <3>1, PrecondNewRun
    <2> QED BY <1>1, <2>2, <2>3 DEF MatchTrigger
  <1>2. ASSUME x.pc \in Active
        PROVE  DOMAIN x = RunFields /\ x.pc # "done" /\ x.result # "ACCEPTED"
    BY <1>0, <1>2 DEF RunShape, IdleRun, Active, PastTake, PrecondInv, OutcomesSound
  <1>3. CASE TakeWorkflow(r)
    <2>1. x.pc = "called" /\ x.pc \in Active /\ UNCHANGED cmds
      BY <1>3 DEF TakeWorkflow, Active, busVars
    <2>2. CASE Fails(r)
      BY <1>2, <2>1, <2>2, PrecondFails
    <2>3. CASE ~Fails(r)
      <3> DEFINE y == [x EXCEPT !.pc = "locking", !.flow = sequences[x.seq], !.lock = locks[x.seq]]
      <3>1. runs' = [runs EXCEPT ![r] = y]
        BY <1>0, <1>3, <2>3 DEF TakeWorkflow
      <3>2. DOMAIN y = RunFields /\ y.pc = "locking" /\ y.step = x.step /\ y.result = x.result
        BY <1>2, <2>1 DEF RunFields
      <3> HIDE DEF y
      <3> QED BY <1>2, <2>1, <3>1, <3>2, RunProceeds
    <2> QED BY <2>2, <2>3
  <1>4. CASE TakeLock(r)
    <2> DEFINE y == [x EXCEPT !.pc = "stepping", !.step = 1, !.attempt = 1]
    <2>1. x.pc = "locking" /\ x.pc \in Active /\ UNCHANGED cmds /\ runs' = [runs EXCEPT ![r] = y]
      BY <1>0, <1>4 DEF TakeLock, Active, PastTake, busVars
    <2>2. /\ DOMAIN y = RunFields /\ y.pc = "stepping" /\ y.step = 1 /\ y.result = x.result /\ y.flow = x.flow
          /\ y.confirmed = x.confirmed
      BY <1>2, <2>1 DEF RunFields
    <2> HIDE DEF y
    <2> QED BY <1>2, <2>1, <2>2, RunProceeds
  <1>5. CASE SendStep(r)
    <2>1. CASE Fails(r)
      <3>1. x.pc = "stepping" /\ x.pc \in Active
        BY <1>5 DEF SendStep, Active, PastTake
      <3>2. runs'[r].pc = "done"
        BY <1>0, <1>2, <2>1, <3>1 DEF Fails, Ends, RunFields
      <3>3. ~Goes(r, "calling")
        BY <1>0, <1>2, <3>1, <3>2 DEF Goes, RunFields
      <3>4. UNCHANGED cmds
        BY <1>5, <3>3 DEF SendStep
      <3> QED BY <1>2, <2>1, <3>1, <3>4, PrecondFails
    <2> QED BY <1>5, <2>1, PrecondSendStep
  <1>6. CASE TakeAnswer(r)
    <2> DEFINE c == Current(r)
               k == x.step
    <2>1. /\ x.pc = "calling" /\ x.pc \in Active /\ x.pc \in Inside /\ UNCHANGED cmds
          /\ cmds[c].pc = "done" /\ c \in Requests
      BY <1>6 DEF TakeAnswer, Active, PastTake, Inside, busVars, PrecondInv, OutcomesSound
    <2>2. CASE Fails(r)
      BY <1>2, <2>1, <2>2, PrecondFails
    <2>3. cmds[c].result = "ACCEPTED" => Taken(r, k)
      <3>1. Front(c) = r /\ Last(c)[1] = k
        BY StepParts DEF Current
      <3> QED BY <2>1, <3>1 DEF Taken, PrecondInv, OutcomesSound
    <2>4. CASE cmds[c].result = "ACCEPTED" /\ Goes(r, "verifying")
      <3> DEFINE y == [x EXCEPT !.pc = "verifying"]
      <3>1. runs' = [runs EXCEPT ![r] = y]
        BY <1>0, <2>4 DEF Goes
      <3>2. /\ DOMAIN y = RunFields /\ y.pc = "verifying" /\ y.step = x.step /\ y.result = x.result
            /\ y.flow = x.flow /\ y.confirmed = x.confirmed
        BY <1>2, <2>1 DEF RunFields
      <3> HIDE DEF y
      <3> QED BY <1>2, <2>1, <2>3, <2>4, <3>1, <3>2, RunProceeds
    <2>5. CASE /\ cmds[c].result = "ACCEPTED" /\ x.flow.steps[k].check = "none"
               /\ runs' = [runs EXCEPT ![r] = Advanced(r)]
      <3> DEFINE y == Advanced(r)
      <3>1. runs' = [runs EXCEPT ![r] = y]
        BY <2>5
      <3>2. /\ DOMAIN y = RunFields /\ y.pc \in {"done", "stepping"} /\ y.flow = x.flow
            /\ y.confirmed = x.confirmed
            /\ y.step = k \/ y.step = k + 1
            /\ y.result = "ACCEPTED" => y.pc = "done" /\ y.step = k /\ k = Len(x.flow.steps)
        BY <1>2, <2>1 DEF Advanced, RunFields
      <3> HIDE DEF y
      <3> QED BY <1>2, <2>1, <2>3, <2>5, <3>1, <3>2, RunProceeds
    <2> QED BY <1>6, <2>2, <2>4, <2>5 DEF TakeAnswer
  <1>7. CASE Verify(r)
    <2> DEFINE k == x.step
    <2>1. x.pc = "verifying" /\ x.pc \in Active /\ x.pc \in Inside /\ UNCHANGED cmds
      BY <1>7 DEF Verify, Active, PastTake, Inside, busVars
    <2>2. Taken(r, k)
      BY <1>2, <2>1 DEF PrecondInv, StepsDone
    <2>3. CASE Fails(r)
      BY <1>2, <2>1, <2>3, PrecondFails
    <2>4. CASE runs' = [runs EXCEPT ![r] = [Advanced(r) EXCEPT !.confirmed = @ \cup {runs[r].step}]]
      <3> DEFINE y == [Advanced(r) EXCEPT !.confirmed = @ \cup {runs[r].step}]
      <3>1. runs' = [runs EXCEPT ![r] = y]
        BY <2>4
      <3>2. /\ DOMAIN Advanced(r) = RunFields /\ Advanced(r).pc \in {"done", "stepping"}
            /\ Advanced(r).flow = x.flow /\ Advanced(r).confirmed = x.confirmed
            /\ Advanced(r).step = k \/ Advanced(r).step = k + 1
            /\ Advanced(r).result = "ACCEPTED" =>
                 Advanced(r).pc = "done" /\ Advanced(r).step = k /\ k = Len(x.flow.steps)
        BY <1>2, <2>1 DEF Advanced, RunFields
      <3>3. /\ DOMAIN y = RunFields /\ y.pc = Advanced(r).pc /\ y.flow = x.flow
            /\ y.confirmed = x.confirmed \cup {k} /\ y.step = Advanced(r).step
            /\ y.result = Advanced(r).result
        BY <3>2 DEF RunFields
      <3> HIDE DEF y
      <3> QED BY <1>2, <2>1, <2>2, <3>1, <3>2, <3>3, RunProceeds
    <2>5. CASE runs' = [runs EXCEPT ![r].pc = "stepping", ![r].attempt = @ + 1]
      <3> DEFINE y == [x EXCEPT !.pc = "stepping", !.attempt = @ + 1]
      <3>1. runs' = [runs EXCEPT ![r] = y]
        BY <1>0, <2>5
      <3>2. /\ DOMAIN y = RunFields /\ y.pc = "stepping" /\ y.step = x.step /\ y.result = x.result
            /\ y.flow = x.flow /\ y.confirmed = x.confirmed
        BY <1>2, <2>1 DEF RunFields
      <3> HIDE DEF y
      <3> QED BY <1>2, <2>1, <3>1, <3>2, RunProceeds
    <2> QED BY <1>7, <2>3, <2>4, <2>5 DEF Verify
  <1>8. CASE StopRun(r)
    <2>1. x.pc \in Active /\ UNCHANGED cmds /\ Fails(r)
      BY <1>8 DEF StopRun, Active, PastTake, Inside, busVars
    <2> QED BY <1>2, <2>1, PrecondFails
  <1> QED BY <1>1, <1>3, <1>4, <1>5, <1>6, <1>7, <1>8 DEF Run

LEMMA PrecondCmd ==
    ASSUME OrchShape, PrecondInv, NEW c \in Requests, Serve(c) \/ StopCommand(c) \/ DeviceAnswers(c)
    PROVE  PrecondInv'
  <1>1. /\ AnswersKept /\ FlowsKept /\ UNCHANGED runs /\ OutcomesSound'
        /\ \A d \in Requests : cmds[d].pc # "free" <=> cmds'[d].pc # "free"
    BY CmdAnswersKept DEF PrecondInv
  <1>2. StepsDone'
    <2> SUFFICES ASSUME NEW r \in Requests, DOMAIN runs[r] = RunFields, NEW k
                 PROVE  /\ k \in 1..(runs[r].step - 1) => Done(r, k)'
                        /\ runs[r].pc = "verifying" /\ k = runs[r].step => Taken(r, k)'
                        /\ runs[r].result = "ACCEPTED" /\ k \in DOMAIN runs[r].flow.steps => Done(r, k)'
      BY <1>1 DEF StepsDone
    <2>1. CASE runs[r].pc = "called"
      <3>1. runs[r].step = 0 /\ runs[r].result # "ACCEPTED"
        BY <2>1 DEF PrecondInv, OutcomesSound
      <3> QED BY <2>1, <3>1
    <2>2. CASE runs[r].pc # "called"
      <3>1. /\ Done(r, k) => Done(r, k)'
            /\ Taken(r, k) => Taken(r, k)'
        BY <1>1, <2>2, DoneStays, TakenStays
      <3> QED BY <3>1 DEF PrecondInv, StepsDone
    <2> QED BY <2>1, <2>2
  <1>3. SentAfter'
    <2> SUFFICES ASSUME NEW d \in Requests, cmds'[d].pc # "free", d \notin Clients
                 PROVE  \E q \in Requests, k \in Nat : \E a : SentBy(d, q, k, a)'
      BY DEF SentAfter
    <2>1. PICK q \in Requests, k \in Nat : \E a : SentBy(d, q, k, a)
      BY <1>1 DEF PrecondInv, SentAfter
    <2> QED BY <1>1, <2>1, SentStays
  <1> QED BY <1>1, <1>2, <1>3 DEF PrecondInv

\* A client's command begins as one that nothing has answered.
LEMMA PrecondSend ==
    ASSUME OrchShape, PrecondInv, NEW c \in Clients, SendCommand(c)
    PROVE  PrecondInv'
  <1> DEFINE y == NewCmd(Outlet[c], <<>>)
  <1>1. DOMAIN cmds = Requests /\ c \in Requests
    BY OrchestratorAssumption DEF OrchShape, CmdsSound
  <1>2. UNCHANGED runs /\ cmds[c].pc = "free" /\ cmds' = [cmds EXCEPT ![c] = y]
    BY DEF SendCommand
  <1>3. y.pc = "sent" /\ y.target = "none"
    BY DEF NewCmd
  <1> HIDE DEF y
  <1>4. cmds[c].target = "none"
    BY <1>1, <1>2 DEF PrecondInv, OutcomesSound
  <1>5. AnswersKept /\ FlowsKept
    BY <1>1, <1>2, <1>3, <1>4 DEF AnswersKept, FlowsKept, Answer
  <1>6. OutcomesSound'
    <2>1. ASSUME NEW d \in Requests
          PROVE  /\ cmds'[d].pc \in {"free", "sent", "queued"} => cmds'[d].target = "none"
                 /\ cmds'[d].pc = "done" /\ cmds'[d].result = "ACCEPTED" => Answer(d)' = "ACCEPTED"
      BY <1>1, <1>2, <1>3, <1>5 DEF PrecondInv, OutcomesSound, AnswersKept
    <2> QED BY <1>2, <2>1 DEF PrecondInv, OutcomesSound, Current
  <1>7. StepsDone'
    <2> SUFFICES ASSUME NEW r \in Requests, DOMAIN runs[r] = RunFields, NEW k
                 PROVE  /\ k \in 1..(runs[r].step - 1) => Done(r, k)'
                        /\ runs[r].pc = "verifying" /\ k = runs[r].step => Taken(r, k)'
                        /\ runs[r].result = "ACCEPTED" /\ k \in DOMAIN runs[r].flow.steps => Done(r, k)'
      BY <1>2 DEF StepsDone
    <2>1. CASE runs[r].pc = "called"
      <3>1. runs[r].step = 0 /\ runs[r].result # "ACCEPTED"
        BY <2>1 DEF PrecondInv, OutcomesSound
      <3> QED BY <2>1, <3>1
    <2>2. CASE runs[r].pc # "called"
      <3>1. /\ Done(r, k) => Done(r, k)'
            /\ Taken(r, k) => Taken(r, k)'
        BY <1>5, <2>2, DoneStays, TakenStays
      <3> QED BY <3>1 DEF PrecondInv, StepsDone
    <2> QED BY <2>1, <2>2
  <1>8. SentAfter'
    <2> SUFFICES ASSUME NEW d \in Requests, cmds'[d].pc # "free", d \notin Clients
                 PROVE  \E q \in Requests, k \in Nat : \E a : SentBy(d, q, k, a)'
      BY DEF SentAfter
    <2>1. cmds[d].pc # "free"
      BY <1>1, <1>2
    <2>2. PICK q \in Requests, k \in Nat : \E a : SentBy(d, q, k, a)
      BY <2>1 DEF PrecondInv, SentAfter
    <2> QED BY <1>5, <2>2, SentStays
  <1> QED BY <1>6, <1>7, <1>8 DEF PrecondInv

LEMMA PrecondStill ==
    ASSUME PrecondInv, UNCHANGED <<runs, cmds>>
    PROVE  PrecondInv'
  BY DEF PrecondInv, OutcomesSound, StepsDone, SentAfter, SentBy, Done, Taken, Answer, Current

LEMMA PrecondStep ==
    ASSUME OrchShape, PrecondInv, [OrchNext]_orchVars
    PROVE  PrecondInv'
  <1>1. CASE EditSequences
    <2>1. UNCHANGED <<runs, cmds>>
      BY <1>1 DEF EditSequences, UpsertSequence, DeleteSequence, ReadStored, InstallStored, busVars
    <2> QED BY <2>1, PrecondStill
  <1>2. CASE \E r \in Manual, s \in Names, valued \in BOOLEAN : CallSequence(r, s, valued)
    <2>1. PICK r \in Manual, s \in Names, valued \in BOOLEAN : CallSequence(r, s, valued)
      BY <1>2
    <2>2. r \in Requests
      BY OrchestratorAssumption
    <2> QED BY <2>1, <2>2, PrecondNewRun DEF CallSequence, busVars
  <1>3. CASE \E c \in Clients : SendCommand(c)
    BY <1>3, PrecondSend
  <1>4. CASE \E r \in Requests : Run(r) \/ StopRun(r)
    BY <1>4, PrecondRun
  <1>5. CASE \E r \in Requests : Serve(r) \/ StopCommand(r) \/ DeviceAnswers(r)
    BY <1>5, PrecondCmd
  <1>6. CASE UNCHANGED orchVars
    BY <1>6, PrecondStill DEF orchVars, busVars
  <1> QED BY <1>1, <1>2, <1>3, <1>4, <1>5, <1>6 DEF OrchNext

LEMMA PrecondInit == OrchInit => PrecondInv
  <1> SUFFICES ASSUME OrchInit PROVE PrecondInv
    OBVIOUS
  <1>1. \A r \in Requests : runs[r] = IdleRun /\ cmds[r] = FreeCmd
    BY DEF OrchInit
  <1>2. IdleRun.pc = "idle" /\ IdleRun.result = "none" /\ DOMAIN IdleRun # RunFields
    BY DEF IdleRun, RunFields
  <1>3. FreeCmd.pc = "free" /\ FreeCmd.target = "none"
    BY DEF FreeCmd
  <1> QED BY <1>1, <1>2, <1>3 DEF PrecondInv, OutcomesSound, StepsDone, SentAfter

\* The trigger's value, or any later command, goes out only when the targets of
\* all steps before it took their commands and the states asked for were seen,
\* and a run that is reported as accepted did all its steps: RunWorkflow.
THEOREM PreconditionsAlwaysFirst == OrchSpec => []PreconditionsFirst
  <1>1. OrchShape /\ PrecondInv => PreconditionsFirst
    <2> SUFFICES ASSUME PrecondInv PROVE PreconditionsFirst
      OBVIOUS
    <2>1. ASSUME NEW c \in Requests, cmds[c].pc # "free", Len(c) > 1, NEW j \in 1..(Last(c)[1] - 1)
          PROVE  Done(Front(c), j)
      <3>1. c \notin Clients
        <4> DEFINE n == Len(c)
        <4>1. c \in Clients => n = 1
          BY <2>1, RequestIds
        <4>2. n > 1
          BY <2>1
        <4> HIDE DEF n
        <4>3. n # 1
          BY <4>2
        <4> QED BY <4>1, <4>3, Zenon
      <3>2. PICK r \in Requests, k \in Nat : \E a : SentBy(c, r, k, a)
        BY <2>1, <3>1 DEF PrecondInv, SentAfter
      <3>3. Front(c) = r /\ Last(c)[1] = k /\ \A i \in 1..(k - 1) : Done(r, i)
        BY <3>2, StepParts DEF SentBy
      <3> QED BY <2>1, <3>3
    <2>2. ASSUME NEW r \in Requests, runs[r].result = "ACCEPTED", NEW k \in DOMAIN runs[r].flow.steps
          PROVE  Done(r, k)
      BY <2>2 DEF PrecondInv, OutcomesSound, StepsDone
    <2> QED BY <2>1, <2>2 DEF PreconditionsFirst
  <1>2. OrchShape /\ PrecondInv /\ [OrchNext]_orchVars => PrecondInv'
    BY PrecondStep
  <1> QED BY <1>1, <1>2, PrecondInit, ShapeInvariant, PTL DEF OrchSpec
=============================================================================
