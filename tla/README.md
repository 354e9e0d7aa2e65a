# Verification of MskDSP

TLA+ models of the control logic of MskDSP, the TLC configurations that check
them on small instances, and proofs (TLAPS) of the theorems that matter most.
Every definition is written from the source (C++, and the Python script that
sets up the network); `PROJECT.json` says, for each
one, which lines it stands for. Paths below are relative to `src/` of the
repository (`DataCenter/...` is `src/DataCenter/...`).

Contents: 1 the system · 2 what is modelled · 3 runs, bounds, fairness ·
4 findings · 5 proofs · 6 what is not modelled · 7 plan · 8 running it

## 1 The system

MskDSP is a data-acquisition and control gateway. A small core process loads
*modules* (shared libraries), each with a gRPC server of its own; the protocol
modules bring in points from field devices and control centres, the DataCenter
routes points between them, and application modules (AGC, AVC, Calc,
ControlOrchestrator) compute and command. Modules talk to each other only by
gRPC, nearly always through DataCenter.

### Inventory

| Component | State | Operations | What is hard | What makes it correct |
|---|---|---|---|---|
| **DataCenter core** (`DataCenter/DataCenterCore*.cc`) | registry of connections (id to key, key to id, next id), tag tables, routes, latest values by target and by source, sequence | create, upsert, rename, delete a connection; upsert tags; upsert and delete routes; publish; accept a command | a rename or deletion has to follow every reference; ids must not be reused | the two registry maps are inverse; no dangling reference; ids in clients' hands stay retired |
| **DataCenter persistence** (`DataCenterStateStore.cc`, `common/.../ProtoSqliteStore.hpp`) | one blob in `conf/config.db`, the flag `stateNeedsPersistence_` | dump, validate, save, load, apply | memory changes before the save and is not rolled back; crash between any two RPCs | unsaved changes are always flagged; what is saved loads as a whole |
| **DataCenter publish/subscribe** (`DataCenterGrpcService.cc`) | subscribers, each with a bounded queue | Publish, BatchPublish, Subscribe (snapshot, then stream), client gone, connection deleted | seam between snapshot and live updates, drops, deletion while the snapshot is written | no gap, no reordering, newest value kept, streams end |
| **DataCenter commands** (`DataCenterGrpcService.cc`) | one ticket lane for each target key; the handler's own progress | ExecuteCommand: route, queue, call the target, store | the core mutex is released between all steps; cancellation, deadlines, deletion and rename in between | one call at a time, first come first served, no stuck lane, truthful answers |
| **ModuleManager** (`core/ModuleManager/ModuleManager.cc`) | manifests, list of loaded modules, auto-start list | scan, StartModule (with dependencies), StopModule (with dependents), boot thread | failure in the middle of a start, cycles, broken manifests, overlapping calls | a module never runs without what it needs; a failed start changes nothing |
| **IEC104 session and SOE store** (`IEC104/IEC104TcpSession.cc`, `IEC104SoeStore.cc`, `IEC104TcpLink.cc`, `IEC104LinkManager*.cc`) | sequence numbers, window, queues, events seen; events in SQLite with an acknowledged flag | frames I, S, U; t1, t2, t3; append, replay, acknowledge | sequence numbers that wrap, lost connections, replay beside live events, crash between store and send | at-least-once delivery, order, acknowledged only if delivered |
| **Platform access** (`PlatformAgent/PlatformAccessSupervisor.cc`, `PlatformAccessStore.cc`) | the saved access configuration with its revision, paused flag, generation; the file; the connection task | Set (apply, then save, restore on failure), Get, background recovery, start and stop of the task | save beside recovery, a restore that fails, uncertain durability, reports of an old task, restarts | the device ends with the saved network and the right task; what is reported belongs to what is saved |
| **Ordinary network** (`script/network/ordinary_network.py`, `PlatformAgent/OrdinaryNetworkRuntime.cc`) | state file, routing table and rules, resolver settings of the interfaces, the script's process | apply (journal, remove, restore, install, commit, or undo), repair, check | a failure, a kill or a power failure at any step, half done; a script that outlives its caller | the original resolver settings are never lost; the file tells the routes |
| PlatformAgent tunnel (`PlatformAgent/PlatformTunnel.cc`, `PlatformAgent.cc`) | sockets and streams | connect, forward | pure I/O | |
| ModuleInterface (`core/ModuleManager/ModuleInterface.cc`) | inner and outer gRPC server, port pool | start, stop, restart of servers | release of a port twice, restart while calls run | a port has one owner |
| **ControlOrchestrator** (`ControlOrchestrator/ControlOrchestratorManager.cc`, `...Store.cc`) | sequences, one mutex each, the stored table | save, delete, load; ExecuteSequence, by hand or triggered by a command: steps through DataCenter with retries and verification | nested triggers, late answers, waiting for one's own caller, deletion while a run goes on | one run of a sequence at a time; preconditions first; no wait for one's own caller; everything ends |
| IEC61850 MMS control (`IEC61850/IEC61850MmsControl.cc`, `...Worker.cc`, `...Pipeline.cc`) | select-before-operate state for each object, outstanding requests | select, operate, cancel, timeouts | answers that come late, selection that expired | operate only on a selection of one's own |
| IEC61850 codecs, SCL, GOOSE, SV, protection | bytes, XML, samples | decode, encode, evaluate | sequential algorithms on data | unit-testable |
| **ModbusRTU** (`ModbusRTU/ModbusRTULinkManager.cc`, `ModbusRTUSerialBus.cc`) | links and point tables (memory, disk, DataCenter), shared buses, poll and command threads; the port with its input | upsert, rename, delete, point tables, start, stop, auto-start, load; poll round, command; request and response on the wire | stops beside changes, two saves of a rename, threads that outlive their link, late answers | a bus is open for exactly those that use it; the three copies of a table agree; an answer belongs to its request |
| ModbusTCP, DLT645 | as ModbusRTU, over a socket, with other frames | | | |
| **AGC group manager** (`AGVC/AGC/AGCGroupManager.cc`) | groups: state, switches, last command, heartbeats, what was sent and published; a control, a subscription and a tuning thread; two mutexes for each group beside `mu_` | upsert, start, stop, delete, commands, tuning; subscription updates, control rounds, block points | a round computed before a change is published after it; wake-ups; joins under a lock | the members are told what the group was told last; nothing is sent once it is off; calls end |
| AVC, Calc | as AGC for reactive power; expressions | cycle, set-point | numeric distribution | conservation, limits |
| MQTTManager, BoardIO, ConfigPusher, DeviceInfo, Logger, common library | little of their own | library wrappers, start-up sequence, formatting | | |

How they interact: a protocol module calls `Publish` and `ExecuteCommand` of
DataCenter and keeps a `Subscribe` stream; DataCenter calls `ExecuteCommand`
of the module that owns the target connection, holding the lane of that
connection; ModuleManager loads and unloads all of them and waits for each
to serve. IEC104's subscription thread hands events to the session's I/O
thread as posted tasks. The platform supervisor starts the network script as a
process of its own and reads its answer; its RPC threads and its background
thread share one mutex for all that touches the network.

The `hazards` of `PROJECT.json` list what is hard to test in this code, at its
line, with the properties that watch it or the reason why none does.

## 2 What is modelled

```
DataCenterCore ── DataCenterStore ─┬─ DataCenterBus
  (core state)     (RPCs, blob,    └─ DataCenterCommand ── LaneOps
                    crash, load)                             │
                                               CommandLane ──┘── FifoService (abstract)
                                               LaneAndSoeProofs
                 DataCenterStoreProofs ─┬─ DataCenterBusProofs
                                        └─ DataCenterCommandProofs
ModuleGraph ── ModuleManager ── SupervisorProofs
Iec104Session ── Iec104Soe ── SoeDelivery (abstract)
                 LaneAndSoeProofs
OrdinaryNetwork ── PlatformAccess ── SupervisorProofs
LaneOps ── ControlOrchestrator ── ControlOrchestratorProofs
ModbusLinks ─┬─ ModbusProofs
ModbusSerialBus ┘
AgcGroup ── AgcGroupProofs
```

**DataCenterCore** has the members of the C++ class as variables
(`connections`, `connIdsByKey`, `nextConnId`, `connTags`, `routes`,
`latestByDst`, `latestBySrc`, `sourceSequence`) and one operator for each
operation that changes them. A key stands for (module, connection name), a tag
for a tag; a value is the number of its publication, so that order and
staleness show. `0` of the allocator means *exhausted*, as in the code.
Choices the code computes (a free id) are sets with one element, so that no
`CHOOSE` hides the case where there is none.

**DataCenterStore** adds the RPCs: each applies one operation of the core and
saves everything as one blob. A save is one SQLite transaction, so its two
outcomes stand for it; the validator that runs before it is part of the action
and can refuse. A failed save leaves the memory changed and sets
`stateNeedsPersistence`. A start loads the blob and installs connections, tag
tables and routes in that order, each of which could be refused. Crashes are
the `Restart...` actions: they may come between any two RPCs. Two history
variables (`everSaved`, `allocatorLost`) exist for the properties only.

**DataCenterBus** extends it with publication and subscription. What the code
does under the core mutex is one action; writing the snapshot, popping the
queue, noticing the cancellation, leaving the registry and being marked closed
are steps of their own. A publication gives each of its points the next number
and makes one update of it for every routed target, in an order the code leaves
open among the targets of a point (`UpdateSeqs`); the loop that offers them to
a subscriber is the recursive function in `Offered`, one update at a time, and
`Enqueued` is what the queue's limit does to one of them. `seen` is history: what
a client was last given of each tag.

**DataCenterCommand** extends it with `ExecuteCommand`, one action for each
stretch of the handler between two points where it lets go of the mutex or
blocks. Cancellation and deadline (`Stop`) may come at any point and are
noticed only where the code looks. The target module is external: it may
execute, accept, refuse, or answer too late.

**LaneOps** is the ticket lane as pure operators, shared by `DataCenterCommand`
and **CommandLane**, the small machine of one lane, which is refined to
**FifoService** (calls wait, are served one at a time in order of arrival, or
leave) and proved correct for any number of commands.

**ModuleGraph** has the dependency graph, where the two depth-first searches of
the code lead (a start to the dependencies of a module, a stop to its
dependents), and a reference definition by reachability of what they should
find (`Reach`, `Startable`, `Stoppable`). **ModuleManager** runs the searches
one look at a time (`Descend`, `List`, `Refuse`; the stack of the calls of `dfs`
under way is part of the call, and the order in which a call meets the
dependencies of a module is left open), and then starts and stops along the
order found, step by step, with loading and readiness as outcomes, the undoing
of a failed start, and the boot thread. A missing library is a manifest in error
(`bad`), an unmet version constraint an edge in `unmet`. `Overlap` says whether
a call may begin while another runs; the code has no lock that forbids it, and
`Overlap = FALSE` describes one caller at a time.

**Iec104Session** is one end of a connection as a value, with operators for
`trySendPending`, `handleAck`, `enqueueSoe`, `setDataTransferActive` and so on;
an operator returns the session afterwards and the frames it wrote. The flush
of the queue after each of them is part of the operator, as in the code.
**Iec104Soe** lets two of them talk over FIFO wires: a slave whose subscription
thread stores events and then posts them, and a master. Connections are lost by
the network, a timer or a crash of the slave's process; recording an
acknowledgement may fail. Both ends run this repository's code; only the
decision of a controlling station to stop and restart the transfer is external
(the code's master never sends STOPDT, but its slave answers it).
**SoeDelivery** is the promise: at-least-once, and acknowledged only if
received.

**OrdinaryNetwork** is the world of the network script: the state file
(`record`: configuration, saved resolver settings, and whether a transaction is
pending), the kernel's routes and rules (`routes`), each interface's resolver
settings (`dns`: its own, the configured ones, or a mixture) and the script's
process (`helper`, with the program counter of `apply`). One action is one
stage of `apply` (journal, `remove_routes`, `restore_dns`, the two halves of
`install`, the last write). A stage that fails or is killed leaves any part of
its work (`HalfDone`); a failure then starts the undo, as in the code's
`except`. `ApplyCall` and `Answered` are the two ends of a call from C++; the
script may outlive its caller and keeps the file lock (`orphan`). `SyncFails`
says whether `write_state` may raise after it has replaced the file.

**PlatformAccess** extends it with the supervisor: `Set` and `Get` as calls
with a program counter, the `Run` thread, the connection task (`worker`) with
the reports it makes through its observer, the file (`disk`) and what a power
failure leaves of it (`synced`). A section under `mutex_` is one action,
`saveMutex_` is a variable, and a call of the script is several steps of
`OrdinaryNetwork`. A restart reads the file, or fails to. It is a refinement of
`OrdinaryNetwork`'s own specification (proved), whose caller is arbitrary.

**ControlOrchestrator** has the module's tables (`sequences`, `locks` for
`sequenceLocks_`, the stored table `saved`), its executions (`runs`) and the part
of DataCenter's `ExecuteCommand` they go through (`cmds`, `lanes` from
`LaneOps`). A request id is the path of steps that led to it, as
`makeRequestId` builds it, so that a nested run and its callers are related by
their names. A mutex is a number: deleting a sequence and saving it anew makes
another one if the code forgets it, and the same one if it keeps it. A run is
called, takes its workflow, waits for its lock, sends a step, takes the answer,
verifies, and so on; it may be stopped (cancelled, or its deadline is reached)
wherever the code looks. The device's answer and what a verification reads are
choices.

**ModbusLinks** has `linksByName_`, `buses_`, the threads of a link, the calls
that hold `pointTableMutationMu_` (`mut`) and `lifecycleMu_` (`stop`), the disk
and DataCenter. A call is one step for each stretch under `mu_`, each save and
each call of DataCenter; a stop goes through its stages (command threads
joined, poll thread joined, state said, gate drained, bus given back) beside
any change. `askew` and `muted` record failures that the code does not undo,
for the properties only. Nobody else renames or creates the connections of these
links in DataCenter here. The branch of a rename in which DataCenter had another
number under the name (`:1938`: renamed there, and an error is returned) is in
`RenameConn`, but the links of the run never get there.

**ModbusSerialBus** is one bus on the wire. The input of the port is a sequence
of bytes, each part of some answer; answers come late or not at all, a read
takes what is there, and only closing the port empties it. What the code
compares of an answer (`SameShape`) is what decides whether it is taken. A
coil answer, one byte long, has the shape of a register answer here.

**AgcGroup** is one group in its event driven mode. What `mu_` protects is one
step; `outputMutex` (`out`) and `directionBlockPublishMutex` (`pub`) are
variables that are held over several steps, with each publication to DataCenter
a step of its own. A setpoint is abstract: what it was computed from (the total
and the members that take part). A revision is only ever compared for equality,
so `rt.fresh` keeps those whose captured revision is still the current one.
`thr` has the threads of each generation, since a start makes new ones while
old ones may still be running. A control thread that wakes looks at the
heartbeats first (`checkCommunicationTimeouts`, the place "check") and a tuning
thread sleeps before each of its rounds ("asleep", then "look"): in "check" and
"look" they wait for the locks and do not hear that they were asked to stop. The
erase of a group joins its threads last member first, so its tuning thread before
the other two.

The tail of `UpsertGroup` and `DeleteGroup` change the group under `mu_` alone,
perhaps under an output: `Changed` does this in the model and notes it twice,
where no action reads it. `work.crossed` is of this very output: `SentOnlyWhenOn`
exempts it and no other. `left.crossed` stays for good, since what then goes
wrong does (section 4): `IdleIsApplied` is about groups that were never changed
under an output.

A publication may fail. One of a setpoint sets `left.failed`, and so does a round
whose amounts cannot be computed. One of the block points is only logged
(`BlockPublished`): nothing is owed for it, `dc.block` is `None` until the next
publication, and `BlockIsCurrent` says that the next one makes it good.

In each module one conjunction named `...Safe` puts the type invariant together
with the state invariants of the same subject. A run checks it as one invariant,
and the theorems are about its parts and about itself.

## 3 Runs, bounds, fairness

| Run | Checks |
|---|---|
| `store` | registry, references, persistence and id retirement under all orders of edits, failed saves, failed loads and crashes |
| `lane` | mutual exclusion, no stuck lane, FIFO refinement, waiting ends |
| `bus` | order, gaps, drops, dead references, end of streams |
| `command` | lanes and answers of ExecuteCommand while the configuration changes |
| `modules` | starts and stops over every dependency graph of three modules |
| `soe` | delivery of stored events over connections that break |
| `access` | the device network and the platform connection follow the saved configuration through failures, kills, restarts and power failures |
| `orchestrator` | sequences never interleave with themselves, wait for their preconditions and end, called by hand, triggered and nested |
| `links` | buses, tables and reported states of Modbus links under calls, threads, failures and restarts |
| `agc` | an AGC group tells its members what it was told, and nothing once it is off |
| `network_sync`, `serial_late` | each shows a disagreement between a document and the code (section 4) |

**Bounds.** A violation in this code needs few participants and many steps, so
the bounds keep the participants few and put no limit on the steps except
through counters.

- `store`: three keys (the third is there to be renamed to), two ids (so that
  the allocator is exhausted and its `0` is reached), two tags, one set of two
  routes in opposite directions. Edits, saves and crashes are not counted: the
  state space is finite without that.
- `lane`: three commands, six tickets. Three let one give up between two
  others; six let each come twice. `MaxTickets` replaces a `uint64`.
- `bus`: one subscriber, two keys, a fan-out of one source to two targets, a
  queue of two where the code has 10000, three publications: one more than
  the queue holds, so that drops happen with and without a snapshot pending.
- `command`: two commands to the same target, one naming its source by key
  and one by id, with creation, renaming and deletion of both connections
  throughout.
- `modules`: every graph of three modules without self-loops on two of them
  (one may have one), with a manifest in error or an unmet constraint: chains,
  diamond-free joins, cycles and fan-in all occur. Diamonds proper need four
  modules and are not reached; the theorems have no bound.
- `soe`: three events, a store of two (so one is overwritten), a window of two
  at the slave and one at the master, the master's threshold `w` at three, so
  that only `t2` opens the window, and sequence numbers that wrap at four, so
  that they wrap in one connection. One fault (lost connection, crash, or an
  unrecorded acknowledgement) and one STOPDT. The code's 8000 events and 32768
  are parameters.

- `access`: two uplinks on different interfaces, both with DNS servers, beside
  the system's own network; revisions up to 2, where the code has 2^64 - 1, so
  that the last one is reached; one thing may go wrong in a behaviour: a failed
  or killed script step, a failed check, a failed or unsynced save, rules
  dropped, an exception of the task, a restart, a power failure. A save that
  fails and whose restoration of the old network fails too takes two: that
  `Settles` holds then was seen with `MaxFaults = 2` and `MaxRevision = 1` in
  the same configuration (40 seconds), and is not part of the run. With two
  revisions, two faults were tried without liveness, and pass; the theorems,
  which are about safety, have no bound.
- `network_sync`: the same uplinks, an arbitrary caller, `SyncFails`, two
  faults.
- `orchestrator`: four worlds (what is stored, DataCenter's routes, the calls
  and edits to come): two runs that contend for a sequence that is deleted and
  saved anew; retries; two sequences that trigger each other through one panel;
  the same through two panels. Two calls, runs nested two deep (`Requests`).
  `kMaxWorkflowPath` has its value of the code.
- `links`: two names, a device with two settings and another device, two
  tables. Six worlds: two running links stopped at once; a running link that is
  renamed, changed or deleted beside a start, a stop and a command; the same
  with a failure and a crash; two failures; links made from nothing with a
  failure; and with a crash. The budgets (`left`) bound calls and faults, not
  the steps of the threads.
- `serial_late`: one device, a read, a single write and two multiple writes
  that differ in their values; three requests.
- `agc`: two members, two totals, two callers. Ten worlds: stop and start, or
  start and stop, against a total; the function switched off and on, or the
  remote switch off, against a total; a heartbeat or a fault (of a publication,
  of a computation, of a deletion) against a total; delete against start and
  total, or upsert; upsert against a switch; a tuning against its stop or a
  start. Each world has at most three calls and one event.

`CHECK_DEADLOCK FALSE` is set everywhere, because each of these systems may
stop: the counters of the bounds run out, no client need call, and no event
need occur. That nothing stops half-way is stated as liveness.

**Fairness.** Nothing is assumed of clients, users, the network or the target
modules. Assumed is, and only weakly:

- `lane`, `command`: a handler's thread goes on. Its wait polls at least every
  5 ms (`DataCenterGrpcService.cc:457`) and the call to the target has a deadline, so
  it returns whether or not the target answers.
- `bus`: a handler's thread goes on; its wait polls every 200 ms, and a write
  to a stream returns when the client reads or is gone.
- `soe`: as long as there is a frame to handle, a task to run, a due `t2`, a
  stored event to post or a connection to make again, one of these happens.
  This is a single weak fairness of their disjunction, less than what the I/O
  thread and the reconnection timer give.

- `access`: the threads and the script go on (`WF`); the script has a time
  limit, and the commands it runs have limits of their own. The `Run` thread
  gets `saveMutex_` if it is free again and again (`SF` on `RunLocks`): it
  blocks in `lock()`, whereas `Set` gives up after a second and `Get` at once.
  A step of a thread or of the script that fails is one of the ways in which it
  goes on, so these conditions are also met by failing; they never demand it,
  for each such step can succeed as well. Requests, restarts, power failures,
  exceptions of the task and its reports have no fairness. `Settles` thus says
  what happens when requests and faults have ceased, which revisions and the
  bound on faults bring about.
- `orchestrator`: some thread goes on (one weak fairness of their disjunction).
  The commands of steps have a deadline; those of clients need not have one,
  and devices need not answer.
- `links`: every call that has begun, and every thread, goes on (`WF`); a call
  of DataCenter returns, a request on the bus has a timeout.
- `agc`: the subscription thread, the control thread and the output of a group go
  on (`WF`). Callers, and the tuning thread, get a mutex that is free again and
  again (`SF`): they block in `lock()`. Commands, heartbeats, the passing of time
  and the waking of the control thread have no fairness. What callers ask is
  finite, so `GroupCallsEnd` needs no more than that again and again no call is
  under way.

**Abstractions to know.**

- A configuration of the platform access is its revision, its network and one
  flag, which stands for every other setting.
- A power failure resets the kernel and the resolver and keeps the script's
  file as a reader last saw it. That an unsynced file may fall back to the one
  before it is modelled for `platform_access.json` (`synced`) only.
- Two uplinks of one interface with and without DNS servers, drift of resolver
  settings alone, and an interface without an address are not in the instance:
  the first two are the same steps with other values, the last is a failed
  step.
- The orderly end of the Run thread is left out: a restart ends everything at
  once.

- A posted SOE task may wait in the model while any number of frames are
  handled; the I/O thread of the code is a FIFO queue and lets at most a few
  pass. The preemption of the subscription thread between store and post is
  not limited in the code either. The properties of `soe` allow for what this
  permits: an event that was acknowledged or overwritten while its task waited
  may be sent once more.
- The code remembers the last 8000 events of an activation, the model all.
- The replay and the recording of an acknowledgement are single transactions;
  the replay's load does not fail in the model.
- A connection ends at both ends in one step. What the other end would still
  handle of the frames already with it, it handles before that step.
- Frames that arrive after `Stop()` and before the socket is closed are not
  handled in the model.
- The answers to an interrogation (values, termination) are one frame.

## 4 Findings

Where a document and the code disagree, a run shows it:

1. `network_sync`: `doc/设备普通外网出口配置.md:23` says an interface's
   original DNS settings are recorded before they are first changed and
   restored on withdrawal. At the last write of a switch between two uplinks
   `write_state` may replace the file and then fail to sync the directory
   (`script/network/ordinary_network.py:377, 112-118`). The undo then works
   against a record that is not pending and has only the new interface's
   backup; killed before its own last write, it leaves the old interface with
   changed settings and no record of the original ones.
2. `serial_late`: `ModbusRTU/doc/README.md:135` says a synchronous command is
   accepted only when its Modbus response was received and verified. The input
   of the port is not emptied before a request (`ModbusRTUSerialBus.cc:412`),
   and the echo of a multiple write has no values: a late echo of a write that
   timed out is accepted for the next one. As each call then reads the answer of
   the one before, the bus may stay out of step until three timeouts in a row
   close the port.

Eight configurations without a row in `PROJECT.json` show more of them. TLC
finds the violation in each, or the behaviour that never ends:

| Configuration | Module | Property | What it shows |
|---|---|---|---|
| `DataCenterStoreTags.cfg` | `MCDataCenterStore` | `RoutesMatchTagTables` | `DataCenter/doc/README.md:143`: with a tag table a route's tags are in it. An appending `UpsertConnTags` that creates the table does not prune the routes (`DataCenterCoreConnTags.cc:55`); the validator then refuses every later save until the table is replaced. |
| `DataCenterCommandDelete.cfg` | `MCDataCenterCommand` | `LatestIsOfRegistered` | `doc/README.md:140`: a deletion clears the latest values. A command in flight stores one afterwards, for the deleted target (`DataCenterCorePublish.cc:366`). |
| `DataCenterCommandRename.cfg` | `MCDataCenterCommand` | `OneCallPerConnection` | `doc/README.md:34, 91`: calls to one target are serial. Lanes go by name (`DataCenterGrpcService.cc:404`): a rename during a call opens a second lane to the same connection. |
| `ModuleManagerOverlap.cfg` | `MCModuleManager` | `NoDoubleStart` | `core/ModuleManager/doc/README.md:50`: a running module is not started twice. Check and load are separate and nothing locks the list; the boot thread and an RPC load the same module. |
| `ControlOrchestratorLoad.cfg` | `MCControlOrchestrator` | `OneAtATime` | `doc/命令编排模块最小实现方案.md:14`: a mutex keeps the executions of a sequence apart. Calls are served before the stored sequences are loaded (`ControlOrchestrator.cc:53`), and the load makes new mutexes (`ControlOrchestratorManager.cc:185`). |
| `ControlOrchestratorSave.cfg` | `MCControlOrchestrator` | `EditsAreSaved` | The same document, line 35: after a failed save the memory does not pretend to have succeeded. `UpsertSequence` and `DeleteSequence` change memory first and do not undo it (`ControlOrchestratorManager.cc:213`). |
| `AgcGroupJam.cfg` | `MCAgcGroup` | `AllCallsEnd` | A start after a tuning that ended by itself assigns new threads over the old ones and thereby joins them under `mu_` (`AGCGroupManager.cc:634`), which they may be waiting for: the call, and with it the module, stands still. |
| `AgcGroupStale.cfg` | `MCAgcGroup` | `IdleApplied` | `doc/AGC通信状态参与控制设计.md:26`: a change of a member's communication state voids what was computed and waits to be published. The tail of `UpsertGroup` looks at the heartbeats under `mu_` alone (`AGCGroupManager.cc:564, 1659`). One that expires between a send and its record voids the revision of an output whose setpoint has just left: it is not recorded, the next round finds its own value equal to the older record and skips the member, which keeps a share computed for two until the refresh after 30 s (`:1897`). |

What the modules describe and no run is needed to see:

- **DataCenter.** When the load fails at start the service goes on with an empty
  core and the next save overwrites the disk; the allocator stores exhaustion as
  `0`, which a start reads as "not stored". Both are exempted by
  `allocatorLost`. A call that expires releases its lane while the handler in
  the target may still run.
- **ModuleManager.** A start that finds a running dependency not serving returns
  without unloading what it has loaded.
- **IEC104.** When the replay cannot be loaded the session goes on without it
  until the next activation.
- **ControlOrchestrator.** `RETRY_COMMAND` sends a step again although the first
  command may have been executed: the configuration asks for that.
- **ModbusRTU links.** `StopLink` sets the state before it joins the threads, so
  that a rename in between makes "stopped" go to no connection (`muted`). A
  crash between the two saves of a rename leaves a link without its table, which
  the restart drops for good (`ModbusRTULinkManager.cc:1954`; compare
  `doc/Modbus平台模板来源保存接口.md:9, 17`). Links whose connection cannot be
  created at load disappear from the disk with the next save. A rename whose
  answer is lost, followed by an upsert of the new name, gives two links one
  connection.
- **AGC.** `DeleteGroup` marks or erases the group under `mu_` alone: a round of a
  start that came in between may still send setpoints, also when an upsert has
  made the group anew, and its threads go on or are joined under the lock. The
  tail of an upsert may in the same way end a tuning under an output
  (`work.crossed`). A block point whose publication failed is only logged
  (`:1777`) and stays as it is in DataCenter until something else makes the group
  publish. `ExecuteCommand` answers ACCEPTED although
  `publishMemberSetpoints` may have been cut short (`:1262`). `StopTuning` lets go
  of the output mutex before it stops the group. The old subscription thread may
  write an old value back while a stop and a start overlap. The state points
  (`:1476`) are published without a mutex, unlike the block points. After a
  tuning that was refused or aborted by a heartbeat the block points are not
  published again.

## 5 Proofs

TLC checks the instances above; the theorems hold for every value of the
constants that the named assumptions (`CoreAssumption`, `StoreAssumption`,
`BusAssumption`, `CommandAssumption`, `LaneAssumption`, `NetworkAssumption`,
`RevisionAssumption`, `OrchestratorAssumption`, `LinksAssumption`,
`NamesAssumption`, `WorldsAssumption`, `SessionAssumption`, `SoeAssumption`,
`ManagerAssumption`)
allow. TLC evaluates each of them in the
runs of its module.

**LaneAndSoeProofs**, first about a command lane. `MutualExclusion` alone is not inductive: that two
commands do not both enter rests on their tickets being distinct, and
`LaneNotStuck` rests on no ticket getting lost. The invariant `LaneInv` is

- `LaneTypeOK` and `serving <= next`;
- `TicketsInUse`: tickets of commands in the lane are distinct, between
  `serving` and `next`, and not given up;
- `TicketsGivenUp`: those given up are ahead of `serving`;
- `HolderIsServed`: a holder has the ticket being served (the code's defensive
  check in the release never fails);
- `NoTicketLost`: every ticket still ahead is held or given up.

`SkipLemma` says what the loop that skips given-up tickets leaves behind; each
action needs it for one conjunct or another. From `LaneInvariant` follow
`LaneTypeCorrect`, `LaneMutualExclusion`, `LaneIsNeverStuck`,
`LaneTicketsAccounted`, and `LaneImplementsFifo`: every step of a lane is a
step of `FifoService` or a stutter.

**LaneAndSoeProofs**, then about the delivery of IEC 104 events, for any modulus
of the sequence numbers of at least 2, any windows smaller than it, any
acknowledgement thresholds and capacity, and any number of events, lost
connections and stops. None of the properties says anything of a frame on its
way, and everything that could go wrong goes wrong there. The invariant `SoeInv`
is

- `LinkTyped`, `StoreTyped`, `IdleWhenDown`: types; the store's numbers ascend,
  and so do the posted tasks;
- `Linked`, of both sessions and both wires as values: for each direction `Flow`
  and `Acks`, for each session `Side`, and `ToSlaveOK` and `ToMasterOK`;
- `NoneSkipped`: in an activation no unacknowledged event is passed over: what the
  session has not seen is newer than all it has, and is in a task or about to be.

`Flow` is what the windows live on: the data frames on a wire have the numbers
from the one the receiver expects up to the one the sender uses next
(`Numbered`), and the sender's window is what the receiver took without its
knowing, followed by exactly the events of those frames (`InWindow`). The count
of frames on the way is a function that a `Flow` merely asserts to exist
(`Counts`), so that no recursion over wires is needed. `Acks` says that the
acknowledgements on their way never go back and never pass what was taken. The
window is smaller than the modulus, so distances modulo the wrap
determine their numbers (`DistanceShift`, `PlusShift`, `NextDistance`); this
is the only use of `SessionAssumption`.

A stop and a restart on one connection are what makes the sum of these
delicate: the slave forgets its window while frames of the old activation are
still on their way. `ToSlaveOK` and `ToMasterOK` say which control frames
may be on which wire in which phase, in particular that after a
`STOPDT_ACT` no data follows, that a `STARTDT_CON` has only data behind it,
and that data travels only towards a master that is active or about to be.
`InWindow` is claimed of the slave only when it is active or the master is not,
and `Acks` only when it is active: between a stop and its
confirmation the acknowledgements on their way belong to a window that is gone,
and the slave ignores them.

`Side` says of the slave's queues (`OutgoingOK`) that they hold seen events
only, each once and the unacknowledged ones in order, and that each seen event was
received or is in them. Each handler has one lemma about `Linked` (`LinkedSlaveI`,
`LinkedStop`, `LinkedStart`, ...) built from lemmas about what an end may do
with a wire (`MidSend`, `MidAcked`, `MidRead`, `MidWrite`, `MidLate`), and one
about the invariant (`InvSlaveI`, ...). From `SoeInvariant` follow `SoeIsSafe`,
`SoeNeverLost`, and `SoeImplementsDelivery`: each step is a step of
`SoeDelivery` or none, since what an acknowledgement covers is in the part of
the window that was taken.

**DataCenterStoreProofs.** `CoreInv` is `CoreTypeOK`, `RegistryConsistent` (the
maps are inverse), `AllocatorAhead` (the next id is beyond every id in use) and
`NoDanglingConfig`. One lemma per operation of the core shows that it keeps
`CoreInv` and never moves the allocator back (`AllocatorForward`). `StoreInv`
adds the store's type, `AheadIn(disk)` (the same for the blob),
`MemoryIsPersisted` and `SavedIdsRetired`; `SaveLemma`, `RestartLoadedLemma` and
`RestartEmptyLemma` carry it across saves and starts. `AllocatorAhead` of the
blob is needed because a start recomputes the allocator from it. The theorems
are `StoreTypeCorrect`, `RegistryAlwaysConsistent`, `ConfigNeverDangles`,
`MemoryAlwaysPersisted`, `SavedIdsStayRetired` and `StartInstallsWhole` (the
last an action property: the validator that ran before the save makes the
refusals of the load impossible).

**SupervisorProofs**, first about the network script, for any interfaces,
uplinks and number of faults, as long as a replaced file stays (`~SyncFails`;
finding 1 shows why). The
invariant `NetworkInv` adds to the type and `OriginalDnsKept`:

- `RecordSound`: a saved setting is an original one, and the record of a
  configuration with DNS servers has the backup of its interface;
- `JournalSound`: while a transaction is under way the file is marked pending
  and covers both the old and the new configuration, and an undo works towards
  the old one;
- `DnsFollows`: before the servers are named every interface has its own
  settings, and before the last write only the target's has not;
- `RoutesFollow`: `RecordTellsRoutes`, and before the last write the routes are
  the target's.

`SnapshotSound` is the heart of it: settings are only saved where there is no
backup, and there, by `OriginalDnsKept`, they are still the interface's own.
`HalfDoneSound` says that a stage broken off anywhere keeps the property, so
that failures, kills and deaths need one argument only.

**DataCenterBusProofs**, for any keys, tags, fan-out, subscribers, requests and
queue bound. `StoreInv` is reused as it is: `BusInv` adds to it
`LatestIsOfRegistered`, `LatestIsTarget` (the latest value of a point is one
that was published for it, and its number is one that was given out) and, for
each subscriber, `SubInv`:

- `SubOK`: the type; what waits in the queue is ordered and later than
  everything the subscriber has seen, as is the snapshot before the queue; no
  update is queued before its number is given out;
- `MissesNothing`, `KeepsNewest`: the parts of `NoUpdateMissed`, said of a
  subscriber and the set of updates that matter to it.

The first alone is not inductive: that a delivery goes forward rests on the
queue being ordered, and that on numbers being given out in order under the
mutex. `BusAssumption` asks for finitely many updates, which ids and sequence
numbers of 64 bits grant. `OfferedLemma` goes through the updates of a publication one by one
(`SetInduction` is induction said of a set, and `OfferedChain` shows that the
recursive function of the loop exists), `OfferedCoverage` says what the loop
leaves of the newest update of a point when the queue overflows, and
`SubscribeLemma` is the seam between the snapshot and the stream.
`ConfigStep` carries the subscribers across every RPC of the store.

**DataCenterCommandProofs**, for any commands, keys and configuration requests.
`CommandInv` is `StoreInv`, the types, `LanesOK`, `CommandOK` (what a
handler knows at each point of its way: the target since it was routed, the
outcome since the call, and that it is what the target said) and
`CachedIsAccepted`. `LaneOK` is about a lane as a value, with the commands in
it, those that hold it and their tickets; it is kept by each operation of
`LaneOps` (`LaneReserve`, `LaneTake`, `LaneGiveUp`, `LaneRelease`), and a lane
that a step does not touch stays right (`OtherLaneFrame`). `Moved` is what every step
of a handler has in common, so that the configuration and the lanes can be
looked at separately (`CoreStep`, `LanesStep`). Renames and deletions need no
exception: a lane goes by the name the command was routed to. From it follow
`CommandIsSafe`, `AnswersAreAlwaysTheTargets` and the action property
`CommandsSentInTicketOrder`.

**SupervisorProofs**, then about the supervisor of the access. `AccessStepIsNetworkStep` shows each
step of the supervisor to be a step of `OrdinaryNetwork` or none, whence
`AccessImplementsNetwork`, and the script's theorems hold under the supervisor.
The invariant `AccessInv` is about the threads: `LockHeld` (who holds
`saveMutex_`), `SaveSound` (a save in progress is the next revision; what Get
has read is what is saved as long as it holds the mutex), `GenerationSound`
(generations noted are never ahead of the current one; a task belongs to the
last generation acted on), `NotesSound` (what the Run thread noted is what is
saved as long as the generation is the same) and `WorkerSound` (a current task
means access is on and not paused, and an unpaused configuration is synced).
From it follow `AccessTypeCorrect`, `RecoveryIsOfTheSaved`,
`OnlineAlwaysCurrent`, `AlwaysRunsWhatLasts` and the action property
`AppliedAnswersCurrent`.

**SupervisorProofs**, at last about ModuleManager, for any modules, graphs,
threads and boot lists, and whether `Overlap` lets calls overlap or not. There
are two invariants. `GraphInv` is about each call by itself and holds however
calls overlap:

- `StackOK`: the stack of a search is a path without repetition from the module
  asked for, nothing on it is listed yet, and whatever a frame has looked at is
  listed or is inside it on the stack (`FrameOK`);
- `Listed`: what a listed module leads to was listed before it and may be
  passed. Hence the list that ends a search is exactly what is reachable, and
  no cycle is among it (`CompleteHasNoCycle`: what comes before a module in the
  list is closed, so nothing it leads to leads back);
- `Searchable`: what a call got past its search for has nothing unusable and no
  cycle in reach, and what was refused has. With a module on the stack met
  again, the path from it closes the cycle;
- `ReadyOrder`: what the rest of a start order needs was seen to serve, or is
  before it in the order.

Hence `RefusedForReason` and the action property `LoadsWhatIsReady`. The other
one, `RunInv`, holds for as long as no two calls have been under way at once
(`RunningInvariant`: `ManagerSpec /\ []OneCaller`), and says what runs at each place of
a call: `StartRuns` (what ran before, what was started, and the module being
waited for; `StartedOK`: each of them needs only what is before it, so that
undoing from the last to the first never takes away what another needs) and
`StopRuns` (what still runs of the modules to stop is in what is left of the
order, and every running module that depends on one of them comes before it). From it follow
`ManagerIsSafe` and the action property `OutcomesAreAsked`, under the same
hypothesis. It is one about the behaviour and not about a constant, since no lock
of the code keeps calls apart (`ModuleManager.cc:1139`): every behaviour of the
code, the boot thread beside the RPCs included, is covered up to its first
overlap. `ModuleManagerOverlap.cfg` shows `NoDoubleStart` false after one. That
`ModuleManager.cfg` (`Overlap = FALSE`) meets the hypothesis is `WithoutOverlap`.
Graphs may be infinite here, since a search is a sequence of steps and nothing
is claimed of its end.

**ModbusProofs**, first about the links, for any names, settings, tables and
worlds that `LinksAssumption` allows (finitely many names, enough numbers for
the connections that are saved, and saved links compatible with each other, as
`ensureSerialCompatibleLocked` left them). What a call may rely on at each of its
steps is the hard part, since it lets go of `mu_` between them. `StructInv`
says it:

- `LinksTyped`, `CallTyped`: the type, and which steps a call of each kind can
  still have before it;
- `CallSound`: a link that is being made is still not there and still
  compatible; a table or a rename still has its link, stopped; a start that is
  to open its bus has a link that is ready, and no stop runs beside it;
- `LinksSound`: a running link has the bus of its configuration open; links on
  one device have the same settings, in memory and on disk;
- `StopSound`: a stop has its link to itself, and links that run on the device
  whose bus it still holds have the settings of that bus;
- `ThreadsSound`: each thread and each command belongs to a running link, or to
  the stop that has still to join it;
- `ConnsSound`: DataCenter gives each connection one name.

Three invariants stand on it. `BusesCounted` says that the count of a bus is
the number of `HolderNames`: a set of names, where `Holders` of the run adds up
three numbers, so that a step can be followed by who joins and who leaves
(`CountsAreHolders` says the two are the same); whence `LinksAreSafe`.
`SaidSound` says who is still to say "stopped" of a connection that was not
said to be; whence `StoppedAlwaysLast`. `CopiesAgree` and `CallAgrees` say of
each call under way which copy it has already changed and which it has still to
change (`RowDue`, `TableDue`, `ConnDue`), and what a rename has written and would
have to put back; between calls nothing is due, whence `TablesAlwaysAgree`.

The second part is about the serial bus: `AnswersAreGenuine` says, for any requests, timeouts
and garbled lengths, what the bus does guarantee in spite of finding 2: an answer
it returns as ok is that of a request a device carried out, and looks like the
one asked for as far as `SameShape` compares; for a single write it is the same
write. The invariant `BusInv` says of every byte in the input, and of those
already read, that its frame answers a request that was sent (`Genuine`);
`DropKeepsInput` and `ReadIsGenuine` are about cutting the input, `GenuineStays`
and `AnswerStays` about requests that never change once they are sent.

**ControlOrchestratorProofs**, for any workflows, triggers, routes, clients and
depth of nesting. `OrchShape` is the type of everything: before a run or a
command begins it has no more state than that, and afterwards all of it. On
top of it three arguments, each with its invariant:

- `PathsTold`: a command, and a run, has in its path the sequences of all runs
  above it in the tree of request ids; `TakeWorkflow` refuses what is in the
  path, hence `NoRunAwaitsItsCaller`. `NeverAwaitsItsCaller` alone says nothing
  of a command on its way, which is where the path could get lost.
- `LocksSound`: a name gets a mutex when it is first saved or when it is loaded,
  only the load replaces one (`LockReplaced`: the sequence had been saved before
  the load ended), and nobody is inside with the same mutex as another. Hence
  `SequencesAreExclusive`, which says when the code keeps the runs of a sequence
  apart and when not: two of them are inside together only if the load replaced
  the mutex of that sequence, and each then has one of the two.
  `OrchestratorIsSafe` is `OrchSafe` for every behaviour in which that has not
  happened. Neither takes `LoadsFirst`, since the code serves calls before it
  loads (`ControlOrchestrator.cc:53`); `ControlOrchestratorLoad.cfg` shows the two
  runs. `LoadFirstReplacesNone`: with `LoadsFirst`, as in
  `ControlOrchestrator.cfg`, no mutex is replaced.
- `PrecondInv`: `OutcomesSound` (what is answered as accepted was accepted by
  its target), `StepsDone` (all steps before the current one are done, and the
  one that is being verified was taken) and `SentAfter` (the command of a step
  was sent by a run that had done the steps before it). `AnswersKept` and
  `FlowsKept` say that a step of the system takes none of this back: a target's
  acceptance stays, and a run keeps its workflow and what it has confirmed. Hence
  `PreconditionsAlwaysFirst`.

**AgcGroupProofs**, for any members, totals, callers, generations of threads and
worlds that begin with no group, a stopped or a running one
(`WorldsAssumption`). Neither `BlockIsCurrent` nor `IdleIsApplied` says anything
while the group is busy, so neither is inductive. `AgcInv` adds, to the type
(`Shapes`):

- `Locks`: who holds `outputMutex`, `directionBlockPublishMutex` and `mu_` at each
  place of an output and of a call;
- `BlockFollows`: the block points that were published last, or could not be, or
  are about to be by the holder of their mutex, are those of the group, or it is
  owed a publication (`BlockDue`): a round is asked for, an output is under way,
  or a call is about to publish or to stop the group;
- `SetpointsFollow`: the same for the setpoints (`AppliedDue`). Whoever voids what
  was computed must leave such a debt, and a debt may only be dropped by paying
  it. This is why every change of the inputs goes with `Requested`;
- `Computed`: an output whose revision is still current computes what the group
  was last told, and the members it has done have it;
- `Recorded`: what is remembered as sent is what the member has, but for a send
  that is being recorded. This is what fails in `AgcGroupStale.cfg`, and why
  `SetpointsFollow` needs `~left.crossed`;
- `Sends`, `Reserved`: the calls that take the output mutex find nothing that a
  call beside them could have changed, but for an output that remembers such a
  change (`work.crossed`).

Four lemmas carry most steps: `Still` (nothing owed changes), `Voided` (what was
computed is void, and a debt is left), `QuietCall` (no output is under way) and
`TakenAway` (the group is deleted or marked, perhaps under an output; `GoesOn` is
what becomes of that).
`RefreshedAfter` says what a look at the heartbeats does. From `AgcInvariant`
follow `SafeAgc`, `AppliedWhenIdle` and the action property `SentWhenOn`. The
proof found the two exemptions above: as first stated, both properties held in
all worlds of the run and were false.

`LaneIsSafe`, `StoreIsSafe`, `BusIsSafe`, `CommandIsSafe`, `SoeIsSafe`,
`AccessIsSafe`, `ManagerIsSafe`, `OrchestratorIsSafe`, `LinksAreSafe` and
`SafeAgc` state the conjunctions that the runs check.

Only model-checked: all liveness (`WaitingEnds`, `ClosedStreamEnds`,
`CommandsEnd`, `EventuallyReceived`, `Settles`, `RunsEnd`, `CallsEnd`,
`GroupCallsEnd`), which the prover cannot express. Every invariant and every
action property of the passing runs is a theorem.

## 6 What is not modelled, and why

- Read-only queries, logging, formatting, validation of the shape of requests.
- The data race on the vector of loaded modules: its effects are undefined
  behaviour of the build; the model has the interleavings of whole edits.
- RPCs to ModuleManager before the manifest scan has finished, and the RPCs
  that edit the auto-start list.
- IEC104: remote control (select, execute), batching of point values, time
  synchronisation, test frames (`t3`; their effect, a closed connection, is
  `Drop`), fixed-value points, and the configuration of links.
- Components of the inventory without a module: planned (section 7), or
  sequential code on bytes and numbers (codecs, AVC's distribution, Calc), or thin
  wrappers and I/O (MQTTManager, BoardIO, DeviceInfo, Logger, ConfigPusher).

- ControlOrchestrator: the texts of results, the history of steps, and the
  encoding of a path in a request id. `splitRequestId` looks for the last
  marker `"\x1eCO_PATH="` (`ControlOrchestratorManager.cc:38`); a sequence name
  that contains it, which `ValidateWorkflowConfig` does not refuse, would lose
  the names before it in the path, and a client's own request id that contains
  it would be read as a path. `NeverAwaitsItsCaller` is about names and request
  ids without it.
- ModbusRTU: decoding and encoding of points, deadbands, templates, the plan of
  a polling round, the MQTT transport. A round of the poll thread is one read
  phase and one publication of the state.
- AGC: the cyclic mode; the amounts (distribution, PI correction, control
  profiles, limits, increments); echo, limit and state points; saving and
  loading of groups and their restoration at start, which overwrites a group
  that RPCs already use (`AGCGroupManager.cc:371`); each group has one output
  mutex for its life here, a deleted and newly made one gets another in the code.
- ModbusTCP and DLT645 repeat the structure of ModbusRTU with other frames, AVC
  that of AGC; they are not modelled a second time.
- Platform access: the wording and the network fields of the status, the
  validation of identifiers, tokens and SSH settings, the tunnel itself;
  conflicts of the script with other programs' routes and rules, and interfaces
  that disappear.

## 7 Plan

Done, in this order, most important first: DataCenter core and store; lane;
publish/subscribe; commands; ModuleManager; IEC104 event delivery; platform
access and its network script; the proofs of lane, store, script and
supervisor; ControlOrchestrator over DataCenter's lanes; the links and the
serial bus of ModbusRTU; the life of an AGC group; the proofs about the serial
bus and about ControlOrchestrator; the proofs about publication and commands;
the proofs about the links of ModbusRTU; the proofs about the AGC group; the
proofs about the delivery of IEC 104 events; the proofs about the searches, the
starts and the stops of ModuleManager.

Next:

1. `MmsControl`: select-before-operate with late answers and expiry, if its
   state machine can be separated from the codecs.
2. `PortPool` of ModuleInterface: the outer port is released by
   `shutdownServers` and may be released again by the destructor
   (`ModuleInterface.cc:318`), by which time another module may own it.
3. The cyclic mode of AGC, and AVC as a second instance of `AgcGroup`.
4. A `platform_access.json` and a state file whose replacements may both be
   undone by a power failure, with the revision a client then sees twice.

## 8 Running it

```
tlc -workers 2 -config DataCenterStore.cfg MCDataCenterStore.tla
tlapm LaneAndSoeProofs.tla
tlapm DataCenterStoreProofs.tla
tlapm SupervisorProofs.tla
tlapm ModbusProofs.tla
tlapm ControlOrchestratorProofs.tla
tlapm DataCenterBusProofs.tla
tlapm DataCenterCommandProofs.tla
tlapm AgcGroupProofs.tla
```

Each run's module and configuration are in `PROJECT.json` under `runs`, those
run by hand in the table of section 4. A
definition marked *Mutant* in a module is a plausible mistake in the code; with
it in place of the definition it follows, the property named in `PROJECT.json`
is violated.
