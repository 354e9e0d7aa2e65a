----------------------------- MODULE ModbusLinks ------------------------------
(***************************************************************************)
(* The links of the ModbusRTU module: their configuration and point        *)
(* tables, kept in memory, in conf/config.db and in DataCenter; the bus    *)
(* that links on one serial device share; and what runs while a link runs: *)
(* a poll thread, a thread that writes commands, and synchronous commands. *)
(* Calls that change a link exclude each other (pointTableMutationMu_),    *)
(* starts and stops exclude each other (lifecycleMu_), but a stop runs     *)
(* beside any change.                                                      *)
(***************************************************************************)
EXTENDS Naturals, FiniteSets, Sequences

CONSTANTS Names,     \* connection names
          Configs,   \* <<device, settings>>: what a bus is opened with
          Tables,    \* point tables, as sets of tags
          MaxId,     \* bound: connections DataCenter ever creates
          MaxGen,    \* bound: starts and stops of one link
          MaxRev,    \* bound: revisions of one point table
          Worlds,    \* what is saved at the start, and bounds: how many calls of
                     \* each kind, failures and crashes a behaviour has
          None

ASSUME LinksAssumption ==
    /\ IsFiniteSet(Names) /\ {} \in Tables /\ None \notin Configs
    /\ MaxGen \in Nat /\ MaxRev \in Nat \ {0}
    /\ MaxId \in Nat /\ Cardinality(Names) <= MaxId   \* what is saved is within the bound
    /\ \A w \in Worlds :
         /\ w.saved \in [Names -> [cfg : Configs, table : Tables] \cup {None}]
         /\ \A n, m \in Names :   \* it was compatible when it was saved
              w.saved[n] # None /\ w.saved[m] # None /\ w.saved[n].cfg[1] = w.saved[m].cfg[1] =>
                  w.saved[n].cfg = w.saved[m].cfg
         /\ w.left \in [edits : Nat, starts : Nat, stops : Nat, commands : Nat,
                        faults : Nat, crashes : Nat]

VARIABLES links,    \* linksByName_
          buses,    \* buses_: how many holders each bus has, 0 when there is no entry
          poll,     \* the poll thread that was started for each name
          writer,   \* the command threads started for each name, and their queue
          commands, \* ExecuteCommand calls that are writing (CommandGate.active)
          mut,      \* the call that holds pointTableMutationMu_
          stop,     \* the StopLink that holds lifecycleMu_
          todo,     \* links that the automatic start has still to look at
          disk,     \* the saved links and point tables
          dc,       \* DataCenter: connections, their tags, their communication state
          up,       \* whether the process runs
          left,     \* what is left of the budget
          askew,    \* a save or a call failed and could not be undone, or a new
                    \* link took over a connection that already had tags
          muted     \* connections whose last "stopped" was not published

threadVars == <<poll, writer, commands>>
worldVars == <<disk, dc>>
ghosts == <<askew, muted>>
linkVars == <<links, buses, threadVars, mut, stop, todo, worldVars, up, left, ghosts>>

Ids == 1..MaxId
NoLink == [state |-> "none"]
NoRow == [id |-> 0]
NoTable == [rev |-> 0]
NoPoll == [at |-> "none"]
NoWriter == [at |-> "none"]
NoStop == [at |-> "none"]
NoCall == [op |-> "none", name |-> None, arg |-> None, steps |-> <<>>]

Link(id, c, pending, t, rev) ==
    [state |-> IF pending THEN "pending" ELSE "stopped", id |-> id, cfg |-> c, gen |-> 0,
     table |-> t, rev |-> rev, bus |-> None]

Exists(n) == links[n] # NoLink
Running(n) == links[n].state = "running"

\* dumpLinksConfigLocked and dumpPointTablesConfigLocked of the links ls.
LinkRows(ls) ==
    [n \in Names |-> IF ls[n] = NoLink THEN NoRow
                     ELSE [id |-> ls[n].id, cfg |-> ls[n].cfg, pending |-> ls[n].state = "pending"]]
TableRows(ls) ==
    [n \in Names |-> IF ls[n] = NoLink THEN NoTable ELSE [table |-> ls[n].table, rev |-> ls[n].rev]]

\* ensureSerialCompatibleLocked: links on one device have the same settings.
Compatible(c, n) ==
    \A o \in Names \ {n} : Exists(o) /\ links[o].cfg[1] = c[1] => links[o].cfg = c

\* isLinkAutoStartReadyLocked
Ready(n) == Exists(n) /\ links[n].state = "stopped" /\ links[n].table # {}

\* A process that is about to load what an earlier one saved.
LinksInit ==
    /\ links = [n \in Names |-> NoLink]
    /\ buses = [c \in Configs |-> 0]
    /\ poll = [n \in Names |-> NoPoll] /\ writer = [n \in Names |-> NoWriter] /\ commands = {}
    /\ mut = NoCall /\ stop = NoStop /\ todo = {}
    /\ \E w \in Worlds :
         LET had == {n \in Names : w.saved[n] # None}
         IN \E ids \in [had -> 1..Cardinality(had)] :
              /\ \A n, m \in had : ids[n] = ids[m] => n = m
              /\ disk = [links |-> [n \in Names |-> IF n \notin had THEN NoRow ELSE
                             [id |-> ids[n], cfg |-> w.saved[n].cfg, pending |-> FALSE]],
                         tables |-> [n \in Names |-> IF n \notin had THEN NoTable ELSE
                             [table |-> w.saved[n].table, rev |-> 1]]]
              /\ dc = [conns |-> [n \in Names |-> IF n \in had THEN ids[n] ELSE 0],
                       tags |-> [i \in Ids |-> UNION {w.saved[n].table : n \in {o \in had : ids[o] = i}}],
                       comm |-> [i \in Ids |-> "none"], next |-> Cardinality(had) + 1]
              /\ left = w.left
    /\ up = FALSE /\ askew = FALSE /\ muted = {}

(***************************************************************************)
(* Calls, and the failures of DataCenter and of the database.              *)
(***************************************************************************)
Called(kind) == left[kind] > 0 /\ left' = [left EXCEPT ![kind] = @ - 1]
Fault == Called("faults")
Faults(k) == k <= left.faults /\ left' = [left EXCEPT !.faults = @ - k]

\* The steps a call on the link n has before it; arg is what it is to do.
Call(op, n, arg, steps) == [op |-> op, name |-> n, arg |-> arg, steps |-> steps]
Idle == up /\ mut = NoCall
At(op, step) == mut.op = op /\ Head(mut.steps) = step
Then(steps) == mut' = IF steps = <<>> THEN NoCall ELSE [mut EXCEPT !.steps = steps]
Done == Then(Tail(mut.steps))
Abort == Then(<<>>)

\* GetOrCreateConnection
ConnOf(n) == IF dc.conns[n] = 0 THEN dc.next ELSE dc.conns[n]
WithConn(n) ==
    IF dc.conns[n] # 0 THEN dc ELSE [dc EXCEPT !.conns[n] = dc.next, !.next = @ + 1]

(***************************************************************************)
(* UpsertLink: a new link is first made known to DataCenter.               *)
(***************************************************************************)
UpsertLink(n, c) ==
    /\ Idle /\ Called("edits") /\ Compatible(c, n)
    /\ IF Exists(n)
         THEN /\ links[n].state = "stopped"
              /\ links' = [links EXCEPT ![n].cfg = c]
              /\ mut' = Call("upsert", n, c, <<"saveLinks", "saveTables">>)
         ELSE /\ mut' = Call("create", n, c, <<"register", "saveLinks", "saveTables">>)
              /\ UNCHANGED links
    /\ UNCHANGED <<buses, threadVars, stop, todo, worldVars, up, ghosts>>

RegisterLink ==
    /\ At("create", "register") /\ ConnOf(mut.name) \in Ids
    /\ LET n == mut.name
           id == ConnOf(n)
           says(s) == dc' = [WithConn(n) EXCEPT !.comm[id] = s]
       IN \/ Fault /\ dc' \in {dc, WithConn(n)} /\ Abort /\ UNCHANGED <<links, ghosts>>
          \/ /\ \/ says("stopped") /\ muted' = muted \ {id} /\ UNCHANGED left
                \/ Fault /\ dc' = WithConn(n) /\ muted' = muted \cup {id}
             /\ links' = [links EXCEPT ![n] = Link(id, mut.arg, FALSE, {}, 1)]
             /\ askew' = (askew \/ dc.tags[id] # {})
             /\ Done
    /\ UNCHANGED <<buses, threadVars, stop, todo, disk, up>>

(***************************************************************************)
(* UpsertPointTable: the table is saved, then its tags are given to        *)
(* DataCenter, and only then is it the table of the link.                  *)
(***************************************************************************)
UpsertPointTable(n, t) ==
    /\ Idle /\ Called("edits")
    /\ Exists(n) /\ links[n].state = "stopped" /\ links[n].rev < MaxRev
    /\ \/ /\ disk' = [disk EXCEPT !.tables =
                        [TableRows(links) EXCEPT ![n] = [table |-> t, rev |-> links[n].rev + 1]]]
          /\ mut' = Call("table", n, t, <<"sync">>)
       \/ UNCHANGED <<disk, mut>>   \* the save failed
    /\ UNCHANGED <<links, buses, threadVars, stop, todo, dc, up, ghosts>>

\* Mutant: The table stays saved when DataCenter refuses its tags.
SyncTagsKeepsTable ==
    /\ At("table", "sync")
    /\ LET n == mut.name
           synced == [dc EXCEPT !.tags[links[n].id] = mut.arg]
       IN \/ /\ links' = [links EXCEPT ![n].table = mut.arg, ![n].rev = @ + 1]
             /\ dc' = synced /\ UNCHANGED <<askew, left>>
          \/ /\ Fault /\ dc' \in {dc, synced} /\ askew' = (askew \/ dc' # dc) /\ UNCHANGED links
    /\ Done
    /\ UNCHANGED <<buses, threadVars, stop, todo, disk, up, muted>>

SyncTags ==
    /\ At("table", "sync")
    /\ LET n == mut.name
           id == links[n].id
           synced == [dc EXCEPT !.tags[id] = mut.arg]
       IN \/ /\ links' = [links EXCEPT ![n].table = mut.arg, ![n].rev = @ + 1]
             /\ dc' = synced
             /\ UNCHANGED <<disk, askew, left>>
          \/ /\ dc' \in {dc, synced}
             /\ UNCHANGED links
             /\ \/ Fault /\ disk' = [disk EXCEPT !.tables = TableRows(links)]
                   /\ askew' = (askew \/ dc' # dc)
                \/ Faults(2) /\ askew' = TRUE /\ UNCHANGED disk
    /\ Done
    /\ UNCHANGED <<buses, threadVars, stop, todo, up, muted>>

(***************************************************************************)
(* RenameLink: DataCenter first, then the two saves, then the memory.      *)
(***************************************************************************)
Renamed(ls, n, m) == [ls EXCEPT ![m] = ls[n], ![n] = NoLink]

RenameLink(n, m) ==
    /\ Idle /\ Called("edits") /\ n # m
    /\ Exists(n) /\ ~Exists(m) /\ links[n].state = "stopped"
    /\ mut' = Call("rename", n, m, <<"rename", "saveLinks", "saveTables", "commit">>)
    /\ UNCHANGED <<links, buses, threadVars, stop, todo, worldVars, up, ghosts>>

RenamedConn(n, m) == [dc EXCEPT !.conns[m] = @ + dc.conns[n], !.conns[n] = 0]

\* The connection is renamed, or was by an earlier call whose answer was lost.
\* One of another number is renamed all the same, and the call ends there.
RenameConn ==
    /\ At("rename", "rename")
    /\ LET n == mut.name
           m == mut.arg
           can == dc.conns[n] # 0 /\ dc.conns[m] = 0
           was == dc.conns[n] = 0 /\ dc.conns[m] = links[n].id
       IN \/ /\ can /\ dc' = RenamedConn(n, m) /\ UNCHANGED left
             /\ IF dc.conns[n] = links[n].id THEN Done /\ UNCHANGED askew
                ELSE Abort /\ askew' = TRUE
          \/ was /\ Done /\ UNCHANGED <<dc, left, askew>>
          \/ ~can /\ ~was /\ Abort /\ UNCHANGED <<dc, left, askew>>
          \/ /\ Fault /\ Abort
             /\ \/ UNCHANGED <<dc, askew>>
                \/ can /\ dc' = RenamedConn(n, m) /\ askew' = TRUE
    /\ UNCHANGED <<links, buses, threadVars, stop, todo, disk, up, muted>>

CommitRename ==
    /\ At("rename", "commit")
    /\ links' = Renamed(links, mut.name, mut.arg)
    /\ Done
    /\ UNCHANGED <<buses, threadVars, stop, todo, worldVars, up, left, ghosts>>

(***************************************************************************)
(* The saves.  One that fails ends the call, after undoing a rename; the   *)
(* load goes on with what is left.                                         *)
(***************************************************************************)
Snapshot == IF mut.op = "rename" THEN Renamed(links, mut.name, mut.arg) ELSE links

SaveFails ==
    \/ /\ mut.op = "rename"   \* rollbackRenamePersistence
       /\ Fault /\ askew' = askew /\ Abort
       /\ disk' = [links |-> LinkRows(links), tables |-> TableRows(links)]
       /\ dc' = RenamedConn(mut.arg, mut.name)
    \/ /\ mut.op = "rename" /\ Faults(2) /\ askew' = TRUE /\ Abort
       /\ dc' \in {dc, RenamedConn(mut.arg, mut.name)}
       /\ disk' \in {disk, [disk EXCEPT !.links = LinkRows(links)],
                    [links |-> LinkRows(links), tables |-> TableRows(links)]}
    \/ mut.op = "load" /\ Fault /\ askew' = TRUE /\ Done /\ UNCHANGED worldVars
    \/ mut.op \notin {"rename", "load"} /\ Fault /\ askew' = TRUE /\ Abort /\ UNCHANGED worldVars

SaveLinks ==
    /\ mut # NoCall /\ Head(mut.steps) = "saveLinks"
    /\ \/ /\ disk' = [disk EXCEPT !.links = LinkRows(Snapshot)]
          /\ Done /\ UNCHANGED <<dc, left, askew>>
       \/ SaveFails
    /\ UNCHANGED <<links, buses, threadVars, stop, todo, up, muted>>

SaveTables ==
    /\ mut # NoCall /\ Head(mut.steps) = "saveTables"
    /\ \/ /\ disk' = [disk EXCEPT !.tables = TableRows(Snapshot)]
          /\ Done /\ UNCHANGED <<dc, left, askew>>
       \/ SaveFails
    /\ UNCHANGED <<links, buses, threadVars, stop, todo, up, muted>>

(***************************************************************************)
(* StartLink: takes both locks; acquires the bus, opens it, and lets the   *)
(* threads of the link run.                                                *)
(***************************************************************************)
StartLink(n) ==
    /\ Idle /\ Called("starts")
    /\ mut' = Call("start", n, None, <<"acquire", "open">>)
    /\ UNCHANGED <<links, buses, threadVars, stop, todo, worldVars, up, ghosts>>

\* autoStartEligibleLinks, after the load
AutoStart(n) ==
    /\ Idle /\ n \in todo
    /\ todo' = todo \ {n}
    /\ mut' = IF Ready(n) THEN Call("start", n, None, <<"acquire", "open">>) ELSE mut
    /\ UNCHANGED <<links, buses, threadVars, stop, worldVars, up, left, ghosts>>

AcquireBus ==
    /\ At("start", "acquire") /\ stop = NoStop
    /\ IF Ready(mut.name) /\ links[mut.name].gen < MaxGen
         THEN /\ buses' = [buses EXCEPT ![links[mut.name].cfg] = @ + 1]
              /\ Done
         ELSE Abort /\ UNCHANGED buses
    /\ UNCHANGED <<links, threadVars, stop, todo, worldVars, up, left, ghosts>>

OpenBus ==
    /\ At("start", "open")
    /\ LET n == mut.name
           l == links[n]
       IN \/ /\ links' = [links EXCEPT ![n].state = "running", ![n].bus = l.cfg, ![n].gen = @ + 1]
             /\ poll' = [poll EXCEPT ![n] =
                           [at |-> "hello", id |-> l.id, gen |-> l.gen + 1, key |-> l.cfg,
                            says |-> "unknown", quit |-> FALSE]]
             /\ writer' = [writer EXCEPT ![n] =
                             [at |-> "idle", key |-> l.cfg, pending |-> FALSE, quit |-> FALSE]]
             /\ UNCHANGED <<buses, left>>
          \/ /\ Fault
             /\ buses' = [buses EXCEPT ![l.cfg] = @ - 1]
             /\ UNCHANGED <<links, poll, writer>>
    /\ Done
    /\ UNCHANGED <<commands, stop, todo, worldVars, up, ghosts>>

(***************************************************************************)
(* StopLink: the link is stopped for every other call at once; its threads *)
(* are joined one after the other, "stopped" is published, and the bus is  *)
(* given back when no command writes any more.                             *)
(***************************************************************************)
LifecycleFree == up /\ stop = NoStop /\ ~At("start", "open")

BeginStop(n, by) ==
    /\ Exists(n) /\ links[n].gen < MaxGen
    /\ LET l == links[n]
       IN /\ stop' = [at |-> "writers", by |-> by, name |-> n, id |-> l.id, gen |-> l.gen + 1,
                      key |-> l.cfg, held |-> l.bus # None]
          /\ links' = [links EXCEPT ![n].state = IF @ = "running" THEN "stopped" ELSE @,
                                    ![n].bus = None, ![n].gen = @ + 1]
          /\ writer' = IF writer[n] = NoWriter THEN writer
                       ELSE [writer EXCEPT ![n].pending = FALSE, ![n].quit = TRUE]

StopLink(n) ==
    /\ LifecycleFree /\ Called("stops")
    /\ BeginStop(n, "call")
    /\ UNCHANGED <<buses, poll, commands, mut, todo, worldVars, up, ghosts>>

WritersJoined ==
    /\ stop.at = "writers" /\ writer[stop.name] = NoWriter
    /\ stop' = [stop EXCEPT !.at = "poll"]
    /\ poll' = IF poll[stop.name] = NoPoll THEN poll ELSE [poll EXCEPT ![stop.name].quit = TRUE]
    /\ UNCHANGED <<links, buses, writer, commands, mut, todo, worldVars, up, left, ghosts>>

\* Mutant: "stopped" is published without joining the poll thread.
PollNotJoined ==
    /\ stop.at = "poll"
    /\ stop' = [stop EXCEPT !.at = "say"]
    /\ UNCHANGED <<links, buses, threadVars, mut, todo, worldVars, up, left, ghosts>>

PollJoined ==
    /\ stop.at = "poll" /\ poll[stop.name] = NoPoll
    /\ stop' = [stop EXCEPT !.at = "say"]
    /\ UNCHANGED <<links, buses, threadVars, mut, todo, worldVars, up, left, ghosts>>

\* setCommunicationState finds the link by the name it had when the stop began.
Current(n, gen) == Exists(n) /\ links[n].gen = gen

SayStopped ==
    /\ stop.at = "say"
    /\ \/ /\ Current(stop.name, stop.gen)
          /\ dc' = [dc EXCEPT !.comm[stop.id] = "stopped"]
          /\ muted' = muted \ {stop.id}
          /\ UNCHANGED left
       \/ /\ IF Current(stop.name, stop.gen) THEN Fault ELSE UNCHANGED left
          /\ muted' = muted \cup {stop.id}
          /\ UNCHANGED dc
    /\ stop' = [stop EXCEPT !.at = "gate"]
    /\ UNCHANGED <<links, buses, threadVars, mut, todo, disk, up, askew>>

\* Mutant: The bus is given back while a command still writes.
ReleaseBusEarly ==
    /\ stop.at = "gate"
    /\ buses' = IF stop.held THEN [buses EXCEPT ![stop.key] = @ - 1] ELSE buses
    /\ stop' = NoStop
    /\ UNCHANGED <<links, threadVars, mut, todo, worldVars, up, left, ghosts>>

ReleaseBus ==
    /\ stop.at = "gate" /\ ~ \E c \in commands : c.name = stop.name
    /\ buses' = IF stop.held THEN [buses EXCEPT ![stop.key] = @ - 1] ELSE buses
    /\ stop' = NoStop
    /\ UNCHANGED <<links, threadVars, mut, todo, worldVars, up, left, ghosts>>

(***************************************************************************)
(* DeleteLink: stops the link, deletes its connection, forgets it.         *)
(***************************************************************************)
DeleteLink(n) ==
    /\ Idle /\ Called("edits")
    /\ mut' = Call("delete", n, None, <<"stop", "drop", "saveLinks", "saveTables">>)
    /\ UNCHANGED <<links, buses, threadVars, stop, todo, worldVars, up, ghosts>>

StopForDelete ==
    /\ At("delete", "stop") /\ LifecycleFree
    /\ IF Exists(mut.name) THEN BeginStop(mut.name, "delete") ELSE UNCHANGED <<links, stop, writer>>
    /\ Done
    /\ UNCHANGED <<buses, poll, commands, todo, worldVars, up, left, ghosts>>

DropConn ==
    /\ At("delete", "drop") /\ ~(stop # NoStop /\ stop.by = "delete")
    /\ LET n == mut.name
           dropped == [dc EXCEPT !.conns[n] = 0]
       IN \/ /\ dc' = dropped /\ links' = [links EXCEPT ![n] = NoLink]
             /\ Done /\ UNCHANGED <<left, askew>>
          \/ /\ Fault /\ dc' \in {dc, dropped} /\ askew' = (askew \/ dc' # dc)
             /\ IF Exists(n)
                  THEN links' = [links EXCEPT ![n].state = "pending"] /\ Then(<<"saveLinks">>)
                  ELSE UNCHANGED links /\ Abort
    /\ UNCHANGED <<buses, threadVars, stop, todo, disk, up, muted>>

(***************************************************************************)
(* The poll thread: "unknown" once, then rounds of reads, each followed by *)
(* the state of the communication.  setCommunicationState looks, with mu_, *)
(* whether this run of the link is still the current one, and publishes    *)
(* without it.                                                             *)
(***************************************************************************)
Polls(n, ats) == poll[n] # NoPoll /\ poll[n].at \in ats

PollChecks(n) ==
    /\ Polls(n, {"hello", "done"})
    /\ LET p == poll[n]
           ends == p.at = "done" /\ p.quit
           says == Current(n, p.gen) /\ Running(n)
       IN poll' = [poll EXCEPT ![n] = IF ends THEN NoPoll
                                      ELSE [p EXCEPT !.at = IF says THEN "publish" ELSE "round"]]
    /\ UNCHANGED <<links, buses, writer, commands, mut, stop, todo, worldVars, up, left, ghosts>>

PollPublishes(n) ==
    /\ Polls(n, {"publish"})
    /\ \/ dc' = [dc EXCEPT !.comm[poll[n].id] = poll[n].says] /\ UNCHANGED left
       \/ Fault /\ UNCHANGED dc
    /\ poll' = [poll EXCEPT ![n].at = "round"]
    /\ UNCHANGED <<links, buses, writer, commands, mut, stop, todo, disk, up, ghosts>>

\* One point read and decoded in the whole round makes it healthy.
PollRound(n) ==
    /\ Polls(n, {"round"})
    /\ \E said \in {"healthy", "unhealthy"} :
         poll' = [poll EXCEPT ![n] = IF poll[n].quit THEN NoPoll
                                     ELSE [poll[n] EXCEPT !.at = "done", !.says = said]]
    /\ UNCHANGED <<links, buses, writer, commands, mut, stop, todo, worldVars, up, left, ghosts>>

(***************************************************************************)
(* Commands that come through a subscription are queued, the newest of a   *)
(* tag in place of an older one, and written by a thread of the link.      *)
(***************************************************************************)
PushCommand(n) ==
    /\ writer[n] # NoWriter /\ ~writer[n].quit /\ Called("commands")
    /\ writer' = [writer EXCEPT ![n].pending = TRUE]
    /\ UNCHANGED <<links, buses, poll, commands, mut, stop, todo, worldVars, up, ghosts>>

\* Mutant: Closing the queue does not wake the thread that waits on it.
WriterStepNoWake(n) ==
    /\ writer[n] # NoWriter
    /\ LET w == writer[n]
       IN \/ w.at = "writing" /\ writer' = [writer EXCEPT ![n].at = "idle"]
          \/ /\ w.at = "idle" /\ w.pending
             /\ writer' = [writer EXCEPT ![n].at = "writing", ![n].pending = FALSE]
    /\ UNCHANGED <<links, buses, poll, commands, mut, stop, todo, worldVars, up, left, ghosts>>

WriterStep(n) ==
    /\ writer[n] # NoWriter
    /\ LET w == writer[n]
       IN \/ /\ w.at = "writing"
             /\ writer' = [writer EXCEPT ![n].at = "idle"]
          \/ /\ w.at = "idle" /\ w.pending
             /\ writer' = [writer EXCEPT ![n].at = "writing", ![n].pending = FALSE]
          \/ /\ w.at = "idle" /\ ~w.pending /\ w.quit
             /\ writer' = [writer EXCEPT ![n] = NoWriter]
    /\ UNCHANGED <<links, buses, poll, commands, mut, stop, todo, worldVars, up, left, ghosts>>

\* ExecuteCommand; DataCenter sends one at a time to a connection.
BeginCommand(n) ==
    /\ up /\ Exists(n) /\ Running(n) /\ Called("commands")
    /\ LET c == [name |-> n, key |-> links[n].bus]
       IN c \notin commands /\ commands' = commands \cup {c}
    /\ UNCHANGED <<links, buses, poll, writer, mut, stop, todo, worldVars, up, ghosts>>

EndCommand(c) ==
    /\ c \in commands
    /\ commands' = commands \ {c}
    /\ UNCHANGED <<links, buses, poll, writer, mut, stop, todo, worldVars, up, left, ghosts>>

(***************************************************************************)
(* The process ends, and LoadPersistedConfig of the next one.              *)
(***************************************************************************)
Crash ==
    /\ up /\ Called("crashes")
    /\ up' = FALSE
    /\ links' = [n \in Names |-> NoLink]
    /\ buses' = [c \in Configs |-> 0]
    /\ poll' = [n \in Names |-> NoPoll] /\ writer' = [n \in Names |-> NoWriter] /\ commands' = {}
    /\ mut' = NoCall /\ stop' = NoStop /\ todo' = {}
    /\ UNCHANGED <<worldVars, ghosts>>

Saved == {n \in Names : disk.links[n] # NoRow}
SavedTable(n) == IF disk.tables[n] = NoTable THEN [table |-> {}, rev |-> 1] ELSE disk.tables[n]

\* GetOrCreateConnection for each link: new connections get the next numbers.
ConnsGiven(found, ids) ==
    LET fresh == {n \in found : dc.conns[n] = 0}
    IN /\ \A n \in found \ fresh : ids[n] = dc.conns[n]
       /\ {ids[n] : n \in fresh} = dc.next .. (dc.next + Cardinality(fresh) - 1)

\* The links found, and what of it is saved again: links whose number is new,
\* and tables without the rows that belong to no link, or that are empty and
\* whose link was not found.
InstallLinks(found, untagged, ids) ==
    LET tagged(i) == \E n \in found \ untagged : ids[n] = i
        moved == \E n \in found : ids[n] # disk.links[n].id
        orphans == \E n \in Names \ found :
                      disk.tables[n] # NoTable /\ (n \in Saved => disk.tables[n].table = {})
    IN /\ links' = [n \in Names |->
             IF n \in found THEN Link(ids[n], disk.links[n].cfg, disk.links[n].pending,
                                      SavedTable(n).table, SavedTable(n).rev)
             ELSE NoLink]
       /\ dc' = [conns |-> [n \in Names |-> IF n \in found THEN ids[n] ELSE dc.conns[n]],
                 tags |-> [i \in Ids |-> IF tagged(i)
                             THEN SavedTable(CHOOSE n \in found : ids[n] = i).table ELSE dc.tags[i]],
                 comm |-> [i \in Ids |-> IF tagged(i) THEN "stopped" ELSE dc.comm[i]],
                 next |-> dc.next + Cardinality({n \in found : dc.conns[n] = 0})]
       /\ muted' = {ids[n] : n \in untagged}
       /\ mut' = CASE moved /\ orphans -> Call("load", None, None, <<"saveLinks", "saveTables">>)
                   [] moved /\ ~orphans -> Call("load", None, None, <<"saveLinks">>)
                   [] ~moved /\ orphans -> Call("load", None, None, <<"saveTables">>)
                   [] OTHER -> NoCall
       /\ todo' = found

\* A link whose connection DataCenter does not give is left out; the tags of
\* one that it does give may still not be registered.
LoadPersistedConfig ==
    /\ ~up
    /\ \E out \in SUBSET Saved : \E untagged \in SUBSET (Saved \ out), ids \in [Saved \ out -> Ids] :
         /\ Faults(Cardinality(out) + Cardinality(untagged))
         /\ ConnsGiven(Saved \ out, ids)
         /\ InstallLinks(Saved \ out, untagged, ids)
         /\ askew' = (out \cup untagged # {})
    /\ up' = TRUE
    /\ UNCHANGED <<buses, threadVars, stop, disk>>

\* A configuration that cannot be read leaves the module without links.
UnreadableConfig ==
    /\ ~up /\ Fault
    /\ up' = TRUE /\ askew' = TRUE
    /\ UNCHANGED <<links, buses, threadVars, mut, stop, todo, worldVars, muted>>

-----------------------------------------------------------------------------
MutStep ==
    \/ RegisterLink \/ SyncTags \/ RenameConn \/ CommitRename \/ SaveLinks \/ SaveTables
    \/ AcquireBus \/ OpenBus \/ StopForDelete \/ DropConn

StopStep == WritersJoined \/ PollJoined \/ SayStopped \/ ReleaseBus
PollStep(n) == PollChecks(n) \/ PollPublishes(n) \/ PollRound(n)

NewCall ==
    \/ \E n \in Names : StartLink(n) \/ StopLink(n) \/ DeleteLink(n)
                     \/ BeginCommand(n) \/ PushCommand(n)
    \/ \E n \in Names, c \in Configs : UpsertLink(n, c)
    \/ \E n \in Names, t \in Tables : UpsertPointTable(n, t)
    \/ \E n, m \in Names : RenameLink(n, m)

LinksNext ==
    \/ NewCall \/ MutStep \/ StopStep \/ LoadPersistedConfig
    \/ UnreadableConfig \/ Crash
    \/ \E n \in Names : AutoStart(n) \/ PollStep(n) \/ WriterStep(n)
    \/ \E c \in commands : EndCommand(c)

LinksSpec == LinksInit /\ [][LinksNext]_linkVars

\* Every thread runs, every call of DataCenter or of a device returns, and a
\* process that ended is started again.
LinksFairness ==
    /\ WF_linkVars(MutStep) /\ WF_linkVars(StopStep) /\ WF_linkVars(LoadPersistedConfig)
    /\ \A n \in Names : WF_linkVars(PollStep(n)) /\ WF_linkVars(WriterStep(n))
    /\ \A c \in [name : Names, key : Configs] : WF_linkVars(EndCommand(c))

FairLinksSpec == LinksSpec /\ LinksFairness

-----------------------------------------------------------------------------
LinkType ==
    [state : {"stopped", "running", "pending"}, id : Ids, cfg : Configs, gen : 0..MaxGen,
     table : Tables, rev : 1..MaxRev, bus : Configs \cup {None}]

\* Type invariant of the state of LinkManager.
LinksTypeOK ==
    /\ links \in [Names -> LinkType \cup {NoLink}]
    /\ \A n \in Names : Exists(n) => (Running(n) <=> links[n].bus # None)
    /\ buses \in [Configs -> 0..Cardinality(Names)]
    /\ \A n \in Names : poll[n] # NoPoll => poll[n].at \in {"hello", "round", "done", "publish"}
    /\ \A n \in Names : writer[n] # NoWriter => writer[n].at \in {"idle", "writing"}
    /\ commands \subseteq [name : Names, key : Configs]
    /\ stop # NoStop => stop.at \in {"writers", "poll", "say", "gate"}
    /\ todo \subseteq Names /\ muted \subseteq Ids /\ up \in BOOLEAN /\ askew \in BOOLEAN
    /\ dc.next \in 1..(MaxId + 1)

Holders(k) ==
    Cardinality({n \in Names : Exists(n) /\ links[n].bus = k})
      + (IF stop # NoStop /\ stop.held /\ stop.key = k THEN 1 ELSE 0)
      + (IF At("start", "open") /\ links[mut.name].cfg = k THEN 1 ELSE 0)

Users(k) ==
    {n \in Names : \/ poll[n] # NoPoll /\ poll[n].key = k
                   \/ writer[n] # NoWriter /\ writer[n].key = k
                   \/ [name |-> n, key |-> k] \in commands}

\* A bus is open exactly for the links that hold it, whoever still reads or
\* writes on it holds it, and one device is never open with two settings:
\* the counts of acquireSerialBusLocked, the joins and the gate of StopLink.
BusHeldByUsers ==
    \A k \in Configs :
      /\ buses[k] = Holders(k)
      /\ Cardinality(Users(k)) <= buses[k]
      /\ \A o \in Configs : buses[k] > 0 /\ buses[o] > 0 /\ k[1] = o[1] => k = o

\* What DataCenter last heard of a link that is stopped is "stopped", never a
\* late answer of a round of the old poll thread, unless the publication
\* itself was lost or the connection was left to two links (AGC relies on it to
\* let a member take part).
StoppedIsLast ==
    \A n \in Names :
      Exists(n) /\ ~Running(n) /\ ~(stop # NoStop /\ stop.id = links[n].id) =>
        \/ dc.comm[links[n].id] = "stopped" \/ links[n].id \in muted
        \/ \E o \in Names \ {n} : Exists(o) /\ links[o].id = links[n].id

\* Between calls the point table in memory, the one on disk and the tags in
\* DataCenter agree, also after a failed save or call that was undone and
\* after a crash anywhere, and the name leads to the same connection.
TablesAgree ==
    up /\ mut = NoCall /\ ~askew =>
      \A n \in Names :
        /\ Exists(n) => /\ SavedTable(n) = [table |-> links[n].table, rev |-> links[n].rev]
                        /\ disk.links[n] = LinkRows(links)[n]
                        /\ dc.tags[links[n].id] = links[n].table
                        /\ dc.conns[n] = links[n].id

\* Every call that changes links, and every stop, ends: the stop that waits
\* for threads and commands, the delete that waits for a stop, the start that
\* waits for a stop of another link.
CallsEnd ==
    /\ (mut # NoCall) ~> (mut = NoCall)
    /\ (stop # NoStop) ~> (stop = NoStop)

\* A bus is open exactly for the links that hold it, and whoever still reads or
\* writes on it holds it, while links are stopped, renamed and changed.
LinksSafe == LinksTypeOK /\ BusHeldByUsers
=============================================================================
