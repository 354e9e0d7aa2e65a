---------------------------- MODULE ModbusProofs ----------------------------
(***************************************************************************)
(* Theorems about the ModbusRTU module.  Its links, for any names, devices *)
(* and tables and any number of calls, failures and crashes: a bus is open *)
(* exactly for those that hold it, "stopped" is the last DataCenter hears  *)
(* of a link that is stopped, and the copies of a point table agree.  Its  *)
(* serial bus, although answers may be late: an answer it returns is that  *)
(* of a request some device carried out.                                   *)
(***************************************************************************)
EXTENDS ModbusLinks, ModbusSerialBus, FiniteSetTheorems, TLAPS

-----------------------------------------------------------------------------
(* The type of the state, and the steps a call may have before it.         *)

Rows == [id : Ids, cfg : Configs, pending : BOOLEAN]
TableRecords == [table : Tables, rev : 1..MaxRev]
PollRecords ==
    [at : {"hello", "round", "done", "publish"}, id : Ids, gen : Nat, key : Configs,
     says : {"unknown", "healthy", "unhealthy"}, quit : BOOLEAN]
WriterRecords == [at : {"idle", "writing"}, key : Configs, pending : BOOLEAN, quit : BOOLEAN]
StopRecords ==
    [at : {"writers", "poll", "say", "gate"}, by : {"call", "delete"}, name : Names, id : Ids,
     gen : Nat, key : Configs, held : BOOLEAN]
DiskRecords == [links : [Names -> Rows \cup {NoRow}], tables : [Names -> TableRecords \cup {NoTable}]]
DcRecords ==
    [conns : [Names -> 0..MaxId], tags : [Ids -> SUBSET UNION Tables],
     comm : [Ids -> {"none", "stopped", "unknown", "healthy", "unhealthy"}], next : 1..(MaxId + 1)]

LinksTyped ==
    /\ links \in [Names -> LinkType \cup {NoLink}]
    /\ poll \in [Names -> PollRecords \cup {NoPoll}]
    /\ writer \in [Names -> WriterRecords \cup {NoWriter}]
    /\ commands \subseteq [name : Names, key : Configs]
    /\ stop \in StopRecords \cup {NoStop}
    /\ todo \subseteq Names /\ muted \subseteq Ids /\ up \in BOOLEAN /\ askew \in BOOLEAN
    /\ disk \in DiskRecords /\ dc \in DcRecords

SaveSteps == {<<"saveLinks", "saveTables">>, <<"saveTables">>}
CreateSteps == {<<"register", "saveLinks", "saveTables">>} \cup SaveSteps
RenameSteps ==
    {<<"rename", "saveLinks", "saveTables", "commit">>, <<"saveLinks", "saveTables", "commit">>,
     <<"saveTables", "commit">>, <<"commit">>}
StartSteps == {<<"acquire", "open">>, <<"open">>}
DeleteSteps ==
    {<<"stop", "drop", "saveLinks", "saveTables">>, <<"drop", "saveLinks", "saveTables">>,
     <<"saveLinks">>} \cup SaveSteps
LoadSteps == {<<"saveLinks">>} \cup SaveSteps

CallTyped ==
    \/ mut = NoCall
    \/ mut \in [op : {"upsert"}, name : Names, arg : Configs, steps : SaveSteps]
    \/ mut \in [op : {"create"}, name : Names, arg : Configs, steps : CreateSteps]
    \/ mut \in [op : {"table"}, name : Names, arg : Tables, steps : {<<"sync">>}]
    \/ mut \in [op : {"rename"}, name : Names, arg : Names, steps : RenameSteps]
    \/ mut \in [op : {"start"}, name : Names, arg : {None}, steps : StartSteps]
    \/ mut \in [op : {"delete"}, name : Names, arg : {None}, steps : DeleteSteps]
    \/ mut \in [op : {"load"}, name : {None}, arg : {None}, steps : LoadSteps]

-----------------------------------------------------------------------------
(* The invariant.                                                          *)

\* What a call may rely on at each of its steps, having let go of mu_ since it
\* looked: links change under it only by being stopped.
CallSound ==
    /\ At("create", "register") => ~Exists(mut.name) /\ Compatible(mut.arg, mut.name)
    /\ mut.op = "table" => Exists(mut.name) /\ links[mut.name].rev < MaxRev
    /\ mut.op = "rename" => /\ mut.name # mut.arg /\ Exists(mut.name) /\ ~Exists(mut.arg)
                            /\ ~Running(mut.name)
    /\ mut.op = "rename" /\ Head(mut.steps) # "rename" => dc.conns[mut.name] = 0
    /\ At("start", "open") => /\ Ready(mut.name) /\ links[mut.name].gen < MaxGen
                              /\ stop = NoStop
    /\ At("delete", "drop") => ~Running(mut.name)

\* A running link holds the bus of its configuration, and links on one device
\* have one configuration: in memory, on disk, and while one of them stops.
LinksSound ==
    /\ \A n \in Names : Exists(n) =>
          /\ Running(n) <=> links[n].bus # None
          /\ Running(n) => links[n].bus = links[n].cfg
    /\ \A n \in Names : Exists(n) => Compatible(links[n].cfg, n)
    /\ \A n, m \in Names : disk.links[n] # NoRow /\ disk.links[m] # NoRow
                           /\ disk.links[n].cfg[1] = disk.links[m].cfg[1] =>
                              disk.links[n].cfg = disk.links[m].cfg
    /\ ~up => mut = NoCall /\ stop = NoStop /\ \A n \in Names : ~Exists(n)

\* A stop has its link to itself, and another that runs on the device of the
\* bus it still holds has the same settings.
StopSound ==
    stop # NoStop =>
        /\ ~Running(stop.name)
        /\ stop.held => \A n \in Names :
              Running(n) /\ links[n].cfg[1] = stop.key[1] => links[n].cfg = stop.key

StopHolds(n, k, ats) ==
    stop # NoStop /\ stop.name = n /\ stop.held /\ stop.key = k /\ stop.at \in ats

\* Every thread and every command has its link or the stop that joins it.
ThreadsSound ==
    /\ \A n \in Names : poll[n] # NoPoll =>
          \/ Running(n) /\ links[n].bus = poll[n].key /\ links[n].id = poll[n].id
          \/ StopHolds(n, poll[n].key, {"writers", "poll"}) /\ stop.id = poll[n].id
    /\ \A n \in Names : writer[n] # NoWriter =>
          \/ Running(n) /\ links[n].bus = writer[n].key
          \/ StopHolds(n, writer[n].key, {"writers"})
    /\ \A c \in commands :
          \/ Running(c.name) /\ links[c.name].bus = c.key
          \/ StopHolds(c.name, c.key, {"writers", "poll", "say", "gate"})

\* DataCenter gives each connection one name and has not given out its next id.
ConnsSound ==
    /\ \A n, m \in Names : dc.conns[n] # 0 /\ dc.conns[n] = dc.conns[m] => n = m
    /\ \A n \in Names : dc.conns[n] < dc.next

\* Who holds the bus k: running links, the link that is being stopped, and the
\* one that is about to be started.
HolderNames(k) ==
    {n \in Names : Exists(n) /\ links[n].bus = k}
      \cup (IF stop # NoStop /\ stop.held /\ stop.key = k THEN {stop.name} ELSE {})
      \cup (IF At("start", "open") /\ links[mut.name].cfg = k THEN {mut.name} ELSE {})

BusesCounted ==
    /\ buses \in [Configs -> Nat]
    /\ \A k \in Configs : buses[k] = Cardinality(HolderNames(k))

\* A connection of a link was said to be stopped, or someone is to say it.
SaidSound ==
    \A n \in Names : Exists(n) =>
        \/ dc.comm[links[n].id] = "stopped" \/ links[n].id \in muted
        \/ \E o \in Names : Running(o) /\ links[o].id = links[n].id
        \/ stop # NoStop /\ stop.id = links[n].id /\ stop.at # "gate"

RowAgrees(n) == disk.links[n] = LinkRows(links)[n]
TableAgrees(n) == SavedTable(n) = [table |-> links[n].table, rev |-> links[n].rev]

\* The copies of a link agree but for what the call under way has still to do.
CopiesAgree ==
    up /\ ~askew =>
      \A n \in Names : Exists(n) =>
        /\ \/ RowAgrees(n)
           \/ mut.op \in {"create", "upsert", "delete", "load"} /\ Head(mut.steps) = "saveLinks"
           \/ mut.op = "rename" /\ Head(mut.steps) \in {"saveTables", "commit"}
        /\ \/ TableAgrees(n)
           \/ mut.op \in {"table", "create"} /\ n = mut.name
           \/ At("rename", "commit")
        /\ dc.tags[links[n].id] = links[n].table
        /\ \/ dc.conns[n] = links[n].id
           \/ mut.op = "rename" /\ n = mut.name /\ Head(mut.steps) # "rename"

\* What the call under way has done of it.
CallAgrees ==
    up /\ ~askew =>
      /\ mut.op = "table" =>
            disk.tables[mut.name] = [table |-> mut.arg, rev |-> links[mut.name].rev + 1]
      /\ mut.op = "rename" /\ Head(mut.steps) # "rename" => dc.conns[mut.arg] = links[mut.name].id
      /\ mut.op = "rename" /\ Head(mut.steps) \in {"saveTables", "commit"} =>
            disk.links = LinkRows(Renamed(links, mut.name, mut.arg))
      /\ At("rename", "commit") => disk.tables = TableRows(Renamed(links, mut.name, mut.arg))

-----------------------------------------------------------------------------
(* The steps of a call.                                                    *)

\* What Head and Tail make of each list of steps there is.
LEMMA StepLists ==
    /\ <<"stop", "drop", "saveLinks", "saveTables">> # <<>> /\ Head(<<"stop", "drop", "saveLinks", "saveTables">>) = "stop"
       /\ Tail(<<"stop", "drop", "saveLinks", "saveTables">>) = <<"drop", "saveLinks", "saveTables">>
    /\ <<"drop", "saveLinks", "saveTables">> # <<>> /\ Head(<<"drop", "saveLinks", "saveTables">>) = "drop"
       /\ Tail(<<"drop", "saveLinks", "saveTables">>) = <<"saveLinks", "saveTables">>
    /\ <<"register", "saveLinks", "saveTables">> # <<>> /\ Head(<<"register", "saveLinks", "saveTables">>) = "register"
       /\ Tail(<<"register", "saveLinks", "saveTables">>) = <<"saveLinks", "saveTables">>
    /\ <<"rename", "saveLinks", "saveTables", "commit">> # <<>> /\ Head(<<"rename", "saveLinks", "saveTables", "commit">>) = "rename"
       /\ Tail(<<"rename", "saveLinks", "saveTables", "commit">>) = <<"saveLinks", "saveTables", "commit">>
    /\ <<"saveLinks", "saveTables", "commit">> # <<>> /\ Head(<<"saveLinks", "saveTables", "commit">>) = "saveLinks"
       /\ Tail(<<"saveLinks", "saveTables", "commit">>) = <<"saveTables", "commit">>
    /\ <<"saveTables", "commit">> # <<>> /\ Head(<<"saveTables", "commit">>) = "saveTables"
       /\ Tail(<<"saveTables", "commit">>) = <<"commit">>
    /\ <<"commit">> # <<>> /\ Head(<<"commit">>) = "commit"
       /\ Tail(<<"commit">>) = <<>>
    /\ <<"acquire", "open">> # <<>> /\ Head(<<"acquire", "open">>) = "acquire"
       /\ Tail(<<"acquire", "open">>) = <<"open">>
    /\ <<"open">> # <<>> /\ Head(<<"open">>) = "open"
       /\ Tail(<<"open">>) = <<>>
    /\ <<"saveLinks", "saveTables">> # <<>> /\ Head(<<"saveLinks", "saveTables">>) = "saveLinks"
       /\ Tail(<<"saveLinks", "saveTables">>) = <<"saveTables">>
    /\ <<"saveLinks">> # <<>> /\ Head(<<"saveLinks">>) = "saveLinks"
       /\ Tail(<<"saveLinks">>) = <<>>
    /\ <<"saveTables">> # <<>> /\ Head(<<"saveTables">>) = "saveTables"
       /\ Tail(<<"saveTables">>) = <<>>
    /\ <<"sync">> # <<>> /\ Head(<<"sync">>) = "sync"
       /\ Tail(<<"sync">>) = <<>>
OBVIOUS

LEMMA SaveStepsLemma ==
    ASSUME NEW s \in SaveSteps
    PROVE  /\ s # <<>> /\ Head(s) \in {"saveLinks", "saveTables"}
           /\ Head(s) = "saveLinks" => Tail(s) \in SaveSteps /\ Head(Tail(s)) = "saveTables"
           /\ Head(s) = "saveTables" => Tail(s) = <<>>
<1>1. CASE s = <<"saveLinks", "saveTables">>
  BY <1>1, StepLists DEF SaveSteps
<1>2. CASE s = <<"saveTables">>
  BY <1>2, StepLists
<1> QED BY <1>1, <1>2 DEF SaveSteps

LEMMA CreateStepsLemma ==
    ASSUME NEW s \in CreateSteps
    PROVE  /\ s # <<>> /\ Head(s) \in {"register", "saveLinks", "saveTables"}
           /\ Head(s) = "register" => Tail(s) \in CreateSteps /\ Head(Tail(s)) = "saveLinks"
           /\ Head(s) # "register" => s \in SaveSteps
<1>1. CASE s = <<"register", "saveLinks", "saveTables">>
  <2>1. Head(s) = "register" /\ Tail(s) = <<"saveLinks", "saveTables">> /\ s # <<>>
    BY <1>1, StepLists
  <2>2. Head(Tail(s)) = "saveLinks"
    BY <2>1, StepLists
  <2> QED BY <2>1, <2>2 DEF CreateSteps, SaveSteps
<1>2. CASE s \in SaveSteps
  BY <1>2, SaveStepsLemma
<1> QED BY <1>1, <1>2 DEF CreateSteps

LEMMA RenameStepsLemma ==
    ASSUME NEW s \in RenameSteps
    PROVE  /\ s # <<>> /\ Head(s) \in {"rename", "saveLinks", "saveTables", "commit"}
           /\ Head(s) # "commit" => Tail(s) \in RenameSteps
           /\ Head(s) = "rename" => Head(Tail(s)) = "saveLinks"
           /\ Head(s) = "saveLinks" => Head(Tail(s)) = "saveTables"
           /\ Head(s) = "saveTables" => Head(Tail(s)) = "commit"
           /\ Head(s) = "commit" => Tail(s) = <<>>
<1>1. CASE s = <<"rename", "saveLinks", "saveTables", "commit">>
  <2>1. Head(s) = "rename" /\ Tail(s) = <<"saveLinks", "saveTables", "commit">> /\ s # <<>>
    BY <1>1, StepLists
  <2>2. Head(Tail(s)) = "saveLinks"
    BY <2>1, StepLists
  <2> QED BY <2>1, <2>2 DEF RenameSteps
<1>2. CASE s = <<"saveLinks", "saveTables", "commit">>
  <2>1. Head(s) = "saveLinks" /\ Tail(s) = <<"saveTables", "commit">> /\ s # <<>>
    BY <1>2, StepLists
  <2>2. Head(Tail(s)) = "saveTables"
    BY <2>1, StepLists
  <2> QED BY <2>1, <2>2 DEF RenameSteps
<1>3. CASE s = <<"saveTables", "commit">>
  <2>1. Head(s) = "saveTables" /\ Tail(s) = <<"commit">> /\ s # <<>>
    BY <1>3, StepLists
  <2>2. Head(Tail(s)) = "commit"
    BY <2>1, StepLists
  <2> QED BY <2>1, <2>2 DEF RenameSteps
<1>4. CASE s = <<"commit">>
  <2>1. Head(s) = "commit" /\ Tail(s) = <<>> /\ s # <<>>
    BY <1>4, StepLists
  <2> QED BY <2>1
<1> QED BY <1>1, <1>2, <1>3, <1>4 DEF RenameSteps

LEMMA StartStepsLemma ==
    ASSUME NEW s \in StartSteps
    PROVE  /\ s # <<>> /\ Head(s) \in {"acquire", "open"}
           /\ Head(s) = "acquire" => Tail(s) \in StartSteps /\ Head(Tail(s)) = "open"
           /\ Head(s) = "open" => Tail(s) = <<>>
<1>1. CASE s = <<"acquire", "open">>
  <2>1. Head(s) = "acquire" /\ Tail(s) = <<"open">> /\ s # <<>>
    BY <1>1, StepLists
  <2>2. Head(Tail(s)) = "open"
    BY <2>1, StepLists
  <2> QED BY <2>1, <2>2 DEF StartSteps
<1>2. CASE s = <<"open">>
  <2>1. Head(s) = "open" /\ Tail(s) = <<>> /\ s # <<>>
    BY <1>2, StepLists
  <2> QED BY <2>1
<1> QED BY <1>1, <1>2 DEF StartSteps

LEMMA DeleteStepsLemma ==
    ASSUME NEW s \in DeleteSteps
    PROVE  /\ s # <<>> /\ Head(s) \in {"stop", "drop", "saveLinks", "saveTables"}
           /\ Head(s) = "stop" => Tail(s) \in DeleteSteps /\ Head(Tail(s)) = "drop"
           /\ Head(s) = "drop" => Tail(s) \in DeleteSteps /\ Head(Tail(s)) = "saveLinks"
           /\ Head(s) = "saveLinks" =>
                Tail(s) = <<>> \/ (Tail(s) \in DeleteSteps /\ Head(Tail(s)) = "saveTables")
           /\ Head(s) = "saveTables" => Tail(s) = <<>>
<1>1. CASE s = <<"stop", "drop", "saveLinks", "saveTables">>
  <2>1. Head(s) = "stop" /\ Tail(s) = <<"drop", "saveLinks", "saveTables">> /\ s # <<>>
    BY <1>1, StepLists
  <2>2. Head(Tail(s)) = "drop"
    BY <2>1, StepLists
  <2> QED BY <2>1, <2>2 DEF DeleteSteps
<1>2. CASE s = <<"drop", "saveLinks", "saveTables">>
  <2>1. Head(s) = "drop" /\ Tail(s) = <<"saveLinks", "saveTables">> /\ s # <<>>
    BY <1>2, StepLists
  <2>2. Head(Tail(s)) = "saveLinks"
    BY <2>1, StepLists
  <2> QED BY <2>1, <2>2 DEF DeleteSteps, SaveSteps
<1>3. CASE s = <<"saveLinks">>
  <2>1. Head(s) = "saveLinks" /\ Tail(s) = <<>> /\ s # <<>>
    BY <1>3, StepLists
  <2> QED BY <2>1
<1>4. CASE s \in SaveSteps
  BY <1>4, SaveStepsLemma DEF DeleteSteps
<1> QED BY <1>1, <1>2, <1>3, <1>4 DEF DeleteSteps

LEMMA LoadStepsLemma ==
    ASSUME NEW s \in LoadSteps
    PROVE  /\ s # <<>> /\ Head(s) \in {"saveLinks", "saveTables"}
           /\ Head(s) = "saveLinks" =>
                Tail(s) = <<>> \/ (Tail(s) \in LoadSteps /\ Head(Tail(s)) = "saveTables")
           /\ Head(s) = "saveTables" => Tail(s) = <<>>
<1>1. CASE s = <<"saveLinks">>
  <2>1. Head(s) = "saveLinks" /\ Tail(s) = <<>> /\ s # <<>>
    BY <1>1, StepLists
  <2> QED BY <2>1
<1>2. CASE s \in SaveSteps
  BY <1>2, SaveStepsLemma DEF LoadSteps
<1> QED BY <1>1, <1>2 DEF LoadSteps

SameCall == mut'.op = mut.op /\ mut'.name = mut.name /\ mut'.arg = mut.arg

\* Where a call is after a step.
LEMMA DoneLemma ==
    ASSUME CallTyped, mut # NoCall, Done
    PROVE  /\ CallTyped'
           /\ mut' = NoCall \/ SameCall
           /\ Head(mut.steps) = "register" => SameCall /\ Head(mut'.steps) = "saveLinks"
           /\ Head(mut.steps) = "rename" => SameCall /\ Head(mut'.steps) = "saveLinks"
           /\ Head(mut.steps) = "saveLinks" =>
                 \/ SameCall /\ Head(mut'.steps) = "saveTables"
                 \/ mut' = NoCall /\ mut.op \in {"delete", "load"}
           /\ Head(mut.steps) = "saveTables" =>
                 \/ SameCall /\ mut.op = "rename" /\ Head(mut'.steps) = "commit"
                 \/ mut' = NoCall /\ mut.op # "rename"
           /\ Head(mut.steps) = "acquire" => SameCall /\ Head(mut'.steps) = "open"
           /\ Head(mut.steps) = "stop" => SameCall /\ Head(mut'.steps) = "drop"
           /\ Head(mut.steps) = "drop" => SameCall /\ Head(mut'.steps) = "saveLinks"
           /\ Head(mut.steps) \in {"commit", "sync", "open"} => mut' = NoCall
<1>1. mut' = IF Tail(mut.steps) = <<>> THEN NoCall ELSE [mut EXCEPT !.steps = Tail(mut.steps)]
  BY DEF Done, Then
<1>2. CASE mut \in [op : {"upsert"}, name : Names, arg : Configs, steps : SaveSteps]
  <2>1. mut.steps \in SaveSteps
    BY <1>2
  <2> QED BY <1>1, <1>2, <2>1, SaveStepsLemma DEF CallTyped, SameCall
<1>3. CASE mut \in [op : {"create"}, name : Names, arg : Configs, steps : CreateSteps]
  <2>1. mut.steps \in CreateSteps
    BY <1>3
  <2>2. Tail(mut.steps) # <<>> => Tail(mut.steps) \in CreateSteps
    BY <2>1, CreateStepsLemma, SaveStepsLemma DEF CreateSteps
  <2>3. Head(mut.steps) = "register" => Tail(mut.steps) # <<>>
    BY <2>1, CreateStepsLemma
  <2>4. Head(mut.steps) = "saveLinks" => Tail(mut.steps) # <<>> /\ Head(Tail(mut.steps)) = "saveTables"
    BY <2>1, CreateStepsLemma, SaveStepsLemma
  <2>5. Head(mut.steps) = "saveTables" => Tail(mut.steps) = <<>>
    BY <2>1, CreateStepsLemma, SaveStepsLemma
  <2>6. /\ Head(mut.steps) \in {"register", "saveLinks", "saveTables"}
        /\ Head(mut.steps) = "register" => Head(Tail(mut.steps)) = "saveLinks"
    BY <2>1, CreateStepsLemma
  <2> QED BY <1>1, <1>3, <2>2, <2>3, <2>4, <2>5, <2>6 DEF CallTyped, SameCall
<1>4. CASE mut \in [op : {"table"}, name : Names, arg : Tables, steps : {<<"sync">>}]
  <2>1. Head(mut.steps) = "sync" /\ Tail(mut.steps) = <<>>
    BY <1>4, StepLists
  <2> QED BY <1>1, <2>1 DEF CallTyped
<1>5. CASE mut \in [op : {"rename"}, name : Names, arg : Names, steps : RenameSteps]
  <2>1. mut.steps \in RenameSteps
    BY <1>5
  <2>2. Head(mut.steps) # "commit" => Tail(mut.steps) \in RenameSteps /\ Tail(mut.steps) # <<>>
    BY <2>1, RenameStepsLemma
  <2>3. /\ Head(mut.steps) \in {"rename", "saveLinks", "saveTables", "commit"}
        /\ Head(mut.steps) = "rename" => Head(Tail(mut.steps)) = "saveLinks"
        /\ Head(mut.steps) = "saveLinks" => Head(Tail(mut.steps)) = "saveTables"
        /\ Head(mut.steps) = "saveTables" => Head(Tail(mut.steps)) = "commit"
        /\ Head(mut.steps) = "commit" => Tail(mut.steps) = <<>>
    BY <2>1, RenameStepsLemma
  <2> QED BY <1>1, <1>5, <2>2, <2>3 DEF CallTyped, SameCall
<1>6. CASE mut \in [op : {"start"}, name : Names, arg : {None}, steps : StartSteps]
  <2>1. mut.steps \in StartSteps
    BY <1>6
  <2>2. Head(mut.steps) = "acquire" => Tail(mut.steps) # <<>>
    BY <2>1, StartStepsLemma
  <2> QED BY <1>1, <1>6, <2>1, <2>2, StartStepsLemma DEF CallTyped, SameCall
<1>7. CASE mut \in [op : {"delete"}, name : Names, arg : {None}, steps : DeleteSteps]
  <2>1. mut.steps \in DeleteSteps
    BY <1>7
  <2>2. Tail(mut.steps) # <<>> => Tail(mut.steps) \in DeleteSteps
    BY <2>1, DeleteStepsLemma
  <2>3. Head(mut.steps) \in {"stop", "drop"} => Tail(mut.steps) # <<>>
    BY <2>1, DeleteStepsLemma
  <2>4. /\ Head(mut.steps) \in {"stop", "drop", "saveLinks", "saveTables"}
        /\ Head(mut.steps) = "stop" => Head(Tail(mut.steps)) = "drop"
        /\ Head(mut.steps) = "drop" => Head(Tail(mut.steps)) = "saveLinks"
        /\ Head(mut.steps) = "saveLinks" /\ Tail(mut.steps) # <<>> =>
              Head(Tail(mut.steps)) = "saveTables"
        /\ Head(mut.steps) = "saveTables" => Tail(mut.steps) = <<>>
    BY <2>1, DeleteStepsLemma
  <2> QED BY <1>1, <1>7, <2>2, <2>3, <2>4 DEF CallTyped, SameCall
<1>8. CASE mut \in [op : {"load"}, name : {None}, arg : {None}, steps : LoadSteps]
  <2>1. mut.steps \in LoadSteps
    BY <1>8
  <2> QED BY <1>1, <1>8, <2>1, LoadStepsLemma DEF CallTyped, SameCall
<1> QED BY <1>2, <1>3, <1>4, <1>5, <1>6, <1>7, <1>8 DEF CallTyped

\* The heads of the steps of each kind of call.
LEMMA CallHeads ==
    ASSUME CallTyped
    PROVE  /\ mut # NoCall => mut.op # "none"
           /\ mut = NoCall => mut.op = "none"
           /\ mut.op \in {"none", "upsert", "create", "table", "rename", "start", "delete", "load"}
           /\ mut.op \in {"upsert", "create", "table", "rename", "start", "delete"} =>
                 mut.name \in Names
           /\ mut.op \in {"upsert", "create"} => mut.arg \in Configs
           /\ mut.op = "table" => mut.arg \in Tables
           /\ mut.op = "rename" => mut.arg \in Names
           /\ mut.op = "upsert" => Head(mut.steps) \in {"saveLinks", "saveTables"}
           /\ mut.op = "create" => Head(mut.steps) \in {"register", "saveLinks", "saveTables"}
           /\ mut.op = "table" => Head(mut.steps) = "sync"
           /\ mut.op = "rename" =>
                 Head(mut.steps) \in {"rename", "saveLinks", "saveTables", "commit"}
           /\ mut.op = "start" => Head(mut.steps) \in {"acquire", "open"}
           /\ mut.op = "delete" => Head(mut.steps) \in {"stop", "drop", "saveLinks", "saveTables"}
           /\ mut.op = "load" => Head(mut.steps) \in {"saveLinks", "saveTables"}
<1>1. CASE mut = NoCall
  BY <1>1 DEF NoCall
<1>2. CASE mut \in [op : {"upsert"}, name : Names, arg : Configs, steps : SaveSteps]
  BY <1>2, SaveStepsLemma DEF NoCall
<1>3. CASE mut \in [op : {"create"}, name : Names, arg : Configs, steps : CreateSteps]
  BY <1>3, CreateStepsLemma DEF NoCall
<1>4. CASE mut \in [op : {"table"}, name : Names, arg : Tables, steps : {<<"sync">>}]
  BY <1>4, StepLists DEF NoCall
<1>5. CASE mut \in [op : {"rename"}, name : Names, arg : Names, steps : RenameSteps]
  BY <1>5, RenameStepsLemma DEF NoCall
<1>6. CASE mut \in [op : {"start"}, name : Names, arg : {None}, steps : StartSteps]
  BY <1>6, StartStepsLemma DEF NoCall
<1>7. CASE mut \in [op : {"delete"}, name : Names, arg : {None}, steps : DeleteSteps]
  BY <1>7, DeleteStepsLemma DEF NoCall
<1>8. CASE mut \in [op : {"load"}, name : {None}, arg : {None}, steps : LoadSteps]
  BY <1>8, LoadStepsLemma DEF NoCall
<1> QED BY <1>1, <1>2, <1>3, <1>4, <1>5, <1>6, <1>7, <1>8 DEF CallTyped

-----------------------------------------------------------------------------
(* Types.                                                                  *)

StructInv ==
    /\ LinksTyped /\ CallTyped /\ CallSound /\ LinksSound
    /\ StopSound /\ ThreadsSound /\ ConnsSound

LEMMA NewCallTyped ==
    ASSUME NEW n \in Names
    PROVE  /\ \A c \in Configs : mut' = Call("upsert", n, c, <<"saveLinks", "saveTables">>) => CallTyped'
           /\ \A c \in Configs :
                mut' = Call("create", n, c, <<"register", "saveLinks", "saveTables">>) => CallTyped'
           /\ \A t \in Tables : mut' = Call("table", n, t, <<"sync">>) => CallTyped'
           /\ \A m \in Names :
                mut' = Call("rename", n, m, <<"rename", "saveLinks", "saveTables", "commit">>) => CallTyped'
           /\ mut' = Call("start", n, None, <<"acquire", "open">>) => CallTyped'
           /\ mut' = Call("delete", n, None, <<"stop", "drop", "saveLinks", "saveTables">>) => CallTyped'
<1> USE DEF CallTyped, Call
<1>1. \A c \in Configs : mut' = Call("upsert", n, c, <<"saveLinks", "saveTables">>) => CallTyped'
  BY DEF SaveSteps
<1>2. \A c \in Configs :
        mut' = Call("create", n, c, <<"register", "saveLinks", "saveTables">>) => CallTyped'
  BY DEF CreateSteps
<1>3. \A t \in Tables : mut' = Call("table", n, t, <<"sync">>) => CallTyped'
  OBVIOUS
<1>4. \A m \in Names :
        mut' = Call("rename", n, m, <<"rename", "saveLinks", "saveTables", "commit">>) => CallTyped'
  BY DEF RenameSteps
<1>5. mut' = Call("start", n, None, <<"acquire", "open">>) => CallTyped'
  BY DEF StartSteps
<1>6. mut' = Call("delete", n, None, <<"stop", "drop", "saveLinks", "saveTables">>) => CallTyped'
  BY DEF DeleteSteps
<1> QED BY <1>1, <1>2, <1>3, <1>4, <1>5, <1>6

LEMMA LinkTyped ==
    ASSUME NEW id \in Ids, NEW c \in Configs, NEW pending \in BOOLEAN, NEW t \in Tables,
           NEW rev \in 1..MaxRev
    PROVE  LET l == Link(id, c, pending, t, rev)
           IN  /\ l \in LinkType /\ l # NoLink /\ l.state # "running" /\ l.bus = None
               /\ l.id = id /\ l.cfg = c /\ l.table = t /\ l.rev = rev
               /\ l.state = "pending" <=> pending
<1>1. 0 \in 0..MaxGen
  BY LinksAssumption
<1> QED BY <1>1 DEF Link, LinkType, NoLink

\* A link that is not there has no number, no configuration and is in no state.
LEMMA LinkShape ==
    ASSUME LinksTyped, NEW n \in Names
    PROVE  /\ Exists(n) <=> links[n] \in LinkType
           /\ Exists(n) <=> links[n].state # "none"
           /\ Running(n) => Exists(n)
           /\ Exists(n) => /\ links[n].id \in Ids /\ links[n].cfg \in Configs
                           /\ links[n].gen \in 0..MaxGen /\ links[n].table \in Tables
                           /\ links[n].rev \in 1..MaxRev /\ links[n].bus \in Configs \cup {None}
                           /\ links[n].state \in {"stopped", "running", "pending"}
<1>1. links[n] \in LinkType \/ links[n] = NoLink
  BY DEF LinksTyped
<1>2. CASE links[n] = NoLink
  <2>1. NoLink.state = "none"
    BY DEF NoLink
  <2>2. NoLink \notin LinkType
    BY <2>1 DEF LinkType
  <2> QED BY <1>2, <2>1, <2>2 DEF Exists, Running
<1>3. CASE links[n] \in LinkType
  <2>1. links[n].state # "none" /\ links[n] # NoLink
    BY <1>3 DEF LinkType, NoLink
  <2> QED BY <1>3, <2>1 DEF Exists, Running, LinkType
<1> QED BY <1>1, <1>2, <1>3

LEMMA RowsTyped ==
    ASSUME NEW ls \in [Names -> LinkType \cup {NoLink}]
    PROVE  /\ LinkRows(ls) \in [Names -> Rows \cup {NoRow}]
           /\ TableRows(ls) \in [Names -> TableRecords \cup {NoTable}]
<1>1. \A n \in Names : ls[n] # NoLink => /\ ls[n].id \in Ids /\ ls[n].cfg \in Configs
                                         /\ ls[n].table \in Tables /\ ls[n].rev \in 1..MaxRev
  BY DEF LinkType
<1> QED BY <1>1 DEF LinkRows, TableRows, Rows, TableRecords

LEMMA RenamedTyped ==
    ASSUME LinksTyped, NEW n \in Names, NEW m \in Names
    PROVE  Renamed(links, n, m) \in [Names -> LinkType \cup {NoLink}]
BY DEF Renamed, LinksTyped

LEMMA ConnsTyped ==
    ASSUME LinksTyped, NEW n \in Names
    PROVE  /\ ConnOf(n) \in Nat
           /\ ConnOf(n) \in Ids => WithConn(n) \in DcRecords /\ WithConn(n).conns[n] = ConnOf(n)
           /\ WithConn(n).tags = dc.tags /\ WithConn(n).comm = dc.comm
           /\ \A m \in Names : m # n => WithConn(n).conns[m] = dc.conns[m]
           /\ \A m \in Names : dc.conns[m] = 0 =>
                /\ RenamedConn(n, m) \in DcRecords
                /\ RenamedConn(n, m).tags = dc.tags /\ RenamedConn(n, m).comm = dc.comm
                /\ RenamedConn(n, m).next = dc.next
                /\ n # m => RenamedConn(n, m).conns[n] = 0 /\ RenamedConn(n, m).conns[m] = dc.conns[n]
                /\ \A o \in Names \ {n, m} : RenamedConn(n, m).conns[o] = dc.conns[o]
<1>1. /\ dc.conns \in [Names -> 0..MaxId] /\ dc.next \in 1..(MaxId + 1)
      /\ dc \in DcRecords
  BY DEF LinksTyped, DcRecords
<1>2. ConnOf(n) \in Nat
  BY <1>1, LinksAssumption DEF ConnOf
<1>3. ConnOf(n) \in Ids => WithConn(n) \in DcRecords /\ WithConn(n).conns[n] = ConnOf(n)
  <2>1. CASE dc.conns[n] # 0
    BY <1>1, <2>1 DEF ConnOf, WithConn
  <2>2. CASE dc.conns[n] = 0
    <3>1. SUFFICES ASSUME dc.next \in 1..MaxId
                   PROVE  WithConn(n) \in DcRecords /\ WithConn(n).conns[n] = dc.next
      BY <2>2 DEF ConnOf, Ids
    <3>2. dc.next + 1 \in 1..(MaxId + 1) /\ dc.next \in 0..MaxId
      BY <3>1, LinksAssumption
    <3>3. [dc.conns EXCEPT ![n] = dc.next] \in [Names -> 0..MaxId]
      BY <1>1, <3>2
    <3>4. WithConn(n) = [dc EXCEPT !.conns = [dc.conns EXCEPT ![n] = dc.next], !.next = dc.next + 1]
      BY <1>1, <2>2 DEF WithConn, DcRecords
    <3> QED BY <1>1, <3>2, <3>3, <3>4 DEF DcRecords
  <2> QED BY <2>1, <2>2
<1>4. /\ WithConn(n).tags = dc.tags /\ WithConn(n).comm = dc.comm
      /\ \A m \in Names : m # n => WithConn(n).conns[m] = dc.conns[m]
  BY <1>1 DEF WithConn, DcRecords
<1>5. ASSUME NEW m \in Names, dc.conns[m] = 0
      PROVE  /\ RenamedConn(n, m) \in DcRecords
             /\ RenamedConn(n, m).tags = dc.tags /\ RenamedConn(n, m).comm = dc.comm
             /\ RenamedConn(n, m).next = dc.next
             /\ n # m => RenamedConn(n, m).conns[n] = 0 /\ RenamedConn(n, m).conns[m] = dc.conns[n]
             /\ \A o \in Names \ {n, m} : RenamedConn(n, m).conns[o] = dc.conns[o]
  <2>1. dc.conns[m] + dc.conns[n] = dc.conns[n] /\ dc.conns[n] \in 0..MaxId /\ 0 \in 0..MaxId
    BY <1>1, <1>5, LinksAssumption
  <2> QED BY <1>1, <2>1 DEF RenamedConn, DcRecords
<1> QED BY <1>2, <1>3, <1>4, <1>5

-----------------------------------------------------------------------------
(* LoadPersistedConfig.                                                    *)

\* New connections get the next numbers, one each.
LEMMA FreshIds ==
    ASSUME NEW S \in SUBSET Names, NEW ids \in [S -> Nat], NEW from \in Nat \ {0},
           {ids[n] : n \in S} = from .. (from + Cardinality(S) - 1)
    PROVE  /\ Cardinality(S) \in Nat
           /\ \A n, m \in S : ids[n] = ids[m] => n = m
           /\ \A n \in S : from <= ids[n] /\ ids[n] < from + Cardinality(S)
           /\ S # {} => \E n \in S : ids[n] = from + Cardinality(S) - 1
           /\ S = {} => Cardinality(S) = 0
<1>1. IsFiniteSet(S)
  BY LinksAssumption, FS_Subset
<1>2. Cardinality(S) \in Nat
  BY <1>1, FS_CardinalityType
<1> DEFINE T == from .. (from + Cardinality(S) - 1)
<1>3. Cardinality(T) = Cardinality(S)
  BY <1>2, FS_Interval
<1>4. ids \in Surjection(S, T)
  <2>1. \A n \in S : ids[n] \in T
    OBVIOUS
  <2>2. \A t \in T : \E n \in S : ids[n] = t
    OBVIOUS
  <2> HIDE DEF T
  <2>3. ids \in [S -> T]
    BY <2>1
  <2> QED BY <2>2, <2>3 DEF Surjection
<1> HIDE DEF T
<1>5. ids \in Injection(S, T)
  BY <1>1, <1>3, <1>4, FS_SurjSameCardinalityImpliesInj
<1>6. \A n, m \in S : ids[n] = ids[m] => n = m
  BY <1>5 DEF Injection, IsInjective
<1>7. \A n \in S : from <= ids[n] /\ ids[n] < from + Cardinality(S)
  <2>1. \A n \in S : ids[n] \in from .. (from + Cardinality(S) - 1)
    OBVIOUS
  <2> QED BY <1>2, <2>1
<1>8. S = {} <=> Cardinality(S) = 0
  BY <1>1, FS_EmptySet
<1>9. S # {} => \E n \in S : ids[n] = from + Cardinality(S) - 1
  <2>1. S # {} => from + Cardinality(S) - 1 \in from .. (from + Cardinality(S) - 1)
    BY <1>2, <1>8
  <2> QED BY <2>1
<1> QED BY <1>2, <1>6, <1>7, <1>8, <1>9

\* What a load makes of the links that are found with their connection.
Loaded(found, untagged, ids) ==
    /\ up' = TRUE /\ todo' = found
    /\ buses' = buses /\ poll' = poll /\ writer' = writer /\ commands' = commands
    /\ stop' = stop /\ disk' = disk
    /\ \A n \in found : /\ links'[n] = Link(ids[n], disk.links[n].cfg, disk.links[n].pending,
                                            SavedTable(n).table, SavedTable(n).rev)
                        /\ dc'.conns[n] = ids[n]
    /\ \A n \in Names \ found : links'[n] = NoLink /\ dc'.conns[n] = dc.conns[n]
    /\ \A n, m \in found : ids[n] = ids[m] => n = m
    /\ \A n \in found \ untagged : /\ dc'.tags[ids[n]] = SavedTable(n).table
                                   /\ dc'.comm[ids[n]] = "stopped"
    /\ muted' = {ids[n] : n \in untagged}
    /\ ~askew' => untagged = {}
    /\ mut' = NoCall \/ mut'.op = "load"
    /\ mut' = NoCall \/ Head(mut'.steps) # "saveLinks" =>
          \A n \in found : ids[n] = disk.links[n].id

LEMMA SavedTyped ==
    ASSUME LinksTyped
    PROVE  /\ \A n \in Saved : disk.links[n] \in Rows
           /\ \A n \in Names : SavedTable(n) \in TableRecords
<1>1. \A n \in Names : /\ disk.links[n] \in Rows \cup {NoRow}
                       /\ disk.tables[n] \in TableRecords \cup {NoTable}
  BY DEF LinksTyped, DiskRecords
<1>2. [table |-> {}, rev |-> 1] \in TableRecords
  BY LinksAssumption DEF TableRecords
<1> QED BY <1>1, <1>2 DEF Saved, SavedTable

LEMMA LoadLemma ==
    ASSUME LinksTyped, ConnsSound, LoadPersistedConfig
    PROVE  /\ LinksTyped' /\ CallTyped' /\ ConnsSound'
           /\ \E found \in SUBSET Saved : \E untagged \in SUBSET found : \E ids \in [found -> Ids] :
                 Loaded(found, untagged, ids)
<1>0. PICK out \in SUBSET Saved :
         \E untagged \in SUBSET (Saved \ out), ids \in [Saved \ out -> Ids] :
            /\ Faults(Cardinality(out) + Cardinality(untagged))
            /\ ConnsGiven(Saved \ out, ids)
            /\ InstallLinks(Saved \ out, untagged, ids)
            /\ askew' = (out \cup untagged # {})
  BY Zenon DEF LoadPersistedConfig
<1>1. PICK untagged \in SUBSET (Saved \ out), ids \in [Saved \ out -> Ids] :
         /\ ConnsGiven(Saved \ out, ids)
         /\ InstallLinks(Saved \ out, untagged, ids)
         /\ askew' = (out \cup untagged # {})
  BY <1>0, Zenon
<1> DEFINE found == Saved \ out
           fresh == {n \in found : dc.conns[n] = 0}
<1>2. /\ up' = TRUE /\ UNCHANGED <<buses, threadVars, stop, disk>>
      /\ found \in SUBSET Saved /\ untagged \in SUBSET found /\ ids \in [found -> Ids]
      /\ Saved \subseteq Names
  BY DEF LoadPersistedConfig, Saved
<1>3. /\ \A n \in found \ fresh : ids[n] = dc.conns[n]
      /\ {ids[n] : n \in fresh} = dc.next .. (dc.next + Cardinality(fresh) - 1)
  BY <1>1 DEF ConnsGiven
<1>4. /\ \A n \in Saved : disk.links[n] \in Rows
      /\ \A n \in Names : SavedTable(n) \in TableRecords
  BY SavedTyped
<1>5. /\ dc.conns \in [Names -> 0..MaxId] /\ dc.next \in 1..(MaxId + 1) /\ MaxId \in Nat
      /\ dc.tags \in [Ids -> SUBSET UNION Tables]
      /\ dc.comm \in [Ids -> {"none", "stopped", "unknown", "healthy", "unhealthy"}]
      /\ \A n, m \in Names : dc.conns[n] # 0 /\ dc.conns[n] = dc.conns[m] => n = m
      /\ \A n \in Names : dc.conns[n] < dc.next
  BY LinksAssumption DEF LinksTyped, DcRecords, ConnsSound
<1>6. /\ links' = [n \in Names |->
             IF n \in found THEN Link(ids[n], disk.links[n].cfg, disk.links[n].pending,
                                      SavedTable(n).table, SavedTable(n).rev)
             ELSE NoLink]
      /\ dc'.conns = [n \in Names |-> IF n \in found THEN ids[n] ELSE dc.conns[n]]
      /\ dc'.tags = [i \in Ids |-> IF \E n \in found \ untagged : ids[n] = i
                          THEN SavedTable(CHOOSE n \in found : ids[n] = i).table ELSE dc.tags[i]]
      /\ dc'.comm = [i \in Ids |-> IF \E n \in found \ untagged : ids[n] = i
                                   THEN "stopped" ELSE dc.comm[i]]
      /\ dc'.next = dc.next + Cardinality(fresh)
      /\ dc' = [conns |-> dc'.conns, tags |-> dc'.tags, comm |-> dc'.comm, next |-> dc'.next]
      /\ muted' = {ids[n] : n \in untagged}
      /\ todo' = found
  BY <1>1, Zenon DEF InstallLinks
<1>7. /\ mut' = NoCall \/ mut' \in [op : {"load"}, name : {None}, arg : {None}, steps : LoadSteps]
      /\ mut' = NoCall \/ Head(mut'.steps) # "saveLinks" =>
            \A n \in found : ids[n] = disk.links[n].id
  <2> DEFINE moved == \E n \in found : ids[n] # disk.links[n].id
             orphans == \E n \in Names \ found :
                           disk.tables[n] # NoTable /\ (n \in Saved => disk.tables[n].table = {})
  <2>1. mut' = CASE moved /\ orphans -> Call("load", None, None, <<"saveLinks", "saveTables">>)
                 [] moved /\ ~orphans -> Call("load", None, None, <<"saveLinks">>)
                 [] ~moved /\ orphans -> Call("load", None, None, <<"saveTables">>)
                 [] OTHER -> NoCall
    BY <1>1, Zenon DEF InstallLinks
  <2>2. moved \/ \A n \in found : ids[n] = disk.links[n].id
    OBVIOUS
  <2> HIDE DEF moved, orphans
  <2>3. CASE moved
    <3>1. \/ mut' = Call("load", None, None, <<"saveLinks", "saveTables">>)
          \/ mut' = Call("load", None, None, <<"saveLinks">>)
      BY <2>1, <2>3
    <3>2. PICK s \in {<<"saveLinks", "saveTables">>, <<"saveLinks">>} : mut' = Call("load", None, None, s)
      BY <3>1
    <3>3. s \in LoadSteps /\ Head(s) = "saveLinks"
      BY <3>2, StepLists DEF LoadSteps, SaveSteps
    <3>4. mut'.op = "load" /\ mut'.steps = s
      BY <3>2 DEF Call
    <3> QED BY <3>2, <3>3, <3>4 DEF Call, NoCall
  <2>4. CASE ~moved
    <3>1. mut' = NoCall \/ mut' = Call("load", None, None, <<"saveTables">>)
      BY <2>1, <2>4
    <3>2. <<"saveTables">> \in LoadSteps
      BY DEF LoadSteps, SaveSteps
    <3> QED BY <2>2, <2>4, <3>1, <3>2 DEF Call
  <2> QED BY <2>3, <2>4
<1> HIDE DEF found, fresh
<1>8. /\ Cardinality(fresh) \in Nat
      /\ \A n, m \in fresh : ids[n] = ids[m] => n = m
      /\ \A n \in fresh : dc.next <= ids[n] /\ ids[n] < dc.next + Cardinality(fresh)
      /\ fresh # {} => \E n \in fresh : ids[n] = dc.next + Cardinality(fresh) - 1
      /\ fresh = {} => Cardinality(fresh) = 0
  <2>1. fresh \in SUBSET Names /\ fresh \subseteq found
    BY <1>2 DEF fresh
  <2> DEFINE jds == [n \in fresh |-> ids[n]]
  <2>2. jds \in [fresh -> Nat] /\ \A n \in fresh : jds[n] = ids[n]
    BY <1>2, <2>1 DEF Ids
  <2>3. {jds[n] : n \in fresh} = dc.next .. (dc.next + Cardinality(fresh) - 1)
    BY <1>3, <2>2
  <2>4. dc.next \in Nat \ {0}
    BY <1>5
  <2> HIDE DEF jds
  <2>5. /\ Cardinality(fresh) \in Nat
        /\ \A n, m \in fresh : jds[n] = jds[m] => n = m
        /\ \A n \in fresh : dc.next <= jds[n] /\ jds[n] < dc.next + Cardinality(fresh)
        /\ fresh # {} => \E n \in fresh : jds[n] = dc.next + Cardinality(fresh) - 1
        /\ fresh = {} => Cardinality(fresh) = 0
    BY <2>1, <2>2, <2>3, <2>4, FreshIds
  <2> QED BY <2>2, <2>5
<1>9. \A n \in found : n \in fresh <=> dc.conns[n] = 0
  BY DEF fresh
<1>10. \A n \in found : ids[n] \in 1..MaxId /\ ids[n] < dc.next + Cardinality(fresh)
  <2>1. \A n \in found : ids[n] \in 1..MaxId
    BY <1>2 DEF Ids
  <2> QED BY <1>2, <1>3, <1>5, <1>8, <1>9, <2>1
<1>11. \A n, m \in found : ids[n] = ids[m] => n = m
  <2> SUFFICES ASSUME NEW n \in found, NEW m \in found, ids[n] = ids[m] PROVE n = m
    OBVIOUS
  <2>1. n \in Names /\ m \in Names
    BY <1>2
  <2>2. CASE n \in fresh /\ m \in fresh
    BY <1>8, <2>2
  <2>3. CASE n \in fresh /\ m \notin fresh
    BY <1>3, <1>5, <1>8, <2>1, <2>3
  <2>4. CASE n \notin fresh /\ m \in fresh
    BY <1>3, <1>5, <1>8, <2>1, <2>4
  <2>5. CASE n \notin fresh /\ m \notin fresh
    BY <1>3, <1>5, <1>9, <2>1, <2>5
  <2> QED BY <2>2, <2>3, <2>4, <2>5
<1>12. dc'.next \in 1..(MaxId + 1)
  <2>1. CASE fresh = {}
    BY <1>5, <1>6, <1>8, <2>1
  <2>2. CASE fresh # {}
    <3>1. PICK n \in fresh : ids[n] = dc.next + Cardinality(fresh) - 1
      BY <1>8, <2>2
    <3>2. n \in found
      BY DEF fresh
    <3> QED BY <1>5, <1>6, <1>8, <1>10, <3>1, <3>2
  <2> QED BY <2>1, <2>2
<1>13. ConnsSound'
  <2>1. \A n \in Names : dc'.conns[n] = IF n \in found THEN ids[n] ELSE dc.conns[n]
    BY <1>6
  <2>2. \A n \in Names : dc'.conns[n] < dc'.next
    BY <1>5, <1>6, <1>8, <1>10, <2>1
  <2>3. ASSUME NEW n \in Names, NEW m \in Names, dc'.conns[n] # 0, dc'.conns[n] = dc'.conns[m]
        PROVE  n = m
    <3>1. CASE n \in found /\ m \in found
      BY <1>11, <2>1, <2>3, <3>1
    <3>2. CASE n \in found /\ m \notin found
      <4>1. ids[n] = dc.conns[m]
        BY <2>1, <2>3, <3>2
      <4>2. n \notin fresh
        BY <1>5, <1>8, <4>1
      <4> QED BY <1>3, <1>5, <1>9, <3>2, <4>1, <4>2
    <3>3. CASE n \notin found /\ m \in found
      <4>1. ids[m] = dc.conns[n]
        BY <2>1, <2>3, <3>3
      <4>2. m \notin fresh
        BY <1>5, <1>8, <4>1
      <4> QED BY <1>3, <1>5, <1>9, <3>3, <4>1, <4>2
    <3>4. CASE n \notin found /\ m \notin found
      BY <1>5, <2>1, <2>3, <3>4
    <3> QED BY <3>1, <3>2, <3>3, <3>4
  <2> QED BY <2>2, <2>3 DEF ConnsSound
<1>14. \A n \in found \ untagged : /\ dc'.tags[ids[n]] = SavedTable(n).table
                                   /\ dc'.comm[ids[n]] = "stopped"
  <2> SUFFICES ASSUME NEW n \in found \ untagged
               PROVE  dc'.tags[ids[n]] = SavedTable(n).table /\ dc'.comm[ids[n]] = "stopped"
    OBVIOUS
  <2>1. ids[n] \in Ids
    BY <1>2
  <2>2. (CHOOSE m \in found : ids[m] = ids[n]) = n
    BY <1>11
  <2> QED BY <1>6, <2>1, <2>2
<1>15. LinksTyped'
  <2>1. links' \in [Names -> LinkType \cup {NoLink}]
    <3>1. \A n \in found : Link(ids[n], disk.links[n].cfg, disk.links[n].pending,
                                SavedTable(n).table, SavedTable(n).rev) \in LinkType
      <4> SUFFICES ASSUME NEW n \in found
                   PROVE  Link(ids[n], disk.links[n].cfg, disk.links[n].pending,
                               SavedTable(n).table, SavedTable(n).rev) \in LinkType
        OBVIOUS
      <4>1. /\ ids[n] \in Ids /\ disk.links[n].cfg \in Configs /\ disk.links[n].pending \in BOOLEAN
            /\ SavedTable(n).table \in Tables /\ SavedTable(n).rev \in 1..MaxRev
        BY <1>2, <1>4 DEF Rows, TableRecords
      <4> QED BY <4>1, LinkTyped
    <3> QED BY <1>6, <3>1
  <2>2. dc' \in DcRecords
    <3>1. dc'.conns \in [Names -> 0..MaxId]
      BY <1>5, <1>6, <1>10
    <3>2. dc'.tags \in [Ids -> SUBSET UNION Tables]
      <4>1. \A i \in Ids : (\E n \in found \ untagged : ids[n] = i) =>
               SavedTable(CHOOSE n \in found : ids[n] = i).table \in SUBSET UNION Tables
        <5> SUFFICES ASSUME NEW i \in Ids, NEW n \in found \ untagged, ids[n] = i
                     PROVE  SavedTable(CHOOSE m \in found : ids[m] = i).table \in SUBSET UNION Tables
          OBVIOUS
        <5>1. (CHOOSE m \in found : ids[m] = i) \in found
          OBVIOUS
        <5>2. \A m \in found : SavedTable(m).table \in Tables
          BY <1>2, <1>4 DEF TableRecords
        <5>3. SavedTable(CHOOSE m \in found : ids[m] = i).table \in Tables
          BY <5>1, <5>2
        <5> QED BY <5>3
      <4> QED BY <1>5, <1>6, <4>1
    <3>3. dc'.comm \in [Ids -> {"none", "stopped", "unknown", "healthy", "unhealthy"}]
      BY <1>5, <1>6
    <3> QED BY <1>6, <1>12, <3>1, <3>2, <3>3 DEF DcRecords
  <2>3. todo' \subseteq Names /\ muted' \subseteq Ids /\ askew' \in BOOLEAN
    BY <1>1, <1>2, <1>6
  <2> QED BY <1>2, <2>1, <2>2, <2>3 DEF LinksTyped, threadVars
<1>16. CallTyped'
  BY <1>7 DEF CallTyped
<1>17. Loaded(found, untagged, ids)
  <2>1. \A n \in found : /\ links'[n] = Link(ids[n], disk.links[n].cfg, disk.links[n].pending,
                                             SavedTable(n).table, SavedTable(n).rev)
                         /\ dc'.conns[n] = ids[n]
    BY <1>2, <1>6
  <2>2. \A n \in Names \ found : links'[n] = NoLink /\ dc'.conns[n] = dc.conns[n]
    BY <1>6
  <2>3. ~askew' => untagged = {}
    BY <1>1
  <2>4. mut' = NoCall \/ mut'.op = "load"
    BY <1>7
  <2> QED BY <1>2, <1>6, <1>7, <1>11, <1>14, <2>1, <2>2, <2>3, <2>4 DEF Loaded, threadVars
<1> QED BY <1>2, <1>13, <1>15, <1>16, <1>17

-----------------------------------------------------------------------------
(* Each action keeps the types.                                            *)

LEMMA AbortLemma == ASSUME Abort PROVE mut' = NoCall /\ CallTyped'
BY DEF Abort, Then, CallTyped

\* What a stop changes: the link is stopped and has no bus, and the thread that
\* writes its commands is told to end.
Stopped(n, by) ==
    /\ Exists(n) /\ n \in Names
    /\ stop' = [at |-> "writers", by |-> by, name |-> n, id |-> links[n].id,
                gen |-> links[n].gen + 1, key |-> links[n].cfg, held |-> links[n].bus # None]
    /\ \A m \in Names : m # n => links'[m] = links[m] /\ writer'[m] = writer[m]
    /\ links'[n].state = IF Running(n) THEN "stopped" ELSE links[n].state
    /\ links'[n].bus = None /\ links'[n].gen = links[n].gen + 1
    /\ links'[n].id = links[n].id /\ links'[n].cfg = links[n].cfg
    /\ links'[n].table = links[n].table /\ links'[n].rev = links[n].rev
    /\ writer'[n] = NoWriter <=> writer[n] = NoWriter
    /\ writer[n] # NoWriter => writer'[n].key = writer[n].key

LEMMA BeginStopLemma ==
    ASSUME LinksTyped, NEW n \in Names, NEW by \in {"call", "delete"}, BeginStop(n, by)
    PROVE  /\ links' \in [Names -> LinkType \cup {NoLink}]
           /\ writer' \in [Names -> WriterRecords \cup {NoWriter}]
           /\ stop' \in StopRecords
           /\ Stopped(n, by)
<1>1. /\ Exists(n) /\ links[n].gen < MaxGen
      /\ stop' = [at |-> "writers", by |-> by, name |-> n, id |-> links[n].id,
                  gen |-> links[n].gen + 1, key |-> links[n].cfg, held |-> links[n].bus # None]
      /\ links' = [links EXCEPT ![n].state = IF @ = "running" THEN "stopped" ELSE @,
                                ![n].bus = None, ![n].gen = @ + 1]
      /\ writer' = IF writer[n] = NoWriter THEN writer
                   ELSE [writer EXCEPT ![n].pending = FALSE, ![n].quit = TRUE]
  BY DEF BeginStop
<1>2. links[n] \in LinkType /\ links[n].id \in Ids /\ links[n].cfg \in Configs
      /\ links[n].gen \in 0..MaxGen /\ MaxGen \in Nat
      /\ links[n].state \in {"stopped", "running", "pending"}
      /\ links[n].table \in Tables /\ links[n].rev \in 1..MaxRev
  BY <1>1, LinkShape, LinksAssumption
<1> DEFINE l == [state |-> IF links[n].state = "running" THEN "stopped" ELSE links[n].state,
                 id |-> links[n].id, cfg |-> links[n].cfg, gen |-> links[n].gen + 1,
                 table |-> links[n].table, rev |-> links[n].rev, bus |-> None]
<1>3. l \in LinkType
  <2>1. links[n].gen + 1 \in 0..MaxGen
    BY <1>1, <1>2
  <2> QED BY <1>2, <2>1 DEF LinkType
<1>4. links' = [links EXCEPT ![n] = l]
  BY <1>1, <1>2 DEF LinkType, LinksTyped
<1>5. links' \in [Names -> LinkType \cup {NoLink}] /\ links'[n] = l
      /\ \A m \in Names : m # n => links'[m] = links[m]
  BY <1>3, <1>4 DEF LinksTyped
<1>6. /\ writer' \in [Names -> WriterRecords \cup {NoWriter}]
      /\ \A m \in Names : m # n => writer'[m] = writer[m]
      /\ writer'[n] = NoWriter <=> writer[n] = NoWriter
      /\ writer[n] # NoWriter => writer'[n].key = writer[n].key
  <2>1. writer \in [Names -> WriterRecords \cup {NoWriter}]
    BY DEF LinksTyped
  <2>2. CASE writer[n] = NoWriter
    BY <1>1, <2>1, <2>2
  <2>3. CASE writer[n] # NoWriter
    <3>1. writer[n] \in WriterRecords
      BY <2>1, <2>3
    <3> DEFINE w == [writer[n] EXCEPT !.pending = FALSE, !.quit = TRUE]
    <3>2. writer' = [writer EXCEPT ![n] = w]
      <4>1. writer' = [writer EXCEPT ![n].pending = FALSE, ![n].quit = TRUE]
        BY <1>1, <2>3
      <4> QED BY <2>1, <4>1
    <3>3. w \in WriterRecords /\ w.key = writer[n].key /\ w.at = writer[n].at
      BY <3>1 DEF WriterRecords
    <3>4. w # NoWriter
      BY <3>3 DEF WriterRecords, NoWriter
    <3> HIDE DEF w
    <3> QED BY <2>1, <2>3, <3>2, <3>3, <3>4
  <2> QED BY <2>2, <2>3
<1>7. stop' \in StopRecords
  BY <1>1, <1>2 DEF StopRecords
<1>8. /\ links'[n].state = IF Running(n) THEN "stopped" ELSE links[n].state
      /\ links'[n].bus = None /\ links'[n].gen = links[n].gen + 1
      /\ links'[n].id = links[n].id /\ links'[n].cfg = links[n].cfg
      /\ links'[n].table = links[n].table /\ links'[n].rev = links[n].rev
  BY <1>5 DEF Running
<1> QED BY <1>1, <1>5, <1>6, <1>7, <1>8 DEF Stopped

LEMMA TypesOfLinkCalls ==
    ASSUME StructInv,
           \/ \E n \in Names, c \in Configs : UpsertLink(n, c)
           \/ \E n \in Names, t \in Tables : UpsertPointTable(n, t)
           \/ \E n, m \in Names : RenameLink(n, m)
           \/ \E n \in Names : StartLink(n) \/ AutoStart(n) \/ DeleteLink(n)
    PROVE  LinksTyped' /\ CallTyped'
<1> USE DEF StructInv, threadVars, worldVars, ghosts
<1>1. ASSUME NEW n \in Names, NEW c \in Configs, UpsertLink(n, c)
      PROVE  LinksTyped' /\ CallTyped'
  <2>1. CASE Exists(n)
    <3>1. /\ links' = [links EXCEPT ![n].cfg = c]
          /\ mut' = Call("upsert", n, c, <<"saveLinks", "saveTables">>)
      BY <1>1, <2>1 DEF UpsertLink
    <3>2. links' \in [Names -> LinkType \cup {NoLink}]
      <4>1. links[n] \in LinkType
        BY <2>1, LinkShape
      <4>2. [links[n] EXCEPT !.cfg = c] \in LinkType
        BY <4>1 DEF LinkType
      <4> QED BY <3>1, <4>2 DEF LinksTyped
    <3> QED BY <1>1, <3>1, <3>2, NewCallTyped DEF UpsertLink, LinksTyped
  <2>2. CASE ~Exists(n)
    <3>1. links' = links /\ mut' = Call("create", n, c, <<"register", "saveLinks", "saveTables">>)
      BY <1>1, <2>2 DEF UpsertLink
    <3> QED BY <1>1, <3>1, NewCallTyped DEF UpsertLink, LinksTyped
  <2> QED BY <2>1, <2>2
<1>2. ASSUME NEW n \in Names, NEW t \in Tables, UpsertPointTable(n, t)
      PROVE  LinksTyped' /\ CallTyped'
  <2>1. CASE disk' = disk /\ mut' = mut
    BY <1>2, <2>1 DEF UpsertPointTable, LinksTyped, CallTyped
  <2>2. CASE /\ disk' = [disk EXCEPT !.tables =
                           [TableRows(links) EXCEPT ![n] = [table |-> t, rev |-> links[n].rev + 1]]]
             /\ mut' = Call("table", n, t, <<"sync">>)
    <3>1. links[n].rev + 1 \in 1..MaxRev
      BY <1>2, LinkShape, LinksAssumption DEF UpsertPointTable
    <3>2. [table |-> t, rev |-> links[n].rev + 1] \in TableRecords
      BY <3>1 DEF TableRecords
    <3>3. TableRows(links) \in [Names -> TableRecords \cup {NoTable}]
      BY RowsTyped DEF LinksTyped
    <3>4. [TableRows(links) EXCEPT ![n] = [table |-> t, rev |-> links[n].rev + 1]]
             \in [Names -> TableRecords \cup {NoTable}]
      BY <3>2, <3>3
    <3>5. disk' \in DiskRecords
      BY <2>2, <3>4 DEF LinksTyped, DiskRecords
    <3> QED BY <1>2, <2>2, <3>5, NewCallTyped DEF UpsertPointTable, LinksTyped
  <2> QED BY <1>2, <2>1, <2>2 DEF UpsertPointTable
<1>3. ASSUME NEW n \in Names, NEW m \in Names, RenameLink(n, m)
      PROVE  LinksTyped' /\ CallTyped'
  BY <1>3, NewCallTyped DEF RenameLink, LinksTyped
<1>4. ASSUME NEW n \in Names, StartLink(n) PROVE LinksTyped' /\ CallTyped'
  BY <1>4, NewCallTyped DEF StartLink, LinksTyped
<1>5. ASSUME NEW n \in Names, AutoStart(n) PROVE LinksTyped' /\ CallTyped'
  <2>1. CASE mut' = mut
    BY <1>5, <2>1 DEF AutoStart, LinksTyped, CallTyped
  <2>2. CASE mut' = Call("start", n, None, <<"acquire", "open">>)
    BY <1>5, <2>2, NewCallTyped DEF AutoStart, LinksTyped
  <2> QED BY <1>5, <2>1, <2>2 DEF AutoStart
<1>6. ASSUME NEW n \in Names, DeleteLink(n) PROVE LinksTyped' /\ CallTyped'
  BY <1>6, NewCallTyped DEF DeleteLink, LinksTyped
<1> QED BY <1>1, <1>2, <1>3, <1>4, <1>5, <1>6

LEMMA AtLemma ==
    ASSUME CallTyped, NEW op, NEW step, At(op, step), op # "none"
    PROVE  mut # NoCall /\ mut.op = op /\ Head(mut.steps) = step
BY CallHeads DEF At

LEMMA RegisterTypes ==
    ASSUME LinksTyped, CallTyped, RegisterLink
    PROVE  /\ mut.op = "create" /\ mut.name \in Names /\ ConnOf(mut.name) \in Ids
           /\ WithConn(mut.name) \in DcRecords
           /\ dc' \in DcRecords /\ dc'.tags = dc.tags
           /\ \A n \in Names : n # mut.name => dc'.conns[n] = dc.conns[n]
           /\ LinksTyped' /\ CallTyped'
           /\ \/ /\ links' = links /\ mut' = NoCall /\ muted' = muted /\ askew' = askew
                 /\ dc' \in {dc, WithConn(mut.name)}
              \/ /\ links' = [links EXCEPT ![mut.name] = Link(ConnOf(mut.name), mut.arg, FALSE, {}, 1)]
                 /\ askew' = (askew \/ dc.tags[ConnOf(mut.name)] # {})
                 /\ SameCall /\ Head(mut'.steps) = "saveLinks"
                 /\ dc'.conns = WithConn(mut.name).conns /\ dc'.next = WithConn(mut.name).next
                 /\ \A i \in Ids : i # ConnOf(mut.name) => dc'.comm[i] = dc.comm[i]
                 /\ \/ /\ dc'.comm[ConnOf(mut.name)] = "stopped"
                       /\ muted' = muted \ {ConnOf(mut.name)}
                    \/ dc'.comm = dc.comm /\ muted' = muted \cup {ConnOf(mut.name)}
<1> USE DEF threadVars, worldVars, ghosts
<1>1. mut # NoCall /\ mut.op = "create" /\ Head(mut.steps) = "register"
  BY AtLemma DEF RegisterLink
<1>2. mut.name \in Names /\ mut.arg \in Configs
  BY <1>1, CallHeads
<1>3. PICK n \in Names : n = mut.name
  BY <1>2
<1>4. PICK i \in Ids : i = ConnOf(n)
  BY <1>3 DEF RegisterLink
<1>5. WithConn(n) \in DcRecords
  BY <1>4, ConnsTyped
<1>6. /\ WithConn(n).tags = dc.tags /\ WithConn(n).comm = dc.comm
      /\ \A m \in Names : m # n => WithConn(n).conns[m] = dc.conns[m]
  BY ConnsTyped
<1>7. dc \in DcRecords
  BY DEF LinksTyped
<1>8. CASE dc' \in {dc, WithConn(n)} /\ Abort /\ UNCHANGED <<links, ghosts>>
  <2>1. mut' = NoCall /\ CallTyped'
    BY <1>8, AbortLemma
  <2>2. dc' \in DcRecords /\ dc'.tags = dc.tags
        /\ \A m \in Names : m # n => dc'.conns[m] = dc.conns[m]
    BY <1>5, <1>6, <1>7, <1>8
  <2>3. LinksTyped'
    BY <1>8, <2>2 DEF LinksTyped, RegisterLink
  <2> QED BY <1>1, <1>3, <1>4, <1>5, <1>8, <2>1, <2>2, <2>3
<1>9. CASE /\ \/ dc' = [WithConn(n) EXCEPT !.comm[i] = "stopped"] /\ muted' = muted \ {i}
              \/ dc' = WithConn(n) /\ muted' = muted \cup {i}
           /\ links' = [links EXCEPT ![n] = Link(i, mut.arg, FALSE, {}, 1)]
           /\ askew' = (askew \/ dc.tags[i] # {})
           /\ Done
  <2>1. CallTyped' /\ SameCall /\ Head(mut'.steps) = "saveLinks"
    BY <1>1, <1>9, DoneLemma
  <2>2. Link(i, mut.arg, FALSE, {}, 1) \in LinkType
    <3>1. 1 \in 1..MaxRev /\ {} \in Tables /\ FALSE \in BOOLEAN
      BY LinksAssumption
    <3> QED BY <1>2, <3>1, LinkTyped
  <2>3. links' \in [Names -> LinkType \cup {NoLink}]
    BY <1>9, <2>2 DEF LinksTyped
  <2>4. /\ dc' \in DcRecords /\ dc'.tags = dc.tags
        /\ dc'.conns = WithConn(n).conns /\ dc'.next = WithConn(n).next
        /\ \A j \in Ids : j # i => dc'.comm[j] = dc.comm[j]
        /\ \/ dc'.comm[i] = "stopped" /\ muted' = muted \ {i}
           \/ dc'.comm = dc.comm /\ muted' = muted \cup {i}
    <3>1. CASE dc' = WithConn(n) /\ muted' = muted \cup {i}
      BY <1>5, <1>6, <3>1
    <3>2. CASE dc' = [WithConn(n) EXCEPT !.comm[i] = "stopped"] /\ muted' = muted \ {i}
      BY <1>5, <1>6, <3>2 DEF DcRecords
    <3> QED BY <1>9, <3>1, <3>2
  <2>5. muted' \subseteq Ids /\ askew' \in BOOLEAN
    BY <1>9 DEF LinksTyped
  <2>6. LinksTyped'
    BY <2>3, <2>4, <2>5 DEF LinksTyped, RegisterLink
  <2> QED BY <1>1, <1>3, <1>4, <1>5, <1>6, <1>9, <2>1, <2>4, <2>6
<1> QED BY <1>3, <1>4, <1>8, <1>9 DEF RegisterLink

LEMMA SyncTypes ==
    ASSUME LinksTyped, CallTyped, CallSound, SyncTags
    PROVE  /\ LinksTyped' /\ mut' = NoCall
           /\ mut.op = "table" /\ mut.name \in Names /\ mut.arg \in Tables /\ Exists(mut.name)
           /\ dc'.conns = dc.conns /\ dc'.comm = dc.comm /\ dc'.next = dc.next
           /\ \A n \in Names : n # mut.name => links'[n] = links[n]
           /\ LET n == mut.name IN
                /\ links'[n].state = links[n].state /\ links'[n].bus = links[n].bus
                /\ links'[n].id = links[n].id /\ links'[n].cfg = links[n].cfg
                /\ links'[n].gen = links[n].gen
                /\ \/ /\ links'[n].table = mut.arg /\ links'[n].rev = links[n].rev + 1
                      /\ disk' = disk /\ askew' = askew
                      /\ dc'.tags = [dc.tags EXCEPT ![links[n].id] = mut.arg]
                   \/ /\ links' = links
                      /\ \/ askew' = (askew \/ dc' # dc) /\ disk' = [disk EXCEPT !.tables = TableRows(links)]
                         \/ askew' = TRUE /\ disk' = disk
<1> USE DEF threadVars, worldVars, ghosts
<1>1. mut # NoCall /\ mut.op = "table" /\ Head(mut.steps) = "sync"
  BY AtLemma DEF SyncTags
<1>2. PICK n \in Names : n = mut.name
  BY <1>1, CallHeads
<1>3. PICK t \in Tables : t = mut.arg
  BY <1>1, CallHeads
<1>4. Exists(n) /\ links[n].rev < MaxRev
  BY <1>1, <1>2 DEF CallSound
<1>5. links[n] \in LinkType /\ links[n].id \in Ids /\ links[n].rev \in 1..MaxRev
  BY <1>4, LinkShape
<1>6. mut' = NoCall
  BY <1>1, DoneLemma DEF SyncTags
<1> DEFINE synced == [dc EXCEPT !.tags[links[n].id] = t]
<1>7. synced \in DcRecords /\ synced.conns = dc.conns /\ synced.comm = dc.comm
      /\ synced.next = dc.next /\ synced.tags = [dc.tags EXCEPT ![links[n].id] = t]
  <2>1. t \in SUBSET UNION Tables
    OBVIOUS
  <2> QED BY <1>5, <2>1 DEF LinksTyped, DcRecords
<1>8. dc \in DcRecords /\ disk \in DiskRecords
  BY DEF LinksTyped
<1>9. CASE /\ links' = [links EXCEPT ![n].table = t, ![n].rev = @ + 1]
           /\ dc' = synced /\ UNCHANGED <<disk, askew, left>>
  <2> DEFINE l == [links[n] EXCEPT !.table = t, !.rev = @ + 1]
  <2>1. links' = [links EXCEPT ![n] = l]
    BY <1>9 DEF LinksTyped
  <2>2. l \in LinkType
    <3>1. links[n].rev + 1 \in 1..MaxRev
      BY <1>4, <1>5, LinksAssumption
    <3> QED BY <1>5, <3>1 DEF LinkType
  <2>3. /\ l.state = links[n].state /\ l.bus = links[n].bus /\ l.id = links[n].id
        /\ l.cfg = links[n].cfg /\ l.gen = links[n].gen /\ l.table = t
        /\ l.rev = links[n].rev + 1
    BY <1>5 DEF LinkType
  <2> HIDE DEF l
  <2>4. /\ links' \in [Names -> LinkType \cup {NoLink}] /\ links'[n] = l
        /\ \A m \in Names : m # n => links'[m] = links[m]
    BY <2>1, <2>2 DEF LinksTyped
  <2>5. LinksTyped'
    BY <1>7, <1>9, <2>4 DEF LinksTyped, SyncTags
  <2> QED BY <1>1, <1>2, <1>3, <1>4, <1>6, <1>7, <1>9, <2>3, <2>4, <2>5
<1>10. CASE /\ dc' \in {dc, synced}
            /\ UNCHANGED links
            /\ \/ /\ disk' = [disk EXCEPT !.tables = TableRows(links)]
                  /\ askew' = (askew \/ dc' # dc)
               \/ askew' = TRUE /\ UNCHANGED disk
  <2>1. disk' \in DiskRecords
    BY <1>8, <1>10, RowsTyped DEF LinksTyped, DiskRecords
  <2>2. dc' \in DcRecords /\ dc'.conns = dc.conns /\ dc'.comm = dc.comm /\ dc'.next = dc.next
    BY <1>7, <1>8, <1>10
  <2>3. LinksTyped'
    BY <1>10, <2>1, <2>2 DEF LinksTyped, SyncTags
  <2> QED BY <1>1, <1>2, <1>3, <1>4, <1>6, <1>10, <2>2, <2>3
<1> QED BY <1>2, <1>3, <1>9, <1>10 DEF SyncTags

\* Whether DataCenter renames the connection, or it was renamed before.
CanRename(n, m) == dc.conns[n] # 0 /\ dc.conns[m] = 0
WasRenamed(n, m) == dc.conns[n] = 0 /\ dc.conns[m] = links[n].id

LEMMA RenameConnTypes ==
    ASSUME LinksTyped, CallTyped, RenameConn
    PROVE  /\ LinksTyped' /\ CallTyped'
           /\ mut.op = "rename" /\ mut.name \in Names /\ mut.arg \in Names
           /\ links' = links /\ disk' = disk /\ dc'.tags = dc.tags /\ dc'.comm = dc.comm
           /\ \/ dc' = dc /\ mut' = NoCall /\ askew' = askew
              \/ dc' = dc /\ WasRenamed(mut.name, mut.arg) /\ SameCall
                 /\ Head(mut'.steps) = "saveLinks" /\ askew' = askew
              \/ /\ CanRename(mut.name, mut.arg) /\ dc' = RenamedConn(mut.name, mut.arg)
                 /\ \/ /\ dc.conns[mut.name] = links[mut.name].id
                       /\ SameCall /\ Head(mut'.steps) = "saveLinks" /\ askew' = askew
                    \/ mut' = NoCall /\ askew' = TRUE
<1> USE DEF threadVars, worldVars, ghosts
<1>1. mut # NoCall /\ mut.op = "rename" /\ Head(mut.steps) = "rename"
  BY AtLemma DEF RenameConn
<1>2. PICK n \in Names : n = mut.name
  BY <1>1, CallHeads
<1>3. PICK m \in Names : m = mut.arg
  BY <1>1, CallHeads
<1>4. CanRename(n, m) => /\ RenamedConn(n, m) \in DcRecords
                         /\ RenamedConn(n, m).tags = dc.tags /\ RenamedConn(n, m).comm = dc.comm
  BY ConnsTyped DEF CanRename
<1>5. Done => CallTyped' /\ SameCall /\ Head(mut'.steps) = "saveLinks"
  BY <1>1, DoneLemma
<1>6. Abort => CallTyped' /\ mut' = NoCall
  BY AbortLemma
<1>7. /\ \/ /\ CanRename(n, m) /\ dc.conns[n] = links[n].id /\ dc' = RenamedConn(n, m)
            /\ Done /\ askew' = askew
         \/ WasRenamed(n, m) /\ Done /\ dc' = dc /\ askew' = askew
         \/ Abort /\ dc' = dc /\ askew' = askew
         \/ Abort /\ CanRename(n, m) /\ dc' = RenamedConn(n, m) /\ askew' = TRUE
      /\ UNCHANGED <<links, buses, threadVars, stop, todo, disk, up, muted>>
  BY <1>2, <1>3 DEF RenameConn, CanRename, WasRenamed
<1>8. CallTyped'
  BY <1>5, <1>6, <1>7
<1>9. dc' \in DcRecords /\ dc'.tags = dc.tags /\ dc'.comm = dc.comm
  BY <1>4, <1>7 DEF LinksTyped
<1>10. LinksTyped'
  BY <1>7, <1>9 DEF LinksTyped
<1> QED BY <1>1, <1>2, <1>3, <1>5, <1>6, <1>7, <1>8, <1>9, <1>10

LEMMA SaveTypes ==
    ASSUME LinksTyped, CallTyped, CallSound, SaveLinks \/ SaveTables
    PROVE  /\ LinksTyped' /\ CallTyped' /\ links' = links
           /\ mut # NoCall /\ mut.op \in {"upsert", "create", "rename", "delete", "load"}
           /\ Head(mut.steps) \in {"saveLinks", "saveTables"}
           /\ dc'.tags = dc.tags /\ dc'.comm = dc.comm
           /\ disk'.links \in {disk.links, LinkRows(links), LinkRows(Snapshot)}
           /\ \/ dc' = dc
              \/ mut.op = "rename" /\ dc' = RenamedConn(mut.arg, mut.name) /\ mut' = NoCall
           /\ \/ Head(mut.steps) = "saveLinks" /\ disk'.links = LinkRows(Snapshot)
                 /\ disk'.tables = disk.tables /\ Done /\ dc' = dc /\ askew' = askew
              \/ Head(mut.steps) = "saveTables" /\ disk'.tables = TableRows(Snapshot)
                 /\ disk'.links = disk.links /\ Done /\ dc' = dc /\ askew' = askew
              \/ /\ mut.op = "rename" /\ mut' = NoCall /\ dc' = RenamedConn(mut.arg, mut.name)
                 /\ disk'.links = LinkRows(links) /\ disk'.tables = TableRows(links)
                 /\ askew' = askew
              \/ askew' = TRUE
<1> USE DEF threadVars, worldVars, ghosts
<1>1. mut # NoCall /\ Head(mut.steps) \in {"saveLinks", "saveTables"}
  BY DEF SaveLinks, SaveTables
<1>2. mut.op \in {"upsert", "create", "rename", "delete", "load"}
  BY <1>1, CallHeads
<1>3. mut.op = "rename" => /\ mut.name \in Names /\ mut.arg \in Names
                           /\ RenamedConn(mut.arg, mut.name) \in DcRecords
                           /\ RenamedConn(mut.arg, mut.name).tags = dc.tags
                           /\ RenamedConn(mut.arg, mut.name).comm = dc.comm
  <2> SUFFICES ASSUME mut.op = "rename"
               PROVE  /\ mut.name \in Names /\ mut.arg \in Names
                      /\ RenamedConn(mut.arg, mut.name) \in DcRecords
                      /\ RenamedConn(mut.arg, mut.name).tags = dc.tags
                      /\ RenamedConn(mut.arg, mut.name).comm = dc.comm
    OBVIOUS
  <2>1. PICK n \in Names : n = mut.name
    BY CallHeads
  <2>2. PICK m \in Names : m = mut.arg
    BY CallHeads
  <2>3. dc.conns[n] = 0
    BY <1>1, <2>1 DEF CallSound
  <2> QED BY <2>1, <2>2, <2>3, ConnsTyped
<1>4. Snapshot \in [Names -> LinkType \cup {NoLink}]
  BY <1>3, RenamedTyped DEF Snapshot, LinksTyped
<1>5. /\ LinkRows(Snapshot) \in [Names -> Rows \cup {NoRow}]
      /\ TableRows(Snapshot) \in [Names -> TableRecords \cup {NoTable}]
      /\ LinkRows(links) \in [Names -> Rows \cup {NoRow}]
      /\ TableRows(links) \in [Names -> TableRecords \cup {NoTable}]
  BY <1>4, RowsTyped DEF LinksTyped
<1>6. /\ disk.links \in [Names -> Rows \cup {NoRow}]
      /\ disk.tables \in [Names -> TableRecords \cup {NoTable}]
      /\ disk \in DiskRecords /\ dc \in DcRecords
  BY DEF LinksTyped, DiskRecords
<1>7. UNCHANGED <<links, buses, threadVars, stop, todo, up, muted>>
  BY DEF SaveLinks, SaveTables
<1>8. ASSUME SaveFails
      PROVE  /\ CallTyped' /\ dc' \in DcRecords /\ disk' \in DiskRecords /\ askew' \in BOOLEAN
             /\ dc'.tags = dc.tags /\ dc'.comm = dc.comm
             /\ disk'.links \in {disk.links, LinkRows(links)}
             /\ \/ dc' = dc
                \/ mut.op = "rename" /\ dc' = RenamedConn(mut.arg, mut.name) /\ mut' = NoCall
             /\ \/ /\ mut.op = "rename" /\ mut' = NoCall /\ dc' = RenamedConn(mut.arg, mut.name)
                   /\ disk'.links = LinkRows(links) /\ disk'.tables = TableRows(links)
                   /\ askew' = askew
                \/ askew' = TRUE
  <2>1. Abort => CallTyped' /\ mut' = NoCall
    BY AbortLemma
  <2>2. Done => CallTyped'
    BY <1>1, DoneLemma
  <2>3. [links |-> LinkRows(links), tables |-> TableRows(links)] \in DiskRecords
    BY <1>5 DEF DiskRecords
  <2>4. /\ [disk EXCEPT !.links = LinkRows(links)] \in DiskRecords
        /\ [disk EXCEPT !.links = LinkRows(links)].links = LinkRows(links)
    BY <1>5, <1>6 DEF DiskRecords
  <2>5. CASE /\ mut.op = "rename" /\ askew' = askew /\ Abort
             /\ disk' = [links |-> LinkRows(links), tables |-> TableRows(links)]
             /\ dc' = RenamedConn(mut.arg, mut.name)
    BY <1>3, <2>1, <2>3, <2>5 DEF LinksTyped
  <2>6. CASE /\ mut.op = "rename" /\ askew' = TRUE /\ Abort
             /\ dc' \in {dc, RenamedConn(mut.arg, mut.name)}
             /\ disk' \in {disk, [disk EXCEPT !.links = LinkRows(links)],
                          [links |-> LinkRows(links), tables |-> TableRows(links)]}
    <3>1. disk' \in DiskRecords /\ disk'.links \in {disk.links, LinkRows(links)}
      <4>1. CASE disk' = disk
        BY <1>6, <4>1
      <4>2. CASE disk' = [disk EXCEPT !.links = LinkRows(links)]
        BY <2>4, <4>2
      <4>3. CASE disk' = [links |-> LinkRows(links), tables |-> TableRows(links)]
        <5>1. disk'.links = LinkRows(links)
          BY <4>3
        <5> QED BY <2>3, <4>3, <5>1
      <4> QED BY <2>6, <4>1, <4>2, <4>3
    <3>2. CallTyped' /\ mut' = NoCall
      BY <2>1, <2>6
    <3>3. dc' \in DcRecords /\ dc'.tags = dc.tags /\ dc'.comm = dc.comm
      BY <1>3, <1>6, <2>6
    <3> QED BY <2>6, <3>1, <3>2, <3>3
  <2>7. CASE askew' = TRUE /\ (Abort \/ Done) /\ UNCHANGED worldVars
    BY <1>6, <2>1, <2>2, <2>7
  <2> QED BY <1>8, <2>5, <2>6, <2>7 DEF SaveFails
<1>9. CASE SaveFails
  <2>1. LinksTyped'
    BY <1>7, <1>8, <1>9 DEF LinksTyped
  <2> QED BY <1>1, <1>2, <1>7, <1>8, <1>9, <2>1
<1>10. CASE /\ Head(mut.steps) = "saveLinks" /\ disk' = [disk EXCEPT !.links = LinkRows(Snapshot)]
            /\ Done /\ UNCHANGED <<dc, left, askew>>
  <2>1. disk' \in DiskRecords /\ disk'.links = LinkRows(Snapshot) /\ disk'.tables = disk.tables
    BY <1>5, <1>6, <1>10 DEF DiskRecords
  <2>2. CallTyped'
    BY <1>1, <1>10, DoneLemma
  <2>3. LinksTyped'
    BY <1>7, <1>10, <2>1 DEF LinksTyped
  <2> QED BY <1>1, <1>2, <1>7, <1>10, <2>1, <2>2, <2>3
<1>11. CASE /\ Head(mut.steps) = "saveTables" /\ disk' = [disk EXCEPT !.tables = TableRows(Snapshot)]
            /\ Done /\ UNCHANGED <<dc, left, askew>>
  <2>1. disk' \in DiskRecords /\ disk'.tables = TableRows(Snapshot) /\ disk'.links = disk.links
    BY <1>5, <1>6, <1>11 DEF DiskRecords
  <2>2. CallTyped'
    BY <1>1, <1>11, DoneLemma
  <2>3. LinksTyped'
    BY <1>7, <1>11, <2>1 DEF LinksTyped
  <2> QED BY <1>1, <1>2, <1>7, <1>11, <2>1, <2>2, <2>3
<1> QED BY <1>9, <1>10, <1>11 DEF SaveLinks, SaveTables

LEMMA CommitTypes ==
    ASSUME LinksTyped, CallTyped, CallSound, CommitRename
    PROVE  /\ LinksTyped' /\ mut' = NoCall
           /\ At("rename", "commit") /\ mut.name \in Names /\ mut.arg \in Names
           /\ links' = Renamed(links, mut.name, mut.arg)
<1> USE DEF threadVars, worldVars, ghosts
<1>1. mut # NoCall /\ mut.op = "rename" /\ Head(mut.steps) = "commit"
  BY AtLemma DEF CommitRename
<1>2. mut.name \in Names /\ mut.arg \in Names
  BY <1>1, CallHeads
<1>3. mut' = NoCall
  BY <1>1, DoneLemma DEF CommitRename
<1>4. links' \in [Names -> LinkType \cup {NoLink}]
  BY <1>2, RenamedTyped DEF CommitRename
<1>5. LinksTyped'
  BY <1>4 DEF LinksTyped, CommitRename
<1> QED BY <1>1, <1>2, <1>3, <1>5 DEF CommitRename, At

LEMMA AcquireTypes ==
    ASSUME LinksTyped, CallTyped, AcquireBus
    PROVE  /\ LinksTyped' /\ CallTyped' /\ At("start", "acquire") /\ mut.name \in Names
           /\ \/ mut' = NoCall /\ buses' = buses
              \/ /\ SameCall /\ Head(mut'.steps) = "open"
                 /\ Ready(mut.name) /\ links[mut.name].gen < MaxGen
                 /\ buses' = [buses EXCEPT ![links[mut.name].cfg] = @ + 1]
<1> USE DEF threadVars, worldVars, ghosts
<1>1. mut # NoCall /\ mut.op = "start" /\ Head(mut.steps) = "acquire"
  BY AtLemma DEF AcquireBus
<1>2. mut.name \in Names
  BY <1>1, CallHeads
<1>3. Done => CallTyped' /\ SameCall /\ Head(mut'.steps) = "open"
  BY <1>1, DoneLemma
<1>4. Abort => CallTyped' /\ mut' = NoCall
  BY AbortLemma
<1>5. \/ Abort /\ buses' = buses
      \/ Done /\ Ready(mut.name) /\ links[mut.name].gen < MaxGen
         /\ buses' = [buses EXCEPT ![links[mut.name].cfg] = @ + 1]
  BY DEF AcquireBus
<1>6. CallTyped'
  BY <1>3, <1>4, <1>5
<1>7. LinksTyped'
  BY DEF LinksTyped, AcquireBus
<1> QED BY <1>1, <1>2, <1>3, <1>4, <1>5, <1>6, <1>7 DEF At

LEMMA OpenTypes ==
    ASSUME LinksTyped, CallTyped, CallSound, OpenBus
    PROVE  /\ LinksTyped' /\ mut' = NoCall /\ At("start", "open") /\ mut.name \in Names
           /\ Exists(mut.name) /\ links[mut.name].cfg \in Configs
           /\ \A n \in Names : n # mut.name =>
                 links'[n] = links[n] /\ poll'[n] = poll[n] /\ writer'[n] = writer[n]
           /\ LET n == mut.name IN
                \/ /\ links' = links /\ poll' = poll /\ writer' = writer
                   /\ buses' = [buses EXCEPT ![links[n].cfg] = @ - 1]
                \/ /\ links'[n].state = "running" /\ links'[n].bus = links[n].cfg
                   /\ links'[n].id = links[n].id /\ links'[n].cfg = links[n].cfg
                   /\ links'[n].table = links[n].table /\ links'[n].rev = links[n].rev
                   /\ poll'[n].key = links[n].cfg /\ poll'[n].id = links[n].id
                   /\ writer'[n].key = links[n].cfg
                   /\ buses' = buses
<1> USE DEF threadVars, worldVars, ghosts
<1>1. mut # NoCall /\ mut.op = "start" /\ Head(mut.steps) = "open"
  BY AtLemma DEF OpenBus
<1>2. PICK n \in Names : n = mut.name
  BY <1>1, CallHeads
<1>3. mut' = NoCall
  BY <1>1, DoneLemma DEF OpenBus
<1>4. Exists(n) /\ links[n].gen < MaxGen
  BY <1>1, <1>2 DEF CallSound, At, Ready
<1>5. /\ links[n] \in LinkType /\ links[n].id \in Ids /\ links[n].cfg \in Configs
      /\ links[n].gen \in 0..MaxGen /\ MaxGen \in Nat
  BY <1>4, LinkShape, LinksAssumption
<1>6. CASE /\ links' = links /\ poll' = poll /\ writer' = writer
           /\ buses' = [buses EXCEPT ![links[n].cfg] = @ - 1]
  <2>1. LinksTyped'
    BY <1>6 DEF LinksTyped, OpenBus
  <2> QED BY <1>1, <1>2, <1>3, <1>4, <1>5, <1>6, <2>1 DEF At
<1>7. CASE /\ links' = [links EXCEPT ![n].state = "running", ![n].bus = links[n].cfg, ![n].gen = @ + 1]
           /\ poll' = [poll EXCEPT ![n] =
                         [at |-> "hello", id |-> links[n].id, gen |-> links[n].gen + 1,
                          key |-> links[n].cfg, says |-> "unknown", quit |-> FALSE]]
           /\ writer' = [writer EXCEPT ![n] =
                           [at |-> "idle", key |-> links[n].cfg, pending |-> FALSE, quit |-> FALSE]]
           /\ buses' = buses
  <2> DEFINE l == [links[n] EXCEPT !.state = "running", !.bus = links[n].cfg, !.gen = @ + 1]
             p == [at |-> "hello", id |-> links[n].id, gen |-> links[n].gen + 1,
                   key |-> links[n].cfg, says |-> "unknown", quit |-> FALSE]
             w == [at |-> "idle", key |-> links[n].cfg, pending |-> FALSE, quit |-> FALSE]
  <2>1. links' = [links EXCEPT ![n] = l]
    BY <1>7 DEF LinksTyped
  <2>2. links[n].gen + 1 \in 0..MaxGen
    BY <1>4, <1>5
  <2>3. l \in LinkType
    BY <1>5, <2>2 DEF LinkType
  <2>4. /\ l.state = "running" /\ l.bus = links[n].cfg /\ l.id = links[n].id
        /\ l.cfg = links[n].cfg /\ l.table = links[n].table /\ l.rev = links[n].rev
    BY <1>5 DEF LinkType
  <2>5. p \in PollRecords /\ p.key = links[n].cfg /\ p.id = links[n].id
    BY <1>5, <2>2 DEF PollRecords
  <2>6. w \in WriterRecords /\ w.key = links[n].cfg
    BY <1>5 DEF WriterRecords
  <2>7. poll' = [poll EXCEPT ![n] = p] /\ writer' = [writer EXCEPT ![n] = w]
    BY <1>7
  <2> HIDE DEF l, p, w
  <2>8. /\ links' \in [Names -> LinkType \cup {NoLink}] /\ links'[n] = l
        /\ \A m \in Names : m # n => links'[m] = links[m]
    BY <2>1, <2>3 DEF LinksTyped
  <2>9. /\ poll' \in [Names -> PollRecords \cup {NoPoll}] /\ poll'[n] = p
        /\ \A m \in Names : m # n => poll'[m] = poll[m]
    BY <2>5, <2>7 DEF LinksTyped
  <2>10. /\ writer' \in [Names -> WriterRecords \cup {NoWriter}] /\ writer'[n] = w
         /\ \A m \in Names : m # n => writer'[m] = writer[m]
    BY <2>6, <2>7 DEF LinksTyped
  <2>11. LinksTyped'
    BY <2>8, <2>9, <2>10 DEF LinksTyped, OpenBus
  <2> QED BY <1>1, <1>2, <1>3, <1>4, <1>5, <1>7, <2>4, <2>5, <2>6, <2>8, <2>9, <2>10, <2>11 DEF At
<1> QED BY <1>2, <1>6, <1>7 DEF OpenBus

LEMMA StopTypes ==
    ASSUME LinksTyped, CallTyped, \/ \E n \in Names : StopLink(n)
                                  \/ StopForDelete
    PROVE  /\ LinksTyped' /\ CallTyped' /\ LifecycleFree
           /\ poll' = poll /\ commands' = commands /\ buses' = buses
           /\ disk' = disk /\ dc' = dc /\ up' = up /\ askew' = askew /\ muted' = muted
           /\ \/ mut' = mut
              \/ At("delete", "stop") /\ mut.name \in Names /\ SameCall /\ Head(mut'.steps) = "drop"
                 /\ ~Running(mut.name)'
           /\ \/ links' = links /\ stop' = stop /\ writer' = writer
              \/ \E n \in Names, by \in {"call", "delete"} : Stopped(n, by)
<1> USE DEF threadVars, worldVars, ghosts
<1>1. ASSUME NEW n \in Names, StopLink(n)
      PROVE  /\ LinksTyped' /\ CallTyped' /\ mut' = mut
             /\ Stopped(n, "call")
  <2>1. /\ links' \in [Names -> LinkType \cup {NoLink}]
        /\ writer' \in [Names -> WriterRecords \cup {NoWriter}]
        /\ stop' \in StopRecords /\ Stopped(n, "call")
    BY <1>1, BeginStopLemma DEF StopLink
  <2>2. LinksTyped'
    BY <1>1, <2>1 DEF LinksTyped, StopLink
  <2>3. mut' = mut /\ CallTyped'
    BY <1>1 DEF StopLink, CallTyped
  <2> QED BY <2>1, <2>2, <2>3
<1>2. ASSUME StopForDelete
      PROVE  /\ LinksTyped' /\ CallTyped'
             /\ At("delete", "stop") /\ mut.name \in Names /\ SameCall /\ Head(mut'.steps) = "drop"
             /\ ~Running(mut.name)'
             /\ \/ links' = links /\ stop' = stop /\ writer' = writer
                \/ \E n \in Names, by \in {"call", "delete"} : Stopped(n, by)
  <2>1. mut # NoCall /\ mut.op = "delete" /\ Head(mut.steps) = "stop"
    BY <1>2, AtLemma DEF StopForDelete
  <2>2. PICK n \in Names : n = mut.name
    BY <2>1, CallHeads
  <2>3. CallTyped' /\ SameCall /\ Head(mut'.steps) = "drop"
    BY <1>2, <2>1, DoneLemma DEF StopForDelete
  <2>4. mut'.name = n
    BY <2>2, <2>3 DEF SameCall
  <2>5. CASE Exists(n)
    <3>1. BeginStop(n, "delete")
      BY <1>2, <2>2, <2>5 DEF StopForDelete
    <3>2. /\ links' \in [Names -> LinkType \cup {NoLink}]
          /\ writer' \in [Names -> WriterRecords \cup {NoWriter}]
          /\ stop' \in StopRecords /\ Stopped(n, "delete")
      BY <3>1, BeginStopLemma
    <3>3. LinksTyped'
      BY <1>2, <3>2 DEF LinksTyped, StopForDelete
    <3>4. links'[n].state # "running"
      BY <3>2 DEF Stopped, Running
    <3> QED BY <2>1, <2>2, <2>3, <2>4, <3>2, <3>3, <3>4 DEF At, Running
  <2>6. CASE ~Exists(n)
    <3>1. links' = links /\ stop' = stop /\ writer' = writer
      BY <1>2, <2>2, <2>6 DEF StopForDelete
    <3>2. LinksTyped'
      BY <1>2, <3>1 DEF LinksTyped, StopForDelete
    <3>3. ~Running(n)
      BY <2>6, LinkShape
    <3> QED BY <2>1, <2>2, <2>3, <2>4, <3>1, <3>2, <3>3 DEF At, Running
  <2> QED BY <2>5, <2>6
<1> QED BY <1>1, <1>2 DEF StopLink, StopForDelete

LEMMA DropTypes ==
    ASSUME LinksTyped, CallTyped, CallSound, DropConn
    PROVE  /\ LinksTyped' /\ CallTyped'
           /\ At("delete", "drop") /\ mut.name \in Names /\ ~Running(mut.name)
           /\ ~(stop # NoStop /\ stop.by = "delete")
           /\ dc'.tags = dc.tags /\ dc'.comm = dc.comm /\ dc'.next = dc.next
           /\ \A n \in Names : n # mut.name => links'[n] = links[n] /\ dc'.conns[n] = dc.conns[n]
           /\ dc' = dc \/ dc'.conns[mut.name] = 0
           /\ LET n == mut.name IN
                \/ links'[n] = NoLink /\ SameCall /\ Head(mut'.steps) = "saveLinks" /\ askew' = askew
                \/ /\ links' = links /\ ~Exists(n) /\ mut' = NoCall
                   /\ askew' = (askew \/ dc' # dc)
                \/ /\ Exists(n) /\ links'[n].state = "pending" /\ links'[n].bus = links[n].bus
                   /\ links'[n].id = links[n].id /\ links'[n].cfg = links[n].cfg
                   /\ links'[n].table = links[n].table /\ links'[n].rev = links[n].rev
                   /\ SameCall /\ Head(mut'.steps) = "saveLinks"
                   /\ askew' = (askew \/ dc' # dc)
<1> USE DEF threadVars, worldVars, ghosts
<1>1. mut # NoCall /\ mut.op = "delete" /\ Head(mut.steps) = "drop"
  BY AtLemma DEF DropConn
<1>2. PICK n \in Names : n = mut.name
  BY <1>1, CallHeads
<1>3. ~Running(n)
  BY <1>1, <1>2 DEF CallSound, At
<1> DEFINE dropped == [dc EXCEPT !.conns[n] = 0]
<1>4. dc \in DcRecords
  BY DEF LinksTyped
<1>5. /\ dropped \in DcRecords /\ dropped.tags = dc.tags /\ dropped.comm = dc.comm
      /\ dropped.next = dc.next /\ dropped.conns[n] = 0
      /\ \A m \in Names : m # n => dropped.conns[m] = dc.conns[m]
  <2>1. 0 \in 0..MaxId
    BY LinksAssumption
  <2> QED BY <1>4, <2>1 DEF DcRecords
<1>6. mut.name \in Names /\ ~(stop # NoStop /\ stop.by = "delete")
  BY <1>2 DEF DropConn
<1>7. ASSUME dc' \in {dc, dropped}
      PROVE  /\ dc' \in DcRecords
             /\ dc'.tags = dc.tags /\ dc'.comm = dc.comm /\ dc'.next = dc.next
             /\ \A m \in Names : m # n => dc'.conns[m] = dc.conns[m]
             /\ dc' = dc \/ dc'.conns[n] = 0
  <2>1. CASE dc' = dc
    BY <1>4, <2>1
  <2>2. CASE dc' = dropped
    <3> HIDE DEF dropped
    <3> QED BY <1>5, <2>2
  <2> QED BY <1>7, <2>1, <2>2
<1>8. CASE dc' = dropped /\ links' = [links EXCEPT ![n] = NoLink] /\ Done /\ UNCHANGED <<left, askew>>
  <2>1. CallTyped' /\ SameCall /\ Head(mut'.steps) = "saveLinks"
    BY <1>1, <1>8, DoneLemma
  <2>2. /\ links' \in [Names -> LinkType \cup {NoLink}] /\ links'[n] = NoLink
        /\ \A m \in Names : m # n => links'[m] = links[m]
    BY <1>8 DEF LinksTyped
  <2>3. LinksTyped'
    BY <1>7, <1>8, <2>2 DEF LinksTyped, DropConn
  <2> QED BY <1>1, <1>2, <1>3, <1>6, <1>7, <1>8, <2>1, <2>2, <2>3 DEF At
<1>9. CASE /\ dc' \in {dc, dropped} /\ askew' = (askew \/ dc' # dc) /\ ~Exists(n)
           /\ links' = links /\ Abort
  <2>1. CallTyped' /\ mut' = NoCall
    BY <1>9, AbortLemma
  <2>2. LinksTyped'
    BY <1>7, <1>9 DEF LinksTyped, DropConn
  <2> QED BY <1>1, <1>2, <1>3, <1>6, <1>7, <1>9, <2>1, <2>2 DEF At
<1>10. CASE /\ dc' \in {dc, dropped} /\ askew' = (askew \/ dc' # dc) /\ Exists(n)
            /\ links' = [links EXCEPT ![n].state = "pending"] /\ Then(<<"saveLinks">>)
  <2>1. mut \in [op : {"delete"}, name : Names, arg : {None}, steps : DeleteSteps]
    BY <1>1 DEF CallTyped, NoCall
  <2>2. mut' = [mut EXCEPT !.steps = <<"saveLinks">>]
    BY <1>10, StepLists DEF Then
  <2>3. mut' \in [op : {"delete"}, name : Names, arg : {None}, steps : DeleteSteps]
        /\ SameCall /\ mut'.steps = <<"saveLinks">>
    BY <2>1, <2>2 DEF DeleteSteps, SameCall
  <2>4. CallTyped' /\ Head(mut'.steps) = "saveLinks"
    BY <2>3, StepLists DEF CallTyped
  <2>5. links[n] \in LinkType
    BY <1>10, LinkShape
  <2> DEFINE l == [links[n] EXCEPT !.state = "pending"]
  <2>6. links' = [links EXCEPT ![n] = l]
    BY <1>10 DEF LinksTyped
  <2>7. /\ l \in LinkType /\ l.state = "pending" /\ l.bus = links[n].bus /\ l.id = links[n].id
        /\ l.cfg = links[n].cfg /\ l.table = links[n].table /\ l.rev = links[n].rev
    BY <2>5 DEF LinkType
  <2> HIDE DEF l
  <2>8. /\ links' \in [Names -> LinkType \cup {NoLink}] /\ links'[n] = l
        /\ \A m \in Names : m # n => links'[m] = links[m]
    BY <2>6, <2>7 DEF LinksTyped
  <2>9. LinksTyped'
    BY <1>7, <1>10, <2>8 DEF LinksTyped, DropConn
  <2> QED BY <1>1, <1>2, <1>3, <1>6, <1>7, <1>10, <2>3, <2>4, <2>7, <2>8, <2>9 DEF At
<1> QED BY <1>2, <1>8, <1>9, <1>10 DEF DropConn

\* What the threads of the links and the commands change.
Thread ==
    \/ \E n \in Names : PollStep(n) \/ WriterStep(n) \/ BeginCommand(n) \/ PushCommand(n)
    \/ \E c \in commands : EndCommand(c)

\* Neither the links nor what is kept of them; nobody new polls or writes but
\* a command of a running link.
ThreadsRan ==
    /\ links' = links /\ mut' = mut /\ stop' = stop /\ disk' = disk /\ up' = up
    /\ askew' = askew /\ muted' = muted /\ buses' = buses
    /\ dc'.tags = dc.tags /\ dc'.conns = dc.conns /\ dc'.next = dc.next
    /\ \/ dc'.comm = dc.comm
       \/ \E n \in Names : /\ poll[n] # NoPoll
                           /\ \A i \in Ids : i # poll[n].id => dc'.comm[i] = dc.comm[i]
    /\ \A n \in Names : poll'[n] = NoPoll
                        \/ (poll[n] # NoPoll /\ poll'[n].key = poll[n].key /\ poll'[n].id = poll[n].id)
    /\ \A n \in Names : writer'[n] = NoWriter
                        \/ (writer[n] # NoWriter /\ writer'[n].key = writer[n].key)
    /\ \A c \in commands' : c \in commands \/ (Running(c.name) /\ links[c.name].bus = c.key)

LEMMA PollEffect ==
    ASSUME LinksTyped, NEW n \in Names, poll[n] # NoPoll, NEW p \in PollRecords \cup {NoPoll},
           poll' = [poll EXCEPT ![n] = p],
           p = NoPoll \/ (p.key = poll[n].key /\ p.id = poll[n].id)
    PROVE  /\ poll' \in [Names -> PollRecords \cup {NoPoll}]
           /\ \A m \in Names : poll'[m] = NoPoll
                \/ (poll[m] # NoPoll /\ poll'[m].key = poll[m].key /\ poll'[m].id = poll[m].id)
BY DEF LinksTyped

LEMMA WriterEffect ==
    ASSUME LinksTyped, NEW n \in Names, writer[n] # NoWriter, NEW w \in WriterRecords \cup {NoWriter},
           writer' = [writer EXCEPT ![n] = w],
           w = NoWriter \/ w.key = writer[n].key
    PROVE  /\ writer' \in [Names -> WriterRecords \cup {NoWriter}]
           /\ \A m \in Names : writer'[m] = NoWriter
                \/ (writer[m] # NoWriter /\ writer'[m].key = writer[m].key)
BY DEF LinksTyped

LEMMA ThreadTypes ==
    ASSUME LinksTyped, LinksSound, Thread
    PROVE  LinksTyped' /\ ThreadsRan
<1> USE DEF threadVars, worldVars, ghosts
<1>1. /\ poll \in [Names -> PollRecords \cup {NoPoll}]
      /\ writer \in [Names -> WriterRecords \cup {NoWriter}] /\ dc \in DcRecords
  BY DEF LinksTyped
<1>2. ASSUME NEW n \in Names, PollChecks(n) PROVE LinksTyped' /\ ThreadsRan
  <2> DEFINE p == IF poll[n].at = "done" /\ poll[n].quit THEN NoPoll
                  ELSE [poll[n] EXCEPT !.at = IF Current(n, poll[n].gen) /\ Running(n)
                                              THEN "publish" ELSE "round"]
  <2>1. poll[n] # NoPoll /\ poll[n] \in PollRecords
    BY <1>1, <1>2 DEF PollChecks, Polls
  <2>2. poll' = [poll EXCEPT ![n] = p]
    BY <1>2 DEF PollChecks
  <2>3. p \in PollRecords \cup {NoPoll} /\ (p = NoPoll \/ (p.key = poll[n].key /\ p.id = poll[n].id))
    BY <2>1 DEF PollRecords
  <2> HIDE DEF p
  <2>4. /\ poll' \in [Names -> PollRecords \cup {NoPoll}]
        /\ \A m \in Names : poll'[m] = NoPoll
             \/ (poll[m] # NoPoll /\ poll'[m].key = poll[m].key /\ poll'[m].id = poll[m].id)
    BY <2>1, <2>2, <2>3, PollEffect
  <2> QED BY <1>2, <2>4 DEF PollChecks, LinksTyped, ThreadsRan
<1>3. ASSUME NEW n \in Names, PollPublishes(n) PROVE LinksTyped' /\ ThreadsRan
  <2> DEFINE p == [poll[n] EXCEPT !.at = "round"]
  <2>1. poll[n] # NoPoll /\ poll[n] \in PollRecords
    BY <1>1, <1>3 DEF PollPublishes, Polls
  <2>2. poll' = [poll EXCEPT ![n] = p]
    BY <1>1, <1>3 DEF PollPublishes
  <2>3. p \in PollRecords \cup {NoPoll} /\ p.key = poll[n].key /\ p.id = poll[n].id
    BY <2>1 DEF PollRecords
  <2> HIDE DEF p
  <2>4. /\ poll' \in [Names -> PollRecords \cup {NoPoll}]
        /\ \A m \in Names : poll'[m] = NoPoll
             \/ (poll[m] # NoPoll /\ poll'[m].key = poll[m].key /\ poll'[m].id = poll[m].id)
    BY <2>1, <2>2, <2>3, PollEffect
  <2>5. poll[n].id \in Ids /\ poll[n].says \in {"unknown", "healthy", "unhealthy"}
    BY <2>1 DEF PollRecords
  <2>6. /\ dc' \in DcRecords
        /\ dc'.tags = dc.tags /\ dc'.conns = dc.conns /\ dc'.next = dc.next
        /\ \A i \in Ids : i # poll[n].id => dc'.comm[i] = dc.comm[i]
    <3>1. CASE dc' = dc
      BY <1>1, <3>1
    <3>2. CASE dc' = [dc EXCEPT !.comm[poll[n].id] = poll[n].says]
      BY <1>1, <2>5, <3>2 DEF DcRecords
    <3> QED BY <1>3, <3>1, <3>2 DEF PollPublishes
  <2> QED BY <1>3, <2>1, <2>4, <2>6 DEF PollPublishes, LinksTyped, ThreadsRan
<1>4. ASSUME NEW n \in Names, PollRound(n) PROVE LinksTyped' /\ ThreadsRan
  <2>1. poll[n] # NoPoll /\ poll[n] \in PollRecords
    BY <1>1, <1>4 DEF PollRound, Polls
  <2>2. PICK said \in {"healthy", "unhealthy"} :
          poll' = [poll EXCEPT ![n] = IF poll[n].quit THEN NoPoll
                                      ELSE [poll[n] EXCEPT !.at = "done", !.says = said]]
    BY <1>4 DEF PollRound
  <2> DEFINE p == IF poll[n].quit THEN NoPoll ELSE [poll[n] EXCEPT !.at = "done", !.says = said]
  <2>3. p \in PollRecords \cup {NoPoll} /\ (p = NoPoll \/ (p.key = poll[n].key /\ p.id = poll[n].id))
    BY <2>1 DEF PollRecords
  <2>4. poll' = [poll EXCEPT ![n] = p]
    BY <2>2
  <2> HIDE DEF p
  <2>5. /\ poll' \in [Names -> PollRecords \cup {NoPoll}]
        /\ \A m \in Names : poll'[m] = NoPoll
             \/ (poll[m] # NoPoll /\ poll'[m].key = poll[m].key /\ poll'[m].id = poll[m].id)
    BY <2>1, <2>3, <2>4, PollEffect
  <2> QED BY <1>4, <2>5 DEF PollRound, LinksTyped, ThreadsRan
<1>5. ASSUME NEW n \in Names, NEW w \in WriterRecords \cup {NoWriter}, writer[n] # NoWriter,
             w = NoWriter \/ w.key = writer[n].key, writer' = [writer EXCEPT ![n] = w],
             UNCHANGED <<links, buses, poll, commands, mut, stop, todo, worldVars, up, ghosts>>
      PROVE  LinksTyped' /\ ThreadsRan
  <2>1. /\ writer' \in [Names -> WriterRecords \cup {NoWriter}]
        /\ \A m \in Names : writer'[m] = NoWriter
             \/ (writer[m] # NoWriter /\ writer'[m].key = writer[m].key)
    BY <1>5, WriterEffect
  <2> QED BY <1>5, <2>1 DEF LinksTyped, ThreadsRan
<1>6. ASSUME NEW n \in Names, WriterStep(n) PROVE LinksTyped' /\ ThreadsRan
  <2>1. writer[n] # NoWriter /\ writer[n] \in WriterRecords
    BY <1>1, <1>6 DEF WriterStep
  <2>2. CASE writer' = [writer EXCEPT ![n].at = "idle"]
    <3> DEFINE w == [writer[n] EXCEPT !.at = "idle"]
    <3>1. writer' = [writer EXCEPT ![n] = w] /\ w \in WriterRecords /\ w.key = writer[n].key
      BY <1>1, <2>1, <2>2 DEF WriterRecords
    <3> HIDE DEF w
    <3> QED BY <1>5, <1>6, <2>1, <3>1 DEF WriterStep
  <2>3. CASE writer' = [writer EXCEPT ![n].at = "writing", ![n].pending = FALSE]
    <3> DEFINE w == [writer[n] EXCEPT !.at = "writing", !.pending = FALSE]
    <3>1. writer' = [writer EXCEPT ![n] = w] /\ w \in WriterRecords /\ w.key = writer[n].key
      BY <1>1, <2>1, <2>3 DEF WriterRecords
    <3> HIDE DEF w
    <3> QED BY <1>5, <1>6, <2>1, <3>1 DEF WriterStep
  <2>4. CASE writer' = [writer EXCEPT ![n] = NoWriter]
    BY <1>5, <1>6, <2>1, <2>4 DEF WriterStep
  <2> QED BY <1>6, <2>2, <2>3, <2>4 DEF WriterStep
<1>7. ASSUME NEW n \in Names, PushCommand(n) PROVE LinksTyped' /\ ThreadsRan
  <2> DEFINE w == [writer[n] EXCEPT !.pending = TRUE]
  <2>1. writer[n] # NoWriter /\ writer[n] \in WriterRecords
    BY <1>1, <1>7 DEF PushCommand
  <2>2. writer' = [writer EXCEPT ![n] = w] /\ w \in WriterRecords /\ w.key = writer[n].key
    BY <1>1, <1>7, <2>1 DEF WriterRecords, PushCommand
  <2> HIDE DEF w
  <2> QED BY <1>5, <1>7, <2>1, <2>2 DEF PushCommand
<1>8. ASSUME NEW n \in Names, BeginCommand(n) PROVE LinksTyped' /\ ThreadsRan
  <2> DEFINE c == [name |-> n, key |-> links[n].bus]
  <2>1. Exists(n) /\ Running(n) /\ commands' = commands \cup {c}
    BY <1>8 DEF BeginCommand
  <2>2. links[n].bus = links[n].cfg /\ links[n].cfg \in Configs
    BY <2>1, LinkShape DEF LinksSound
  <2>3. c \in [name : Names, key : Configs] /\ c.name = n /\ c.key = links[n].bus
    BY <2>2
  <2> HIDE DEF c
  <2>4. commands' \subseteq [name : Names, key : Configs]
    BY <2>1, <2>3 DEF LinksTyped
  <2>5. \A d \in commands' : d \in commands \/ (Running(d.name) /\ links[d.name].bus = d.key)
    BY <2>1, <2>3
  <2> QED BY <1>8, <2>4, <2>5 DEF BeginCommand, LinksTyped, ThreadsRan
<1>9. ASSUME NEW c \in commands, EndCommand(c) PROVE LinksTyped' /\ ThreadsRan
  BY <1>9 DEF EndCommand, LinksTyped, ThreadsRan
<1> QED BY <1>2, <1>3, <1>4, <1>6, <1>7, <1>8, <1>9 DEF Thread, PollStep

\* What a step of the stop under way changes.
StopGoes ==
    /\ links' = links /\ mut' = mut /\ disk' = disk /\ up' = up /\ askew' = askew
    /\ writer' = writer /\ commands' = commands
    /\ dc'.tags = dc.tags /\ dc'.conns = dc.conns /\ dc'.next = dc.next
    /\ \A n \in Names : poll'[n] = NoPoll
                        \/ (poll[n] # NoPoll /\ poll'[n].key = poll[n].key /\ poll'[n].id = poll[n].id)
    /\ stop \in StopRecords
    /\ \/ /\ stop' = NoStop /\ stop.at = "gate" /\ ~ \E c \in commands : c.name = stop.name
          /\ buses' = IF stop.held THEN [buses EXCEPT ![stop.key] = @ - 1] ELSE buses
          /\ dc' = dc /\ muted' = muted
       \/ /\ stop' \in StopRecords /\ buses' = buses
          /\ stop'.by = stop.by /\ stop'.name = stop.name /\ stop'.id = stop.id
          /\ stop'.key = stop.key /\ stop'.held = stop.held
          /\ \/ /\ stop.at = "writers" /\ stop'.at = "poll" /\ writer[stop.name] = NoWriter
                /\ dc' = dc /\ muted' = muted
             \/ /\ stop.at = "poll" /\ stop'.at = "say" /\ poll[stop.name] = NoPoll
                /\ dc' = dc /\ muted' = muted
             \/ /\ stop.at = "say" /\ stop'.at = "gate"
                /\ \A i \in Ids : i # stop.id => dc'.comm[i] = dc.comm[i]
                /\ \/ dc'.comm[stop.id] = "stopped" /\ muted' = muted \ {stop.id}
                   \/ dc' = dc /\ muted' = muted \cup {stop.id}

LEMMA StopStepTypes ==
    ASSUME LinksTyped, StopStep
    PROVE  LinksTyped' /\ StopGoes
<1> USE DEF threadVars, worldVars, ghosts
<1>1. /\ poll \in [Names -> PollRecords \cup {NoPoll}] /\ dc \in DcRecords
      /\ stop \in StopRecords \cup {NoStop}
  BY DEF LinksTyped
<1>2. stop \in StopRecords /\ stop.name \in Names /\ stop.id \in Ids
  <2>1. NoStop.at = "none"
    BY DEF NoStop
  <2>2. stop.at \in {"writers", "poll", "say", "gate"}
    BY DEF StopStep, WritersJoined, PollJoined, SayStopped, ReleaseBus
  <2>3. stop # NoStop
    BY <2>1, <2>2
  <2> QED BY <1>1, <2>3 DEF StopRecords
<1>3. \A a \in {"poll", "say", "gate"} :
        /\ [stop EXCEPT !.at = a] \in StopRecords /\ [stop EXCEPT !.at = a].at = a
        /\ [stop EXCEPT !.at = a].by = stop.by /\ [stop EXCEPT !.at = a].name = stop.name
        /\ [stop EXCEPT !.at = a].id = stop.id /\ [stop EXCEPT !.at = a].key = stop.key
        /\ [stop EXCEPT !.at = a].held = stop.held
  BY <1>2 DEF StopRecords
<1>4. CASE WritersJoined
  <2>1. stop.at = "writers" /\ writer[stop.name] = NoWriter
        /\ stop' = [stop EXCEPT !.at = "poll"]
    BY <1>4 DEF WritersJoined
  <2>2. /\ poll' \in [Names -> PollRecords \cup {NoPoll}]
        /\ \A m \in Names : poll'[m] = NoPoll
             \/ (poll[m] # NoPoll /\ poll'[m].key = poll[m].key /\ poll'[m].id = poll[m].id)
    <3>1. CASE poll[stop.name] = NoPoll
      BY <1>1, <1>4, <3>1 DEF WritersJoined
    <3>2. CASE poll[stop.name] # NoPoll
      <4> DEFINE p == [poll[stop.name] EXCEPT !.quit = TRUE]
      <4>1. poll' = [poll EXCEPT ![stop.name] = p]
        BY <1>1, <1>4, <3>2 DEF WritersJoined
      <4>2. p \in PollRecords /\ p.key = poll[stop.name].key /\ p.id = poll[stop.name].id
        BY <1>1, <1>2, <3>2 DEF PollRecords
      <4> HIDE DEF p
      <4> QED BY <1>2, <3>2, <4>1, <4>2, PollEffect
    <3> QED BY <3>1, <3>2
  <2>3. LinksTyped'
    BY <1>3, <1>4, <2>1, <2>2 DEF WritersJoined, LinksTyped
  <2> QED BY <1>2, <1>3, <1>4, <2>1, <2>2, <2>3 DEF WritersJoined, StopGoes
<1>5. CASE PollJoined
  <2>1. stop.at = "poll" /\ poll[stop.name] = NoPoll /\ stop' = [stop EXCEPT !.at = "say"]
    BY <1>5 DEF PollJoined
  <2>2. LinksTyped'
    BY <1>3, <1>5, <2>1 DEF PollJoined, LinksTyped
  <2> QED BY <1>2, <1>3, <1>5, <2>1, <2>2 DEF PollJoined, StopGoes
<1>6. CASE SayStopped
  <2>1. stop.at = "say" /\ stop' = [stop EXCEPT !.at = "gate"]
    BY <1>6 DEF SayStopped
  <2>2. /\ dc' \in DcRecords
        /\ dc'.tags = dc.tags /\ dc'.conns = dc.conns /\ dc'.next = dc.next
        /\ \A i \in Ids : i # stop.id => dc'.comm[i] = dc.comm[i]
        /\ \/ dc'.comm[stop.id] = "stopped" /\ muted' = muted \ {stop.id}
           \/ dc' = dc /\ muted' = muted \cup {stop.id}
    <3>1. CASE dc' = [dc EXCEPT !.comm[stop.id] = "stopped"] /\ muted' = muted \ {stop.id}
      BY <1>1, <1>2, <3>1 DEF DcRecords
    <3>2. CASE dc' = dc /\ muted' = muted \cup {stop.id}
      BY <1>1, <3>2
    <3> QED BY <1>6, <3>1, <3>2 DEF SayStopped
  <2>3. LinksTyped'
    <3>1. muted' \subseteq Ids
      BY <1>2, <2>2 DEF LinksTyped
    <3> QED BY <1>3, <1>6, <2>1, <2>2, <3>1 DEF SayStopped, LinksTyped
  <2> QED BY <1>2, <1>3, <1>6, <2>1, <2>2, <2>3 DEF SayStopped, StopGoes
<1>7. CASE ReleaseBus
  <2>1. LinksTyped'
    BY <1>7 DEF ReleaseBus, LinksTyped
  <2> QED BY <1>2, <1>7, <2>1 DEF ReleaseBus, StopGoes
<1> QED BY <1>4, <1>5, <1>6, <1>7 DEF StopStep

-----------------------------------------------------------------------------
(* Each action keeps the invariant.  First what steps that change little   *)
(* have in common.                                                         *)

LEMMA NoCallSound == ASSUME mut' = NoCall PROVE CallTyped' /\ CallSound'
BY DEF CallTyped, CallSound, NoCall, At

LEMMA SavingSound ==
    ASSUME mut'.op \in {"upsert", "create", "delete", "load"},
           Head(mut'.steps) \in {"saveLinks", "saveTables"}
    PROVE  CallSound'
BY DEF CallSound, At

\* A call stays sound while links are at most stopped under it.
LEMMA CallKept ==
    ASSUME LinksTyped, CallTyped, CallSound, mut' = mut, dc'.conns = dc.conns,
           At("start", "open") => links' = links /\ stop' = stop,
           \A n \in Names : /\ links'[n] = NoLink <=> links[n] = NoLink
                            /\ links'[n].state = "running" => links[n].state = "running"
                            /\ links[n] # NoLink => /\ links'[n].cfg = links[n].cfg
                                                    /\ links'[n].rev = links[n].rev
    PROVE  CallSound'
<1>1. ASSUME At("create", "register")
      PROVE  links'[mut.name] = NoLink /\ Compatible(mut.arg, mut.name)'
  <2>1. mut.name \in Names /\ ~Exists(mut.name) /\ Compatible(mut.arg, mut.name)
    BY <1>1, CallHeads DEF CallSound, At
  <2> QED BY <2>1 DEF Compatible, Exists
<1>2. ASSUME mut.op = "table"
      PROVE  links'[mut.name] # NoLink /\ links'[mut.name].rev < MaxRev
  <2>1. mut.name \in Names /\ Exists(mut.name) /\ links[mut.name].rev < MaxRev
    BY <1>2, CallHeads DEF CallSound
  <2> QED BY <2>1 DEF Exists
<1>3. ASSUME mut.op = "rename"
      PROVE  /\ mut.name # mut.arg /\ links'[mut.name] # NoLink /\ links'[mut.arg] = NoLink
             /\ links'[mut.name].state # "running"
  <2>1. /\ mut.name \in Names /\ mut.arg \in Names /\ mut.name # mut.arg
        /\ Exists(mut.name) /\ ~Exists(mut.arg) /\ ~Running(mut.name)
    BY <1>3, CallHeads DEF CallSound
  <2> QED BY <2>1 DEF Exists, Running
<1>4. At("start", "open") => /\ Ready(mut.name)' /\ links'[mut.name].gen < MaxGen
                             /\ stop' = NoStop
  BY DEF CallSound, Ready, Exists
<1>5. At("delete", "drop") => links'[mut.name].state # "running"
  BY CallHeads DEF CallSound, At, Running
<1>6. mut.op = "rename" /\ Head(mut.steps) # "rename" => dc'.conns[mut.name] = 0
  BY DEF CallSound
<1> QED BY <1>1, <1>2, <1>3, <1>4, <1>5, <1>6 DEF CallSound, At, Exists, Running

\* Threads and commands stay with their running link, or with the same stop.
LEMMA ThreadsKept ==
    ASSUME ThreadsSound, LinksTyped, stop' = stop,
           \A n \in Names : Running(n) =>
                 /\ links'[n].state = "running" /\ links'[n].bus = links[n].bus
                 /\ links'[n].id = links[n].id,
           \A n \in Names :
                 \/ poll'[n] = NoPoll
                 \/ poll[n] # NoPoll /\ poll'[n].key = poll[n].key /\ poll'[n].id = poll[n].id
                 \/ /\ links'[n].state = "running" /\ links'[n].bus = poll'[n].key
                    /\ links'[n].id = poll'[n].id,
           \A n \in Names :
                 \/ writer'[n] = NoWriter
                 \/ writer[n] # NoWriter /\ writer'[n].key = writer[n].key
                 \/ links'[n].state = "running" /\ links'[n].bus = writer'[n].key,
           \A c \in commands' : c \in commands \/ (Running(c.name) /\ links[c.name].bus = c.key),
           commands' \subseteq [name : Names, key : Configs]
    PROVE  ThreadsSound'
<1>1. \A n \in Names : poll'[n] # NoPoll =>
          \/ links'[n].state = "running" /\ links'[n].bus = poll'[n].key /\ links'[n].id = poll'[n].id
          \/ StopHolds(n, poll[n].key, {"writers", "poll"})' /\ stop'.id = poll'[n].id
  BY DEF ThreadsSound, StopHolds, Running
<1>2. \A n \in Names : writer'[n] # NoWriter =>
          \/ links'[n].state = "running" /\ links'[n].bus = writer'[n].key
          \/ StopHolds(n, writer[n].key, {"writers"})'
  BY DEF ThreadsSound, StopHolds, Running
<1>3. \A c \in commands' :
          \/ links'[c.name].state = "running" /\ links'[c.name].bus = c.key
          \/ StopHolds(c.name, c.key, {"writers", "poll", "say", "gate"})'
  <2> SUFFICES ASSUME NEW c \in commands'
               PROVE  \/ links'[c.name].state = "running" /\ links'[c.name].bus = c.key
                      \/ StopHolds(c.name, c.key, {"writers", "poll", "say", "gate"})'
    OBVIOUS
  <2>1. c.name \in Names
    OBVIOUS
  <2>2. \/ Running(c.name) /\ links[c.name].bus = c.key
        \/ StopHolds(c.name, c.key, {"writers", "poll", "say", "gate"})
    BY DEF ThreadsSound
  <2> QED BY <2>1, <2>2 DEF StopHolds, Running
<1> QED BY <1>1, <1>2, <1>3 DEF ThreadsSound, Running

\* Links keep their settings and are at most stopped.
LEMMA LinksKept ==
    ASSUME LinksTyped, LinksSound, StopSound, stop' = stop \/ stop' = NoStop,
           up' = up, ~up => mut' = mut /\ links' = links,
           disk'.links = disk.links \/ disk'.links = LinkRows(links),
           \A n \in Names : links'[n] # NoLink =>
               /\ links[n] # NoLink /\ links'[n].cfg = links[n].cfg
               /\ links'[n].bus = links[n].bus
               /\ links'[n].state = "running" <=> links[n].state = "running"
    PROVE  LinksSound' /\ StopSound'
<1>1. \A n \in Names : Exists(n)' => /\ links'[n].state = "running" <=> links'[n].bus # None
                                     /\ links'[n].state = "running" => links'[n].bus = links'[n].cfg
  BY DEF LinksSound, Exists, Running
<1>2. \A n \in Names : Exists(n)' => Compatible(links[n].cfg, n)'
  BY DEF LinksSound, Exists, Compatible
<1>3. \A n, m \in Names : disk'.links[n] # NoRow /\ disk'.links[m] # NoRow
                          /\ disk'.links[n].cfg[1] = disk'.links[m].cfg[1] =>
                             disk'.links[n].cfg = disk'.links[m].cfg
  <2>1. CASE disk'.links = disk.links
    BY <2>1 DEF LinksSound
  <2>2. CASE disk'.links = LinkRows(links)
    <3>1. \A n \in Names : disk'.links[n] # NoRow => links[n] # NoLink /\ disk'.links[n].cfg = links[n].cfg
      BY <2>2 DEF LinkRows, NoRow
    <3> QED BY <3>1 DEF LinksSound, Compatible, Exists
  <2> QED BY <2>1, <2>2
<1>4. ~up' => mut' = NoCall /\ stop' = NoStop /\ \A n \in Names : ~Exists(n)'
  BY DEF LinksSound, Exists
<1>5. StopSound'
  <2> SUFFICES ASSUME stop' = stop, stop # NoStop PROVE StopSound'
    BY DEF StopSound
  <2>1. stop.name \in Names
    BY DEF LinksTyped, StopRecords
  <2>2. links'[stop.name].state # "running"
    BY <2>1 DEF StopSound, Running, NoLink
  <2>3. stop.held => \A n \in Names :
            links'[n].state = "running" /\ links'[n].cfg[1] = stop.key[1] => links'[n].cfg = stop.key
    BY DEF StopSound, Running, NoLink
  <2> QED BY <2>2, <2>3 DEF StopSound, Running
<1> QED BY <1>1, <1>2, <1>3, <1>4, <1>5 DEF LinksSound, Running, Exists, Compatible

LEMMA ConnsKept == ASSUME ConnsSound, dc'.conns = dc.conns, dc'.next = dc.next PROVE ConnsSound'
BY DEF ConnsSound

LEMMA ThreadKeeps == ASSUME StructInv, Thread PROVE StructInv'
<1> USE DEF StructInv
<1>1. LinksTyped' /\ ThreadsRan
  BY ThreadTypes
<1>2. CallTyped'
  BY <1>1 DEF ThreadsRan, CallTyped
<1>3. CallSound'
  BY <1>1, CallKept DEF ThreadsRan
<1>4. LinksSound' /\ StopSound'
  BY <1>1, LinksKept DEF ThreadsRan
<1>5. ThreadsSound'
  <2>1. commands' \subseteq [name : Names, key : Configs]
    BY <1>1 DEF LinksTyped
  <2> QED BY <1>1, <2>1, ThreadsKept DEF ThreadsRan, Running
<1>6. ConnsSound'
  BY <1>1, ConnsKept DEF ThreadsRan
<1> QED BY <1>1, <1>2, <1>3, <1>4, <1>5, <1>6

LEMMA StopStepKeeps == ASSUME StructInv, StopStep PROVE StructInv'
<1> USE DEF StructInv
<1>1. LinksTyped' /\ StopGoes
  BY StopStepTypes
<1>2. CallTyped'
  BY <1>1 DEF StopGoes, CallTyped
<1>3. CallSound'
  <2>1. stop # NoStop
    BY <1>1 DEF StopGoes, StopRecords, NoStop
  <2>2. ~At("start", "open")
    BY <2>1 DEF CallSound
  <2> QED BY <1>1, <2>2, CallKept DEF StopGoes
<1>4. LinksSound' /\ StopSound'
  <2>1. stop # NoStop /\ (stop' # NoStop => stop'.name = stop.name /\ stop'.held = stop.held
                                            /\ stop'.key = stop.key)
    BY <1>1 DEF StopGoes, StopRecords, NoStop
  <2>2. LinksSound'
    <3>1. up = TRUE
      BY <2>1 DEF LinksSound, LinksTyped
    <3> QED BY <1>1, <3>1 DEF StopGoes, LinksSound, Exists, Running, Compatible
  <2>3. StopSound'
    BY <1>1, <2>1 DEF StopGoes, StopSound, Running
  <2> QED BY <2>2, <2>3
<1>5. ThreadsSound'
  <2>1. stop # NoStop /\ stop' \in StopRecords \cup {NoStop}
    BY <1>1 DEF StopGoes, StopRecords, NoStop, LinksTyped
  <2>2. ASSUME NEW n \in Names, poll'[n] # NoPoll
        PROVE  \/ Running(n)' /\ links'[n].bus = poll'[n].key /\ links'[n].id = poll'[n].id
               \/ StopHolds(n, poll[n].key, {"writers", "poll"})' /\ stop'.id = poll'[n].id
    <3>1. poll[n] # NoPoll /\ poll'[n].key = poll[n].key /\ poll'[n].id = poll[n].id
      BY <1>1, <2>2 DEF StopGoes
    <3>2. CASE Running(n) /\ links[n].bus = poll[n].key /\ links[n].id = poll[n].id
      BY <1>1, <3>1, <3>2 DEF StopGoes, Running
    <3>3. CASE StopHolds(n, poll[n].key, {"writers", "poll"}) /\ stop.id = poll[n].id
      <4>1. /\ stop.name = n /\ stop.held /\ stop.key = poll[n].key /\ stop.id = poll[n].id
            /\ stop.at # "gate" /\ stop.at # "say"
            /\ stop.at = "poll" => poll[stop.name] # NoPoll
        BY <3>1, <3>3 DEF StopHolds
      <4>2. /\ stop' # NoStop /\ stop'.at = "poll" /\ stop'.name = n /\ stop'.held
            /\ stop'.key = poll'[n].key /\ stop'.id = poll'[n].id
        <5>1. /\ stop' \in StopRecords /\ stop.at = "writers" /\ stop'.at = "poll"
              /\ stop'.name = stop.name /\ stop'.key = stop.key /\ stop'.id = stop.id
              /\ stop'.held = stop.held
          BY <1>1, <4>1 DEF StopGoes
        <5>2. stop' # NoStop
          BY <5>1 DEF StopRecords, NoStop
        <5>3. stop'.held
          BY <4>1, <5>1
        <5> QED BY <3>1, <4>1, <5>1, <5>2, <5>3
      <4> QED BY <4>2 DEF StopHolds
    <3> QED BY <3>1, <3>2, <3>3 DEF ThreadsSound
  <2>3. ASSUME NEW n \in Names, writer'[n] # NoWriter
        PROVE  \/ Running(n)' /\ links'[n].bus = writer'[n].key
               \/ StopHolds(n, writer[n].key, {"writers"})'
    <3>1. writer'[n] = writer[n] /\ writer[n] # NoWriter
      BY <1>1, <2>3 DEF StopGoes
    <3>2. CASE Running(n) /\ links[n].bus = writer[n].key
      BY <1>1, <3>1, <3>2 DEF StopGoes, Running
    <3>3. CASE StopHolds(n, writer[n].key, {"writers"})
      BY <1>1, <2>1, <3>1, <3>3 DEF StopGoes, StopHolds, StopRecords, NoStop
    <3> QED BY <3>1, <3>2, <3>3 DEF ThreadsSound
  <2>4. ASSUME NEW c \in commands'
        PROVE  \/ Running(c.name)' /\ links'[c.name].bus = c.key
               \/ StopHolds(c.name, c.key, {"writers", "poll", "say", "gate"})'
    <3>1. c \in commands
      BY <1>1 DEF StopGoes
    <3>2. CASE Running(c.name) /\ links[c.name].bus = c.key
      BY <1>1, <3>1, <3>2 DEF StopGoes, Running
    <3>3. CASE StopHolds(c.name, c.key, {"writers", "poll", "say", "gate"})
      BY <1>1, <2>1, <3>1, <3>3 DEF StopGoes, StopHolds, StopRecords, NoStop
    <3> QED BY <3>1, <3>2, <3>3 DEF ThreadsSound
  <2> QED BY <2>2, <2>3, <2>4 DEF ThreadsSound
<1>6. ConnsSound'
  BY <1>1, ConnsKept DEF StopGoes
<1> QED BY <1>1, <1>2, <1>3, <1>4, <1>5, <1>6

LEMMA SaveKeeps == ASSUME StructInv, SaveLinks \/ SaveTables PROVE StructInv'
<1> USE DEF StructInv
<1>1. /\ LinksTyped' /\ CallTyped' /\ links' = links
      /\ mut # NoCall /\ mut.op \in {"upsert", "create", "rename", "delete", "load"}
      /\ Head(mut.steps) \in {"saveLinks", "saveTables"}
      /\ disk'.links \in {disk.links, LinkRows(links), LinkRows(Snapshot)}
      /\ \/ dc' = dc
         \/ mut.op = "rename" /\ dc' = RenamedConn(mut.arg, mut.name) /\ mut' = NoCall
  BY SaveTypes
<1>2. /\ poll' = poll /\ writer' = writer /\ commands' = commands /\ stop' = stop /\ up' = up
      /\ Done \/ Abort
  BY DEF SaveLinks, SaveTables, SaveFails, threadVars
<1>3. CallSound'
  <2>1. CASE Abort
    BY <2>1, AbortLemma, NoCallSound
  <2>2. CASE Done
    <3>1. \/ mut' = NoCall
          \/ /\ SameCall
             /\ \/ Head(mut'.steps) = "saveTables"
                \/ mut.op = "rename" /\ Head(mut'.steps) = "commit"
      BY <1>1, <2>2, DoneLemma
    <3>2. CASE mut' = NoCall
      BY <3>2, NoCallSound
    <3>3. CASE mut' # NoCall
      <4>1. dc' = dc /\ SameCall /\ Head(mut'.steps) \in {"saveTables", "commit"}
        BY <1>1, <3>1, <3>3
      <4>2. CASE mut.op # "rename"
        <5>1. Head(mut'.steps) = "saveTables"
          BY <3>1, <3>3, <4>2
        <5> QED BY <1>1, <4>1, <4>2, <5>1, SavingSound DEF SameCall
      <4>3. CASE mut.op = "rename"
        <5>1. /\ mut.name # mut.arg /\ Exists(mut.name) /\ ~Exists(mut.arg)
              /\ ~Running(mut.name) /\ dc.conns[mut.name] = 0
          BY <1>1, <4>3 DEF CallSound
        <5> QED BY <1>1, <4>1, <4>3, <5>1 DEF CallSound, At, SameCall, Exists, Running
      <4> QED BY <4>2, <4>3
    <3> QED BY <3>2, <3>3
  <2> QED BY <1>2, <2>1, <2>2
<1>4. LinksSound' /\ StopSound'
  <2>1. \A n, m \in Names : disk'.links[n] # NoRow /\ disk'.links[m] # NoRow
                          /\ disk'.links[n].cfg[1] = disk'.links[m].cfg[1] =>
                             disk'.links[n].cfg = disk'.links[m].cfg
    <3>1. CASE disk'.links = disk.links
      BY <3>1 DEF LinksSound
    <3>2. \A n \in Names : links[n] # NoLink => LinkRows(links)[n].cfg = links[n].cfg
      BY DEF LinkRows
    <3>3. \A n \in Names : links[n] = NoLink => LinkRows(links)[n] = NoRow
      BY DEF LinkRows
    <3>4. \A n, m \in Names : links[n] # NoLink /\ links[m] # NoLink /\ links[n].cfg[1] = links[m].cfg[1]
                              => links[n].cfg = links[m].cfg
      BY DEF LinksSound, Compatible, Exists
    <3>5. CASE disk'.links = LinkRows(links)
      BY <3>2, <3>3, <3>4, <3>5
    <3>6. CASE disk'.links = LinkRows(Renamed(links, mut.name, mut.arg)) /\ mut.op = "rename"
      <4>1. mut.name \in Names /\ mut.arg \in Names /\ links \in [Names -> LinkType \cup {NoLink}]
        BY <3>6, CallHeads DEF LinksTyped
      <4> DEFINE r == Renamed(links, mut.name, mut.arg)
      <4>2. /\ \A n \in Names : r[n] # NoLink => disk'.links[n].cfg = r[n].cfg
            /\ \A n \in Names : r[n] = NoLink => disk'.links[n] = NoRow
        BY <3>6 DEF LinkRows
      <4>3. \A n \in Names : r[n] = NoLink \/ \E m \in Names : r[n] = links[m] /\ links[m] # NoLink
        BY <4>1 DEF Renamed
      <4> HIDE DEF r
      <4> QED BY <3>4, <4>2, <4>3
    <3> QED BY <1>1, <3>1, <3>5, <3>6 DEF Snapshot
  <2>2. up
    BY <1>1 DEF LinksSound
  <2> QED BY <1>1, <1>2, <2>1, <2>2 DEF LinksSound, StopSound, Exists, Running, Compatible
<1>5. ThreadsSound'
  BY <1>1, <1>2 DEF ThreadsSound, StopHolds, Running
<1>6. ConnsSound'
  <2>1. CASE dc' = dc
    BY <2>1, ConnsKept
  <2>2. CASE mut.op = "rename" /\ dc' = RenamedConn(mut.arg, mut.name)
    <3>1. mut.name \in Names /\ mut.arg \in Names /\ mut.name # mut.arg /\ dc.conns[mut.name] = 0
      BY <1>1, <2>2, CallHeads DEF CallSound
    <3>2. /\ dc'.next = dc.next /\ dc'.conns[mut.arg] = 0 /\ dc'.conns[mut.name] = dc.conns[mut.arg]
          /\ \A o \in Names \ {mut.arg, mut.name} : dc'.conns[o] = dc.conns[o]
      BY <2>2, <3>1, ConnsTyped
    <3>3. dc.next \in 1..(MaxId + 1) /\ MaxId \in Nat
      BY LinksAssumption DEF LinksTyped, DcRecords
    <3>4. \A n, m \in Names : dc'.conns[n] # 0 /\ dc'.conns[n] = dc'.conns[m] => n = m
      BY <3>1, <3>2 DEF ConnsSound
    <3>5. \A n \in Names : dc'.conns[n] < dc'.next
      BY <3>1, <3>2, <3>3 DEF ConnsSound
    <3> QED BY <3>4, <3>5 DEF ConnsSound
  <2> QED BY <1>1, <2>1, <2>2
<1> QED BY <1>1, <1>3, <1>4, <1>5, <1>6

LEMMA UpWhileCalled == ASSUME LinksTyped, LinksSound, mut # NoCall PROVE up = TRUE
BY DEF LinksSound, LinksTyped

LEMMA RegisterKeeps == ASSUME StructInv, RegisterLink PROVE StructInv'
<1> USE DEF StructInv
<1>1. /\ mut.op = "create" /\ mut.name \in Names /\ ConnOf(mut.name) \in Ids
      /\ WithConn(mut.name) \in DcRecords
      /\ LinksTyped' /\ CallTyped'
      /\ \/ /\ links' = links /\ mut' = NoCall /\ muted' = muted /\ askew' = askew
            /\ dc' \in {dc, WithConn(mut.name)}
         \/ /\ links' = [links EXCEPT ![mut.name] = Link(ConnOf(mut.name), mut.arg, FALSE, {}, 1)]
            /\ SameCall /\ Head(mut'.steps) = "saveLinks"
            /\ dc'.conns = WithConn(mut.name).conns /\ dc'.next = WithConn(mut.name).next
  BY RegisterTypes
<1>2. PICK n \in Names : n = mut.name
  BY <1>1
<1>3. /\ poll' = poll /\ writer' = writer /\ commands' = commands /\ stop' = stop /\ up' = up
      /\ disk' = disk
  BY DEF RegisterLink, threadVars
<1>4. mut # NoCall /\ up = TRUE
  BY <1>1, CallHeads, UpWhileCalled
<1>5. ~Exists(n) /\ Compatible(mut.arg, n) /\ mut.arg \in Configs
  <2>1. At("create", "register")
    BY DEF RegisterLink
  <2> QED BY <1>1, <1>2, <2>1, CallHeads DEF CallSound
<1>6. CallSound'
  BY <1>1, NoCallSound, SavingSound DEF SameCall
<1>7. ConnsSound'
  <2>1. CASE dc' = dc
    BY <2>1, ConnsKept
  <2>2. CASE dc'.conns = WithConn(n).conns /\ dc'.next = WithConn(n).next
    <3>1. CASE dc.conns[n] # 0
      BY <2>2, <3>1, ConnsKept DEF WithConn
    <3>2. CASE dc.conns[n] = 0
      <4>1. dc.next \in 1..MaxId /\ MaxId \in Nat /\ dc \in DcRecords
        BY <1>1, <1>2, <3>2, LinksAssumption DEF ConnOf, Ids, LinksTyped
      <4>2. dc'.next = dc.next + 1
        BY <2>2, <3>2, <4>1 DEF WithConn, DcRecords
      <4>3. dc'.conns[n] = dc.next /\ \A m \in Names : m # n => dc'.conns[m] = dc.conns[m]
        BY <1>1, <1>2, <2>2, <3>2, ConnsTyped DEF ConnOf
      <4>4. \A m \in Names : dc.conns[m] \in Nat /\ dc.conns[m] < dc.next
        BY <4>1, LinksAssumption DEF ConnsSound, DcRecords
      <4>5. \A m, o \in Names : dc'.conns[m] # 0 /\ dc'.conns[m] = dc'.conns[o] => m = o
        BY <4>1, <4>3, <4>4 DEF ConnsSound
      <4>6. \A m \in Names : dc'.conns[m] < dc'.next
        BY <4>1, <4>2, <4>3, <4>4
      <4> QED BY <4>5, <4>6 DEF ConnsSound
    <3> QED BY <3>1, <3>2
  <2> QED BY <1>1, <1>2, <2>1, <2>2
<1>8. CASE links' = links
  <2>1. LinksSound' /\ StopSound'
    BY <1>3, <1>4, <1>8, LinksKept
  <2>2. ThreadsSound'
    BY <1>3, <1>8 DEF ThreadsSound, StopHolds, Running
  <2> QED BY <1>1, <1>6, <1>7, <2>1, <2>2
<1>9. CASE links' = [links EXCEPT ![n] = Link(ConnOf(mut.name), mut.arg, FALSE, {}, 1)]
  <2> DEFINE l == Link(ConnOf(mut.name), mut.arg, FALSE, {}, 1)
  <2>1. l # NoLink /\ l.state # "running" /\ l.bus = None /\ l.cfg = mut.arg
    <3>1. l.state = "stopped" /\ l.bus = None /\ l.cfg = mut.arg
      BY DEF Link
    <3>2. NoLink.state = "none"
      BY DEF NoLink
    <3> HIDE DEF l
    <3> QED BY <3>1, <3>2
  <2>2. links' = [links EXCEPT ![n] = l]
    BY <1>9
  <2> HIDE DEF l
  <2>3. links'[n] = l /\ \A m \in Names : m # n => links'[m] = links[m]
    BY <2>2 DEF LinksTyped
  <2>4. LinksSound'
    <3>1. \A m \in Names : Exists(m)' =>
            /\ Running(m)' <=> links'[m].bus # None
            /\ Running(m)' => links'[m].bus = links'[m].cfg
      BY <2>1, <2>3 DEF LinksSound, Exists, Running
    <3>2. \A m \in Names : Exists(m)' => Compatible(links[m].cfg, m)'
      BY <1>5, <2>1, <2>3 DEF LinksSound, Exists, Compatible
    <3> QED BY <1>3, <1>4, <3>1, <3>2 DEF LinksSound, Exists
  <2>5. StopSound'
    BY <1>3, <2>1, <2>3 DEF StopSound, Running, LinksTyped, StopRecords
  <2>6. ThreadsSound'
    <3>1. ~Running(n)
      BY <1>5, LinkShape
    <3>2. commands' \subseteq [name : Names, key : Configs]
      BY <1>1 DEF LinksTyped
    <3> QED BY <1>3, <2>3, <3>1, <3>2, ThreadsKept DEF Running
  <2> QED BY <1>1, <1>6, <1>7, <2>4, <2>5, <2>6
<1> QED BY <1>1, <1>2, <1>8, <1>9

LEMMA SyncKeeps == ASSUME StructInv, SyncTags PROVE StructInv'
<1> USE DEF StructInv
<1>1. /\ LinksTyped' /\ mut' = NoCall
      /\ mut.op = "table" /\ mut.name \in Names /\ Exists(mut.name)
      /\ dc'.conns = dc.conns /\ dc'.comm = dc.comm /\ dc'.next = dc.next
      /\ \A n \in Names : n # mut.name => links'[n] = links[n]
      /\ links'[mut.name].state = links[mut.name].state
      /\ links'[mut.name].bus = links[mut.name].bus
      /\ links'[mut.name].id = links[mut.name].id /\ links'[mut.name].cfg = links[mut.name].cfg
      /\ disk' \in {disk, [disk EXCEPT !.tables = TableRows(links)]}
  BY SyncTypes
<1>2. /\ poll' = poll /\ writer' = writer /\ commands' = commands /\ stop' = stop /\ up' = up
  BY DEF SyncTags, threadVars
<1>3. up = TRUE
  BY <1>1, CallHeads, UpWhileCalled
<1>4. disk'.links = disk.links
  BY <1>1 DEF LinksTyped, DiskRecords
<1>5. LinksSound' /\ StopSound'
  <2>1. \A n \in Names : links'[n] # NoLink =>
               /\ links[n] # NoLink /\ links'[n].cfg = links[n].cfg
               /\ links'[n].bus = links[n].bus
               /\ links'[n].state = "running" <=> links[n].state = "running"
    BY <1>1 DEF Exists
  <2> QED BY <1>2, <1>3, <1>4, <2>1, LinksKept
<1>6. ThreadsSound'
  <2>1. commands' \subseteq [name : Names, key : Configs]
    BY <1>1 DEF LinksTyped
  <2>2. \A n \in Names : Running(n) =>
                 /\ links'[n].state = "running" /\ links'[n].bus = links[n].bus
                 /\ links'[n].id = links[n].id
    BY <1>1 DEF Running
  <2> QED BY <1>2, <2>1, <2>2, ThreadsKept
<1> QED BY <1>1, <1>5, <1>6, NoCallSound, ConnsKept

LEMMA RenameConnKeeps == ASSUME StructInv, RenameConn PROVE StructInv'
<1> USE DEF StructInv
<1>1. /\ LinksTyped' /\ CallTyped'
      /\ mut.op = "rename" /\ mut.name \in Names /\ mut.arg \in Names
      /\ links' = links /\ disk' = disk
      /\ \/ dc' = dc /\ mut' = NoCall
         \/ dc' = dc /\ WasRenamed(mut.name, mut.arg) /\ SameCall
         \/ /\ CanRename(mut.name, mut.arg) /\ dc' = RenamedConn(mut.name, mut.arg)
            /\ SameCall \/ mut' = NoCall
  BY RenameConnTypes
<1>2. /\ poll' = poll /\ writer' = writer /\ commands' = commands /\ stop' = stop /\ up' = up
  BY DEF RenameConn, threadVars
<1>3. up = TRUE
  BY <1>1, CallHeads, UpWhileCalled
<1>4. LinksSound' /\ StopSound'
  BY <1>1, <1>2, <1>3, LinksKept
<1>5. ThreadsSound'
  BY <1>1, <1>2 DEF ThreadsSound, StopHolds, Running
<1>6. mut.name # mut.arg /\ Exists(mut.name) /\ ~Exists(mut.arg) /\ ~Running(mut.name)
  BY <1>1 DEF CallSound
<1>7. ASSUME dc' = RenamedConn(mut.name, mut.arg), dc.conns[mut.arg] = 0
      PROVE  /\ dc'.next = dc.next /\ dc'.conns[mut.name] = 0 /\ dc'.conns[mut.arg] = dc.conns[mut.name]
             /\ \A o \in Names \ {mut.name, mut.arg} : dc'.conns[o] = dc.conns[o]
  BY <1>1, <1>6, <1>7, ConnsTyped
<1>8. CallSound'
  <2>1. CASE mut' = NoCall
    BY <2>1, NoCallSound
  <2>2. CASE SameCall
    <3>1. dc'.conns[mut.name] = 0
      BY <1>1, <1>7, <2>2 DEF WasRenamed, CanRename, SameCall, NoCall
    <3> QED BY <1>1, <1>6, <2>2, <3>1 DEF CallSound, At, SameCall, Exists, Running
  <2> QED BY <1>1, <2>1, <2>2
<1>9. ConnsSound'
  <2>1. CASE dc' = dc
    BY <2>1, ConnsKept
  <2>2. CASE CanRename(mut.name, mut.arg) /\ dc' = RenamedConn(mut.name, mut.arg)
    <3>1. /\ dc'.next = dc.next /\ dc'.conns[mut.name] = 0 /\ dc'.conns[mut.arg] = dc.conns[mut.name]
          /\ \A o \in Names \ {mut.name, mut.arg} : dc'.conns[o] = dc.conns[o]
      BY <1>7, <2>2 DEF CanRename
    <3>2. dc.next \in 1..(MaxId + 1) /\ MaxId \in Nat
      BY LinksAssumption DEF LinksTyped, DcRecords
    <3>3. \A n, m \in Names : dc'.conns[n] # 0 /\ dc'.conns[n] = dc'.conns[m] => n = m
      BY <1>1, <1>6, <3>1 DEF ConnsSound
    <3>4. \A n \in Names : dc'.conns[n] < dc'.next
      BY <1>1, <3>1, <3>2 DEF ConnsSound
    <3> QED BY <3>3, <3>4 DEF ConnsSound
  <2> QED BY <1>1, <2>1, <2>2
<1> QED BY <1>1, <1>4, <1>5, <1>8, <1>9

LEMMA CommitKeeps == ASSUME StructInv, CommitRename PROVE StructInv'
<1> USE DEF StructInv
<1>1. /\ LinksTyped' /\ mut' = NoCall
      /\ At("rename", "commit") /\ mut.name \in Names /\ mut.arg \in Names
      /\ links' = Renamed(links, mut.name, mut.arg)
  BY CommitTypes
<1>2. /\ poll' = poll /\ writer' = writer /\ commands' = commands /\ stop' = stop /\ up' = up
      /\ disk' = disk /\ dc' = dc
  BY DEF CommitRename, threadVars, worldVars
<1>3. PICK n \in Names, m \in Names : n = mut.name /\ m = mut.arg
  BY <1>1
<1>4. n # m /\ Exists(n) /\ ~Exists(m) /\ ~Running(n) /\ up = TRUE
  <2>1. mut.op = "rename"
    BY <1>1 DEF At
  <2> QED BY <1>3, <2>1, CallHeads, UpWhileCalled DEF CallSound
<1>5. /\ links'[m] = links[n] /\ links'[n] = NoLink
      /\ \A o \in Names \ {n, m} : links'[o] = links[o]
  BY <1>1, <1>3, <1>4 DEF Renamed, LinksTyped
<1>6. LinksSound'
  <2>1. \A o \in Names : Exists(o)' =>
            /\ Running(o)' <=> links'[o].bus # None
            /\ Running(o)' => links'[o].bus = links'[o].cfg
    BY <1>4, <1>5 DEF LinksSound, Exists, Running
  <2>2. \A o \in Names : Exists(o)' => Compatible(links[o].cfg, o)'
    BY <1>4, <1>5 DEF LinksSound, Exists, Compatible
  <2> QED BY <1>2, <1>4, <2>1, <2>2 DEF LinksSound, Exists
<1>7. StopSound'
  BY <1>2, <1>4, <1>5 DEF StopSound, Running, LinksTyped, StopRecords, NoLink
<1>8. ThreadsSound'
  <2>1. commands' \subseteq [name : Names, key : Configs]
    BY <1>1 DEF LinksTyped
  <2>2. ~Running(m)
    BY <1>4, LinkShape
  <2> QED BY <1>2, <1>4, <1>5, <2>1, <2>2, ThreadsKept DEF Running
<1> QED BY <1>1, <1>2, <1>6, <1>7, <1>8, NoCallSound, ConnsKept

LEMMA AcquireKeeps == ASSUME StructInv, AcquireBus PROVE StructInv'
<1> USE DEF StructInv
<1>1. /\ LinksTyped' /\ CallTyped' /\ mut.op = "start"
      /\ \/ mut' = NoCall
         \/ /\ SameCall /\ Head(mut'.steps) = "open"
            /\ Ready(mut.name) /\ links[mut.name].gen < MaxGen
  BY AcquireTypes DEF At
<1>2. /\ poll' = poll /\ writer' = writer /\ commands' = commands /\ stop' = stop /\ up' = up
      /\ links' = links /\ disk' = disk /\ dc' = dc /\ stop = NoStop
  BY DEF AcquireBus, threadVars, worldVars
<1>3. up = TRUE
  BY <1>1, CallHeads, UpWhileCalled
<1>4. CallSound'
  <2>1. CASE SameCall /\ Head(mut'.steps) = "open"
    BY <1>1, <1>2, <2>1 DEF CallSound, SameCall, At, Ready, Exists, NoCall
  <2> QED BY <1>1, <2>1, NoCallSound
<1>5. LinksSound' /\ StopSound'
  BY <1>2, <1>3, LinksKept
<1>6. ThreadsSound'
  BY <1>2 DEF ThreadsSound, StopHolds, Running
<1> QED BY <1>1, <1>2, <1>4, <1>5, <1>6, ConnsKept

LEMMA OpenKeeps == ASSUME StructInv, OpenBus PROVE StructInv'
<1> USE DEF StructInv
<1>1. /\ LinksTyped' /\ mut' = NoCall /\ At("start", "open") /\ mut.name \in Names
      /\ Exists(mut.name)
      /\ links[mut.name].cfg \in Configs
      /\ \A n \in Names : n # mut.name =>
            links'[n] = links[n] /\ poll'[n] = poll[n] /\ writer'[n] = writer[n]
      /\ \/ links' = links /\ poll' = poll /\ writer' = writer
         \/ /\ links'[mut.name].state = "running" /\ links'[mut.name].bus = links[mut.name].cfg
            /\ links'[mut.name].id = links[mut.name].id
            /\ links'[mut.name].cfg = links[mut.name].cfg
            /\ poll'[mut.name].key = links[mut.name].cfg
            /\ poll'[mut.name].id = links[mut.name].id
            /\ writer'[mut.name].key = links[mut.name].cfg
  BY OpenTypes
<1>2. /\ commands' = commands /\ stop' = stop /\ up' = up /\ disk' = disk /\ dc' = dc
  BY DEF OpenBus, worldVars
<1>3. PICK n \in Names : n = mut.name
  BY <1>1
<1>4. stop = NoStop /\ up = TRUE /\ Exists(n) /\ ~Running(n)
  <2>1. mut.op = "start"
    BY <1>1 DEF At
  <2> QED BY <1>1, <1>3, <2>1, CallHeads, UpWhileCalled DEF CallSound, Ready, Running
<1>5. CASE links' = links /\ poll' = poll /\ writer' = writer
  <2>1. LinksSound' /\ StopSound'
    BY <1>2, <1>4, <1>5, LinksKept
  <2>2. ThreadsSound'
    BY <1>2, <1>5 DEF ThreadsSound, StopHolds, Running
  <2> QED BY <1>1, <1>2, <2>1, <2>2, NoCallSound, ConnsKept
<1>6. CASE /\ links'[n].state = "running" /\ links'[n].bus = links[n].cfg
           /\ links'[n].id = links[n].id /\ links'[n].cfg = links[n].cfg
           /\ poll'[n].key = links[n].cfg /\ poll'[n].id = links[n].id
           /\ writer'[n].key = links[n].cfg
  <2>1. \A m \in Names : m # n =>
            links'[m] = links[m] /\ poll'[m] = poll[m] /\ writer'[m] = writer[m]
    BY <1>1, <1>3
  <2>2. links[n].cfg # None
    BY <1>1, <1>3, LinksAssumption
  <2>3. LinksSound'
    <3>1. \A o \in Names : Exists(o)' =>
              /\ Running(o)' <=> links'[o].bus # None
              /\ Running(o)' => links'[o].bus = links'[o].cfg
      BY <1>6, <2>1, <2>2 DEF LinksSound, Exists, Running
    <3>2. \A o \in Names : Exists(o)' => Compatible(links[o].cfg, o)'
      BY <1>4, <1>6, <2>1 DEF LinksSound, Exists, Compatible
    <3> QED BY <1>2, <1>4, <3>1, <3>2 DEF LinksSound, Exists
  <2>4. StopSound'
    BY <1>2, <1>4 DEF StopSound
  <2>5. ThreadsSound'
    <3>1. commands' \subseteq [name : Names, key : Configs]
      BY <1>1 DEF LinksTyped
    <3>2. \A m \in Names : Running(m) =>
                 /\ links'[m].state = "running" /\ links'[m].bus = links[m].bus
                 /\ links'[m].id = links[m].id
      BY <1>4, <2>1 DEF Running
    <3>3. \A m \in Names :
                 \/ poll'[m] = NoPoll
                 \/ poll[m] # NoPoll /\ poll'[m].key = poll[m].key /\ poll'[m].id = poll[m].id
                 \/ /\ links'[m].state = "running" /\ links'[m].bus = poll'[m].key
                    /\ links'[m].id = poll'[m].id
      BY <1>6, <2>1
    <3>4. \A m \in Names :
                 \/ writer'[m] = NoWriter
                 \/ writer[m] # NoWriter /\ writer'[m].key = writer[m].key
                 \/ links'[m].state = "running" /\ links'[m].bus = writer'[m].key
      BY <1>6, <2>1
    <3> QED BY <1>2, <3>1, <3>2, <3>3, <3>4, ThreadsKept
  <2> QED BY <1>1, <1>2, <2>3, <2>4, <2>5, NoCallSound, ConnsKept
<1> QED BY <1>1, <1>3, <1>5, <1>6

LEMMA DropKeeps == ASSUME StructInv, DropConn PROVE StructInv'
<1> USE DEF StructInv
<1>1. /\ LinksTyped' /\ CallTyped'
      /\ At("delete", "drop") /\ mut.name \in Names /\ ~Running(mut.name)
      /\ dc'.next = dc.next
      /\ \A n \in Names : n # mut.name => links'[n] = links[n] /\ dc'.conns[n] = dc.conns[n]
      /\ dc' = dc \/ dc'.conns[mut.name] = 0
      /\ \/ links'[mut.name] = NoLink /\ SameCall /\ Head(mut'.steps) = "saveLinks"
         \/ links' = links /\ mut' = NoCall
         \/ /\ Exists(mut.name) /\ links'[mut.name].state = "pending"
            /\ links'[mut.name].bus = links[mut.name].bus
            /\ links'[mut.name].cfg = links[mut.name].cfg
            /\ SameCall /\ Head(mut'.steps) = "saveLinks"
  BY DropTypes
<1>2. /\ poll' = poll /\ writer' = writer /\ commands' = commands /\ stop' = stop /\ up' = up
      /\ disk' = disk
  BY DEF DropConn, threadVars
<1>3. mut.op = "delete"
  BY <1>1 DEF At
<1>4. up = TRUE
  BY <1>3, CallHeads, UpWhileCalled
<1>5. CallSound'
  BY <1>1, <1>3, NoCallSound, SavingSound DEF SameCall
<1>6. LinksSound' /\ StopSound'
  <2>1. \A n \in Names : links'[n] # NoLink =>
               /\ links[n] # NoLink /\ links'[n].cfg = links[n].cfg
               /\ links'[n].bus = links[n].bus
               /\ links'[n].state = "running" <=> links[n].state = "running"
    BY <1>1 DEF Exists, Running
  <2> QED BY <1>2, <1>4, <2>1, LinksKept
<1>7. ThreadsSound'
  <2>1. commands' \subseteq [name : Names, key : Configs]
    BY <1>1 DEF LinksTyped
  <2> QED BY <1>1, <1>2, <2>1, ThreadsKept DEF Running
<1>8. ConnsSound'
  <2>1. \A n \in Names : dc'.conns[n] = dc.conns[n] \/ dc'.conns[n] = 0
    BY <1>1
  <2>2. dc.next \in 1..(MaxId + 1) /\ MaxId \in Nat
    BY LinksAssumption DEF LinksTyped, DcRecords
  <2>3. \A n, m \in Names : dc'.conns[n] # 0 /\ dc'.conns[n] = dc'.conns[m] => n = m
    BY <2>1 DEF ConnsSound
  <2>4. \A n \in Names : dc'.conns[n] < dc'.next
    BY <1>1, <2>1, <2>2 DEF ConnsSound
  <2> QED BY <2>3, <2>4 DEF ConnsSound
<1> QED BY <1>1, <1>5, <1>6, <1>7, <1>8

LEMMA StopKeeps ==
    ASSUME StructInv, \/ \E n \in Names : StopLink(n)
                      \/ StopForDelete
    PROVE  StructInv'
<1> USE DEF StructInv
<1>1. /\ LinksTyped' /\ CallTyped' /\ LifecycleFree
      /\ poll' = poll /\ commands' = commands
      /\ disk' = disk /\ dc' = dc /\ up' = up
      /\ \/ mut' = mut
         \/ At("delete", "stop") /\ mut.name \in Names /\ SameCall /\ Head(mut'.steps) = "drop"
            /\ ~Running(mut.name)'
      /\ \/ links' = links /\ stop' = stop /\ writer' = writer
         \/ \E n \in Names, by \in {"call", "delete"} : Stopped(n, by)
  BY StopTypes
<1>2. up = TRUE /\ stop = NoStop /\ ~At("start", "open")
  BY <1>1 DEF LifecycleFree, LinksTyped
<1>3. ASSUME \A n \in Names : /\ links'[n] = NoLink <=> links[n] = NoLink
                              /\ links'[n].state = "running" => links[n].state = "running"
                              /\ links[n] # NoLink => /\ links'[n].cfg = links[n].cfg
                                                      /\ links'[n].rev = links[n].rev
      PROVE  CallSound'
  <2>1. CASE mut' = mut
    BY <1>1, <1>2, <1>3, <2>1, CallKept
  <2>2. CASE At("delete", "stop") /\ SameCall /\ Head(mut'.steps) = "drop" /\ ~Running(mut.name)'
    BY <2>2 DEF CallSound, At, SameCall
  <2> QED BY <1>1, <2>1, <2>2
<1>4. CASE links' = links /\ stop' = stop /\ writer' = writer
  <2>1. CallSound'
    BY <1>3, <1>4
  <2>2. LinksSound' /\ StopSound'
    BY <1>1, <1>2, <1>4, LinksKept
  <2>3. ThreadsSound'
    BY <1>1, <1>4 DEF ThreadsSound, StopHolds, Running
  <2> QED BY <1>1, <2>1, <2>2, <2>3, ConnsKept
<1>5. ASSUME NEW n \in Names, NEW by \in {"call", "delete"}, Stopped(n, by)
      PROVE  StructInv'
  <2>1. /\ Exists(n) /\ links'[n].state # "running" /\ links'[n].bus = None
        /\ links'[n].cfg = links[n].cfg /\ links'[n].rev = links[n].rev /\ links'[n].id = links[n].id
        /\ \A m \in Names : m # n => links'[m] = links[m] /\ writer'[m] = writer[m]
        /\ stop'.at = "writers" /\ stop'.name = n /\ stop'.id = links[n].id
        /\ stop'.key = links[n].cfg /\ stop'.held = (links[n].bus # None)
    BY <1>5 DEF Stopped, Running
  <2>2. links'[n] # NoLink /\ stop' # NoStop
    <3>1. links'[n].state \in {"stopped", "pending"}
      BY <1>5, <2>1, LinkShape DEF Stopped, Running
    <3>2. NoLink.state = "none" /\ NoStop.at = "none"
      BY DEF NoLink, NoStop
    <3> QED BY <2>1, <3>1, <3>2
  <2>3. CallSound'
    BY <1>3, <2>1, <2>2 DEF Exists
  <2>4. LinksSound'
    <3>1. \A o \in Names : Exists(o)' =>
              /\ Running(o)' <=> links'[o].bus # None
              /\ Running(o)' => links'[o].bus = links'[o].cfg
      BY <2>1 DEF LinksSound, Exists, Running
    <3>2. \A o \in Names : Exists(o)' => Compatible(links[o].cfg, o)'
      BY <2>1 DEF LinksSound, Exists, Compatible
    <3> QED BY <1>1, <1>2, <3>1, <3>2 DEF LinksSound, Exists
  <2>5. StopSound'
    <3>1. ~Running(n)'
      BY <2>1 DEF Running
    <3>2. \A m \in Names : Running(m)' /\ links'[m].cfg[1] = links[n].cfg[1] =>
              links'[m].cfg = links[n].cfg
      <4>1. \A m \in Names : Running(m) => Exists(m)
        BY LinkShape
      <4> QED BY <2>1, <4>1 DEF LinksSound, Compatible, Running
    <3> QED BY <2>1, <3>1, <3>2 DEF StopSound
  <2>6. \A m \in Names : Running(m) /\ m # n => Running(m)'
    BY <2>1 DEF Running
  <2>7. Running(n) => /\ stop' # NoStop /\ stop'.name = n /\ stop'.held
                      /\ stop'.key = links[n].bus /\ stop'.at = "writers"
    <3>1. Running(n) => links[n].bus = links[n].cfg /\ links[n].bus # None
      BY <2>1 DEF LinksSound
    <3>2. Running(n) => stop'.held
      BY <2>1, <3>1
    <3> QED BY <2>1, <2>2, <3>1, <3>2
  <2>8. ThreadsSound'
    <3>1. ASSUME NEW m \in Names, poll'[m] # NoPoll
          PROVE  \/ Running(m)' /\ links'[m].bus = poll'[m].key /\ links'[m].id = poll'[m].id
                 \/ StopHolds(m, poll[m].key, {"writers", "poll"})' /\ stop'.id = poll'[m].id
      <4>1. Running(m) /\ links[m].bus = poll[m].key /\ links[m].id = poll[m].id
        BY <1>1, <1>2, <3>1 DEF ThreadsSound, StopHolds
      <4>2. CASE m = n
        BY <1>1, <2>1, <2>7, <4>1, <4>2 DEF StopHolds
      <4>3. CASE m # n
        BY <1>1, <2>1, <2>6, <4>1, <4>3
      <4> QED BY <4>2, <4>3
    <3>2. ASSUME NEW m \in Names, writer'[m] # NoWriter
          PROVE  \/ Running(m)' /\ links'[m].bus = writer'[m].key
                 \/ StopHolds(m, writer[m].key, {"writers"})'
      <4>1. writer[m] # NoWriter /\ writer'[m].key = writer[m].key
        BY <1>5, <2>1, <3>2 DEF Stopped
      <4>2. Running(m) /\ links[m].bus = writer[m].key
        BY <1>2, <4>1 DEF ThreadsSound, StopHolds
      <4>3. CASE m = n
        BY <2>1, <2>7, <4>1, <4>2, <4>3 DEF StopHolds
      <4>4. CASE m # n
        BY <2>1, <2>6, <4>1, <4>2, <4>4
      <4> QED BY <4>3, <4>4
    <3>3. ASSUME NEW c \in commands'
          PROVE  \/ Running(c.name)' /\ links'[c.name].bus = c.key
                 \/ StopHolds(c.name, c.key, {"writers", "poll", "say", "gate"})'
      <4>1. c \in commands /\ c.name \in Names
        BY <1>1 DEF LinksTyped
      <4>2. Running(c.name) /\ links[c.name].bus = c.key
        BY <1>2, <4>1 DEF ThreadsSound, StopHolds
      <4>3. CASE c.name = n
        BY <2>1, <2>7, <4>1, <4>2, <4>3 DEF StopHolds
      <4>4. CASE c.name # n
        BY <2>1, <2>6, <4>1, <4>2, <4>4
      <4> QED BY <4>3, <4>4
    <3> QED BY <3>1, <3>2, <3>3 DEF ThreadsSound
  <2> QED BY <1>1, <2>3, <2>4, <2>5, <2>8, ConnsKept
<1> QED BY <1>1, <1>4, <1>5

\* A call that has only begun has changed nothing yet but mut and its budget.
LEMMA BegunKeeps ==
    ASSUME StructInv, LinksTyped', CallTyped', CallSound', up,
           links' = links, poll' = poll, writer' = writer, commands' = commands, stop' = stop,
           up' = up, dc' = dc, disk'.links \in {disk.links, LinkRows(links)}
    PROVE  StructInv'
<1> USE DEF StructInv
<1>1. LinksSound' /\ StopSound'
  BY LinksKept
<1>2. ThreadsSound'
  BY DEF ThreadsSound, StopHolds, Running
<1> QED BY <1>1, <1>2, ConnsKept

LEMMA UpsertKeeps ==
    ASSUME StructInv, NEW n \in Names, NEW c \in Configs, UpsertLink(n, c)
    PROVE  StructInv'
<1> USE DEF StructInv, threadVars, worldVars
<1>1. LinksTyped' /\ CallTyped'
  BY TypesOfLinkCalls
<1>2. up /\ up' = up /\ Compatible(c, n)
      /\ poll' = poll /\ writer' = writer /\ commands' = commands /\ stop' = stop
      /\ disk' = disk /\ dc' = dc
  BY DEF UpsertLink, Idle
<1>3. CASE ~Exists(n)
  <2>1. mut' = Call("create", n, c, <<"register", "saveLinks", "saveTables">>) /\ links' = links
    BY <1>3 DEF UpsertLink
  <2>2. CallSound'
    <3>1. mut'.op = "create" /\ mut'.name = n /\ mut'.arg = c
      BY <2>1 DEF Call
    <3> QED BY <1>2, <1>3, <2>1, <3>1 DEF CallSound, At, Compatible, Exists
  <2> QED BY <1>1, <1>2, <2>1, <2>2, BegunKeeps
<1>4. CASE Exists(n)
  <2>1. /\ links[n].state = "stopped" /\ links' = [links EXCEPT ![n].cfg = c]
        /\ mut' = Call("upsert", n, c, <<"saveLinks", "saveTables">>)
    BY <1>4 DEF UpsertLink
  <2>2. mut'.op = "upsert" /\ Head(mut'.steps) = "saveLinks"
    BY <2>1, StepLists DEF Call
  <2>3. CallSound'
    BY <2>2, SavingSound
  <2> DEFINE l == [links[n] EXCEPT !.cfg = c]
  <2>4. links' = [links EXCEPT ![n] = l] /\ links[n] \in LinkType
    BY <1>4, <2>1, LinkShape DEF LinksTyped
  <2>5. l.state = "stopped" /\ l.bus = links[n].bus /\ l.cfg = c /\ l.id = links[n].id
    BY <2>1, <2>4 DEF LinkType
  <2> HIDE DEF l
  <2>6. links'[n] = l /\ \A m \in Names : m # n => links'[m] = links[m]
    BY <2>4 DEF LinksTyped
  <2>7. ~Running(n)
    BY <2>1 DEF Running
  <2>8. LinksSound'
    <3>1. \A o \in Names : Exists(o)' =>
              /\ Running(o)' <=> links'[o].bus # None
              /\ Running(o)' => links'[o].bus = links'[o].cfg
      BY <1>4, <2>5, <2>6, <2>7 DEF LinksSound, Exists, Running
    <3>2. \A o \in Names : Exists(o)' => Compatible(links[o].cfg, o)'
      BY <1>2, <1>4, <2>5, <2>6 DEF LinksSound, Exists, Compatible
    <3> QED BY <1>2, <3>1, <3>2 DEF LinksSound, Exists
  <2>9. StopSound'
    BY <1>2, <2>5, <2>6 DEF StopSound, Running, LinksTyped, StopRecords
  <2>10. ThreadsSound'
    <3>1. commands' \subseteq [name : Names, key : Configs]
      BY <1>1 DEF LinksTyped
    <3> QED BY <1>2, <2>6, <2>7, <3>1, ThreadsKept DEF Running
  <2> QED BY <1>1, <1>2, <2>3, <2>8, <2>9, <2>10, ConnsKept
<1> QED BY <1>3, <1>4

LEMMA LinkCallsKeep ==
    ASSUME StructInv,
           \/ \E n \in Names, c \in Configs : UpsertLink(n, c)
           \/ \E n \in Names, t \in Tables : UpsertPointTable(n, t)
           \/ \E n, m \in Names : RenameLink(n, m)
           \/ \E n \in Names : StartLink(n) \/ AutoStart(n) \/ DeleteLink(n)
    PROVE  StructInv'
<1> USE DEF StructInv, threadVars, worldVars
<1>1. LinksTyped' /\ CallTyped'
  BY TypesOfLinkCalls
<1>2. ASSUME NEW n \in Names, NEW t \in Tables, UpsertPointTable(n, t) PROVE StructInv'
  <2>1. up /\ up' = up /\ mut = NoCall /\ Exists(n) /\ links[n].rev < MaxRev
        /\ links' = links /\ poll' = poll /\ writer' = writer /\ commands' = commands
        /\ stop' = stop /\ dc' = dc
    BY <1>2 DEF UpsertPointTable, Idle
  <2>2. disk'.links = disk.links
    BY <1>2 DEF UpsertPointTable, LinksTyped, DiskRecords
  <2>3. CallSound'
    <3>1. CASE mut' = Call("table", n, t, <<"sync">>)
      BY <2>1, <3>1 DEF CallSound, At, Call, Exists
    <3> QED BY <1>2, <2>1, <3>1, NoCallSound DEF UpsertPointTable
  <2> QED BY <1>1, <2>1, <2>2, <2>3, BegunKeeps
<1>3. ASSUME NEW n \in Names, NEW m \in Names, RenameLink(n, m) PROVE StructInv'
  <2>1. up /\ up' = up /\ n # m /\ Exists(n) /\ ~Exists(m) /\ links[n].state = "stopped"
        /\ links' = links /\ poll' = poll /\ writer' = writer /\ commands' = commands
        /\ stop' = stop /\ dc' = dc /\ disk' = disk
        /\ mut' = Call("rename", n, m, <<"rename", "saveLinks", "saveTables", "commit">>)
    BY <1>3 DEF RenameLink, Idle
  <2>2. mut'.op = "rename" /\ mut'.name = n /\ mut'.arg = m /\ Head(mut'.steps) = "rename"
    BY <2>1, StepLists DEF Call
  <2>3. CallSound'
    BY <2>1, <2>2 DEF CallSound, At, Exists, Running
  <2> QED BY <1>1, <2>1, <2>3, BegunKeeps
<1>4. ASSUME NEW n \in Names, StartLink(n) \/ AutoStart(n) \/ DeleteLink(n) PROVE StructInv'
  <2>1. up /\ up' = up /\ mut = NoCall
        /\ links' = links /\ poll' = poll /\ writer' = writer /\ commands' = commands
        /\ stop' = stop /\ dc' = dc /\ disk' = disk
        /\ \/ mut' = mut
           \/ mut' = Call("start", n, None, <<"acquire", "open">>)
           \/ mut' = Call("delete", n, None, <<"stop", "drop", "saveLinks", "saveTables">>)
    BY <1>4 DEF StartLink, AutoStart, DeleteLink, Idle
  <2>2. \/ mut' = NoCall
        \/ mut'.op = "start" /\ Head(mut'.steps) = "acquire"
        \/ mut'.op = "delete" /\ Head(mut'.steps) = "stop"
    BY <2>1, StepLists DEF Call
  <2>3. CallSound'
    BY <2>2, NoCallSound DEF CallSound, At
  <2> QED BY <1>1, <2>1, <2>3, BegunKeeps
<1> QED BY <1>2, <1>3, <1>4, UpsertKeeps

LEMMA LoadKeeps == ASSUME StructInv, LoadPersistedConfig PROVE StructInv'
<1> USE DEF StructInv
<1>1. /\ LinksTyped' /\ CallTyped' /\ ConnsSound'
      /\ \E found \in SUBSET Saved : \E untagged \in SUBSET found : \E ids \in [found -> Ids] :
            Loaded(found, untagged, ids)
  BY LoadLemma
<1>2. PICK found \in SUBSET Saved :
        \E untagged \in SUBSET found : \E ids \in [found -> Ids] : Loaded(found, untagged, ids)
  BY <1>1
<1>3. PICK untagged \in SUBSET found : \E ids \in [found -> Ids] : Loaded(found, untagged, ids)
  BY <1>2
<1>4. PICK ids \in [found -> Ids] : Loaded(found, untagged, ids)
  BY <1>3
<1>5. ~up /\ stop = NoStop /\ \A n \in Names : ~Exists(n) /\ ~Running(n)
  BY LinkShape DEF LoadPersistedConfig, LinksSound
<1>6. /\ up' = TRUE /\ stop' = NoStop /\ disk' = disk
      /\ poll' = poll /\ writer' = writer /\ commands' = commands
  BY <1>4, <1>5 DEF Loaded
<1>7. \A n \in found : /\ links'[n] # NoLink /\ links'[n].state # "running" /\ links'[n].bus = None
                       /\ links'[n].cfg = disk.links[n].cfg
  <2> SUFFICES ASSUME NEW n \in found
               PROVE  /\ links'[n] # NoLink /\ links'[n].state # "running" /\ links'[n].bus = None
                      /\ links'[n].cfg = disk.links[n].cfg
    OBVIOUS
  <2>1. n \in Saved /\ n \in Names
    BY DEF Saved
  <2>2. /\ disk.links[n].cfg \in Configs /\ disk.links[n].pending \in BOOLEAN
        /\ SavedTable(n).table \in Tables /\ SavedTable(n).rev \in 1..MaxRev
    BY <2>1, SavedTyped DEF Rows, TableRecords
  <2>3. links'[n] = Link(ids[n], disk.links[n].cfg, disk.links[n].pending,
                         SavedTable(n).table, SavedTable(n).rev)
    BY <1>4 DEF Loaded
  <2>4. /\ links'[n].cfg = disk.links[n].cfg /\ links'[n].bus = None
        /\ links'[n].state \in {"pending", "stopped"}
    BY <2>3 DEF Link
  <2>5. NoLink.state = "none"
    BY DEF NoLink
  <2> QED BY <2>4, <2>5
<1>8. \A n \in Names : Exists(n)' => n \in found
  BY <1>4 DEF Loaded, Exists
<1>9. CallSound'
  <2>1. mut' = NoCall \/ mut'.op = "load"
    BY <1>4 DEF Loaded
  <2> QED BY <2>1, NoCallSound DEF CallSound, At
<1>10. LinksSound'
  <2>1. found \subseteq Saved
    OBVIOUS
  <2>2. \A n \in Names : Exists(n)' =>
            /\ Running(n)' <=> links'[n].bus # None
            /\ Running(n)' => links'[n].bus = links'[n].cfg
    BY <1>7, <1>8 DEF Running
  <2>3. \A n \in Names : Exists(n)' => Compatible(links[n].cfg, n)'
    BY <1>7, <1>8, <2>1 DEF LinksSound, Compatible, Saved
  <2> QED BY <1>6, <2>2, <2>3 DEF LinksSound
<1>11. StopSound'
  BY <1>6 DEF StopSound
<1>12. ThreadsSound'
  <2>1. /\ \A n \in Names : poll[n] = NoPoll /\ writer[n] = NoWriter
        /\ commands = {}
    BY <1>5 DEF ThreadsSound, StopHolds, LinksTyped
  <2> QED BY <1>6, <2>1 DEF ThreadsSound
<1> QED BY <1>1, <1>9, <1>10, <1>11, <1>12

LEMMA CrashKeeps == ASSUME StructInv, Crash PROVE StructInv'
<1> USE DEF StructInv, worldVars, ghosts
<1>1. /\ up' = FALSE /\ links' = [n \in Names |-> NoLink]
      /\ poll' = [n \in Names |-> NoPoll] /\ writer' = [n \in Names |-> NoWriter] /\ commands' = {}
      /\ mut' = NoCall /\ stop' = NoStop /\ todo' = {}
      /\ disk' = disk /\ dc' = dc /\ askew' = askew /\ muted' = muted
  BY DEF Crash
<1>2. LinksTyped'
  BY <1>1 DEF LinksTyped
<1>3. \A n \in Names : ~Exists(n)' /\ ~Running(n)'
  BY <1>1 DEF Exists, Running, NoLink
<1>4. LinksSound' /\ StopSound' /\ ThreadsSound'
  BY <1>1, <1>3 DEF LinksSound, StopSound, ThreadsSound
<1> QED BY <1>1, <1>2, <1>4, NoCallSound, ConnsKept

LEMMA UnreadableKeeps == ASSUME StructInv, UnreadableConfig PROVE StructInv'
<1> USE DEF StructInv, worldVars, threadVars
<1>1. /\ ~up /\ up' = TRUE /\ askew' = TRUE /\ links' = links /\ poll' = poll /\ writer' = writer
      /\ commands' = commands /\ mut' = mut /\ stop' = stop /\ todo' = todo
      /\ disk' = disk /\ dc' = dc /\ muted' = muted
  BY DEF UnreadableConfig
<1>2. LinksTyped'
  BY <1>1 DEF LinksTyped
<1>3. mut' = NoCall
  BY <1>1 DEF LinksSound
<1>4. LinksSound' /\ StopSound' /\ ThreadsSound'
  BY <1>1 DEF LinksSound, StopSound, ThreadsSound, StopHolds, Exists, Running, Compatible
<1> QED BY <1>1, <1>2, <1>3, <1>4, NoCallSound, ConnsKept

LEMMA StutterKeeps == ASSUME StructInv, UNCHANGED linkVars PROVE StructInv'
BY DEF linkVars, threadVars, worldVars, ghosts, StructInv, LinksTyped, CallTyped, CallSound,
       LinksSound, StopSound, ThreadsSound, ConnsSound, At, Exists, Running, Compatible, Ready, StopHolds

\* Every step keeps it.
LEMMA StructNext == ASSUME StructInv, [LinksNext]_linkVars PROVE StructInv'
<1>1. CASE NewCall
  BY <1>1, ThreadKeeps, StopKeeps, LinkCallsKeep DEF NewCall, Thread
<1>2. CASE MutStep
  BY <1>2, RegisterKeeps, SyncKeeps, RenameConnKeeps, CommitKeeps, SaveKeeps, AcquireKeeps,
     OpenKeeps, StopKeeps, DropKeeps DEF MutStep
<1>3. CASE \E n \in Names : AutoStart(n) \/ PollStep(n) \/ WriterStep(n)
  BY <1>3, ThreadKeeps, LinkCallsKeep DEF Thread
<1>4. CASE \E c \in commands : EndCommand(c)
  BY <1>4, ThreadKeeps DEF Thread
<1> QED BY <1>1, <1>2, <1>3, <1>4, StopStepKeeps, LoadKeeps, UnreadableKeeps, CrashKeeps,
           StutterKeeps DEF LinksNext

LEMMA StructInit == ASSUME LinksInit PROVE StructInv
<1>1. /\ links = [n \in Names |-> NoLink]
      /\ poll = [n \in Names |-> NoPoll] /\ writer = [n \in Names |-> NoWriter] /\ commands = {}
      /\ mut = NoCall /\ stop = NoStop /\ todo = {} /\ up = FALSE /\ askew = FALSE /\ muted = {}
  BY DEF LinksInit
<1>2. PICK w \in Worlds :
        LET had == {n \in Names : w.saved[n] # None}
        IN \E ids \in [had -> 1..Cardinality(had)] :
             /\ \A n, m \in had : ids[n] = ids[m] => n = m
             /\ disk = [links |-> [n \in Names |-> IF n \notin had THEN NoRow ELSE
                            [id |-> ids[n], cfg |-> w.saved[n].cfg, pending |-> FALSE]],
                        tables |-> [n \in Names |-> IF n \notin had THEN NoTable ELSE
                            [table |-> w.saved[n].table, rev |-> 1]]]
             /\ dc = [conns |-> [n \in Names |-> IF n \in had THEN ids[n] ELSE 0],
                      tags |-> [i \in Ids |-> UNION {w.saved[n].table : n \in {o \in had : ids[o] = i}}],
                      comm |-> [i \in Ids |-> "none"], next |-> Cardinality(had) + 1]
  BY DEF LinksInit
<1> DEFINE had == {n \in Names : w.saved[n] # None}
<1>3. PICK ids \in [had -> 1..Cardinality(had)] :
        /\ \A n, m \in had : ids[n] = ids[m] => n = m
        /\ disk = [links |-> [n \in Names |-> IF n \notin had THEN NoRow ELSE
                       [id |-> ids[n], cfg |-> w.saved[n].cfg, pending |-> FALSE]],
                   tables |-> [n \in Names |-> IF n \notin had THEN NoTable ELSE
                       [table |-> w.saved[n].table, rev |-> 1]]]
        /\ dc = [conns |-> [n \in Names |-> IF n \in had THEN ids[n] ELSE 0],
                 tags |-> [i \in Ids |-> UNION {w.saved[n].table : n \in {o \in had : ids[o] = i}}],
                 comm |-> [i \in Ids |-> "none"], next |-> Cardinality(had) + 1]
  BY <1>2
<1>4. Cardinality(had) \in Nat /\ Cardinality(had) <= MaxId /\ MaxId \in Nat
  <2>1. IsFiniteSet(Names) /\ Cardinality(Names) <= MaxId /\ Cardinality(Names) \in Nat /\ MaxId \in Nat
    BY LinksAssumption, FS_CardinalityType
  <2>2. IsFiniteSet(had) /\ Cardinality(had) <= Cardinality(Names) /\ Cardinality(had) \in Nat
    BY <2>1, FS_Subset, FS_CardinalityType
  <2> QED BY <2>1, <2>2
<1>5. \A n \in had : w.saved[n].cfg \in Configs /\ w.saved[n].table \in Tables
  BY LinksAssumption
<1>6. \A n \in had : ids[n] \in Ids /\ ids[n] # 0 /\ ids[n] < Cardinality(had) + 1
  BY <1>4 DEF Ids
<1>7. disk \in DiskRecords
  <2>1. 1 \in 1..MaxRev
    BY LinksAssumption
  <2>2. \A n \in had : [id |-> ids[n], cfg |-> w.saved[n].cfg, pending |-> FALSE] \in Rows
    BY <1>5, <1>6 DEF Rows
  <2>3. \A n \in had : [table |-> w.saved[n].table, rev |-> 1] \in TableRecords
    BY <1>5, <2>1 DEF TableRecords
  <2> HIDE DEF had
  <2> QED BY <1>3, <2>2, <2>3 DEF DiskRecords
<1>8. dc \in DcRecords
  <2>1. \A n \in Names : (IF n \in had THEN ids[n] ELSE 0) \in 0..MaxId
    BY <1>4, <1>6 DEF Ids
  <2>2. \A i \in Ids : UNION {w.saved[n].table : n \in {o \in had : ids[o] = i}} \in SUBSET UNION Tables
    BY <1>5
  <2>3. Cardinality(had) + 1 \in 1..(MaxId + 1)
    BY <1>4
  <2> HIDE DEF had
  <2> QED BY <1>3, <2>1, <2>2, <2>3 DEF DcRecords
<1>9. LinksTyped
  BY <1>1, <1>7, <1>8 DEF LinksTyped
<1>10. CallTyped /\ CallSound
  BY <1>1 DEF CallTyped, CallSound, At, NoCall
<1>11. LinksSound
  <2>1. \A n \in Names : ~Exists(n)
    BY <1>1 DEF Exists
  <2>2. \A n \in Names : disk.links[n] # NoRow => n \in had /\ disk.links[n].cfg = w.saved[n].cfg
    BY <1>3
  <2>3. \A n, m \in Names : disk.links[n] # NoRow /\ disk.links[m] # NoRow
                           /\ disk.links[n].cfg[1] = disk.links[m].cfg[1] =>
                              disk.links[n].cfg = disk.links[m].cfg
    BY <2>2, LinksAssumption
  <2> QED BY <1>1, <2>1, <2>3 DEF LinksSound
<1>12. StopSound /\ ThreadsSound
  BY <1>1 DEF StopSound, ThreadsSound
<1>13. ConnsSound
  <2>1. \A n \in Names : dc.conns[n] = IF n \in had THEN ids[n] ELSE 0
    BY <1>3
  <2>2. dc.next = Cardinality(had) + 1
    BY <1>3
  <2> HIDE DEF had
  <2> QED BY <1>3, <1>4, <1>6, <2>1, <2>2 DEF ConnsSound
<1> QED BY <1>9, <1>10, <1>11, <1>12, <1>13 DEF StructInv

-----------------------------------------------------------------------------
(* The count of a bus is the number of those that hold it.                 *)

LEMMA HoldersFinite ==
    ASSUME StructInv, NEW k
    PROVE  /\ HolderNames(k) \subseteq Names /\ IsFiniteSet(HolderNames(k))
           /\ Cardinality(HolderNames(k)) \in Nat
           /\ Cardinality(HolderNames(k)) <= Cardinality(Names)
<1>1. stop # NoStop => stop.name \in Names
  BY DEF StructInv, LinksTyped, StopRecords
<1>2. At("start", "open") => mut.name \in Names
  BY CallHeads DEF StructInv, At
<1>3. HolderNames(k) \subseteq Names
  BY <1>1, <1>2 DEF HolderNames
<1> QED BY <1>3, LinksAssumption, FS_Subset, FS_CardinalityType

LEMMA BusesSame ==
    ASSUME BusesCounted, buses' = buses, \A k \in Configs : HolderNames(k)' = HolderNames(k)
    PROVE  BusesCounted'
BY DEF BusesCounted

\* The holders are the same while the links have their buses and no start is
\* about to open one.
LEMMA HoldersKept ==
    ASSUME StructInv, BusesCounted, buses' = buses, stop' = stop,
           ~At("start", "open"), ~At("start", "open")',
           \A n \in Names, k \in Configs :
               links'[n] # NoLink /\ links'[n].bus = k <=> links[n] # NoLink /\ links[n].bus = k
    PROVE  BusesCounted'
<1>1. ASSUME NEW k \in Configs PROVE HolderNames(k)' = HolderNames(k)
  <2>1. {n \in Names : links'[n] # NoLink /\ links'[n].bus = k}
          = {n \in Names : links[n] # NoLink /\ links[n].bus = k}
    OBVIOUS
  <2> QED BY <2>1 DEF HolderNames, Exists
<1> QED BY <1>1, BusesSame

LEMMA HoldersOfSame ==
    ASSUME links' = links, stop' = stop, mut' = mut, NEW k
    PROVE  HolderNames(k)' = HolderNames(k)
BY DEF HolderNames, Exists, At

LEMMA BusesOfThreads == ASSUME StructInv, BusesCounted, Thread PROVE BusesCounted'
<1>1. ThreadsRan
  BY ThreadTypes DEF StructInv
<1> QED BY <1>1, HoldersOfSame, BusesSame DEF ThreadsRan

LEMMA BusesOfStopStep == ASSUME StructInv, BusesCounted, StopStep PROVE BusesCounted'
<1>1. StopGoes
  BY StopStepTypes DEF StructInv
<1>2. /\ links' = links /\ mut' = mut /\ stop # NoStop /\ ~Running(stop.name) /\ stop.name \in Names
      /\ stop.key \in Configs /\ stop \in StopRecords
  BY <1>1 DEF StopGoes, StructInv, StopSound, StopRecords, NoStop
<1>3. ~At("start", "open") /\ ~At("start", "open")'
  BY <1>2 DEF StructInv, CallSound, At
<1>4. \A k \in Configs : {n \in Names : Exists(n)' /\ links'[n].bus = k}
                           = {n \in Names : Exists(n) /\ links[n].bus = k}
  BY <1>2 DEF Exists
<1>5. \A k \in Configs : stop.name \notin {n \in Names : Exists(n) /\ links[n].bus = k}
  BY <1>2, LinksAssumption DEF StructInv, LinksSound
<1>6. CASE stop' \in StopRecords /\ buses' = buses /\ stop'.name = stop.name
           /\ stop'.key = stop.key /\ stop'.held = stop.held
  <2>1. stop' # NoStop
    BY <1>6 DEF StopRecords, NoStop
  <2>2. ASSUME NEW k \in Configs PROVE HolderNames(k)' = HolderNames(k)
    <3>1. CASE stop.held /\ stop.key = k
      BY <1>2, <1>3, <1>4, <1>6, <2>1, <3>1 DEF HolderNames
    <3>2. CASE ~(stop.held /\ stop.key = k)
      BY <1>2, <1>3, <1>4, <1>6, <2>1, <3>2 DEF HolderNames
    <3> QED BY <3>1, <3>2
  <2> QED BY <1>6, <2>2, BusesSame
<1>7. CASE stop' = NoStop /\ ~stop.held /\ buses' = buses
  <2>1. ASSUME NEW k \in Configs PROVE HolderNames(k)' = HolderNames(k)
    BY <1>3, <1>4, <1>7 DEF HolderNames
  <2> QED BY <1>7, <2>1, BusesSame
<1>8. CASE stop' = NoStop /\ stop.held /\ buses' = [buses EXCEPT ![stop.key] = @ - 1]
  <2>1. PICK c \in Configs : c = stop.key
    BY <1>2
  <2>2. \A k \in Configs : HolderNames(k)' = {n \in Names : Exists(n) /\ links[n].bus = k}
    BY <1>3, <1>4, <1>8 DEF HolderNames
  <2>3. HolderNames(c) = {n \in Names : Exists(n) /\ links[n].bus = c} \cup {stop.name}
    BY <1>2, <1>3, <1>8, <2>1 DEF HolderNames
  <2>4. HolderNames(c)' = HolderNames(c) \ {stop.name} /\ stop.name \in HolderNames(c)
    BY <1>5, <2>2, <2>3
  <2>5. Cardinality(HolderNames(c))' = Cardinality(HolderNames(c)) - 1
        /\ Cardinality(HolderNames(c))' \in Nat
    BY <2>4, HoldersFinite, FS_RemoveElement, FS_CardinalityType
  <2>6. \A k \in Configs \ {c} : HolderNames(k)' = HolderNames(k)
    BY <1>3, <1>8, <2>1, <2>2 DEF HolderNames
  <2>7. buses \in [Configs -> Nat] /\ \A k \in Configs : buses[k] = Cardinality(HolderNames(k))
    BY DEF BusesCounted
  <2>8. buses' \in [Configs -> Nat]
    BY <1>8, <2>1, <2>5, <2>7
  <2>9. \A k \in Configs : buses'[k] = Cardinality(HolderNames(k))'
    BY <1>8, <2>1, <2>5, <2>6, <2>7
  <2> QED BY <2>8, <2>9 DEF BusesCounted
<1> QED BY <1>1, <1>6, <1>7, <1>8 DEF StopGoes

LEMMA NoHeadIsOpen ==
    ASSUME CallTyped, mut # NoCall => Head(mut.steps) # "open"
    PROVE  ~At("start", "open")
BY CallHeads DEF At

\* Steps of a call that leave the buses alone.
LEMMA BusesOfChanges ==
    ASSUME StructInv, BusesCounted,
           RegisterLink \/ SyncTags \/ RenameConn \/ CommitRename \/ SaveLinks \/ SaveTables \/ DropConn
    PROVE  BusesCounted'
<1> USE DEF StructInv
<1>1. buses' = buses /\ stop' = stop
  BY DEF RegisterLink, SyncTags, RenameConn, CommitRename, SaveLinks, SaveTables, DropConn
<1>2. /\ mut.op \in {"create", "table", "rename", "upsert", "delete", "load"}
      /\ mut' = NoCall \/ SameCall
  <2>1. RegisterLink => mut.op = "create" /\ (mut' = NoCall \/ SameCall)
    BY RegisterTypes
  <2>2. SyncTags => mut.op = "table" /\ mut' = NoCall
    BY SyncTypes
  <2>3. RenameConn => mut.op = "rename" /\ (mut' = NoCall \/ SameCall)
    BY RenameConnTypes
  <2>4. CommitRename => mut.op = "rename" /\ mut' = NoCall
    BY CommitTypes DEF At
  <2>5. SaveLinks \/ SaveTables =>
           mut.op \in {"upsert", "create", "rename", "delete", "load"} /\ (mut' = NoCall \/ SameCall)
    <3> SUFFICES ASSUME SaveLinks \/ SaveTables
                 PROVE  /\ mut.op \in {"upsert", "create", "rename", "delete", "load"}
                        /\ mut' = NoCall \/ SameCall
      OBVIOUS
    <3>1. mut # NoCall /\ mut.op \in {"upsert", "create", "rename", "delete", "load"}
      BY SaveTypes
    <3>2. Done \/ Abort
      BY DEF SaveLinks, SaveTables, SaveFails
    <3> QED BY <3>1, <3>2, DoneLemma, AbortLemma
  <2>6. DropConn => mut.op = "delete" /\ (mut' = NoCall \/ SameCall)
    BY DropTypes DEF At
  <2> QED BY <2>1, <2>2, <2>3, <2>4, <2>5, <2>6
<1>3. ~At("start", "open") /\ ~At("start", "open")'
  BY <1>2 DEF At, SameCall, NoCall
<1>4. \A n \in Names, k \in Configs :
          links'[n] # NoLink /\ links'[n].bus = k <=> links[n] # NoLink /\ links[n].bus = k
  <2>1. CASE RegisterLink
    <3>1. \/ links' = links
          \/ links' = [links EXCEPT ![mut.name] = Link(ConnOf(mut.name), mut.arg, FALSE, {}, 1)]
      BY <2>1, RegisterTypes
    <3>2. Link(ConnOf(mut.name), mut.arg, FALSE, {}, 1).bus = None
      BY DEF Link
    <3>3. mut.name \in Names /\ links[mut.name] = NoLink
      BY <2>1, CallHeads DEF RegisterLink, At, CallSound, Exists
    <3> QED BY <3>1, <3>2, <3>3, LinksAssumption DEF LinksTyped
  <2>2. CASE SyncTags
    <3>1. /\ mut.name \in Names /\ Exists(mut.name) /\ LinksTyped'
          /\ \A n \in Names : n # mut.name => links'[n] = links[n]
          /\ links'[mut.name].state = links[mut.name].state
          /\ links'[mut.name].bus = links[mut.name].bus
      BY <2>2, SyncTypes
    <3>2. links'[mut.name] # NoLink
      BY <3>1, LinkShape DEF NoLink
    <3> QED BY <3>1, <3>2 DEF Exists
  <2>3. CASE RenameConn \/ SaveLinks \/ SaveTables
    BY <2>3 DEF RenameConn, SaveLinks, SaveTables
  <2>4. CASE CommitRename
    <3>1. PICK n \in Names, m \in Names : n = mut.name /\ m = mut.arg /\ links' = Renamed(links, n, m)
      BY <2>4, CommitTypes
    <3>2. n # m /\ Exists(n) /\ ~Exists(m) /\ ~Running(n)
      BY <2>4, <3>1, CommitTypes DEF CallSound, At
    <3>3. /\ links'[m] = links[n] /\ links'[n] = NoLink
          /\ \A o \in Names \ {n, m} : links'[o] = links[o]
      BY <3>1, <3>2 DEF Renamed, LinksTyped
    <3>4. links[n].bus = None
      BY <3>2 DEF LinksSound
    <3> QED BY <3>2, <3>3, <3>4, LinksAssumption DEF Exists
  <2>5. CASE DropConn
    <3>1. PICK n \in Names : n = mut.name
      BY <2>5, DropTypes
    <3>2. /\ ~Running(n)
          /\ \A m \in Names : m # n => links'[m] = links[m]
          /\ \/ links'[n] = NoLink
             \/ links' = links
             \/ Exists(n) /\ links'[n].bus = links[n].bus /\ links'[n].state = "pending"
      BY <2>5, <3>1, DropTypes
    <3>3. Exists(n) => links[n].bus = None
      BY <3>2 DEF LinksSound
    <3> QED BY <3>2, <3>3, LinksAssumption DEF Exists
  <2> QED BY <2>1, <2>2, <2>3, <2>4, <2>5
<1> QED BY <1>1, <1>3, <1>4, HoldersKept

LEMMA BusesOfCalls ==
    ASSUME StructInv, BusesCounted,
           \/ \E n \in Names, c \in Configs : UpsertLink(n, c)
           \/ \E n \in Names, t \in Tables : UpsertPointTable(n, t)
           \/ \E n, m \in Names : RenameLink(n, m)
           \/ \E n \in Names : StartLink(n) \/ AutoStart(n) \/ DeleteLink(n)
    PROVE  BusesCounted'
<1> USE DEF StructInv
<1>1. buses' = buses /\ stop' = stop /\ mut = NoCall
  BY DEF UpsertLink, UpsertPointTable, RenameLink, StartLink, AutoStart, DeleteLink, Idle
<1>2. \/ mut' = NoCall
      \/ mut'.op \in {"upsert", "create", "table", "rename", "delete"}
      \/ mut'.op = "start" /\ Head(mut'.steps) = "acquire"
  BY <1>1, StepLists DEF UpsertLink, UpsertPointTable, RenameLink, StartLink, AutoStart, DeleteLink, Call
<1>3. ~At("start", "open") /\ ~At("start", "open")'
  BY <1>1, <1>2 DEF At, NoCall
<1>4. \A n \in Names, k \in Configs :
          links'[n] # NoLink /\ links'[n].bus = k <=> links[n] # NoLink /\ links[n].bus = k
  <2>1. CASE links' = links
    BY <2>1
  <2>2. ASSUME NEW n \in Names, NEW c \in Configs, Exists(n), links' = [links EXCEPT ![n].cfg = c]
        PROVE  \A m \in Names, k \in Configs :
                  links'[m] # NoLink /\ links'[m].bus = k <=> links[m] # NoLink /\ links[m].bus = k
    <3> DEFINE l == [links[n] EXCEPT !.cfg = c]
    <3>1. links[n] \in LinkType
      BY <2>2, LinkShape
    <3>2. links' = [links EXCEPT ![n] = l]
      BY <2>2 DEF LinksTyped
    <3>3. l.bus = links[n].bus /\ l.state = links[n].state /\ links[n].state # "none"
      BY <3>1 DEF LinkType
    <3>4. NoLink.state = "none"
      BY DEF NoLink
    <3> HIDE DEF l
    <3> QED BY <2>2, <3>2, <3>3, <3>4 DEF LinksTyped, Exists
  <2>3. \/ links' = links
        \/ \E n \in Names, c \in Configs : Exists(n) /\ links' = [links EXCEPT ![n].cfg = c]
    BY DEF UpsertLink, UpsertPointTable, RenameLink, StartLink, AutoStart, DeleteLink
  <2> QED BY <2>1, <2>2, <2>3
<1> QED BY <1>1, <1>3, <1>4, HoldersKept

LEMMA BusesOfAcquire == ASSUME StructInv, BusesCounted, AcquireBus PROVE BusesCounted'
<1> USE DEF StructInv
<1>1. /\ At("start", "acquire") /\ mut.name \in Names
      /\ \/ mut' = NoCall /\ buses' = buses
         \/ /\ SameCall /\ Head(mut'.steps) = "open" /\ Ready(mut.name)
            /\ buses' = [buses EXCEPT ![links[mut.name].cfg] = @ + 1]
  BY AcquireTypes
<1>2. links' = links /\ stop' = stop /\ stop = NoStop /\ ~At("start", "open")
  BY <1>1 DEF AcquireBus, At
<1>3. \A k \in Configs : HolderNames(k) = {n \in Names : Exists(n) /\ links[n].bus = k}
  BY <1>2 DEF HolderNames
<1>4. CASE mut' = NoCall /\ buses' = buses
  <2>1. ~At("start", "open")'
    BY <1>4 DEF At, NoCall
  <2> QED BY <1>2, <1>4, <2>1, HoldersKept
<1>5. CASE /\ SameCall /\ Head(mut'.steps) = "open" /\ Ready(mut.name)
           /\ buses' = [buses EXCEPT ![links[mut.name].cfg] = @ + 1]
  <2>1. PICK n \in Names : n = mut.name
    BY <1>1
  <2>2. Exists(n) /\ ~Running(n)
    BY <1>5, <2>1 DEF Ready, Running
  <2>3. PICK c \in Configs : c = links[n].cfg
    BY <2>2, LinkShape
  <2>4. At("start", "open")' /\ mut'.name = n
    BY <1>1, <1>5, <2>1 DEF At, SameCall
  <2>5. \A k \in Configs : HolderNames(k)' = HolderNames(k) \cup (IF c = k THEN {n} ELSE {})
    <3>1. \A k \in Configs : {m \in Names : Exists(m)' /\ links'[m].bus = k}
                               = {m \in Names : Exists(m) /\ links[m].bus = k}
      BY <1>2 DEF Exists
    <3> QED BY <1>2, <1>3, <2>3, <2>4, <3>1 DEF HolderNames
  <2>6. HolderNames(c)' = HolderNames(c) \cup {n}
    BY <2>5
  <2>7. n \notin HolderNames(c)
    BY <1>3, <2>2, LinksAssumption DEF LinksSound
  <2>8. Cardinality(HolderNames(c))' = Cardinality(HolderNames(c)) + 1
    BY <2>6, <2>7, HoldersFinite, FS_AddElement
  <2>9. \A k \in Configs \ {c} : HolderNames(k)' = HolderNames(k)
    BY <2>5
  <2>10. buses \in [Configs -> Nat] /\ \A k \in Configs : buses[k] = Cardinality(HolderNames(k))
    BY DEF BusesCounted
  <2>11. buses' \in [Configs -> Nat]
    BY <1>5, <2>1, <2>3, <2>10
  <2>12. \A k \in Configs : buses'[k] = Cardinality(HolderNames(k))'
    BY <1>5, <2>1, <2>3, <2>8, <2>9, <2>10
  <2> QED BY <2>11, <2>12 DEF BusesCounted
<1> QED BY <1>1, <1>4, <1>5

LEMMA BusesOfOpen == ASSUME StructInv, BusesCounted, OpenBus PROVE BusesCounted'
<1> USE DEF StructInv
<1>1. PICK n \in Names : n = mut.name
  BY OpenTypes
<1>2. /\ mut' = NoCall /\ At("start", "open") /\ Exists(n) /\ links[n].cfg \in Configs
      /\ LinksTyped'
      /\ \A m \in Names : m # n => links'[m] = links[m]
      /\ \/ links' = links /\ buses' = [buses EXCEPT ![links[n].cfg] = @ - 1]
         \/ links'[n].state = "running" /\ links'[n].bus = links[n].cfg /\ buses' = buses
  BY <1>1, OpenTypes
<1>3. stop = NoStop /\ stop' = NoStop /\ ~Running(n)
  BY <1>1, <1>2 DEF CallSound, Ready, Running, OpenBus
<1>4. ~At("start", "open")'
  BY <1>2 DEF At, NoCall
<1>5. PICK c \in Configs : c = links[n].cfg
  BY <1>2
<1>6. \A k \in Configs : /\ HolderNames(k) = {m \in Names : Exists(m) /\ links[m].bus = k}
                                               \cup (IF c = k THEN {n} ELSE {})
                         /\ HolderNames(k)' = {m \in Names : Exists(m)' /\ links'[m].bus = k}
  BY <1>1, <1>2, <1>3, <1>4, <1>5 DEF HolderNames
<1>7. \A k \in Configs : n \notin {m \in Names : Exists(m) /\ links[m].bus = k}
  BY <1>2, <1>3, LinksAssumption DEF LinksSound
<1>8. CASE links' = links /\ buses' = [buses EXCEPT ![c] = @ - 1]
  <2>1. \A k \in Configs : {m \in Names : Exists(m)' /\ links'[m].bus = k}
                             = {m \in Names : Exists(m) /\ links[m].bus = k}
    BY <1>8 DEF Exists
  <2>2. HolderNames(c)' = HolderNames(c) \ {n} /\ n \in HolderNames(c)
    BY <1>6, <1>7, <2>1
  <2>3. Cardinality(HolderNames(c))' = Cardinality(HolderNames(c)) - 1
        /\ Cardinality(HolderNames(c))' \in Nat
    BY <2>2, HoldersFinite, FS_RemoveElement, FS_CardinalityType
  <2>4. ASSUME NEW k \in Configs \ {c} PROVE HolderNames(k)' = HolderNames(k)
    <3>1. HolderNames(k) = {m \in Names : Exists(m) /\ links[m].bus = k}
      BY <1>6
    <3>2. HolderNames(k)' = {m \in Names : Exists(m)' /\ links'[m].bus = k}
      BY <1>6
    <3> QED BY <2>1, <3>1, <3>2
  <2>5. buses \in [Configs -> Nat] /\ \A k \in Configs : buses[k] = Cardinality(HolderNames(k))
    BY DEF BusesCounted
  <2>6. buses' \in [Configs -> Nat]
    BY <1>8, <2>3, <2>5
  <2>7. \A k \in Configs : buses'[k] = Cardinality(HolderNames(k))'
    BY <1>8, <2>3, <2>4, <2>5
  <2> QED BY <2>6, <2>7 DEF BusesCounted
<1>9. CASE links'[n].state = "running" /\ links'[n].bus = c /\ buses' = buses
  <2>1. links'[n] # NoLink
    BY <1>9 DEF NoLink
  <2>2. \A k \in Configs : HolderNames(k)' = HolderNames(k)
    <3> SUFFICES ASSUME NEW k \in Configs PROVE HolderNames(k)' = HolderNames(k)
      OBVIOUS
    <3>1. {m \in Names : links'[m] # NoLink /\ links'[m].bus = k}
            = {m \in Names : links[m] # NoLink /\ links[m].bus = k} \cup (IF c = k THEN {n} ELSE {})
      BY <1>2, <1>7, <1>9, <2>1 DEF Exists
    <3> QED BY <1>6, <3>1 DEF Exists
  <2> QED BY <1>9, <2>2, BusesSame
<1> QED BY <1>2, <1>5, <1>8, <1>9

LEMMA BusesOfStop ==
    ASSUME StructInv, BusesCounted, \/ \E n \in Names : StopLink(n)
                                    \/ StopForDelete
    PROVE  BusesCounted'
<1> USE DEF StructInv
<1>1. /\ LinksTyped' /\ LifecycleFree /\ buses' = buses
      /\ \/ mut' = mut
         \/ At("delete", "stop") /\ SameCall
      /\ \/ links' = links /\ stop' = stop /\ writer' = writer
         \/ \E n \in Names, by \in {"call", "delete"} : Stopped(n, by)
  BY StopTypes
<1>2. stop = NoStop /\ ~At("start", "open") /\ ~At("start", "open")'
  BY <1>1 DEF LifecycleFree, At, SameCall
<1>3. CASE links' = links /\ stop' = stop
  BY <1>1, <1>2, <1>3, HoldersKept
<1>4. ASSUME NEW n \in Names, NEW by \in {"call", "delete"}, Stopped(n, by)
      PROVE  BusesCounted'
  <2>1. /\ Exists(n) /\ links'[n].bus = None
        /\ \A m \in Names : m # n => links'[m] = links[m]
        /\ stop'.at = "writers" /\ stop'.name = n
        /\ stop'.key = links[n].cfg /\ stop'.held = (links[n].bus # None)
    BY <1>4 DEF Stopped
  <2>2. stop' # NoStop
    BY <2>1 DEF NoStop
  <2>3. links[n].bus # None => links[n].bus = links[n].cfg
    BY <2>1 DEF LinksSound
  <2>4. ASSUME NEW k \in Configs PROVE HolderNames(k)' = HolderNames(k)
    <3>1. k # None
      BY LinksAssumption
    <3>2. {m \in Names : links'[m] # NoLink /\ links'[m].bus = k}
            = {m \in Names : links[m] # NoLink /\ links[m].bus = k} \ {n}
      BY <2>1, <3>1
    <3>3. HolderNames(k) = {m \in Names : links[m] # NoLink /\ links[m].bus = k}
      BY <1>2 DEF HolderNames, Exists
    <3>4. CASE links[n].bus = k
      <4>1. stop'.held /\ stop'.key = k
        BY <2>1, <2>3, <3>1, <3>4
      <4>2. HolderNames(k)' = {m \in Names : links'[m] # NoLink /\ links'[m].bus = k} \cup {n}
        BY <1>2, <2>1, <2>2, <4>1 DEF HolderNames, Exists
      <4> QED BY <2>1, <3>2, <3>3, <3>4, <4>2 DEF Exists
    <3>5. CASE links[n].bus # k
      <4>1. ~(stop'.held /\ stop'.key = k)
        BY <2>1, <2>3, <3>5
      <4>2. HolderNames(k)' = {m \in Names : links'[m] # NoLink /\ links'[m].bus = k}
        BY <1>2, <2>1, <2>2, <4>1 DEF HolderNames, Exists
      <4> QED BY <3>2, <3>3, <3>5, <4>2
    <3> QED BY <3>4, <3>5
  <2> QED BY <1>1, <2>4, BusesSame
<1> QED BY <1>1, <1>3, <1>4

LEMMA BusesOfRestart ==
    ASSUME StructInv, BusesCounted, LoadPersistedConfig \/ UnreadableConfig \/ Crash
    PROVE  BusesCounted'
<1> USE DEF StructInv
<1>1. CASE LoadPersistedConfig
  <2>1. PICK found \in SUBSET Saved :
          \E untagged \in SUBSET found : \E ids \in [found -> Ids] : Loaded(found, untagged, ids)
    BY <1>1, LoadLemma
  <2>2. PICK untagged \in SUBSET found : \E ids \in [found -> Ids] : Loaded(found, untagged, ids)
    BY <2>1
  <2>3. PICK ids \in [found -> Ids] : Loaded(found, untagged, ids)
    BY <2>2
  <2>4. mut = NoCall /\ stop = NoStop /\ \A n \in Names : links[n] = NoLink
    BY <1>1 DEF LoadPersistedConfig, LinksSound, Exists
  <2>5. buses' = buses /\ stop' = stop /\ (mut' = NoCall \/ mut'.op = "load")
    BY <2>3 DEF Loaded
  <2>6. ~At("start", "open") /\ ~At("start", "open")'
    BY <2>4, <2>5 DEF At, NoCall
  <2>7. \A n \in Names : links'[n] = NoLink \/ links'[n].bus = None
    <3>1. \A n \in Names \ found : links'[n] = NoLink
      BY <2>3 DEF Loaded
    <3>2. ASSUME NEW n \in found PROVE links'[n].bus = None
      <4>1. links'[n] = Link(ids[n], disk.links[n].cfg, disk.links[n].pending,
                             SavedTable(n).table, SavedTable(n).rev)
        BY <2>3 DEF Loaded
      <4> QED BY <4>1 DEF Link
    <3> QED BY <3>1, <3>2
  <2>8. \A n \in Names, k \in Configs :
          links'[n] # NoLink /\ links'[n].bus = k <=> links[n] # NoLink /\ links[n].bus = k
    BY <2>4, <2>7, LinksAssumption
  <2> QED BY <2>5, <2>6, <2>8, HoldersKept
<1>2. CASE UnreadableConfig
  <2>1. links' = links /\ mut' = mut /\ stop' = stop /\ buses' = buses
    BY <1>2 DEF UnreadableConfig
  <2> QED BY <2>1, HoldersOfSame, BusesSame
<1>3. CASE Crash
  <2>1. /\ links' = [n \in Names |-> NoLink] /\ buses' = [k \in Configs |-> 0]
        /\ mut' = NoCall /\ stop' = NoStop
    BY <1>3 DEF Crash
  <2>2. \A k \in Configs : HolderNames(k)' = {}
    BY <2>1 DEF HolderNames, Exists, At, NoCall
  <2>3. \A k \in Configs : Cardinality(HolderNames(k))' = 0
    BY <2>2, FS_EmptySet
  <2> QED BY <2>1, <2>3 DEF BusesCounted
<1> QED BY <1>1, <1>2, <1>3

LEMMA BusesNext ==
    ASSUME StructInv, BusesCounted, [LinksNext]_linkVars
    PROVE  BusesCounted'
<1>1. CASE NewCall
  BY <1>1, BusesOfThreads, BusesOfStop, BusesOfCalls DEF NewCall, Thread
<1>2. CASE MutStep
  BY <1>2, BusesOfChanges, BusesOfAcquire, BusesOfOpen, BusesOfStop DEF MutStep
<1>3. CASE \E n \in Names : AutoStart(n) \/ PollStep(n) \/ WriterStep(n)
  BY <1>3, BusesOfThreads, BusesOfCalls DEF Thread
<1>4. CASE \E c \in commands : EndCommand(c)
  BY <1>4, BusesOfThreads DEF Thread
<1>5. CASE UNCHANGED linkVars
  <2>1. links' = links /\ mut' = mut /\ stop' = stop /\ buses' = buses
    BY <1>5 DEF linkVars
  <2> QED BY <2>1, HoldersOfSame, BusesSame
<1> QED BY <1>1, <1>2, <1>3, <1>4, <1>5, BusesOfStopStep, BusesOfRestart DEF LinksNext

LEMMA BusesInit == ASSUME LinksInit PROVE BusesCounted
<1>1. /\ links = [n \in Names |-> NoLink] /\ buses = [k \in Configs |-> 0]
      /\ mut = NoCall /\ stop = NoStop
  BY DEF LinksInit
<1>2. \A k \in Configs : HolderNames(k) = {}
  BY <1>1 DEF HolderNames, Exists, At, NoCall
<1>3. \A k \in Configs : Cardinality(HolderNames(k)) = 0
  BY <1>2, FS_EmptySet
<1> QED BY <1>1, <1>3 DEF BusesCounted

-----------------------------------------------------------------------------
(* What follows of it.                                                     *)

\* The links a bus is counted for.
LEMMA CountsAreHolders ==
    ASSUME StructInv, BusesCounted, NEW k \in Configs
    PROVE  buses[k] = Holders(k)
<1> DEFINE R == {n \in Names : Exists(n) /\ links[n].bus = k}
<1>1. IsFiniteSet(R) /\ Cardinality(R) \in Nat
  BY LinksAssumption, FS_Subset, FS_CardinalityType
<1>2. \A n \in Names : ~Running(n) => n \notin R
  BY LinksAssumption DEF StructInv, LinksSound
<1>3. stop # NoStop => stop.name \in Names /\ stop.name \notin R /\ ~At("start", "open")
  BY <1>2 DEF StructInv, LinksTyped, StopRecords, StopSound, CallSound
<1>4. At("start", "open") => mut.name \in Names /\ mut.name \notin R /\ stop = NoStop
  BY <1>2, CallHeads DEF StructInv, CallSound, At, Ready, Running
<1>5. buses[k] = Cardinality(HolderNames(k))
  BY DEF BusesCounted
<1> HIDE DEF R
<1>6. CASE stop # NoStop /\ stop.held /\ stop.key = k
  <2>1. HolderNames(k) = R \cup {stop.name}
    BY <1>3, <1>6 DEF HolderNames, R
  <2>2. Cardinality(HolderNames(k)) = Cardinality(R) + 1
    BY <1>1, <1>3, <1>6, <2>1, FS_AddElement
  <2> QED BY <1>1, <1>3, <1>5, <1>6, <2>2 DEF Holders, R
<1>7. CASE At("start", "open") /\ links[mut.name].cfg = k
  <2>1. HolderNames(k) = R \cup {mut.name}
    BY <1>4, <1>7 DEF HolderNames, R
  <2>2. Cardinality(HolderNames(k)) = Cardinality(R) + 1
    BY <1>1, <1>4, <1>7, <2>1, FS_AddElement
  <2> QED BY <1>1, <1>4, <1>5, <1>7, <2>2 DEF Holders, R
<1>8. CASE /\ ~(stop # NoStop /\ stop.held /\ stop.key = k)
           /\ ~(At("start", "open") /\ links[mut.name].cfg = k)
  <2>1. HolderNames(k) = R
    BY <1>8 DEF HolderNames, R
  <2> QED BY <1>1, <1>5, <1>8, <2>1 DEF Holders, R
<1> QED BY <1>6, <1>7, <1>8

LEMMA UsersHold ==
    ASSUME StructInv, BusesCounted, NEW k \in Configs
    PROVE  Cardinality(Users(k)) <= buses[k]
<1>1. Users(k) \subseteq HolderNames(k)
  <2> SUFFICES ASSUME NEW n \in Names,
                      \/ Running(n) /\ links[n].bus = k
                      \/ StopHolds(n, k, {"writers", "poll", "say", "gate"})
               PROVE  n \in HolderNames(k)
    BY DEF Users, StructInv, ThreadsSound, StopHolds
  <2>1. Running(n) => Exists(n)
    BY LinkShape DEF StructInv
  <2> QED BY <2>1 DEF HolderNames, StopHolds
<1>2. IsFiniteSet(HolderNames(k)) /\ buses[k] = Cardinality(HolderNames(k))
  BY HoldersFinite DEF BusesCounted
<1> QED BY <1>1, <1>2, FS_Subset

\* A bus that is open is held by a link with its settings or by the stop.
LEMMA OpenBusHeld ==
    ASSUME StructInv, BusesCounted, NEW k \in Configs, buses[k] > 0
    PROVE  \/ \E n \in Names : Running(n) /\ Exists(n) /\ links[n].cfg = k
           \/ stop # NoStop /\ stop.held /\ stop.key = k
           \/ At("start", "open") /\ Exists(mut.name) /\ mut.name \in Names /\ links[mut.name].cfg = k
<1>1. HolderNames(k) # {}
  BY FS_EmptySet DEF BusesCounted
<1>2. PICK n : n \in HolderNames(k)
  BY <1>1
<1>3. CASE n \in Names /\ Exists(n) /\ links[n].bus = k
  BY <1>3, LinksAssumption DEF StructInv, LinksSound
<1>4. CASE At("start", "open") /\ links[mut.name].cfg = k
  BY <1>4, CallHeads DEF StructInv, CallSound, At, Ready
<1> QED BY <1>2, <1>3, <1>4 DEF HolderNames

LEMMA OneSettingOpen ==
    ASSUME StructInv, BusesCounted, NEW k \in Configs, NEW o \in Configs,
           buses[k] > 0, buses[o] > 0, k[1] = o[1]
    PROVE  k = o
<1> USE DEF StructInv
<1>1. \A n, m \in Names : Exists(n) /\ Exists(m) /\ links[n].cfg[1] = links[m].cfg[1] =>
                             links[n].cfg = links[m].cfg
  BY DEF LinksSound, Compatible
<1>2. stop # NoStop => ~At("start", "open")
  BY DEF CallSound
<1>3. \A n \in Names : stop # NoStop /\ stop.held /\ Running(n) /\ links[n].cfg[1] = stop.key[1] =>
                          links[n].cfg = stop.key
  BY DEF StopSound
<1>4. CASE \E n \in Names : Running(n) /\ Exists(n) /\ links[n].cfg = k
  BY <1>1, <1>3, <1>4, OpenBusHeld
<1>5. CASE stop # NoStop /\ stop.held /\ stop.key = k
  BY <1>2, <1>3, <1>5, OpenBusHeld
<1>6. CASE At("start", "open") /\ Exists(mut.name) /\ mut.name \in Names /\ links[mut.name].cfg = k
  BY <1>1, <1>2, <1>6, OpenBusHeld
<1> QED BY <1>4, <1>5, <1>6, OpenBusHeld

LEMMA LinksSafeHolds == ASSUME StructInv, BusesCounted PROVE LinksSafe
<1> USE DEF StructInv
<1>1. BusHeldByUsers
  BY CountsAreHolders, UsersHold, OneSettingOpen DEF BusHeldByUsers
<1>2. LinksTypeOK
  <2>1. buses \in [Configs -> 0..Cardinality(Names)]
    <3>1. Cardinality(Names) \in Nat
      BY LinksAssumption, FS_CardinalityType
    <3>2. \A k \in Configs : buses[k] \in 0..Cardinality(Names)
      BY <3>1, HoldersFinite DEF BusesCounted
    <3> QED BY <3>2 DEF BusesCounted
  <2>2. /\ \A n \in Names : poll[n] # NoPoll => poll[n].at \in {"hello", "round", "done", "publish"}
        /\ \A n \in Names : writer[n] # NoWriter => writer[n].at \in {"idle", "writing"}
        /\ stop # NoStop => stop.at \in {"writers", "poll", "say", "gate"}
        /\ dc.next \in 1..(MaxId + 1)
    BY DEF LinksTyped, PollRecords, WriterRecords, StopRecords, DcRecords
  <2> QED BY <2>1, <2>2 DEF LinksTyped, LinksSound, LinksTypeOK
<1> QED BY <1>1, <1>2 DEF LinksSafe

\* A bus is open exactly for the links that hold it, whoever still reads or
\* writes on it holds it, and one device is never open with two settings: the
\* counts of acquireSerialBusLocked, the joins and the gate of StopLink.
THEOREM LinksAreSafe == LinksSpec => []LinksSafe
<1>1. LinksInit => StructInv /\ BusesCounted
  BY StructInit, BusesInit
<1>2. StructInv /\ BusesCounted /\ [LinksNext]_linkVars => (StructInv /\ BusesCounted)'
  BY StructNext, BusesNext
<1>3. StructInv /\ BusesCounted => LinksSafe
  BY LinksSafeHolds
<1> QED BY <1>1, <1>2, <1>3, PTL DEF LinksSpec

-----------------------------------------------------------------------------
(* What DataCenter last heard of a link.                                   *)

\* Nothing is said and no running link stops.
LEMMA SaidKept ==
    ASSUME SaidSound, dc'.comm = dc.comm, muted' = muted, stop' = stop,
           \A n \in Names : links'[n] # NoLink =>
               \E m \in Names : links[m] # NoLink /\ links[m].id = links'[n].id,
           \A n \in Names : links[n].state = "running" =>
               links'[n].state = "running" /\ links'[n].id = links[n].id
    PROVE  SaidSound'
<1> SUFFICES ASSUME NEW n \in Names, links'[n] # NoLink
             PROVE  \/ dc'.comm[links'[n].id] = "stopped" \/ links'[n].id \in muted'
                    \/ \E o \in Names : links'[o].state = "running" /\ links'[o].id = links'[n].id
                    \/ stop' # NoStop /\ stop'.id = links'[n].id /\ stop'.at # "gate"
  BY DEF SaidSound, Exists, Running
<1>1. PICK m \in Names : links[m] # NoLink /\ links[m].id = links'[n].id
  OBVIOUS
<1>2. \/ dc.comm[links[m].id] = "stopped" \/ links[m].id \in muted
      \/ \E o \in Names : links[o].state = "running" /\ links[o].id = links[m].id
      \/ stop # NoStop /\ stop.id = links[m].id /\ stop.at # "gate"
  BY <1>1 DEF SaidSound, Exists, Running
<1>3. CASE \E o \in Names : links[o].state = "running" /\ links[o].id = links[m].id
  <2>1. PICK o \in Names : links[o].state = "running" /\ links[o].id = links[m].id
    BY <1>3
  <2>2. links'[o].state = "running" /\ links'[o].id = links'[n].id
    BY <1>1, <2>1
  <2> QED BY <2>2
<1> QED BY <1>1, <1>2, <1>3

LEMMA SaidOfThreads == ASSUME StructInv, SaidSound, Thread PROVE SaidSound'
<1> USE DEF StructInv
<1>1. ThreadsRan
  BY ThreadTypes
<1>2. links' = links /\ stop' = stop /\ muted' = muted
  BY <1>1 DEF ThreadsRan
<1>3. CASE dc'.comm = dc.comm
  BY <1>2, <1>3 DEF SaidSound, Exists, Running
<1>4. ASSUME NEW n \in Names, poll[n] # NoPoll, \A i \in Ids : i # poll[n].id => dc'.comm[i] = dc.comm[i]
      PROVE  SaidSound'
  <2>1. \/ Running(n) /\ links[n].id = poll[n].id
        \/ stop # NoStop /\ stop.id = poll[n].id /\ stop.at # "gate"
    BY <1>4 DEF ThreadsSound, StopHolds
  <2>2. \A m \in Names : Exists(m) => links[m].id \in Ids
    BY LinkShape
  <2> QED BY <1>2, <1>4, <2>1, <2>2 DEF SaidSound, Exists, Running
<1> QED BY <1>1, <1>3, <1>4 DEF ThreadsRan

LEMMA SaidOfStopStep == ASSUME StructInv, SaidSound, StopStep PROVE SaidSound'
<1> USE DEF StructInv
<1>1. StopGoes /\ links' = links
  BY StopStepTypes DEF StopGoes
<1>2. \A m \in Names : Exists(m) => links[m].id \in Ids
  BY LinkShape
<1>3. CASE stop' = NoStop /\ stop.at = "gate" /\ dc' = dc /\ muted' = muted
  BY <1>1, <1>3 DEF SaidSound, Exists, Running
<1>4. CASE /\ stop' \in StopRecords /\ stop'.id = stop.id /\ stop'.at # "gate"
           /\ dc' = dc /\ muted' = muted
  <2>1. stop' # NoStop
    BY <1>4 DEF StopRecords, NoStop
  <2> QED BY <1>1, <1>4, <2>1 DEF SaidSound, Exists, Running
<1>5. CASE /\ stop' \in StopRecords /\ stop'.id = stop.id /\ stop.at = "say"
           /\ \A i \in Ids : i # stop.id => dc'.comm[i] = dc.comm[i]
           /\ \/ dc'.comm[stop.id] = "stopped" /\ muted' = muted \ {stop.id}
              \/ dc' = dc /\ muted' = muted \cup {stop.id}
  BY <1>1, <1>2, <1>5 DEF SaidSound, Exists, Running
<1> QED BY <1>1, <1>3, <1>4, <1>5 DEF StopGoes

LEMMA SaidOfStop ==
    ASSUME StructInv, SaidSound, \/ \E n \in Names : StopLink(n)
                                 \/ StopForDelete
    PROVE  SaidSound'
<1> USE DEF StructInv
<1>1. /\ LifecycleFree /\ dc' = dc /\ muted' = muted
      /\ \/ links' = links /\ stop' = stop /\ writer' = writer
         \/ \E n \in Names, by \in {"call", "delete"} : Stopped(n, by)
  BY StopTypes
<1>2. stop = NoStop
  BY <1>1 DEF LifecycleFree
<1>3. CASE links' = links /\ stop' = stop
  BY <1>1, <1>3 DEF SaidSound, Exists, Running
<1>4. ASSUME NEW n \in Names, NEW by \in {"call", "delete"}, Stopped(n, by)
      PROVE  SaidSound'
  <2>1. /\ Exists(n) /\ links'[n].id = links[n].id
        /\ \A m \in Names : m # n => links'[m] = links[m]
        /\ stop'.at = "writers" /\ stop'.id = links[n].id
    BY <1>4 DEF Stopped
  <2>2. stop' # NoStop
    BY <2>1 DEF NoStop
  <2> QED BY <1>1, <1>2, <2>1, <2>2 DEF SaidSound, Exists, Running
<1> QED BY <1>1, <1>3, <1>4

LEMMA SaidOfRegister == ASSUME StructInv, SaidSound, RegisterLink PROVE SaidSound'
<1> USE DEF StructInv
<1>1. PICK n \in Names : n = mut.name
  BY RegisterTypes
<1>2. PICK i \in Ids : i = ConnOf(n)
  BY <1>1, RegisterTypes
<1>3. /\ \/ links' = links /\ muted' = muted /\ dc' \in {dc, WithConn(n)}
         \/ /\ links' = [links EXCEPT ![n] = Link(i, mut.arg, FALSE, {}, 1)]
            /\ \A j \in Ids : j # i => dc'.comm[j] = dc.comm[j]
            /\ \/ dc'.comm[i] = "stopped" /\ muted' = muted \ {i}
               \/ dc'.comm = dc.comm /\ muted' = muted \cup {i}
      /\ stop' = stop
  BY <1>1, <1>2, RegisterTypes DEF RegisterLink
<1>4. CASE links' = links /\ muted' = muted /\ dc' \in {dc, WithConn(n)}
  <2>1. dc'.comm = dc.comm
    BY <1>4, ConnsTyped
  <2> QED BY <1>3, <1>4, <2>1 DEF SaidSound, Exists, Running
<1>5. CASE /\ links' = [links EXCEPT ![n] = Link(i, mut.arg, FALSE, {}, 1)]
           /\ \A j \in Ids : j # i => dc'.comm[j] = dc.comm[j]
           /\ \/ dc'.comm[i] = "stopped" /\ muted' = muted \ {i}
              \/ dc'.comm = dc.comm /\ muted' = muted \cup {i}
  <2>1. links'[n].id = i /\ \A m \in Names : m # n => links'[m] = links[m]
    <3>1. links'[n] = Link(i, mut.arg, FALSE, {}, 1) /\ \A m \in Names : m # n => links'[m] = links[m]
      BY <1>5 DEF LinksTyped
    <3> QED BY <3>1 DEF Link
  <2>2. ~Running(n)
    <3>1. ~Exists(n)
      BY <1>1, CallHeads DEF RegisterLink, At, CallSound
    <3> QED BY <3>1, LinkShape
  <2>3. \A m \in Names : Exists(m) => links[m].id \in Ids
    BY LinkShape
  <2>4. dc'.comm[i] = "stopped" \/ i \in muted'
    BY <1>5
  <2>5. ASSUME NEW m \in Names, links'[m] # NoLink
        PROVE  \/ dc'.comm[links'[m].id] = "stopped" \/ links'[m].id \in muted'
               \/ \E o \in Names : Running(o)' /\ links'[o].id = links'[m].id
               \/ stop' # NoStop /\ stop'.id = links'[m].id /\ stop'.at # "gate"
    <3>1. CASE links'[m].id = i
      BY <2>4, <3>1
    <3>2. CASE links'[m].id # i
      <4>1. m # n /\ links'[m] = links[m] /\ Exists(m) /\ links[m].id \in Ids
        BY <2>1, <2>3, <2>5, <3>2 DEF Exists
      <4>2. CASE \E o \in Names : Running(o) /\ links[o].id = links[m].id
        BY <2>1, <2>2, <4>1, <4>2 DEF Running
      <4> QED BY <1>3, <1>5, <3>2, <4>1, <4>2 DEF SaidSound
    <3> QED BY <3>1, <3>2
  <2> QED BY <2>5 DEF SaidSound, Exists
<1> QED BY <1>3, <1>4, <1>5

LEMMA SaidOfSame ==
    ASSUME SaidSound, links' = links, stop' = stop, dc'.comm = dc.comm, muted' = muted
    PROVE  SaidSound'
BY DEF SaidSound, Exists, Running

LEMMA SaidOfChanges ==
    ASSUME StructInv, SaidSound,
           SyncTags \/ RenameConn \/ CommitRename \/ SaveLinks \/ SaveTables \/ DropConn \/ AcquireBus
    PROVE  SaidSound'
<1> USE DEF StructInv
<1>1. stop' = stop /\ muted' = muted
  BY DEF SyncTags, RenameConn, CommitRename, SaveLinks, SaveTables, DropConn, AcquireBus, ghosts
<1>2. CASE RenameConn \/ SaveLinks \/ SaveTables \/ AcquireBus
  <2>1. links' = links
    BY <1>2 DEF RenameConn, SaveLinks, SaveTables, AcquireBus
  <2>2. dc'.comm = dc.comm
    <3>1. AcquireBus => dc' = dc
      BY DEF AcquireBus, worldVars
    <3> QED BY <1>2, <3>1, RenameConnTypes, SaveTypes
  <2> QED BY <1>1, <2>1, <2>2, SaidOfSame
<1>3. CASE SyncTags
  <2>1. /\ mut.name \in Names /\ Exists(mut.name) /\ dc'.comm = dc.comm
        /\ \A n \in Names : n # mut.name => links'[n] = links[n]
        /\ links'[mut.name].state = links[mut.name].state
        /\ links'[mut.name].id = links[mut.name].id
    BY <1>3, SyncTypes
  <2> QED BY <1>1, <2>1, SaidKept DEF Exists
<1>4. CASE CommitRename
  <2>1. PICK n \in Names, m \in Names : n = mut.name /\ m = mut.arg /\ links' = Renamed(links, n, m)
    BY <1>4, CommitTypes
  <2>2. n # m /\ Exists(n) /\ ~Exists(m) /\ ~Running(n)
    BY <1>4, <2>1, CommitTypes DEF CallSound, At
  <2>3. /\ links'[m] = links[n] /\ links'[n] = NoLink
        /\ \A o \in Names \ {n, m} : links'[o] = links[o]
    BY <2>1, <2>2 DEF Renamed, LinksTyped
  <2>4. ~Running(m)
    BY <2>2, LinkShape
  <2>5. dc' = dc
    BY <1>4 DEF CommitRename, worldVars
  <2>6. \A o \in Names : links'[o] # NoLink =>
               \E p \in Names : links[p] # NoLink /\ links[p].id = links'[o].id
    BY <2>2, <2>3 DEF Exists
  <2>7. \A o \in Names : links[o].state = "running" =>
               links'[o].state = "running" /\ links'[o].id = links[o].id
    BY <2>2, <2>3, <2>4 DEF Running
  <2> QED BY <1>1, <2>5, <2>6, <2>7, SaidKept
<1>5. CASE DropConn
  <2>1. PICK n \in Names : n = mut.name
    BY <1>5, DropTypes
  <2>2. /\ ~Running(n) /\ dc'.comm = dc.comm
        /\ \A m \in Names : m # n => links'[m] = links[m]
        /\ \/ links'[n] = NoLink
           \/ links' = links
           \/ Exists(n) /\ links'[n].id = links[n].id
    BY <1>5, <2>1, DropTypes
  <2>3. \A o \in Names : links'[o] # NoLink =>
               \E p \in Names : links[p] # NoLink /\ links[p].id = links'[o].id
    BY <2>2 DEF Exists
  <2>4. \A o \in Names : links[o].state = "running" =>
               links'[o].state = "running" /\ links'[o].id = links[o].id
    BY <2>2 DEF Running
  <2> QED BY <1>1, <2>2, <2>3, <2>4, SaidKept
<1> QED BY <1>2, <1>3, <1>4, <1>5

LEMMA SaidOfOpen == ASSUME StructInv, SaidSound, OpenBus PROVE SaidSound'
<1> USE DEF StructInv
<1>1. PICK n \in Names : n = mut.name
  BY OpenTypes
<1>2. /\ Exists(n)
      /\ \A m \in Names : m # n => links'[m] = links[m]
      /\ \/ links' = links
         \/ links'[n].state = "running" /\ links'[n].id = links[n].id
  BY <1>1, OpenTypes
<1>3. stop' = stop /\ dc' = dc /\ muted' = muted
  BY DEF OpenBus, worldVars, ghosts
<1>4. \A o \in Names : links'[o] # NoLink =>
             \E p \in Names : links[p] # NoLink /\ links[p].id = links'[o].id
  BY <1>2 DEF Exists
<1>5. \A o \in Names : links[o].state = "running" =>
             links'[o].state = "running" /\ links'[o].id = links[o].id
  BY <1>2
<1> QED BY <1>3, <1>4, <1>5, SaidKept

LEMMA SaidOfCalls ==
    ASSUME StructInv, SaidSound,
           \/ \E n \in Names, c \in Configs : UpsertLink(n, c)
           \/ \E n \in Names, t \in Tables : UpsertPointTable(n, t)
           \/ \E n, m \in Names : RenameLink(n, m)
           \/ \E n \in Names : StartLink(n) \/ AutoStart(n) \/ DeleteLink(n)
    PROVE  SaidSound'
<1> USE DEF StructInv, worldVars, ghosts
<1>1. dc' = dc /\ muted' = muted /\ stop' = stop
  BY DEF UpsertLink, UpsertPointTable, RenameLink, StartLink, AutoStart, DeleteLink
<1>2. CASE links' = links
  BY <1>1, <1>2, SaidOfSame
<1>3. ASSUME NEW n \in Names, NEW c \in Configs, Exists(n), links' = [links EXCEPT ![n].cfg = c]
      PROVE  SaidSound'
  <2> DEFINE l == [links[n] EXCEPT !.cfg = c]
  <2>1. links[n] \in LinkType
    BY <1>3, LinkShape
  <2>2. links' = [links EXCEPT ![n] = l]
    BY <1>3 DEF LinksTyped
  <2>3. l.id = links[n].id /\ l.state = links[n].state
    BY <2>1 DEF LinkType
  <2> HIDE DEF l
  <2>4. links'[n] = l /\ \A m \in Names : m # n => links'[m] = links[m]
    BY <2>2 DEF LinksTyped
  <2>5. \A o \in Names : links'[o] # NoLink =>
               \E p \in Names : links[p] # NoLink /\ links[p].id = links'[o].id
    BY <1>3, <2>3, <2>4 DEF Exists
  <2>6. \A o \in Names : links[o].state = "running" =>
               links'[o].state = "running" /\ links'[o].id = links[o].id
    BY <2>3, <2>4
  <2> QED BY <1>1, <2>5, <2>6, SaidKept
<1>4. \/ links' = links
      \/ \E n \in Names, c \in Configs : Exists(n) /\ links' = [links EXCEPT ![n].cfg = c]
  BY DEF UpsertLink, UpsertPointTable, RenameLink, StartLink, AutoStart, DeleteLink
<1> QED BY <1>2, <1>3, <1>4

LEMMA SaidOfRestart ==
    ASSUME StructInv, SaidSound, LoadPersistedConfig \/ UnreadableConfig \/ Crash
    PROVE  SaidSound'
<1> USE DEF StructInv
<1>1. CASE LoadPersistedConfig
  <2>1. PICK found \in SUBSET Saved :
          \E untagged \in SUBSET found : \E ids \in [found -> Ids] : Loaded(found, untagged, ids)
    BY <1>1, LoadLemma
  <2>2. PICK untagged \in SUBSET found : \E ids \in [found -> Ids] : Loaded(found, untagged, ids)
    BY <2>1
  <2>3. PICK ids \in [found -> Ids] : Loaded(found, untagged, ids)
    BY <2>2
  <2>4. ASSUME NEW n \in Names, links'[n] # NoLink
        PROVE  dc'.comm[links'[n].id] = "stopped" \/ links'[n].id \in muted'
    <3>1. n \in found
      BY <2>3, <2>4 DEF Loaded
    <3>2. links'[n] = Link(ids[n], disk.links[n].cfg, disk.links[n].pending,
                           SavedTable(n).table, SavedTable(n).rev)
      BY <2>3, <3>1 DEF Loaded
    <3>3. links'[n].id = ids[n]
      BY <3>2 DEF Link
    <3>4. CASE n \in untagged
      BY <2>3, <3>3, <3>4 DEF Loaded
    <3>5. CASE n \notin untagged
      BY <2>3, <3>1, <3>3, <3>5 DEF Loaded
    <3> QED BY <3>4, <3>5
  <2> QED BY <2>4 DEF SaidSound, Exists
<1>2. CASE UnreadableConfig \/ Crash
  <2>1. \A n \in Names : ~Exists(n)'
    BY <1>2 DEF UnreadableConfig, Crash, LinksSound, Exists
  <2> QED BY <2>1 DEF SaidSound
<1> QED BY <1>1, <1>2

LEMMA SaidNext == ASSUME StructInv, SaidSound, [LinksNext]_linkVars PROVE SaidSound'
<1>1. CASE NewCall
  BY <1>1, SaidOfThreads, SaidOfStop, SaidOfCalls DEF NewCall, Thread
<1>2. CASE MutStep
  BY <1>2, SaidOfRegister, SaidOfChanges, SaidOfOpen, SaidOfStop DEF MutStep
<1>3. CASE \E n \in Names : AutoStart(n) \/ PollStep(n) \/ WriterStep(n)
  BY <1>3, SaidOfThreads, SaidOfCalls DEF Thread
<1>4. CASE \E c \in commands : EndCommand(c)
  BY <1>4, SaidOfThreads DEF Thread
<1>5. CASE UNCHANGED linkVars
  BY <1>5, SaidOfSame DEF linkVars, worldVars, ghosts
<1> QED BY <1>1, <1>2, <1>3, <1>4, <1>5, SaidOfStopStep, SaidOfRestart DEF LinksNext

\* What DataCenter last heard of a link that is stopped is "stopped", never a
\* late answer of the poll thread that the stop joined, unless the publication
\* was lost or another link has the same connection.
THEOREM StoppedAlwaysLast == LinksSpec => []StoppedIsLast
<1>1. LinksInit => StructInv /\ SaidSound
  BY StructInit DEF LinksInit, SaidSound, Exists
<1>2. StructInv /\ SaidSound /\ [LinksNext]_linkVars => (StructInv /\ SaidSound)'
  BY StructNext, SaidNext
<1>3. SaidSound => StoppedIsLast
  BY DEF SaidSound, StoppedIsLast, Running, Exists, NoLink
<1> QED BY <1>1, <1>2, <1>3, PTL DEF LinksSpec

-----------------------------------------------------------------------------
(* The copies of a link: in memory, on disk and in DataCenter.             *)

\* A link keeps what is saved of it.
SameData(k, l) ==
    /\ k = NoLink <=> l = NoLink
    /\ l # NoLink => /\ k.id = l.id /\ k.cfg = l.cfg /\ k.table = l.table /\ k.rev = l.rev
                     /\ k.state = "pending" <=> l.state = "pending"

LEMMA SameRows ==
    ASSUME NEW ls, NEW ks, \A n \in Names : SameData(ks[n], ls[n])
    PROVE  LinkRows(ks) = LinkRows(ls) /\ TableRows(ks) = TableRows(ls)
<1>1. \A n \in Names :
         (IF ks[n] = NoLink THEN NoRow
          ELSE [id |-> ks[n].id, cfg |-> ks[n].cfg, pending |-> ks[n].state = "pending"])
           = (IF ls[n] = NoLink THEN NoRow
              ELSE [id |-> ls[n].id, cfg |-> ls[n].cfg, pending |-> ls[n].state = "pending"])
  <2> SUFFICES ASSUME NEW n \in Names, ls[n] # NoLink, ks[n] # NoLink
               PROVE [id |-> ks[n].id, cfg |-> ks[n].cfg, pending |-> ks[n].state = "pending"]
                       = [id |-> ls[n].id, cfg |-> ls[n].cfg, pending |-> ls[n].state = "pending"]
    BY DEF SameData
  <2>1. (ks[n].state = "pending") = (ls[n].state = "pending")
    BY DEF SameData
  <2> QED BY <2>1 DEF SameData
<1>2. \A n \in Names :
         (IF ks[n] = NoLink THEN NoTable ELSE [table |-> ks[n].table, rev |-> ks[n].rev])
           = (IF ls[n] = NoLink THEN NoTable ELSE [table |-> ls[n].table, rev |-> ls[n].rev])
  BY DEF SameData
<1> QED BY <1>1, <1>2 DEF LinkRows, TableRows

LEMMA SameRenamedRows ==
    ASSUME LinksTyped, LinksTyped', \A n \in Names : SameData(links'[n], links[n]),
           NEW n \in Names, NEW m \in Names
    PROVE  /\ LinkRows(Renamed(links', n, m)) = LinkRows(Renamed(links, n, m))
           /\ TableRows(Renamed(links', n, m)) = TableRows(Renamed(links, n, m))
<1>1. \A o \in Names : SameData(Renamed(links', n, m)[o], Renamed(links, n, m)[o])
  BY DEF Renamed, LinksTyped, SameData
<1> QED BY <1>1, SameRows

\* A row or a table that is there is what it says.
LEMMA RowIs ==
    ASSUME NEW ls, NEW n \in Names, ls[n] # NoLink
    PROVE  /\ TableRows(ls)[n] = [table |-> ls[n].table, rev |-> ls[n].rev]
           /\ LinkRows(ls)[n] = [id |-> ls[n].id, cfg |-> ls[n].cfg, pending |-> ls[n].state = "pending"]
BY DEF TableRows, LinkRows

LEMMA TableIs ==
    ASSUME NEW t, NEW r \in Nat \ {0}
    PROVE  [table |-> t, rev |-> r] # NoTable
<1>1. NoTable.rev = 0
  BY DEF NoTable
<1> QED BY <1>1

LEMMA SavedTableIs ==
    ASSUME NEW n \in Names, NEW t, NEW r \in Nat \ {0}, disk.tables[n] = [table |-> t, rev |-> r]
    PROVE  SavedTable(n) = [table |-> t, rev |-> r]
BY TableIs DEF SavedTable

\* What the call under way may have left to do.
RowDue ==
    \/ mut.op \in {"create", "upsert", "delete", "load"} /\ Head(mut.steps) = "saveLinks"
    \/ mut.op = "rename" /\ Head(mut.steps) \in {"saveTables", "commit"}
TableDue(n) == (mut.op \in {"table", "create"} /\ n = mut.name) \/ At("rename", "commit")
ConnDue(n) == mut.op = "rename" /\ n = mut.name /\ Head(mut.steps) # "rename"

LEMMA Copies ==
    ASSUME CopiesAgree, up, ~askew, NEW n \in Names, links[n] # NoLink
    PROVE  /\ RowDue \/ RowAgrees(n)
           /\ TableDue(n) \/ TableAgrees(n)
           /\ dc.tags[links[n].id] = links[n].table
           /\ ConnDue(n) \/ dc.conns[n] = links[n].id
BY DEF CopiesAgree, RowDue, TableDue, ConnDue, Exists

LEMMA CopiesAre ==
    ASSUME up' /\ ~askew' =>
             \A n \in Names : links'[n] # NoLink =>
               /\ RowDue' \/ disk'.links[n] = LinkRows(links')[n]
               /\ TableDue(n)' \/ SavedTable(n)' = [table |-> links'[n].table, rev |-> links'[n].rev]
               /\ dc'.tags[links'[n].id] = links'[n].table
               /\ ConnDue(n)' \/ dc'.conns[n] = links'[n].id
    PROVE  CopiesAgree'
BY DEF CopiesAgree, RowDue, TableDue, ConnDue, Exists, RowAgrees, TableAgrees

NothingDue == ~RowDue /\ \A n \in Names : ~TableDue(n) /\ ~ConnDue(n)

\* The call has written nothing yet.
Fresh == mut.op \notin {"table", "rename"} \/ At("rename", "rename")

LEMMA FreshAgrees == ASSUME Fresh' PROVE CallAgrees'
BY DEF Fresh, CallAgrees, At

LEMMA AgreesKept ==
    ASSUME LinksTyped, LinksTyped', CallTyped, CopiesAgree, CallAgrees,
           \A n \in Names : SameData(links'[n], links[n]),
           disk' = disk, up' = up, askew' = askew, dc'.tags = dc.tags, dc'.conns = dc.conns,
           mut' = mut \/ (NothingDue /\ Fresh')
    PROVE  CopiesAgree' /\ CallAgrees'
<1>1. LinkRows(links') = LinkRows(links)
  BY SameRows
<1>2. \A n \in Names : SavedTable(n)' = SavedTable(n)
  BY DEF SavedTable
<1>3. CopiesAgree'
  <2> SUFFICES ASSUME up, ~askew, NEW n \in Names, links'[n] # NoLink
               PROVE  /\ RowDue' \/ disk'.links[n] = LinkRows(links')[n]
                      /\ TableDue(n)' \/ SavedTable(n)' = [table |-> links'[n].table, rev |-> links'[n].rev]
                      /\ dc'.tags[links'[n].id] = links'[n].table
                      /\ ConnDue(n)' \/ dc'.conns[n] = links'[n].id
    BY CopiesAre
  <2>1. links[n] # NoLink /\ links'[n].id = links[n].id /\ links'[n].table = links[n].table
        /\ links'[n].rev = links[n].rev
    BY DEF SameData
  <2>2. /\ RowDue' \/ RowAgrees(n)
        /\ TableDue(n)' \/ TableAgrees(n)
        /\ dc.tags[links[n].id] = links[n].table
        /\ ConnDue(n)' \/ dc.conns[n] = links[n].id
    <3>1. CASE mut' = mut
      <4>1. RowDue => RowDue'
        BY <3>1 DEF RowDue
      <4>2. TableDue(n) => TableDue(n)'
        BY <3>1 DEF TableDue, At
      <4>3. ConnDue(n) => ConnDue(n)'
        BY <3>1 DEF ConnDue
      <4> QED BY <2>1, <4>1, <4>2, <4>3, Copies
    <3>2. CASE NothingDue
      BY <2>1, <3>2, Copies DEF NothingDue
    <3> QED BY <3>1, <3>2
  <2> QED BY <1>1, <1>2, <2>1, <2>2 DEF RowAgrees, TableAgrees
<1>4. CallAgrees'
  <2>1. CASE mut' = mut
    <3> SUFFICES ASSUME up, ~askew PROVE CallAgrees'
      BY DEF CallAgrees
    <3>1. mut.op = "rename" => mut.name \in Names /\ mut.arg \in Names
      BY CallHeads
    <3>2. mut.op = "table" => mut.name \in Names
      BY CallHeads
    <3>3. mut.op = "table" => disk'.tables[mut.name] = [table |-> mut.arg, rev |-> links[mut.name].rev + 1]
      BY DEF CallAgrees
    <3>4. mut.op = "table" => links'[mut.name].rev = links[mut.name].rev
      BY <3>2 DEF SameData
    <3>5. mut.op = "rename" => links'[mut.name].id = links[mut.name].id
      BY <3>1 DEF SameData
    <3>6. mut.op = "rename" =>
            /\ LinkRows(Renamed(links', mut.name, mut.arg)) = LinkRows(Renamed(links, mut.name, mut.arg))
            /\ TableRows(Renamed(links', mut.name, mut.arg)) = TableRows(Renamed(links, mut.name, mut.arg))
      BY <3>1, SameRenamedRows
    <3> QED BY <2>1, <3>3, <3>4, <3>5, <3>6 DEF CallAgrees, At
  <2> QED BY <2>1, FreshAgrees
<1> QED BY <1>3, <1>4

LEMMA SameDataOfSame == \A l : SameData(l, l)
BY DEF SameData

LEMMA AgreesOfThreads ==
    ASSUME StructInv, CopiesAgree, CallAgrees, Thread \/ StopStep
    PROVE  CopiesAgree' /\ CallAgrees'
<1> USE DEF StructInv
<1>1. Thread => ThreadsRan /\ LinksTyped'
  BY ThreadTypes
<1>2. StopStep => StopGoes /\ LinksTyped'
  BY StopStepTypes
<1>3. /\ links' = links /\ mut' = mut /\ disk' = disk /\ up' = up /\ askew' = askew
      /\ dc'.tags = dc.tags /\ dc'.conns = dc.conns /\ LinksTyped'
  BY <1>1, <1>2 DEF ThreadsRan, StopGoes
<1> QED BY <1>3, SameDataOfSame, AgreesKept

LEMMA AgreesOfStop ==
    ASSUME StructInv, CopiesAgree, CallAgrees, \/ \E n \in Names : StopLink(n)
                                               \/ StopForDelete
    PROVE  CopiesAgree' /\ CallAgrees'
<1> USE DEF StructInv
<1>1. /\ LinksTyped' /\ CallTyped' /\ LifecycleFree
      /\ disk' = disk /\ dc' = dc /\ up' = up /\ askew' = askew
      /\ \/ mut' = mut
         \/ At("delete", "stop") /\ SameCall /\ Head(mut'.steps) = "drop"
      /\ \/ links' = links
         \/ \E n \in Names, by \in {"call", "delete"} : Stopped(n, by)
  BY StopTypes
<1>2. mut' = mut \/ (NothingDue /\ Fresh')
  <2>1. At("delete", "stop") => NothingDue
    BY DEF At, NothingDue, RowDue, TableDue, ConnDue
  <2>2. At("delete", "stop") /\ SameCall => Fresh'
    BY DEF At, SameCall, Fresh
  <2> QED BY <1>1, <2>1, <2>2
<1>3. \A n \in Names : SameData(links'[n], links[n])
  <2>1. CASE links' = links
    BY <2>1, SameDataOfSame
  <2>2. ASSUME NEW n \in Names, NEW by \in {"call", "delete"}, Stopped(n, by)
        PROVE  \A m \in Names : SameData(links'[m], links[m])
    <3>1. /\ links[n] # NoLink /\ links'[n].id = links[n].id /\ links'[n].cfg = links[n].cfg
          /\ links'[n].table = links[n].table /\ links'[n].rev = links[n].rev
          /\ links'[n].state = IF links[n].state = "running" THEN "stopped" ELSE links[n].state
          /\ \A m \in Names : m # n => links'[m] = links[m]
      BY <2>2 DEF Stopped, Exists, Running
    <3>2. links'[n] # NoLink
      <4>1. links[n].state # "none"
        BY <3>1, LinkShape DEF Exists
      <4> QED BY <3>1, <4>1 DEF NoLink
    <3>3. SameData(links'[n], links[n])
      BY <3>1, <3>2 DEF SameData
    <3> QED BY <3>1, <3>3, SameDataOfSame
  <2> QED BY <1>1, <2>1, <2>2
<1> QED BY <1>1, <1>2, <1>3, AgreesKept

LEMMA AgreesOfStart ==
    ASSUME StructInv, CopiesAgree, CallAgrees, AcquireBus \/ OpenBus
    PROVE  CopiesAgree' /\ CallAgrees'
<1> USE DEF StructInv, worldVars, ghosts
<1>1. /\ LinksTyped' /\ mut.op = "start" /\ mut.name \in Names
      /\ mut' = NoCall \/ SameCall
  BY AcquireTypes, OpenTypes DEF At
<1>2. disk' = disk /\ dc' = dc /\ up' = up /\ askew' = askew
  BY DEF AcquireBus, OpenBus
<1>3. NothingDue /\ Fresh'
  BY <1>1 DEF NothingDue, RowDue, TableDue, ConnDue, At, Fresh, SameCall, NoCall
<1>4. \A n \in Names : SameData(links'[n], links[n])
  <2>1. CASE links' = links
    BY <2>1, SameDataOfSame
  <2>2. CASE OpenBus /\ links' # links
    <3>1. PICK n \in Names : n = mut.name
      BY <1>1
    <3>2. /\ links[n] # NoLink
          /\ \A m \in Names : m # n => links'[m] = links[m]
          /\ links'[n].state = "running"
          /\ links'[n].id = links[n].id /\ links'[n].cfg = links[n].cfg
          /\ links'[n].table = links[n].table /\ links'[n].rev = links[n].rev
      BY <2>2, <3>1, OpenTypes DEF Exists
    <3>3. links[n].state = "stopped"
      BY <2>2, <3>1, OpenTypes DEF CallSound, Ready
    <3>4. SameData(links'[n], links[n])
      BY <3>2, <3>3 DEF SameData, NoLink
    <3> QED BY <3>2, <3>4, SameDataOfSame
  <2> QED BY <2>1, <2>2 DEF AcquireBus
<1> QED BY <1>1, <1>2, <1>3, <1>4, AgreesKept

LEMMA AgreesOfCalls ==
    ASSUME StructInv, CopiesAgree, CallAgrees,
           \E n \in Names : \/ StartLink(n) \/ AutoStart(n) \/ DeleteLink(n)
                            \/ \E m \in Names : RenameLink(n, m)
                            \/ \E c \in Configs : UpsertLink(n, c) /\ ~Exists(n)
    PROVE  CopiesAgree' /\ CallAgrees'
<1> USE DEF StructInv, worldVars, ghosts
<1>1. LinksTyped'
  BY TypesOfLinkCalls
<1>2. /\ links' = links /\ disk' = disk /\ dc' = dc /\ up' = up /\ askew' = askew /\ mut = NoCall
  BY DEF StartLink, AutoStart, DeleteLink, RenameLink, UpsertLink, Idle
<1>3. \/ mut'.op \in {"none", "start", "delete", "create"}
      \/ mut'.op = "rename" /\ Head(mut'.steps) = "rename"
  BY <1>2, StepLists DEF StartLink, AutoStart, DeleteLink, RenameLink, UpsertLink, Call, NoCall
<1>4. NothingDue /\ Fresh'
  BY <1>2, <1>3 DEF NothingDue, RowDue, TableDue, ConnDue, At, Fresh, NoCall
<1> QED BY <1>1, <1>2, <1>4, SameDataOfSame, AgreesKept

LEMMA IdleIsQuiet == ASSUME mut = NoCall PROVE NothingDue
BY DEF NothingDue, RowDue, TableDue, ConnDue, At, NoCall

\* A new configuration: its row is still to be saved.
LEMMA AgreesOfConfig ==
    ASSUME StructInv, CopiesAgree, CallAgrees,
           NEW n \in Names, NEW c \in Configs, UpsertLink(n, c), Exists(n)
    PROVE  CopiesAgree' /\ CallAgrees'
<1> USE DEF StructInv, worldVars, ghosts
<1>1. /\ disk' = disk /\ dc' = dc /\ up' = up /\ askew' = askew /\ mut = NoCall
      /\ links' = [links EXCEPT ![n].cfg = c]
      /\ mut' = Call("upsert", n, c, <<"saveLinks", "saveTables">>)
  BY DEF UpsertLink, Idle
<1>2. mut'.op = "upsert" /\ Head(mut'.steps) = "saveLinks"
  BY <1>1, StepLists DEF Call
<1>3. RowDue' /\ Fresh'
  BY <1>2 DEF RowDue, Fresh
<1> DEFINE l == [links[n] EXCEPT !.cfg = c]
<1>4. links[n] \in LinkType /\ links' = [links EXCEPT ![n] = l]
  BY <1>1, LinkShape DEF LinksTyped
<1>5. l.id = links[n].id /\ l.table = links[n].table /\ l.rev = links[n].rev
  BY <1>4 DEF LinkType
<1> HIDE DEF l
<1>6. links'[n] = l /\ \A m \in Names : m # n => links'[m] = links[m]
  BY <1>4 DEF LinksTyped
<1>7. \A m \in Names : SavedTable(m)' = SavedTable(m)
  BY <1>1 DEF SavedTable
<1>8. CopiesAgree'
  <2> SUFFICES ASSUME up, ~askew, NEW m \in Names, links'[m] # NoLink
               PROVE  /\ SavedTable(m)' = [table |-> links'[m].table, rev |-> links'[m].rev]
                      /\ dc'.tags[links'[m].id] = links'[m].table
                      /\ dc'.conns[m] = links'[m].id
    BY <1>1, <1>3, CopiesAre
  <2>1. links[m] # NoLink /\ links'[m].id = links[m].id /\ links'[m].table = links[m].table
        /\ links'[m].rev = links[m].rev
    BY <1>5, <1>6 DEF Exists
  <2> QED BY <1>1, <1>7, <2>1, IdleIsQuiet, Copies DEF NothingDue, TableAgrees
<1> QED BY <1>3, <1>8, FreshAgrees

\* A new table: it is saved and still to be given to DataCenter.
LEMMA AgreesOfTable ==
    ASSUME StructInv, CopiesAgree, CallAgrees,
           NEW n \in Names, NEW t \in Tables, UpsertPointTable(n, t)
    PROVE  CopiesAgree' /\ CallAgrees'
<1> USE DEF StructInv, ghosts
<1>1. /\ links' = links /\ dc' = dc /\ up' = up /\ askew' = askew /\ mut = NoCall /\ Exists(n)
      /\ LinksTyped'
  BY TypesOfLinkCalls DEF UpsertPointTable, Idle
<1>2. CASE UNCHANGED <<disk, mut>>
  <2>1. NothingDue /\ Fresh'
    BY <1>1, <1>2, IdleIsQuiet DEF Fresh, NoCall
  <2> QED BY <1>1, <1>2, <2>1, SameDataOfSame, AgreesKept
<1>3. CASE /\ disk' = [disk EXCEPT !.tables =
                        [TableRows(links) EXCEPT ![n] = [table |-> t, rev |-> links[n].rev + 1]]]
           /\ mut' = Call("table", n, t, <<"sync">>)
  <2>1. mut'.op = "table" /\ mut'.name = n /\ mut'.arg = t
    BY <1>3 DEF Call
  <2>2. /\ disk'.links = disk.links
        /\ disk'.tables[n] = [table |-> t, rev |-> links[n].rev + 1]
        /\ \A m \in Names : m # n => disk'.tables[m] = TableRows(links)[m]
    <3>1. disk \in DiskRecords /\ TableRows(links) \in [Names -> TableRecords \cup {NoTable}]
      BY RowsTyped DEF LinksTyped
    <3> QED BY <1>3, <3>1 DEF DiskRecords
  <2>3. CopiesAgree'
    <3> SUFFICES ASSUME up, ~askew, NEW m \in Names, links[m] # NoLink
                 PROVE  /\ disk'.links[m] = LinkRows(links)[m]
                        /\ TableDue(m)' \/ SavedTable(m)' = [table |-> links[m].table, rev |-> links[m].rev]
                        /\ dc.tags[links[m].id] = links[m].table
                        /\ dc.conns[m] = links[m].id
      BY <1>1, CopiesAre
    <3>1. RowAgrees(m) /\ dc.tags[links[m].id] = links[m].table /\ dc.conns[m] = links[m].id
      BY <1>1, IdleIsQuiet, Copies DEF NothingDue
    <3>2. CASE m = n
      BY <2>1, <2>2, <3>1, <3>2 DEF TableDue, RowAgrees
    <3>3. CASE m # n
      <4>1. links[m].rev \in Nat \ {0}
        BY LinkShape DEF Exists
      <4>2. disk'.tables[m] = [table |-> links[m].table, rev |-> links[m].rev]
        BY <2>2, <3>3, RowIs
      <4>3. SavedTable(m)' = [table |-> links[m].table, rev |-> links[m].rev]
        BY <4>1, <4>2, TableIs DEF SavedTable
      <4> QED BY <2>2, <3>1, <4>3 DEF RowAgrees
    <3> QED BY <3>2, <3>3
  <2>4. CallAgrees'
    BY <1>1, <2>1, <2>2 DEF CallAgrees, At
  <2> QED BY <2>3, <2>4
<1> QED BY <1>2, <1>3 DEF UpsertPointTable

LEMMA AgreesOfRegister ==
    ASSUME StructInv, CopiesAgree, CallAgrees, RegisterLink
    PROVE  CopiesAgree' /\ CallAgrees'
<1> USE DEF StructInv
<1>1. PICK n \in Names : n = mut.name
  BY RegisterTypes
<1>2. PICK i \in Ids : i = ConnOf(n)
  BY <1>1, RegisterTypes
<1>3. /\ mut.op = "create" /\ dc'.tags = dc.tags /\ WithConn(n) \in DcRecords
      /\ \A m \in Names : m # n => dc'.conns[m] = dc.conns[m]
      /\ \/ /\ links' = links /\ mut' = NoCall /\ askew' = askew
         \/ /\ links' = [links EXCEPT ![n] = Link(i, mut.arg, FALSE, {}, 1)]
            /\ askew' = (askew \/ dc.tags[i] # {})
            /\ SameCall /\ Head(mut'.steps) = "saveLinks"
            /\ dc'.conns = WithConn(n).conns
  BY <1>1, <1>2, RegisterTypes
<1>4. /\ disk' = disk /\ up' = up /\ ~Exists(n) /\ Head(mut.steps) = "register"
  BY <1>1, CallHeads DEF RegisterLink, At, CallSound
<1>5. \A m \in Names : SavedTable(m)' = SavedTable(m)
  BY <1>4 DEF SavedTable
<1>6. ASSUME up, ~askew, NEW m \in Names, links[m] # NoLink
      PROVE  /\ m # n /\ RowAgrees(m) /\ TableAgrees(m)
             /\ dc.tags[links[m].id] = links[m].table /\ dc.conns[m] = links[m].id
  <2>1. m # n
    BY <1>4, <1>6 DEF Exists
  <2>2. ~RowDue /\ ~TableDue(m) /\ ~ConnDue(m)
    BY <1>1, <1>3, <1>4, <2>1 DEF RowDue, TableDue, ConnDue, At
  <2> QED BY <1>6, <2>1, <2>2, Copies
<1>7. Fresh'
  <2>1. mut' = NoCall => mut'.op = "none"
    BY DEF NoCall
  <2>2. SameCall => mut'.op = "create"
    BY <1>3 DEF SameCall
  <2> QED BY <1>3, <2>1, <2>2 DEF Fresh
<1>8. CASE links' = links /\ mut' = NoCall /\ askew' = askew
  <2>1. CopiesAgree'
    <3> SUFFICES ASSUME up, ~askew, NEW m \in Names, links[m] # NoLink
                 PROVE  /\ disk.links[m] = LinkRows(links)[m]
                        /\ SavedTable(m) = [table |-> links[m].table, rev |-> links[m].rev]
                        /\ dc.tags[links[m].id] = links[m].table
                        /\ dc'.conns[m] = links[m].id
      BY <1>3, <1>4, <1>5, <1>8, CopiesAre
    <3> QED BY <1>3, <1>6 DEF RowAgrees, TableAgrees
  <2> QED BY <1>7, <2>1, FreshAgrees
<1>9. CASE /\ links' = [links EXCEPT ![n] = Link(i, mut.arg, FALSE, {}, 1)]
           /\ askew' = (askew \/ dc.tags[i] # {})
           /\ SameCall /\ Head(mut'.steps) = "saveLinks"
           /\ dc'.conns = WithConn(n).conns
  <2>1. links'[n].id = i /\ links'[n].table = {} /\ \A m \in Names : m # n => links'[m] = links[m]
    <3>1. links'[n] = Link(i, mut.arg, FALSE, {}, 1) /\ \A m \in Names : m # n => links'[m] = links[m]
      BY <1>9 DEF LinksTyped
    <3> QED BY <3>1 DEF Link
  <2>2. RowDue' /\ TableDue(n)'
    BY <1>1, <1>3, <1>9 DEF RowDue, TableDue, SameCall
  <2>3. dc'.conns[n] = i
    BY <1>2, <1>9, ConnsTyped
  <2>4. CopiesAgree'
    <3> SUFFICES ASSUME up, ~askew, dc.tags[i] = {}, NEW m \in Names, links'[m] # NoLink
                 PROVE  /\ TableDue(m)' \/ SavedTable(m) = [table |-> links'[m].table, rev |-> links'[m].rev]
                        /\ dc.tags[links'[m].id] = links'[m].table
                        /\ dc'.conns[m] = links'[m].id
      BY <1>3, <1>4, <1>5, <1>9, <2>2, CopiesAre
    <3>1. CASE m = n
      BY <2>1, <2>2, <2>3, <3>1
    <3>2. CASE m # n
      BY <1>3, <1>6, <2>1, <3>2 DEF TableAgrees
    <3> QED BY <3>1, <3>2
  <2> QED BY <1>7, <2>4, FreshAgrees
<1> QED BY <1>3, <1>8, <1>9

LEMMA AgreesOfSync ==
    ASSUME StructInv, CopiesAgree, CallAgrees, SyncTags
    PROVE  CopiesAgree' /\ CallAgrees'
<1> USE DEF StructInv
<1>1. PICK n \in Names : n = mut.name
  BY SyncTypes
<1>2. /\ mut' = NoCall /\ mut.op = "table" /\ mut.arg \in Tables /\ links[n] # NoLink
      /\ LinksTyped'
      /\ dc'.conns = dc.conns
      /\ \A m \in Names : m # n => links'[m] = links[m]
      /\ links'[n].state = links[n].state
      /\ links'[n].id = links[n].id /\ links'[n].cfg = links[n].cfg
      /\ \/ /\ links'[n].table = mut.arg /\ links'[n].rev = links[n].rev + 1
            /\ disk' = disk /\ askew' = askew
            /\ dc'.tags = [dc.tags EXCEPT ![links[n].id] = mut.arg]
         \/ /\ links' = links
            /\ \/ askew' = (askew \/ dc' # dc) /\ disk' = [disk EXCEPT !.tables = TableRows(links)]
               \/ askew' = TRUE /\ disk' = disk
  BY <1>1, SyncTypes DEF Exists
<1>3. up' = up
  BY DEF SyncTags
<1>4. CallAgrees'
  <2>1. Fresh'
    BY <1>2 DEF Fresh, NoCall
  <2> QED BY <2>1, FreshAgrees
<1>5. ASSUME up, ~askew, NEW m \in Names, links[m] # NoLink
      PROVE  /\ RowAgrees(m) /\ (m # n => TableAgrees(m))
             /\ dc.tags[links[m].id] = links[m].table /\ dc.conns[m] = links[m].id
             /\ links[m].id \in Ids /\ links[m].rev \in Nat \ {0}
  <2>1. ~RowDue /\ ~ConnDue(m) /\ (m # n => ~TableDue(m))
    BY <1>1, <1>2 DEF RowDue, ConnDue, TableDue, At
  <2> QED BY <1>5, <2>1, Copies, LinkShape DEF Exists
<1>6. CASE /\ links'[n].table = mut.arg /\ links'[n].rev = links[n].rev + 1
           /\ disk' = disk /\ askew' = askew
           /\ dc'.tags = [dc.tags EXCEPT ![links[n].id] = mut.arg]
  <2> SUFFICES ASSUME up, ~askew, NEW m \in Names, links'[m] # NoLink
               PROVE  /\ disk'.links[m] = LinkRows(links')[m]
                      /\ SavedTable(m)' = [table |-> links'[m].table, rev |-> links'[m].rev]
                      /\ dc'.tags[links'[m].id] = links'[m].table
                      /\ dc'.conns[m] = links'[m].id
    BY <1>3, <1>4, <1>6, CopiesAre
  <2>1. links[m] # NoLink
    BY <1>2
  <2>2. dc.tags \in [Ids -> SUBSET UNION Tables]
    BY DEF LinksTyped, DcRecords
  <2>3. CASE m = n
    <3>1. disk.tables[n] = [table |-> mut.arg, rev |-> links[n].rev + 1]
      BY <1>1, <1>2 DEF CallAgrees
    <3>2. links[n].rev + 1 \in Nat \ {0}
      BY <1>5, <2>1, <2>3
    <3>3. SavedTable(n)' = [table |-> links'[n].table, rev |-> links'[n].rev]
      BY <1>6, <3>1, <3>2, TableIs DEF SavedTable
    <3>4. LinkRows(links')[n] = LinkRows(links)[n]
      BY <1>2, <2>1, <2>3 DEF LinkRows
    <3> QED BY <1>2, <1>5, <1>6, <2>1, <2>2, <2>3, <3>3, <3>4 DEF RowAgrees
  <2>4. CASE m # n
    <3>1. links[m].id # links[n].id
      BY <1>2, <1>5, <2>1, <2>4 DEF ConnsSound, Ids
    <3>2. SavedTable(m)' = SavedTable(m)
      BY <1>6 DEF SavedTable
    <3>3. LinkRows(links')[m] = LinkRows(links)[m]
      BY <1>2, <2>4 DEF LinkRows
    <3> QED BY <1>2, <1>5, <1>6, <2>1, <2>2, <2>4, <3>1, <3>2, <3>3 DEF RowAgrees, TableAgrees
  <2> QED BY <2>3, <2>4
<1>7. CASE /\ links' = links
           /\ askew' = (askew \/ dc' # dc) /\ disk' = [disk EXCEPT !.tables = TableRows(links)]
  <2> SUFFICES ASSUME up, ~askew, dc' = dc, NEW m \in Names, links[m] # NoLink
               PROVE  /\ disk'.links[m] = LinkRows(links)[m]
                      /\ SavedTable(m)' = [table |-> links[m].table, rev |-> links[m].rev]
                      /\ dc.tags[links[m].id] = links[m].table
                      /\ dc.conns[m] = links[m].id
    BY <1>3, <1>4, <1>7, CopiesAre
  <2>1. disk'.links = disk.links /\ disk'.tables = TableRows(links)
    BY <1>7 DEF LinksTyped, DiskRecords
  <2>2. disk'.tables[m] = [table |-> links[m].table, rev |-> links[m].rev]
    BY <2>1 DEF TableRows
  <2>3. SavedTable(m)' = [table |-> links[m].table, rev |-> links[m].rev]
    BY <1>5, <2>2, TableIs DEF SavedTable
  <2> QED BY <1>5, <2>1, <2>3 DEF RowAgrees
<1>8. CASE askew' = TRUE
  BY <1>4, <1>8 DEF CopiesAgree
<1> QED BY <1>2, <1>6, <1>7, <1>8

LEMMA AgreesOfRenameConn ==
    ASSUME StructInv, CopiesAgree, CallAgrees, RenameConn
    PROVE  CopiesAgree' /\ CallAgrees'
<1> USE DEF StructInv
<1>1. PICK n \in Names, m \in Names : n = mut.name /\ m = mut.arg
  BY RenameConnTypes
<1>2. /\ mut.op = "rename" /\ LinksTyped'
      /\ links' = links /\ disk' = disk /\ dc'.tags = dc.tags
      /\ \/ dc' = dc /\ mut' = NoCall /\ askew' = askew
         \/ dc' = dc /\ WasRenamed(n, m) /\ SameCall /\ Head(mut'.steps) = "saveLinks" /\ askew' = askew
         \/ /\ CanRename(n, m) /\ dc' = RenamedConn(n, m)
            /\ \/ /\ dc.conns[n] = links[n].id
                  /\ SameCall /\ Head(mut'.steps) = "saveLinks" /\ askew' = askew
               \/ mut' = NoCall /\ askew' = TRUE
  BY <1>1, RenameConnTypes
<1>3. up' = up /\ Head(mut.steps) = "rename"
  BY DEF RenameConn, At
<1>4. n # m /\ links[n] # NoLink /\ links[m] = NoLink
  BY <1>1, <1>2 DEF CallSound, Exists
<1>5. NothingDue
  BY <1>2, <1>3 DEF NothingDue, RowDue, TableDue, ConnDue, At
<1>6. CASE dc' = dc /\ mut' = NoCall /\ askew' = askew
  <2>1. Fresh'
    BY <1>6 DEF Fresh, NoCall
  <2> QED BY <1>2, <1>3, <1>5, <1>6, <2>1, SameDataOfSame, AgreesKept
<1>7. CASE askew' = TRUE
  BY <1>7 DEF CopiesAgree, CallAgrees
<1>8. CASE WasRenamed(n, m) /\ askew' = askew
  <2> SUFFICES ASSUME up, ~askew PROVE FALSE
    BY <1>3, <1>8 DEF CopiesAgree, CallAgrees
  <2>1. dc.conns[n] = links[n].id /\ links[n].id \in Ids
    BY <1>4, <1>5, Copies, LinkShape DEF NothingDue, Exists
  <2> QED BY <1>8, <2>1 DEF WasRenamed, Ids
<1>9. CASE /\ CanRename(n, m) /\ dc.conns[n] = links[n].id /\ dc' = RenamedConn(n, m)
           /\ SameCall /\ Head(mut'.steps) = "saveLinks" /\ askew' = askew
  <2>1. /\ dc'.conns[m] = links[n].id /\ \A o \in Names \ {n, m} : dc'.conns[o] = dc.conns[o]
    BY <1>4, <1>9, ConnsTyped DEF CanRename
  <2>2. ConnDue(n)'
    BY <1>1, <1>2, <1>9 DEF ConnDue, SameCall
  <2>3. \A o \in Names : SavedTable(o)' = SavedTable(o)
    BY <1>2 DEF SavedTable
  <2>4. CopiesAgree'
    <3> SUFFICES ASSUME up, ~askew, NEW o \in Names, links[o] # NoLink
                 PROVE  /\ disk.links[o] = LinkRows(links)[o]
                        /\ SavedTable(o) = [table |-> links[o].table, rev |-> links[o].rev]
                        /\ dc.tags[links[o].id] = links[o].table
                        /\ ConnDue(o)' \/ dc'.conns[o] = links[o].id
      BY <1>2, <1>3, <1>9, <2>3, CopiesAre
    <3> QED BY <1>4, <1>5, <2>1, <2>2, Copies DEF NothingDue, RowAgrees, TableAgrees
  <2>5. CallAgrees'
    BY <1>1, <1>2, <1>9, <2>1 DEF CallAgrees, SameCall, At
  <2> QED BY <2>4, <2>5
<1> QED BY <1>2, <1>6, <1>7, <1>8, <1>9

\* A table of a link that is saved, or is what it was.
LEMMA TableSaved ==
    ASSUME LinksTyped, NEW m \in Names, links[m] # NoLink, disk'.tables = TableRows(links)
    PROVE  SavedTable(m)' = [table |-> links[m].table, rev |-> links[m].rev]
<1>1. links[m].rev \in Nat \ {0}
  BY LinkShape DEF Exists
<1>2. disk'.tables[m] = [table |-> links[m].table, rev |-> links[m].rev]
  BY DEF TableRows
<1> QED BY <1>1, <1>2, TableIs DEF SavedTable

\* A save that is not part of a rename: it makes the copies agree.
LEMMA AgreesOfPlainSave ==
    ASSUME StructInv, CopiesAgree, CallAgrees, SaveLinks \/ SaveTables, mut.op # "rename"
    PROVE  CopiesAgree' /\ CallAgrees'
<1> USE DEF StructInv
<1>1. /\ links' = links /\ mut # NoCall /\ mut.op \in {"upsert", "create", "delete", "load"}
      /\ \/ Head(mut.steps) = "saveLinks" /\ disk'.links = LinkRows(links)
            /\ disk'.tables = disk.tables /\ Done /\ dc' = dc /\ askew' = askew
         \/ Head(mut.steps) = "saveTables" /\ disk'.tables = TableRows(links)
            /\ disk'.links = disk.links /\ Done /\ dc' = dc /\ askew' = askew
         \/ askew' = TRUE
  BY SaveTypes DEF Snapshot
<1>2. up' = up
  BY DEF SaveLinks, SaveTables
<1>3. CASE askew' = TRUE
  BY <1>3 DEF CopiesAgree, CallAgrees
<1>4. ASSUME up, ~askew, NEW m \in Names, links[m] # NoLink
      PROVE  /\ Head(mut.steps) = "saveTables" => RowAgrees(m)
             /\ (mut.op = "create" /\ m = mut.name) \/ TableAgrees(m)
             /\ dc.tags[links[m].id] = links[m].table /\ dc.conns[m] = links[m].id
  <2>1. Head(mut.steps) = "saveTables" => ~RowDue
    BY <1>1 DEF RowDue
  <2>2. ~ConnDue(m) /\ (TableDue(m) => mut.op = "create" /\ m = mut.name)
    BY <1>1 DEF ConnDue, TableDue, At
  <2> QED BY <1>4, <2>1, <2>2, Copies
<1>5. CASE /\ Head(mut.steps) = "saveLinks" /\ disk'.links = LinkRows(links)
           /\ disk'.tables = disk.tables /\ Done /\ dc' = dc /\ askew' = askew
  <2>1. SameCall \/ (mut' = NoCall /\ mut.op \in {"delete", "load"})
    BY <1>1, <1>5, DoneLemma
  <2>2. Fresh'
    BY <1>1, <2>1 DEF Fresh, SameCall, NoCall
  <2>3. \A m \in Names : SavedTable(m)' = SavedTable(m)
    BY <1>5 DEF SavedTable
  <2>4. ASSUME NEW m \in Names PROVE mut.op = "create" /\ m = mut.name => TableDue(m)'
    BY <2>1 DEF TableDue, SameCall
  <2>5. CopiesAgree'
    <3> SUFFICES ASSUME up, ~askew, NEW m \in Names, links[m] # NoLink
                 PROVE  /\ disk'.links[m] = LinkRows(links)[m]
                        /\ TableDue(m)' \/ SavedTable(m) = [table |-> links[m].table, rev |-> links[m].rev]
                        /\ dc.tags[links[m].id] = links[m].table
                        /\ dc.conns[m] = links[m].id
      BY <1>1, <1>2, <1>5, <2>3, CopiesAre
    <3> QED BY <1>4, <1>5, <2>4 DEF TableAgrees
  <2> QED BY <2>2, <2>5, FreshAgrees
<1>6. CASE /\ Head(mut.steps) = "saveTables" /\ disk'.tables = TableRows(links)
           /\ disk'.links = disk.links /\ Done /\ dc' = dc /\ askew' = askew
  <2>1. mut' = NoCall
    BY <1>1, <1>6, DoneLemma
  <2>2. Fresh'
    BY <2>1 DEF Fresh, NoCall
  <2>3. CopiesAgree'
    <3> SUFFICES ASSUME up, ~askew, NEW m \in Names, links[m] # NoLink
                 PROVE  /\ disk.links[m] = LinkRows(links)[m]
                        /\ SavedTable(m)' = [table |-> links[m].table, rev |-> links[m].rev]
                        /\ dc.tags[links[m].id] = links[m].table
                        /\ dc.conns[m] = links[m].id
      BY <1>1, <1>2, <1>6, CopiesAre
    <3> QED BY <1>4, <1>6, TableSaved DEF RowAgrees
  <2> QED BY <2>2, <2>3, FreshAgrees
<1> QED BY <1>1, <1>3, <1>5, <1>6

\* A save of a rename: what is saved is what the rename will make of the links,
\* or, when the rename is undone, what they are.
LEMMA AgreesOfRenameSave ==
    ASSUME StructInv, CopiesAgree, CallAgrees, SaveLinks \/ SaveTables, mut.op = "rename"
    PROVE  CopiesAgree' /\ CallAgrees'
<1> USE DEF StructInv
<1>1. PICK n \in Names, o \in Names : n = mut.name /\ o = mut.arg
  BY CallHeads
<1>2. /\ links' = links /\ mut # NoCall
      /\ Head(mut.steps) \in {"saveLinks", "saveTables"}
      /\ \/ Head(mut.steps) = "saveLinks" /\ disk'.links = LinkRows(Renamed(links, n, o))
            /\ disk'.tables = disk.tables /\ Done /\ dc' = dc /\ askew' = askew
         \/ Head(mut.steps) = "saveTables" /\ disk'.tables = TableRows(Renamed(links, n, o))
            /\ disk'.links = disk.links /\ Done /\ dc' = dc /\ askew' = askew
         \/ /\ mut' = NoCall /\ dc' = RenamedConn(o, n)
            /\ disk'.links = LinkRows(links) /\ disk'.tables = TableRows(links)
            /\ askew' = askew
         \/ askew' = TRUE
  BY <1>1, SaveTypes DEF Snapshot
<1>3. up' = up
  BY DEF SaveLinks, SaveTables
<1>4. n # o /\ links[n] # NoLink /\ links[o] = NoLink /\ dc.conns[n] = 0
  BY <1>1, <1>2 DEF CallSound, Exists
<1>5. CASE askew' = TRUE
  BY <1>5 DEF CopiesAgree, CallAgrees
<1>6. ASSUME up, ~askew, NEW m \in Names, links[m] # NoLink
      PROVE  /\ Head(mut.steps) = "saveLinks" => RowAgrees(m)
             /\ TableAgrees(m)
             /\ dc.tags[links[m].id] = links[m].table
             /\ m # n => dc.conns[m] = links[m].id
  <2>1. Head(mut.steps) = "saveLinks" => ~RowDue
    BY DEF RowDue
  <2>2. ~TableDue(m) /\ (m # n => ~ConnDue(m))
    BY <1>1, <1>2 DEF ConnDue, TableDue, At
  <2> QED BY <1>6, <2>1, <2>2, Copies
<1>7. up /\ ~askew => /\ dc.conns[o] = links[n].id
                      /\ Head(mut.steps) = "saveTables" => disk.links = LinkRows(Renamed(links, n, o))
  BY <1>1, <1>2 DEF CallAgrees
<1>8. CASE /\ Head(mut.steps) = "saveLinks" /\ disk'.links = LinkRows(Renamed(links, n, o))
           /\ disk'.tables = disk.tables /\ Done /\ dc' = dc /\ askew' = askew
  <2>1. SameCall /\ Head(mut'.steps) = "saveTables"
    BY <1>2, <1>8, DoneLemma
  <2>2. RowDue' /\ ConnDue(n)'
    BY <1>1, <2>1 DEF RowDue, ConnDue, SameCall
  <2>3. \A m \in Names : SavedTable(m)' = SavedTable(m)
    BY <1>8 DEF SavedTable
  <2>4. CopiesAgree'
    <3> SUFFICES ASSUME up, ~askew, NEW m \in Names, links[m] # NoLink
                 PROVE  /\ SavedTable(m) = [table |-> links[m].table, rev |-> links[m].rev]
                        /\ dc.tags[links[m].id] = links[m].table
                        /\ m # n => dc.conns[m] = links[m].id
      BY <1>2, <1>3, <1>8, <2>2, <2>3, CopiesAre
    <3> QED BY <1>6 DEF TableAgrees
  <2>5. CallAgrees'
    BY <1>1, <1>2, <1>3, <1>7, <1>8, <2>1 DEF CallAgrees, SameCall, At
  <2> QED BY <2>4, <2>5
<1>9. CASE /\ Head(mut.steps) = "saveTables" /\ disk'.tables = TableRows(Renamed(links, n, o))
           /\ disk'.links = disk.links /\ Done /\ dc' = dc /\ askew' = askew
  <2>1. SameCall /\ Head(mut'.steps) = "commit"
    BY <1>2, <1>9, DoneLemma
  <2>2. RowDue' /\ ConnDue(n)' /\ \A m \in Names : TableDue(m)'
    BY <1>1, <2>1 DEF RowDue, ConnDue, TableDue, At, SameCall
  <2>3. CopiesAgree'
    <3> SUFFICES ASSUME up, ~askew, NEW m \in Names, links[m] # NoLink
                 PROVE  /\ dc.tags[links[m].id] = links[m].table
                        /\ m # n => dc.conns[m] = links[m].id
      BY <1>2, <1>3, <1>9, <2>2, CopiesAre
    <3> QED BY <1>6
  <2>4. CallAgrees'
    BY <1>1, <1>2, <1>3, <1>7, <1>9, <2>1 DEF CallAgrees, SameCall, At
  <2> QED BY <2>3, <2>4
<1>10. CASE /\ mut' = NoCall /\ dc' = RenamedConn(o, n)
            /\ disk'.links = LinkRows(links) /\ disk'.tables = TableRows(links)
            /\ askew' = askew
  <2>1. /\ dc'.tags = dc.tags /\ dc'.conns[n] = dc.conns[o]
        /\ \A m \in Names \ {n, o} : dc'.conns[m] = dc.conns[m]
    BY <1>4, <1>10, ConnsTyped
  <2>2. Fresh'
    BY <1>10 DEF Fresh, NoCall
  <2>3. CopiesAgree'
    <3> SUFFICES ASSUME up, ~askew, NEW m \in Names, links[m] # NoLink
                 PROVE  /\ disk'.links[m] = LinkRows(links)[m]
                        /\ SavedTable(m)' = [table |-> links[m].table, rev |-> links[m].rev]
                        /\ dc.tags[links[m].id] = links[m].table
                        /\ dc'.conns[m] = links[m].id
      BY <1>2, <1>3, <1>10, <2>1, CopiesAre
    <3> QED BY <1>4, <1>6, <1>7, <1>10, <2>1, TableSaved
  <2> QED BY <2>2, <2>3, FreshAgrees
<1> QED BY <1>2, <1>5, <1>8, <1>9, <1>10

\* The memory follows what was saved.
LEMMA AgreesOfCommit ==
    ASSUME StructInv, CopiesAgree, CallAgrees, CommitRename
    PROVE  CopiesAgree' /\ CallAgrees'
<1> USE DEF StructInv, worldVars, ghosts
<1>1. PICK n \in Names, o \in Names : n = mut.name /\ o = mut.arg
  BY CommitTypes
<1>2. /\ LinksTyped' /\ mut' = NoCall /\ mut.op = "rename" /\ Head(mut.steps) = "commit"
      /\ links' = Renamed(links, n, o)
  BY <1>1, CommitTypes DEF At
<1>3. disk' = disk /\ dc' = dc /\ up' = up /\ askew' = askew
  BY DEF CommitRename
<1>4. n # o /\ links[n] # NoLink
  BY <1>1, <1>2 DEF CallSound, Exists
<1>5. /\ links'[o] = links[n] /\ links'[n] = NoLink
      /\ \A m \in Names \ {n, o} : links'[m] = links[m]
  BY <1>2, <1>4 DEF Renamed, LinksTyped
<1>6. Fresh'
  BY <1>2 DEF Fresh, NoCall
<1>7. CopiesAgree'
  <2> SUFFICES ASSUME up, ~askew, NEW m \in Names, links'[m] # NoLink
               PROVE  /\ disk.links[m] = LinkRows(links')[m]
                      /\ SavedTable(m)' = [table |-> links'[m].table, rev |-> links'[m].rev]
                      /\ dc.tags[links'[m].id] = links'[m].table
                      /\ dc.conns[m] = links'[m].id
    BY <1>3, CopiesAre
  <2>1. disk'.links = LinkRows(links') /\ disk'.tables = TableRows(links')
        /\ dc.conns[o] = links[n].id
    BY <1>1, <1>2, <1>3 DEF CallAgrees, At
  <2>2. links'[m].rev \in Nat \ {0}
    <3>1. Exists(m)' => links'[m].rev \in 1..MaxRev
      BY <1>5, LinkShape DEF Exists
    <3> QED BY <3>1 DEF Exists
  <2>3. disk'.tables[m] = [table |-> links'[m].table, rev |-> links'[m].rev]
    BY <2>1 DEF TableRows
  <2>4. SavedTable(m)' = [table |-> links'[m].table, rev |-> links'[m].rev]
    BY <2>2, <2>3, TableIs DEF SavedTable
  <2>5. \A p \in Names : links[p] # NoLink => dc.tags[links[p].id] = links[p].table
    BY Copies
  <2>6. m # o => dc.conns[m] = links[m].id
    <3>1. m # n => ~ConnDue(m)
      BY <1>1 DEF ConnDue
    <3> QED BY <1>5, <3>1, Copies
  <2> QED BY <1>3, <1>4, <1>5, <2>1, <2>4, <2>5, <2>6
<1> QED BY <1>6, <1>7, FreshAgrees

\* A link that is gone, or stays as one whose deletion is pending.
LEMMA AgreesOfDrop ==
    ASSUME StructInv, CopiesAgree, CallAgrees, DropConn
    PROVE  CopiesAgree' /\ CallAgrees'
<1> USE DEF StructInv
<1>1. PICK n \in Names : n = mut.name
  BY DropTypes
<1>2. /\ LinksTyped' /\ At("delete", "drop")
      /\ dc'.tags = dc.tags
      /\ \A m \in Names : m # n => links'[m] = links[m] /\ dc'.conns[m] = dc.conns[m]
      /\ \/ links'[n] = NoLink /\ SameCall /\ Head(mut'.steps) = "saveLinks" /\ askew' = askew
         \/ links' = links /\ mut' = NoCall /\ askew' = (askew \/ dc' # dc)
         \/ /\ Exists(n)
            /\ links'[n].id = links[n].id
            /\ links'[n].table = links[n].table /\ links'[n].rev = links[n].rev
            /\ SameCall /\ Head(mut'.steps) = "saveLinks"
            /\ askew' = (askew \/ dc' # dc)
  BY <1>1, DropTypes
<1>3. disk' = disk /\ up' = up
  BY DEF DropConn
<1>4. \A m \in Names : SavedTable(m)' = SavedTable(m)
  BY <1>3 DEF SavedTable
<1>5. NothingDue
  BY <1>2 DEF NothingDue, RowDue, TableDue, ConnDue, At
<1>6. Fresh'
  <2>1. mut' = NoCall => mut'.op = "none"
    BY DEF NoCall
  <2>2. SameCall => mut'.op = "delete"
    BY <1>2 DEF SameCall, At
  <2> QED BY <1>2, <2>1, <2>2 DEF Fresh
<1>7. SameCall /\ Head(mut'.steps) = "saveLinks" => RowDue'
  BY <1>2 DEF RowDue, SameCall, At
<1>8. ASSUME up, ~askew, NEW m \in Names, links[m] # NoLink
      PROVE  /\ RowAgrees(m) /\ TableAgrees(m)
             /\ dc.tags[links[m].id] = links[m].table /\ dc.conns[m] = links[m].id
  BY <1>5, <1>8, Copies DEF NothingDue
<1>9. CASE links'[n] = NoLink /\ SameCall /\ Head(mut'.steps) = "saveLinks" /\ askew' = askew
  <2>1. CopiesAgree'
    <3> SUFFICES ASSUME up, ~askew, NEW m \in Names, links'[m] # NoLink
                 PROVE  /\ SavedTable(m) = [table |-> links'[m].table, rev |-> links'[m].rev]
                        /\ dc.tags[links'[m].id] = links'[m].table
                        /\ dc'.conns[m] = links'[m].id
      BY <1>2, <1>3, <1>4, <1>7, <1>9, CopiesAre
    <3> QED BY <1>2, <1>8, <1>9 DEF TableAgrees
  <2> QED BY <1>6, <2>1, FreshAgrees
<1>10. CASE links' = links /\ mut' = NoCall /\ askew' = (askew \/ dc' # dc)
  <2>1. CASE dc' = dc
    <3>1. askew' = askew
      BY <1>10, <2>1 DEF LinksTyped
    <3> QED BY <1>2, <1>3, <1>5, <1>6, <1>10, <2>1, <3>1, SameDataOfSame, AgreesKept
  <2>2. CASE dc' # dc
    BY <1>10, <2>2 DEF CopiesAgree, CallAgrees
  <2> QED BY <2>1, <2>2
<1>11. CASE /\ Exists(n)
            /\ links'[n].id = links[n].id
            /\ links'[n].table = links[n].table /\ links'[n].rev = links[n].rev
            /\ SameCall /\ Head(mut'.steps) = "saveLinks"
            /\ askew' = (askew \/ dc' # dc)
  <2>1. CopiesAgree'
    <3> SUFFICES ASSUME up, ~askew, dc' = dc, NEW m \in Names, links'[m] # NoLink
                 PROVE  /\ SavedTable(m) = [table |-> links'[m].table, rev |-> links'[m].rev]
                        /\ dc.tags[links'[m].id] = links'[m].table
                        /\ dc.conns[m] = links'[m].id
      BY <1>2, <1>3, <1>4, <1>7, <1>11, CopiesAre
    <3>1. links[m] # NoLink
      BY <1>2, <1>11 DEF Exists
    <3> QED BY <1>2, <1>8, <1>11, <3>1 DEF TableAgrees
  <2> QED BY <1>6, <2>1, FreshAgrees
<1> QED BY <1>2, <1>9, <1>10, <1>11

\* What is loaded agrees with what it was loaded from.
LEMMA AgreesOfRestart ==
    ASSUME StructInv, LoadPersistedConfig \/ UnreadableConfig \/ Crash
    PROVE  CopiesAgree' /\ CallAgrees'
<1> USE DEF StructInv
<1>1. CASE LoadPersistedConfig
  <2>1. PICK found \in SUBSET Saved :
          \E untagged \in SUBSET found : \E ids \in [found -> Ids] : Loaded(found, untagged, ids)
    BY <1>1, LoadLemma
  <2>2. PICK untagged \in SUBSET found : \E ids \in [found -> Ids] : Loaded(found, untagged, ids)
    BY <2>1
  <2>3. PICK ids \in [found -> Ids] : Loaded(found, untagged, ids)
    BY <2>2
  <2>4. disk' = disk /\ (~askew' => untagged = {}) /\ (mut' = NoCall \/ mut'.op = "load")
    BY <2>3 DEF Loaded
  <2>5. Fresh'
    BY <2>4 DEF Fresh, NoCall
  <2>6. CopiesAgree'
    <3> SUFFICES ASSUME untagged = {}, NEW n \in Names, links'[n] # NoLink
                 PROVE  /\ RowDue' \/ disk'.links[n] = LinkRows(links')[n]
                        /\ SavedTable(n)' = [table |-> links'[n].table, rev |-> links'[n].rev]
                        /\ dc'.tags[links'[n].id] = links'[n].table
                        /\ dc'.conns[n] = links'[n].id
      BY <2>4, CopiesAre
    <3>1. n \in found
      BY <2>3 DEF Loaded
    <3>2. /\ links'[n] = Link(ids[n], disk.links[n].cfg, disk.links[n].pending,
                              SavedTable(n).table, SavedTable(n).rev)
          /\ dc'.conns[n] = ids[n] /\ dc'.tags[ids[n]] = SavedTable(n).table
          /\ mut' = NoCall \/ Head(mut'.steps) # "saveLinks" => ids[n] = disk.links[n].id
      BY <2>3, <3>1 DEF Loaded
    <3>3. /\ links'[n].id = ids[n] /\ links'[n].cfg = disk.links[n].cfg
          /\ links'[n].table = SavedTable(n).table /\ links'[n].rev = SavedTable(n).rev
          /\ links'[n].state = IF disk.links[n].pending THEN "pending" ELSE "stopped"
      BY <3>2 DEF Link
    <3>4. disk.links[n] \in Rows /\ SavedTable(n) \in TableRecords
      BY <3>1, SavedTyped
    <3>5. SavedTable(n)' = [table |-> links'[n].table, rev |-> links'[n].rev]
      <4>1. SavedTable(n)' = SavedTable(n)
        BY <2>4 DEF SavedTable
      <4> QED BY <3>3, <3>4, <4>1 DEF TableRecords
    <3>6. CASE mut'.op = "load" /\ Head(mut'.steps) = "saveLinks"
      BY <3>2, <3>3, <3>5, <3>6 DEF RowDue
    <3>7. CASE mut' = NoCall \/ Head(mut'.steps) # "saveLinks"
      <4>1. (links'[n].state = "pending") = disk.links[n].pending
        BY <3>3, <3>4 DEF Rows
      <4>2. LinkRows(links')[n] = [id |-> links'[n].id, cfg |-> links'[n].cfg,
                                   pending |-> links'[n].state = "pending"]
        BY DEF LinkRows
      <4>3. LinkRows(links')[n] = [id |-> disk.links[n].id, cfg |-> disk.links[n].cfg,
                                   pending |-> disk.links[n].pending]
        BY <3>2, <3>3, <3>7, <4>1, <4>2
      <4>4. disk'.links[n] = LinkRows(links')[n]
        BY <2>4, <3>4, <4>3 DEF Rows
      <4> QED BY <3>2, <3>3, <3>5, <4>4
    <3> QED BY <2>4, <3>6, <3>7
  <2> QED BY <2>5, <2>6, FreshAgrees
<1>2. CASE UnreadableConfig \/ Crash
  BY <1>2 DEF UnreadableConfig, Crash, CopiesAgree, CallAgrees
<1> QED BY <1>1, <1>2

LEMMA AgreesNext ==
    ASSUME StructInv, CopiesAgree, CallAgrees, [LinksNext]_linkVars
    PROVE  CopiesAgree' /\ CallAgrees'
<1>1. CASE NewCall
  <2>1. CASE \E n \in Names, c \in Configs : UpsertLink(n, c)
    BY <2>1, AgreesOfConfig, AgreesOfCalls
  <2>2. CASE \E n \in Names, t \in Tables : UpsertPointTable(n, t)
    BY <2>2, AgreesOfTable
  <2>3. CASE \E n, m \in Names : RenameLink(n, m)
    BY <2>3, AgreesOfCalls
  <2>4. CASE \E n \in Names : \/ StartLink(n) \/ StopLink(n) \/ DeleteLink(n)
                              \/ BeginCommand(n) \/ PushCommand(n)
    BY <2>4, AgreesOfCalls, AgreesOfStop, AgreesOfThreads DEF Thread
  <2> QED BY <1>1, <2>1, <2>2, <2>3, <2>4 DEF NewCall
<1>2. CASE SaveLinks \/ SaveTables
  BY <1>2, AgreesOfPlainSave, AgreesOfRenameSave
<1>3. CASE MutStep
  BY <1>2, <1>3, AgreesOfRegister, AgreesOfSync, AgreesOfRenameConn, AgreesOfCommit, AgreesOfStart,
     AgreesOfStop, AgreesOfDrop DEF MutStep
<1>4. CASE \E n \in Names : AutoStart(n) \/ PollStep(n) \/ WriterStep(n)
  BY <1>4, AgreesOfCalls, AgreesOfThreads DEF Thread
<1>5. CASE \E c \in commands : EndCommand(c)
  BY <1>5, AgreesOfThreads DEF Thread
<1>6. CASE UNCHANGED linkVars
  BY <1>6 DEF linkVars, worldVars, ghosts, CopiesAgree, CallAgrees, Exists, RowAgrees, TableAgrees,
              SavedTable, At
<1> QED BY <1>1, <1>3, <1>4, <1>5, <1>6, AgreesOfThreads, AgreesOfRestart DEF LinksNext

\* Between calls the table in memory, the one on disk and the tags in DataCenter
\* agree, and the name leads to the connection, however the calls before it
\* failed, were undone or were cut off by a crash.
THEOREM TablesAlwaysAgree == LinksSpec => []TablesAgree
<1>1. LinksInit => StructInv /\ CopiesAgree /\ CallAgrees
  BY StructInit DEF LinksInit, CopiesAgree, CallAgrees
<1>2. StructInv /\ CopiesAgree /\ CallAgrees /\ [LinksNext]_linkVars =>
         (StructInv /\ CopiesAgree /\ CallAgrees)'
  BY StructNext, AgreesNext
<1>3. CopiesAgree => TablesAgree
  <2> SUFFICES ASSUME CopiesAgree, up, mut = NoCall, ~askew, NEW n \in Names, links[n] # NoLink
               PROVE  /\ RowAgrees(n) /\ TableAgrees(n)
                      /\ dc.tags[links[n].id] = links[n].table /\ dc.conns[n] = links[n].id
    BY DEF TablesAgree, Exists, RowAgrees, TableAgrees
  <2> QED BY IdleIsQuiet, Copies DEF NothingDue
<1> QED BY <1>1, <1>2, <1>3, PTL DEF LinksSpec

-----------------------------------------------------------------------------
(* The serial bus.                                                        *)

Frames == [id : Nat, dev : {r.dev : r \in Requests}, fun : {r.fun : r \in Requests},
           refused : BOOLEAN, len : {n \in Nat : n >= 5}]
ByteSet == [frame : Frames, at : Nat]

\* The frame answers a request that was sent, and says ok only when a device
\* carried it out.
Genuine(f) ==
    /\ f.id \in 1..Len(sent)
    /\ f.dev = sent[f.id].dev /\ f.fun = sent[f.id].fun
    /\ ~f.refused => f.id \in executed

SentOK ==
    /\ sent \in Seq(Requests)
    /\ line \in Seq(1..Len(sent))
    /\ executed \subseteq 1..Len(sent)

InputOK == input \in Seq(ByteSet) /\ \A i \in 1..Len(input) : Genuine(input[i].frame)

CallOK ==
    call # NoRequest =>
        /\ call.id \in 1..Len(sent)
        /\ call.need \in Nat
        /\ call.read \in Seq(ByteSet)
        /\ Len(call.read) + call.need > 0
        /\ \A i \in 1..Len(call.read) : Genuine(call.read[i].frame)

AnswerOK ==
    answer # NoAnswer =>
        /\ answer.id \in 1..Len(sent)
        /\ answer.says = "ok" =>
             /\ answer.from \in executed
             /\ SameShape(sent[answer.from], sent[answer.id])

BusInv == SentOK /\ InputOK /\ CallOK /\ AnswerOK

Sizes == /\ \A r \in Requests : r.qty \in Nat
         /\ GarbledSizes \subseteq Nat

-----------------------------------------------------------------------------
\* Dropping the first bytes of a genuine input leaves a genuine input.
LEMMA DropKeepsInput ==
    ASSUME InputOK, NEW k \in Nat, k <= Len(input), sent' = sent, executed' = executed,
           input' = SubSeq(input, k + 1, Len(input))
    PROVE  InputOK'
<1> DEFINE rest == SubSeq(input, k + 1, Len(input))
<1>1. rest \in Seq(ByteSet)
  BY DEF InputOK
<1>2. \A i \in 1..Len(rest) : i + k \in 1..Len(input) /\ rest[i] = input[i + k]
  BY <1>1 DEF InputOK
<1>3. \A i \in 1..Len(rest) : Genuine(rest[i].frame)
  BY <1>2 DEF InputOK
<1> QED
  BY <1>1, <1>3 DEF InputOK, Genuine

\* What a read step looks at is genuine: what was read before and the bytes it
\* takes.
LEMMA ReadIsGenuine ==
    ASSUME InputOK, CallOK, call # NoRequest, call.need <= Len(input)
    PROVE  Read \in Seq(ByteSet) /\ Len(Read) > 0 /\ \A i \in 1..Len(Read) : Genuine(Read[i].frame)
<1> DEFINE taken == SubSeq(input, 1, call.need)
<1>1. taken \in Seq(ByteSet) /\ Len(taken) = call.need
  BY DEF InputOK, CallOK
<1>2. \A i \in 1..Len(taken) : i \in 1..Len(input) /\ taken[i] = input[i]
  BY <1>1 DEF InputOK, CallOK
<1>3. \A i \in 1..Len(taken) : Genuine(taken[i].frame)
  BY <1>2 DEF InputOK
<1>4. call.read \in Seq(ByteSet) /\ \A i \in 1..Len(call.read) : Genuine(call.read[i].frame)
  BY DEF CallOK
<1>5. Read \in Seq(ByteSet) /\ Len(Read) = Len(call.read) + Len(taken)
  BY <1>1, <1>4 DEF Read
<1>6. ASSUME NEW i \in 1..Len(Read) PROVE Genuine(Read[i].frame)
  <2>1. CASE i <= Len(call.read)
    BY <2>1, <1>1, <1>4 DEF Read
  <2>2. CASE i > Len(call.read)
    <3>1. i - Len(call.read) \in 1..Len(taken) /\ Read[i] = taken[i - Len(call.read)]
      BY <2>2, <1>1, <1>4, <1>5 DEF Read
    <3> QED BY <3>1, <1>3
  <2> QED BY <2>1, <2>2, <1>4, <1>5
<1>7. Len(Read) > 0
  BY <1>1, <1>4, <1>5 DEF CallOK
<1> QED BY <1>5, <1>6, <1>7

\* An answer stays right while more is sent and carried out.
LEMMA AnswerStays ==
    ASSUME SentOK, AnswerOK, answer' = answer,
           sent' = sent \/ \E r \in Requests : sent' = Append(sent, r),
           executed \subseteq executed'
    PROVE  AnswerOK'
<1>1. ASSUME NEW i \in 1..Len(sent) PROVE i \in 1..Len(sent') /\ sent'[i] = sent[i]
  <2>1. CASE sent' = sent
    BY <2>1
  <2>2. CASE \E r \in Requests : sent' = Append(sent, r)
    BY <2>2 DEF SentOK
  <2> QED BY <2>1, <2>2
<1>2. executed \subseteq 1..Len(sent)
  BY DEF SentOK
<1>3. SUFFICES ASSUME answer # NoAnswer PROVE
        /\ answer.id \in 1..Len(sent')
        /\ answer.says = "ok" => answer.from \in executed' /\ SameShape(sent'[answer.from], sent'[answer.id])
  BY DEF AnswerOK, NoAnswer, SameShape
<1>4. answer.id \in 1..Len(sent') /\ sent'[answer.id] = sent[answer.id]
  BY <1>1, <1>3 DEF AnswerOK
<1>5. ASSUME answer.says = "ok" PROVE answer.from \in executed' /\ SameShape(sent'[answer.from], sent'[answer.id])
  <2>1. answer.from \in executed /\ SameShape(sent[answer.from], sent[answer.id])
    BY <1>3, <1>5 DEF AnswerOK
  <2>2. sent'[answer.from] = sent[answer.from]
    BY <2>1, <1>1, <1>2
  <2> QED BY <2>1, <2>2, <1>4
<1> QED BY <1>4, <1>5


\* More is sent or carried out: what was genuine stays so.
LEMMA GenuineStays ==
    ASSUME SentOK, NEW f, Genuine(f),
           sent' = sent \/ \E r \in Requests : sent' = Append(sent, r),
           executed \subseteq executed'
    PROVE  Genuine(f)'
<1>1. f.id \in 1..Len(sent') /\ sent'[f.id] = sent[f.id]
  <2>1. CASE sent' = sent
    BY <2>1 DEF Genuine
  <2>2. CASE \E r \in Requests : sent' = Append(sent, r)
    BY <2>2 DEF SentOK, Genuine
  <2> QED BY <2>1, <2>2
<1> QED BY <1>1 DEF Genuine

\* The answer of a device that deals with a request is genuine.
LEMMA ReplyIsGenuine ==
    ASSUME Sizes, SentOK, NEW i \in 1..Len(sent), NEW refused \in BOOLEAN,
           sent' = sent, refused \/ i \in executed', NEW f, f = Reply(i, refused)
    PROVE  /\ Bytes(f) \in Seq(ByteSet)
           /\ \A j \in 1..Len(Bytes(f)) : Genuine(Bytes(f)[j].frame)'
<1>1. sent[i] \in Requests
  BY DEF SentOK
<1>2. f \in Frames
  BY <1>1 DEF Sizes, Reply, Frames
<1>3. f.id = i /\ f.dev = sent[i].dev /\ f.fun = sent[i].fun /\ f.refused = refused /\ f.len \in Nat
  BY <1>2 DEF Reply, Frames
<1>4. Genuine(f)'
  BY <1>3 DEF Genuine
<1>5. Bytes(f) \in Seq(ByteSet) /\ Len(Bytes(f)) = f.len
  <2>1. \A j \in 1..f.len : [frame |-> f, at |-> j] \in ByteSet
    BY <1>2, <1>3 DEF ByteSet
  <2> QED BY <2>1, <1>3 DEF Bytes
<1>6. \A j \in 1..Len(Bytes(f)) : Bytes(f)[j].frame = f
  BY <1>3, <1>5 DEF Bytes
<1>7. ASSUME NEW j \in 1..Len(Bytes(f)) PROVE Genuine(Bytes(f)[j].frame)'
  BY <1>4, <1>6 DEF Genuine
<1> QED BY <1>5, <1>7

\* Every step keeps what was sent, and only adds to what was carried out.
LEMMA SentKept ==
    ASSUME SentOK, BusNext
    PROVE  /\ SentOK'
           /\ executed \subseteq executed'
           /\ sent' = sent \/ \E r \in Requests : sent' = Append(sent, r)
<1>1. ASSUME NEW r \in Requests, Request(r)
      PROVE SentOK' /\ executed' = executed /\ sent' = Append(sent, r)
  BY <1>1 DEF Request, SentOK
<1>2. CASE DeviceAnswers
  <2>1. Head(line) \in 1..Len(sent) /\ Tail(line) \in Seq(1..Len(sent))
    BY <1>2 DEF DeviceAnswers, SentOK
  <2> QED BY <1>2, <2>1 DEF DeviceAnswers, SentOK
<1>3. CASE LineLoses
  <2>1. Head(line) \in 1..Len(sent) /\ Tail(line) \in Seq(1..Len(sent))
    BY <1>3 DEF LineLoses, SentOK
  <2> QED BY <1>3, <2>1 DEF LineLoses, SentOK
<1>4. CASE Close \/ TimesOut \/ ReadFails \/ ReadHead \/ ReadBody
  BY <1>4 DEF SentOK, Close, TimesOut, ReadFails, ReadHead, ReadBody, Take
<1> QED BY <1>1, <1>2, <1>3, <1>4 DEF BusNext

\* The input after a step.
LEMMA InputKept ==
    ASSUME Sizes, BusInv, BusNext
    PROVE  InputOK'
<1>1. \A f : Genuine(f) => Genuine(f)'
  BY SentKept, GenuineStays DEF BusInv, SentOK
<1>2. CASE input' = input
  BY <1>1, <1>2 DEF BusInv, InputOK
<1>3. CASE input' = <<>>
  BY <1>3 DEF InputOK
<1>4. ASSUME NEW k \in Nat, k <= Len(input), sent' = sent, executed' = executed,
             input' = SubSeq(input, k + 1, Len(input))
      PROVE  InputOK'
  BY <1>4, DropKeepsInput DEF BusInv
<1>5. ASSUME NEW refused \in BOOLEAN, line # <<>>, sent' = sent,
             executed' = IF refused THEN executed ELSE executed \cup {Head(line)},
             input' = input \o Bytes(Reply(Head(line), refused))
      PROVE  InputOK'
  <2>1. PICK f : f = Reply(Head(line), refused)
    OBVIOUS
  <2>2. Head(line) \in 1..Len(sent)
    BY <1>5 DEF BusInv, SentOK
  <2>3. Bytes(f) \in Seq(ByteSet) /\ \A j \in 1..Len(Bytes(f)) : Genuine(Bytes(f)[j].frame)'
    BY <1>5, <2>1, <2>2, ReplyIsGenuine DEF BusInv
  <2>4. input' \in Seq(ByteSet) /\ Len(input') = Len(input) + Len(Bytes(f))
    BY <1>5, <2>1, <2>3 DEF BusInv, InputOK
  <2>5. ASSUME NEW i \in 1..Len(input') PROVE Genuine(input[i].frame)'
    <3>1. CASE i <= Len(input)
      <4>1. input'[i] = input[i] /\ Genuine(input[i].frame)
        BY <3>1, <1>5, <2>1, <2>3 DEF BusInv, InputOK
      <4> QED BY <4>1, <1>1 DEF Genuine
    <3>2. CASE i > Len(input)
      <4>1. i - Len(input) \in 1..Len(Bytes(f)) /\ input'[i] = Bytes(f)[i - Len(input)]
        BY <3>2, <1>5, <2>1, <2>3, <2>4 DEF BusInv, InputOK
      <4> QED BY <4>1, <2>3 DEF Genuine
    <3> QED BY <3>1, <3>2, <2>4 DEF BusInv, InputOK
  <2> QED BY <2>4, <2>5 DEF InputOK, Genuine
<1>6. CASE DeviceAnswers
  BY <1>2, <1>5, <1>6 DEF DeviceAnswers
<1>7. CASE TimesOut \/ ReadFails
  BY <1>3, <1>4, <1>7 DEF TimesOut, ReadFails
<1>8. CASE ReadHead \/ ReadBody
  BY <1>4, <1>8 DEF ReadHead, ReadBody, Take, BusInv, CallOK
<1>9. CASE Close \/ LineLoses \/ \E r \in Requests : Request(r)
  BY <1>2, <1>3, <1>9 DEF Close, LineLoses, Request
<1> QED BY <1>6, <1>7, <1>8, <1>9 DEF BusNext

\* The call being served after a step.
LEMMA RequestKept ==
    ASSUME Sizes, BusInv, BusNext
    PROVE  CallOK'
<1>1. \A f : Genuine(f) => Genuine(f)'
  BY SentKept, GenuineStays DEF BusInv, SentOK
<1>2. \A i \in 1..Len(sent) : i \in 1..Len(sent')
  BY SentKept DEF BusInv, SentOK
<1>3. CASE call' = call
  BY <1>1, <1>2, <1>3 DEF BusInv, CallOK, NoRequest
<1>4. CASE call' = NoRequest
  BY <1>4 DEF CallOK, NoRequest
<1>5. ASSUME NEW r \in Requests, Request(r) PROVE CallOK'
  BY <1>5 DEF Request, BusInv, SentOK, CallOK, HeadSize
<1>6. CASE ReadHead
  <2>1. call # NoRequest /\ call.need <= Len(input) /\ sent' = sent /\ executed' = executed
    BY <1>6 DEF ReadHead, Take, NoRequest
  <2>2. Read \in Seq(ByteSet) /\ Len(Read) > 0 /\ \A i \in 1..Len(Read) : Genuine(Read[i].frame)
    BY <2>1, ReadIsGenuine DEF BusInv
  <2>3. ASSUME NEW n \in Nat, call' = [call EXCEPT !.step = "body", !.need = n, !.read = Read]
        PROVE  CallOK'
    BY <1>1, <2>1, <2>2, <2>3 DEF BusInv, CallOK
  <2>4. Read[1].frame.len - HeadSize(sent[call.id]) \in Nat
    <3>1. Read[1] \in ByteSet
      BY <2>2
    <3>2. Read[1].frame.len \in Nat /\ Read[1].frame.len >= 5
      BY <3>1 DEF ByteSet, Frames
    <3> QED BY <3>2 DEF HeadSize
  <2> QED BY <1>4, <1>6, <2>1, <2>2, <2>3, <2>4 DEF ReadHead, Returns, Sizes
<1>7. CASE ReadBody
  BY <1>4, <1>7 DEF ReadBody, Returns
<1>8. CASE TimesOut \/ ReadFails
  BY <1>4, <1>8 DEF TimesOut, ReadFails, Returns
<1>9. CASE Close \/ DeviceAnswers \/ LineLoses
  BY <1>3, <1>9 DEF Close, DeviceAnswers, LineLoses
<1> QED BY <1>5, <1>6, <1>7, <1>8, <1>9 DEF BusNext

\* What the last call returned, after a step.
LEMMA AnswerKept ==
    ASSUME Sizes, BusInv, BusNext
    PROVE  AnswerOK'
<1>1. CASE answer' = answer
  BY <1>1, SentKept, AnswerStays DEF BusInv
<1>2. ASSUME NEW says, NEW from, Returns(says, from), call # NoRequest, sent' = sent, executed' = executed,
             says = "ok" => from \in executed /\ SameShape(sent[from], sent[call.id])
      PROVE  AnswerOK'
  BY <1>2 DEF BusInv, CallOK, AnswerOK, Returns, SameShape
<1>3. CASE ReadHead
  BY <1>1, <1>2, <1>3 DEF ReadHead, Take, NoRequest
<1>4. CASE ReadBody
  <2>1. call # NoRequest /\ call.need <= Len(input) /\ sent' = sent /\ executed' = executed
    BY <1>4 DEF ReadBody, Take, NoRequest
  <2>2. Read \in Seq(ByteSet) /\ Len(Read) > 0 /\ \A i \in 1..Len(Read) : Genuine(Read[i].frame)
    BY <2>1, ReadIsGenuine DEF BusInv
  <2> DEFINE f == Read[1].frame
  <2>3. Genuine(f)
    BY <2>2
  <2>4. \/ Returns("mismatch", 0) \/ Returns("refused", 0)
        \/ /\ Returns("ok", f.id) /\ Genuine(f) /\ ~f.refused
           /\ SameShape(sent[f.id], sent[call.id])
    BY <1>4, <2>3 DEF ReadBody
  <2> QED BY <1>2, <2>1, <2>4 DEF Genuine
<1>5. CASE TimesOut \/ ReadFails
  BY <1>2, <1>5 DEF TimesOut, ReadFails
<1>6. CASE Close \/ DeviceAnswers \/ LineLoses \/ \E r \in Requests : Request(r)
  BY <1>1, <1>6 DEF Close, DeviceAnswers, LineLoses, Request
<1> QED BY <1>3, <1>4, <1>5, <1>6 DEF BusNext

\* For all requests, whatever the number of calls and the delays: an answer
\* that the bus returns as ok is one of a request that a device carried out,
\* and of the same shape; a single write that is accepted was carried out.
THEOREM AnswersAreGenuine ==
    ASSUME Sizes
    PROVE  BusSpec => []AnswerHasTheShape
<1>1. BusInit => BusInv
  BY DEF BusInit, BusInv, SentOK, InputOK, CallOK, AnswerOK
<1>2. BusInv /\ [BusNext]_busVars => BusInv'
  <2>1. SUFFICES ASSUME BusInv, [BusNext]_busVars PROVE BusInv'
    OBVIOUS
  <2>2. CASE BusNext
    BY <2>1, <2>2, SentKept, InputKept, RequestKept, AnswerKept DEF BusInv
  <2>3. CASE UNCHANGED busVars
    BY <2>1, <2>3 DEF busVars, BusInv, SentOK, InputOK, CallOK, AnswerOK, Genuine, SameShape, NoRequest, NoAnswer
  <2> QED BY <2>1, <2>2, <2>3
<1>3. BusInv => AnswerHasTheShape
  BY DEF BusInv, AnswerOK, AnswerHasTheShape, Accepted
<1> QED BY <1>1, <1>2, <1>3, PTL DEF BusSpec

=============================================================================
