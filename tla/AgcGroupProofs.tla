--------------------------- MODULE AgcGroupProofs ---------------------------
(***************************************************************************)
(* A group that was not changed under an output tells its members what it   *)
(* was told and nothing once it is off; the block points follow in any case *)
(* but the failure of their last publication.                               *)
(*                                                                         *)
(* Three things carry the proof.  Locks says who holds what, so that an     *)
(* output is the only one and is not overtaken by the calls that take its   *)
(* mutex.  A debt of the group (BlockDue, AppliedDue) is a round asked for, *)
(* an output under way or a caller that will publish or stop the group:     *)
(* whatever makes the published points old leaves one of them behind.       *)
(* Recorded ties the memory of what was sent to what the members have.      *)
(***************************************************************************)
EXTENDS AgcGroup, TLAPS

Holders == Slots \cup Rpcs
Commands == Totals \cup {None}
Beats == [ok : BOOLEAN, ts : Nat]
Setpoints == [total : Totals \cup {None, "up", "down"}, among : SUBSET Members]
Outputs == [Members -> Setpoints \cup {None}]
Blocks == [known : BOOLEAN, at : Outputs]
Groups ==
    [st : {"absent", "stopped", "running", "pending"}, fun : BOOLEAN, remote : BOOLEAN,
     cmd : Commands, tuning : {"none", "up", "down", "ended"}, beat : [Members -> Beats],
     avail : SUBSET Members, sent : Outputs, published : Outputs, fresh : SUBSET Holders,
     handle : Slots \cup {None}, tuner : Slots \cup {None},
     pending : SUBSET Slots, stopping : SUBSET Slots]
Tags == {"cmd"} \cup Members
Updates == [tag : Tags, cmd : Commands, beat : Beats \cup {None}]
Generations ==
    [ctl : {"off", "wait", "check", "tick", "out"}, sub : {"off", "wait", "got"},
     tun : {"off", "asleep", "look"},
     due : SUBSET Tags, upd : Updates \cup {None}]
Stages == {"limits", "blockFirst", "sendFirst", "compute", "members", "send", "record",
           "blockLast", "sendLast"}
Works == [by : Holders, stage : Stages, todo : SUBSET Members, block : Blocks \cup {None},
          gives : BOOLEAN, value : Setpoints, crossed : BOOLEAN]
Places == {"upsert", "limits", "block", "blockSend", "auto", "start", "joinOld", "stop", "askStop",
           "join", "joinTuner", "drop", "eraseTuner", "joinErase", "function", "switched", "remote", "total",
           "totalSet", "out", "tune", "tuneRead", "tuneGo", "untune"}
Calls == [pc : Places,
          op : {"upsert", "start", "stop", "delete", "tune", "untune", "function", "remote", "total"},
          val : Commands \cup BOOLEAN, join : SUBSET Slots, among : SUBSET Members,
          block : Blocks \cup [Members -> Beats] \cup {None}]
DataCenters == [cmd : Commands, beat : [Members -> Beats], expired : [Members -> Nat],
                set : Outputs, block : Blocks \cup {None}]
Lefts == [ask : [Rpcs -> SUBSET Requests], events : Nat, faults : Nat, failed : BOOLEAN,
          crossed : BOOLEAN]

Sound(g) == /\ g \in Groups
            /\ Tuning(g) => g.st \in {"running", "pending"} /\ g.handle \in Slots
            /\ g.st = "running" => g.handle \in Slots
ThreadOK(th) == th.sub = "got" => /\ th.upd \in Updates
                                  /\ th.upd.tag = "cmd" => th.upd.cmd \in Totals
                                  /\ th.upd.tag # "cmd" => th.upd.beat \in Beats
ThreadsOK == thr \in [Slots -> Generations] /\ \A t \in Slots : ThreadOK(thr[t])
WorkOK == /\ work = NoWork \/ work \in Works
          /\ work.stage \in {"sendFirst", "sendLast"} => work.block \in Blocks
          /\ work.stage # "none" /\ work.crossed => left.crossed
CallOK(c) == /\ c.pc \in {"function", "switched", "remote"} => c.val \in BOOLEAN
             /\ c.pc \in {"total", "totalSet"} => c.val \in Totals
             /\ c.pc = "blockSend" => c.block \in Blocks
             /\ c.pc = "tuneGo" => c.block \in [Members -> Beats]
CallsOK == call \in [Rpcs -> Calls \cup {NoCall}] /\ \A r \in Rpcs : CallOK(call[r])
LocksOK == out \in Holders \cup {None} /\ pub \in Holders \cup {None} /\ mu \in Rpcs \cup {None}
Shapes == Sound(rt) /\ ThreadsOK /\ WorkOK /\ CallsOK /\ LocksOK /\ dc \in DataCenters /\ left \in Lefts

Locks ==
    /\ work.stage # "none" => /\ out = work.by /\ (work.by \in Rpcs => At(work.by, "out"))
                              /\ work.by \in Slots => thr[work.by].ctl = "out"
    /\ work.stage \in {"sendFirst", "sendLast"} => pub = work.by
    /\ \A r \in Rpcs : /\ call[r].pc \in {"switched", "totalSet"} => out = r
                       /\ At(r, "blockSend") => pub = r
                       /\ call[r].pc \in {"eraseTuner", "joinErase"} => mu = r /\ rt.handle \in Slots
                       /\ At(r, "joinOld") => /\ mu = r /\ rt.st = "stopped" /\ rt.handle \in Slots
                                               /\ rt.cmd = None /\ rt.fresh = {}

Due == CHOOSE x \in work.todo : TRUE
Sends == work.stage \in {"send", "record"} =>
           work.todo # {} /\ rt.fun /\ (work.crossed \/ Current)

Holding(v) ==
    \/ pub = None /\ dc.block \in {v, None}
    \/ \E r \in Rpcs : At(r, "blockSend") /\ call[r].block = v
    \/ work.stage \in {"sendFirst", "sendLast"} /\ work.block = v
RoundDue == rt.handle \in rt.pending \/ \E t \in Slots : thr[t].ctl = "tick"
BlockDue ==
    \/ RoundDue
    \/ work.stage \in {"limits", "blockFirst", "blockLast"}
    \/ work.stage \in {"members", "send", "record"} /\ Current
    \/ \E r \in Rpcs : call[r].pc \in {"block", "stop"}
Regulating == rt.st = "running" /\ ~Tuning(rt)
BlockFollows == Regulating => BlockDue \/ Holding(BlockOf(rt))

Recorded ==
    /\ work.stage = "record" => dc.set[Due] = work.value
    /\ \A m \in Members : \/ rt.sent[m] = None \/ rt.sent[m] = dc.set[m]
                          \/ work.stage = "record" /\ m = Due
Goal == Setpoint(rt.cmd, rt.avail)
Working == work.stage # "none" /\ work.by \in rt.fresh
Computed ==
    Working /\ Regulating =>
      /\ work.value = Goal
      /\ work.gives <=> rt.fun /\ rt.cmd # None
      /\ ~left.failed => \A m \in rt.avail \ work.todo : dc.set[m] = work.value
Finished == work.stage \in {"blockLast", "sendLast"} => work.todo = {}
Reserved == \A r \in Rpcs :
              /\ At(r, "totalSet") => Regulating /\ rt.fun /\ call[r].among = rt.avail
              /\ At(r, "switched") => /\ call[r].val => rt.fun
                                      /\ Regulating /\ rt.fun /\ rt.cmd # None => call[r].val
Applied == \A m \in rt.avail : dc.set[m] = Goal
AppliedDue == RoundDue \/ Working \/ \E r \in Rpcs : call[r].pc \in {"stop", "switched"}
SetpointsFollow == Regulating /\ rt.fun /\ rt.cmd # None /\ ~left.failed => AppliedDue \/ Applied

Uncrossed == ~left.crossed => Recorded /\ Computed /\ Reserved /\ SetpointsFollow

AgcInv == Shapes /\ Locks /\ Sends /\ BlockFollows /\ Finished /\ Uncrossed
-----------------------------------------------------------------------------
(* The operators the steps are built from. *)

LEMMA ForgetOK ==
  ASSUME NEW f \in Outputs, NEW ms
  PROVE  /\ Forget(f, ms) \in Outputs
         /\ \A m \in Members : Forget(f, ms)[m] \in {None, f[m]}
BY DEF Forget, Outputs

LEMMA NothingOK == Nothing \in Outputs /\ \A m \in Members : Nothing[m] = None
BY DEF Nothing, Outputs

LEMMA TakePartOK == ASSUME NEW g PROVE TakePart(g) \subseteq Members
BY DEF TakePart

LEMMA BlockOfOK == ASSUME NEW g \in Groups PROVE BlockOf(g) \in Blocks
<1>1. Forget(g.published, Members \ g.avail) \in Outputs
  BY ForgetOK DEF Groups
<1> QED BY <1>1, NothingOK DEF BlockOf, Blocks

\* A look at the heartbeats leaves the group as it is, or voids what was
\* computed and asks for a round, or ends the tuning and with it the group.
After(g, h) ==
    /\ Sound(h) /\ h.handle = g.handle /\ h.fun = g.fun /\ h.cmd = g.cmd
    /\ h.avail = TakePart(g) /\ g.pending \subseteq h.pending
    /\ \A m \in Members : h.sent[m] \in {None, g.sent[m]}
    /\ \/ h = g
       \/ h.fresh = {} /\ Tuning(g) /\ h.tuning = "ended" /\ h.st = "stopped"
       \/ /\ h.fresh = {} /\ ~Tuning(g) /\ h.tuning = g.tuning /\ h.st = g.st
          /\ g.st = "running" => h.handle \in h.pending

LEMMA RefreshedAfter ==
  ASSUME NEW g, Sound(g) PROVE After(g, Refreshed(g))
<1> DEFINE now == TakePart(g)
           changed == (now \ g.avail) \cup (g.avail \ now)
           after == [g EXCEPT !.avail = now, !.fresh = {}, !.sent = Forget(@, changed),
                              !.published = Forget(@, changed)]
<1>1. now \subseteq Members /\ g.sent \in Outputs /\ g.published \in Outputs /\ g.avail \subseteq Members
  BY TakePartOK DEF Sound, Groups
<1>2. CASE changed = {}
  <2>1. Refreshed(g) = g
    BY <1>2 DEF Refreshed
  <2>2. now = g.avail
    BY <1>2, <1>1
  <2> HIDE DEF now
  <2> QED BY <2>1, <2>2 DEF After, Sound, now
<1>3. CASE changed # {}
  <2>1. /\ Forget(g.sent, changed) \in Outputs /\ Forget(g.published, changed) \in Outputs
        /\ \A m \in Members : Forget(g.sent, changed)[m] \in {None, g.sent[m]}
    BY <1>1, ForgetOK
  <2>2. Refreshed(g) = IF Tuning(g)
         THEN [after EXCEPT !.tuning = "ended", !.st = "stopped", !.stopping = @ \cup {g.handle}]
         ELSE Requested(after)
    BY <1>3 DEF Refreshed
  <2> DEFINE s == Forget(g.sent, changed)
             p == Forget(g.published, changed)
  <2> HIDE DEF now, changed, s, p
  <2>3. after = [g EXCEPT !.avail = now, !.fresh = {}, !.sent = s, !.published = p]
    BY DEF s, p, changed
  <2> HIDE DEF after
  <2>4. /\ after \in Groups /\ after.handle = g.handle /\ after.fun = g.fun /\ after.cmd = g.cmd
        /\ after.avail = now /\ after.fresh = {} /\ after.sent = s /\ after.st = g.st
        /\ after.tuning = g.tuning /\ after.pending = g.pending /\ after.stopping = g.stopping
    BY <2>1, <2>3, <1>1 DEF Sound, Groups, s, p
  <2>5. CASE Tuning(g)
    <3> DEFINE h == [after EXCEPT !.tuning = "ended", !.st = "stopped", !.stopping = @ \cup {g.handle}]
    <3>1. g.handle \in Slots /\ Refreshed(g) = h
      BY <2>5, <2>2 DEF Sound
    <3>2. /\ h \in Groups /\ h.handle = g.handle /\ h.fun = g.fun /\ h.cmd = g.cmd
          /\ h.avail = now /\ h.fresh = {} /\ h.sent = s /\ h.st = "stopped"
          /\ h.tuning = "ended" /\ h.pending = g.pending
      BY <3>1, <2>4 DEF Groups
    <3> HIDE DEF h
    <3> QED BY <2>5, <3>1, <3>2, <2>1 DEF After, Sound, Tuning, s, now
  <2>6. CASE ~Tuning(g)
    BY <2>6, <2>4, <2>1, <2>2, NamesAssumption DEF After, Sound, Tuning, Groups, s, now, Requested
  <2> QED BY <2>5, <2>6
<1> QED BY <1>2, <1>3

\* h is g with perhaps more rounds asked for.
Same(g, h) ==
    /\ Sound(h) /\ h.st = g.st /\ h.fun = g.fun /\ h.cmd = g.cmd /\ h.tuning = g.tuning
    /\ h.avail = g.avail /\ h.sent = g.sent /\ h.published = g.published /\ h.handle = g.handle
    /\ g.pending \subseteq h.pending

LEMMA RequestedSame ==
  ASSUME NEW g, Sound(g)
  PROVE  /\ Same(g, Requested(g)) /\ Requested(g).fresh = g.fresh
         /\ g.st = "running" => g.handle \in Requested(g).pending
<1>1. CASE g.st = "running" /\ g.handle # None
  <2>1. Requested(g) = [g EXCEPT !.pending = @ \cup {g.handle}]
    BY <1>1 DEF Requested
  <2> QED BY <1>1, <2>1 DEF Same, Sound, Groups, Tuning
<1>2. CASE ~(g.st = "running" /\ g.handle # None)
  <2>1. Requested(g) = g
    BY <1>2 DEF Requested
  <2> QED BY <1>2, <2>1, NamesAssumption DEF Same, Sound
<1> QED BY <1>1, <1>2

LEMMA BeatenSame ==
  ASSUME NEW g, Sound(g), NEW m \in Members, NEW beat \in Beats
  PROVE  Same(g, Beaten(g, m, beat)) /\ Beaten(g, m, beat).fresh = g.fresh
<1> DEFINE b == [ok |-> beat.ok, ts |-> IF beat.ts > g.beat[m].ts THEN beat.ts ELSE g.beat[m].ts]
<1>1. b \in Beats /\ g.beat \in [Members -> Beats]
  BY DEF Beats, Sound, Groups
<1> HIDE DEF b
<1>2. CASE beat.ok /\ beat.ts <= g.beat[m].ts
  BY <1>2 DEF Beaten, Same, Sound
<1>3. CASE ~(beat.ok /\ beat.ts <= g.beat[m].ts)
  <2> DEFINE f == [g.beat EXCEPT ![m] = b]
  <2>1. f \in [Members -> Beats]
    BY <1>1
  <2>2. Beaten(g, m, beat) = [g EXCEPT !.beat = f]
    BY <1>3 DEF Beaten, b, Sound, Groups
  <2> HIDE DEF f
  <2> QED BY <2>1, <2>2 DEF Same, Sound, Groups, Tuning
<1> QED BY <1>2, <1>3

LEMMA NeverBeatOK == NeverBeat \in [Members -> Beats]
BY DEF NeverBeat, Beats

LEMMA RebuiltOK ==
  ASSUME NEW g, Sound(g), NEW reset \in BOOLEAN
  PROVE  LET h == Rebuilt(g, reset)
         IN /\ Sound(h) /\ h.st = g.st /\ h.fun = g.fun /\ h.tuning = g.tuning /\ h.handle = g.handle
            /\ h.tuner = g.tuner /\ h.remote = g.remote
            /\ h.pending = g.pending /\ h.stopping = g.stopping /\ h.cmd = None /\ h.fresh = {}
            /\ h.sent = Nothing /\ h.avail = {}
BY NothingOK, NeverBeatOK DEF Rebuilt, Sound, Groups, Commands, Tuning

LEMMA NewGroupOK ==
  /\ Sound(NewGroup) /\ NewGroup.st = "stopped" /\ Sound(Absent) /\ Absent.st = "absent"
  /\ NewGroup.cmd = None /\ NewGroup.sent = Nothing /\ NewGroup.handle = None /\ NewGroup.tuning = "none"
  /\ Absent.fresh = {}
  /\ NewGroup.fun = TRUE /\ Absent.fun = TRUE /\ Absent.tuning = "none" /\ Absent.sent = Nothing
BY NothingOK, NeverBeatOK DEF NewGroup, Absent, Sound, Groups, Commands, Tuning

LEMMA BlockOfSame ==
  ASSUME NEW g, NEW h, Same(g, h) PROVE BlockOf(h) = BlockOf(g)
BY DEF BlockOf, Same

LEMMA GoesOK ==
  ASSUME CallsOK, NEW r \in Rpcs, NEW c \in Calls \cup {NoCall}, CallOK(c), Goes(r, c)
  PROVE  CallsOK' /\ call'[r] = c /\ \A q \in Rpcs \ {r} : call'[q] = call[q]
BY DEF CallsOK, Goes

LEMMA NoCallOK == NoCall \in Calls \cup {NoCall} /\ CallOK(NoCall) /\ NoCall.pc = "idle"
BY DEF NoCall, CallOK

LEMMA ReturnsOK ==
  ASSUME CallsOK, NEW r \in Rpcs, Returns(r)
  PROVE  CallsOK' /\ call'[r].pc = "idle" /\ \A q \in Rpcs \ {r} : call'[q] = call[q]
BY NoCallOK, GoesOK DEF Returns

LEMMA CallIs ==
  ASSUME CallsOK, NEW r \in Rpcs, call[r].pc \in Places PROVE call[r] \in Calls
BY DEF CallsOK, NoCall, Places

LEMMA ToOK ==
  ASSUME CallsOK, NEW r \in Rpcs, call[r].pc \in Places, NEW pc \in Places,
         pc \notin {"function", "switched", "remote", "total", "totalSet", "blockSend", "tuneGo"},
         To(r, pc)
  PROVE  CallsOK' /\ call'[r].pc = pc /\ \A q \in Rpcs \ {r} : call'[q] = call[q]
<1>1. call[r] \in Calls
  BY CallIs
<1>2. [call[r] EXCEPT !.pc = pc] \in Calls /\ [call[r] EXCEPT !.pc = pc].pc = pc
  BY <1>1 DEF Calls
<1>3. CallOK([call[r] EXCEPT !.pc = pc])
  BY <1>2 DEF CallOK
<1> QED BY <1>2, <1>3, GoesOK DEF To
-----------------------------------------------------------------------------
(* Steps that leave the group, the output and the published points alone. *)

LEMMA StillLocked ==
  ASSUME AgcInv, Shapes', Locks', work' = work, pub' = pub,
         dc'.set = dc.set, dc'.block = dc.block,
         left'.failed = left.failed, left'.crossed = left.crossed, Same(rt, rt'),
         work.stage # "none" => (work.by \in rt.fresh <=> work.by \in rt'.fresh),
         \A t \in Slots : thr[t].ctl \in {"tick", "out"} => thr'[t].ctl = thr[t].ctl,
         \A r \in Rpcs : \/ call'[r] = call[r]
                         \/ /\ call[r].pc \notin {"block", "stop", "switched", "blockSend"}
                            /\ call'[r].pc \notin {"switched", "totalSet"}
  PROVE  AgcInv'
<1> USE DEF AgcInv
<1>1. (RoundDue => RoundDue') /\ (Regulating' => Regulating)
  BY DEF RoundDue, Regulating, Same, Tuning
<1>2. work.stage # "none" => (Current <=> Current')
  BY DEF Current, Same
<1>3. Sends' /\ Finished'
  BY <1>2 DEF Sends, Finished, Same
<1>4. BlockFollows'
  <2>1. BlockOf(rt') = BlockOf(rt)
    BY BlockOfSame
  <2>2. Regulating' => (BlockDue => BlockDue')
    BY <1>1, <1>2 DEF BlockDue
  <2>3. ASSUME NEW v, Holding(v) PROVE Holding(v)'
    BY <2>3 DEF Holding, At
  <2> QED BY <2>1, <2>2, <2>3, <1>1 DEF BlockFollows
<1>5. ASSUME ~left.crossed PROVE Recorded' /\ Computed' /\ Reserved' /\ SetpointsFollow'
  <2>1. Recorded /\ Computed /\ Reserved /\ SetpointsFollow
    BY <1>5 DEF Uncrossed
  <2>2. Recorded'
    BY <2>1 DEF Recorded, Same, Due
  <2>3. Goal' = Goal /\ (Working <=> Working')
    BY DEF Goal, Working, Same
  <2>4. Computed'
    BY <2>1, <2>3, <1>1 DEF Computed, Same
  <2>5. Reserved'
    BY <2>1 DEF Reserved, Regulating, Same, At, Tuning
  <2>6. SetpointsFollow'
    BY <2>1, <2>3, <1>1 DEF SetpointsFollow, AppliedDue, Applied, Same
  <2> QED BY <2>2, <2>4, <2>5, <2>6
<1> QED BY <1>3, <1>4, <1>5 DEF Uncrossed

LEMMA Still ==
  ASSUME AgcInv, Shapes', work' = work, out' = out, pub' = pub, mu' = mu,
         dc'.set = dc.set, dc'.block = dc.block,
         left'.failed = left.failed, left'.crossed = left.crossed,
         Same(rt, rt'), mu = None \/ rt'.fresh = rt.fresh,
         work.stage # "none" => (work.by \in rt.fresh <=> work.by \in rt'.fresh),
         \A t \in Slots : thr[t].ctl \in {"tick", "out"} => thr'[t].ctl = thr[t].ctl,
         \A r \in Rpcs : \/ call'[r] = call[r]
                         \/ /\ call[r].pc \notin {"out", "block", "stop", "switched", "blockSend",
                                                  "totalSet", "eraseTuner", "joinErase", "joinOld"}
                            /\ call'[r].pc \notin {"switched", "blockSend", "totalSet", "eraseTuner",
                                                   "eraseTuner", "joinErase", "joinOld"}
  PROVE  AgcInv'
<1>1. \A r \in Rpcs : At(r, "joinOld") => rt'.fresh = rt.fresh
  BY NamesAssumption DEF AgcInv, Locks
<1>2. Locks'
  BY <1>1 DEF AgcInv, Locks, At, Same
<1> QED BY <1>2, StillLocked
-----------------------------------------------------------------------------
(* Steps that void what was computed.                                      *)

LEMMA Voided ==
  ASSUME AgcInv, Shapes', Locks', Finished', rt'.fresh = {}, dc'.set = dc.set,
         \/ ~Regulating' \/ RoundDue' \/ \E r \in Rpcs : call'[r].pc = "stop"
         \/ rt'.cmd = None /\ \E r \in Rpcs : call'[r].pc = "block",
         \A m \in Members : rt'.sent[m] \in {None, rt.sent[m]},
         left.crossed => left'.crossed,
         \/ work'.stage \notin {"send", "record"}
         \/ /\ work.stage \in {"send", "record"} /\ work'.todo = work.todo /\ rt'.fun
            /\ work'.crossed /\ left'.crossed,
         work.stage # "record" \/ left'.crossed,
         left'.crossed \/ Reserved' \/ \A r \in Rpcs : call'[r].pc \notin {"totalSet", "switched"}
  PROVE  AgcInv'
<1> USE DEF AgcInv
<1>1. ~Working'
  BY DEF Working
<1>2. Sends'
  BY DEF Sends, Due
<1>3. BlockFollows'
  BY DEF BlockFollows, BlockDue
<1>4. ASSUME ~left'.crossed PROVE Recorded' /\ Computed' /\ Reserved' /\ SetpointsFollow'
  <2>1. Recorded
    BY <1>4 DEF Uncrossed
  <2>2. Recorded'
    BY <1>4, <2>1 DEF Recorded
  <2>3. Computed' /\ Reserved'
    BY <1>1, <1>4 DEF Computed, Reserved, At
  <2>4. SetpointsFollow'
    BY DEF SetpointsFollow, AppliedDue
  <2> QED BY <2>2, <2>3, <2>4
<1> QED BY <1>2, <1>3, <1>4 DEF Uncrossed

\* What a look at the heartbeats leaves behind.
LEMMA AfterIs ==
  ASSUME AgcInv, NEW g, Same(rt, g), g.fresh = rt.fresh, After(g, rt')
  PROVE  \/ Same(rt, rt') /\ rt'.fresh = rt.fresh
         \/ /\ rt'.fresh = {} /\ \A m \in Members : rt'.sent[m] \in {None, rt.sent[m]}
            /\ ~Regulating' \/ RoundDue'
BY DEF AgcInv, Same, After, Regulating, RoundDue
-----------------------------------------------------------------------------
(* The threads. *)

LEMMA ThreadMoves ==
  ASSUME ThreadsOK, NEW t \in Slots, NEW th \in Generations, ThreadOK(th), thr' = [thr EXCEPT ![t] = th]
  PROVE  ThreadsOK' /\ thr'[t] = th /\ \A u \in Slots \ {t} : thr'[u] = thr[u]
BY DEF ThreadsOK

LEMMA SameSelf == ASSUME AgcInv PROVE Same(rt, rt)
BY DEF Same, AgcInv, Shapes

LEMMA SubReadKeeps ==
  ASSUME AgcInv, NEW t \in Slots, SubRead(t) PROVE AgcInv'
<1>1. PICK tag \in thr[t].due :
         thr' = [thr EXCEPT ![t].due = @ \ {tag},
                            ![t].sub = IF tag = "cmd" /\ dc.cmd = None THEN "wait" ELSE "got",
                            ![t].upd = [tag |-> tag, cmd |-> dc.cmd,
                                        beat |-> IF tag = "cmd" THEN None ELSE dc.beat[tag]]]
  BY DEF SubRead
<1> DEFINE u == [tag |-> tag, cmd |-> dc.cmd, beat |-> IF tag = "cmd" THEN None ELSE dc.beat[tag]]
           th == [thr[t] EXCEPT !.due = @ \ {tag},
                                !.sub = IF tag = "cmd" /\ dc.cmd = None THEN "wait" ELSE "got", !.upd = u]
<1>2. thr[t] \in Generations /\ tag \in Tags
  BY DEF AgcInv, Shapes, ThreadsOK, Generations
<1>3. u \in Updates /\ (tag # "cmd" => dc.beat[tag] \in Beats)
  BY <1>2 DEF AgcInv, Shapes, DataCenters, Updates, Tags
<1>4. thr' = [thr EXCEPT ![t] = th]
  BY <1>1 DEF AgcInv, Shapes, ThreadsOK
<1>5. th \in Generations /\ th.ctl = thr[t].ctl
  BY <1>2, <1>3 DEF Generations
<1>6. ThreadOK(th)
  BY <1>2, <1>3 DEF Generations, ThreadOK, AgcInv, Shapes, DataCenters, Commands
<1> HIDE DEF th
<1>7. ThreadsOK' /\ thr'[t] = th /\ \A q \in Slots \ {t} : thr'[q] = thr[q]
  BY <1>4, <1>5, <1>6, ThreadMoves DEF AgcInv, Shapes
<1>8. Shapes'
  BY <1>7 DEF AgcInv, Shapes, SubRead, WorkOK, CallsOK, LocksOK
<1> QED BY <1>5, <1>7, <1>8, Still, SameSelf DEF SubRead

LEMMA ThreadOnlyKeeps ==
  ASSUME AgcInv, NEW t \in Slots, SubEnds(t) \/ CtlEnds(t) \/ CtlWakes(t) \/ TuneWakes(t)
  PROVE  AgcInv'
<1>1. thr[t] \in Generations
  BY DEF AgcInv, Shapes, ThreadsOK
<1>2. PICK th \in Generations : /\ thr' = [thr EXCEPT ![t] = th] /\ ThreadOK(th)
                                /\ thr[t].ctl \in {"tick", "out"} => th.ctl = thr[t].ctl
  <2>1. CASE SubEnds(t)
    <3> DEFINE th == [thr[t] EXCEPT !.sub = "off", !.due = {}]
    <3>1. thr' = [thr EXCEPT ![t] = th] /\ th \in Generations /\ ThreadOK(th) /\ th.ctl = thr[t].ctl
      BY <2>1, <1>1 DEF SubEnds, AgcInv, Shapes, ThreadsOK, Generations, ThreadOK
    <3> QED BY <3>1
  <2>2. CASE CtlEnds(t) \/ CtlWakes(t)
    <3>1. PICK pc \in {"off", "check"} : thr' = [thr EXCEPT ![t].ctl = pc] /\ thr[t].ctl = "wait"
      BY <2>2 DEF CtlEnds, CtlWakes
    <3> DEFINE th == [thr[t] EXCEPT !.ctl = pc]
    <3>2. /\ thr' = [thr EXCEPT ![t] = th] /\ th \in Generations
          /\ th.sub = thr[t].sub /\ th.upd = thr[t].upd
      BY <3>1, <1>1 DEF AgcInv, Shapes, ThreadsOK, Generations
    <3>3. ThreadOK(th)
      BY <3>2 DEF AgcInv, Shapes, ThreadsOK, ThreadOK
    <3> HIDE DEF th
    <3> QED BY <3>1, <3>2, <3>3
  <2>3. CASE TuneWakes(t)
    <3> DEFINE pc == IF TunerAsked(t) THEN "off" ELSE "look"
               th == [thr[t] EXCEPT !.tun = pc]
    <3>1. thr' = [thr EXCEPT ![t].tun = pc] /\ pc \in {"off", "look"}
      BY <2>3 DEF TuneWakes
    <3> HIDE DEF pc
    <3>2. /\ thr' = [thr EXCEPT ![t] = th] /\ th \in Generations /\ th.ctl = thr[t].ctl
          /\ th.sub = thr[t].sub /\ th.upd = thr[t].upd
      BY <3>1, <1>1 DEF AgcInv, Shapes, ThreadsOK, Generations
    <3>3. ThreadOK(th)
      BY <3>2 DEF AgcInv, Shapes, ThreadsOK, ThreadOK
    <3> HIDE DEF th
    <3> QED BY <3>2, <3>3
  <2> QED BY <2>1, <2>2, <2>3
<1>3. ThreadsOK' /\ thr'[t] = th /\ \A q \in Slots \ {t} : thr'[q] = thr[q]
  BY <1>2, ThreadMoves DEF AgcInv, Shapes
<1>4. UNCHANGED <<rt, out, pub, mu, work, call, dc, left>>
  BY DEF SubEnds, CtlEnds, CtlWakes, TuneWakes
<1>5. Shapes'
  BY <1>3, <1>4 DEF AgcInv, Shapes, WorkOK, CallsOK, LocksOK
<1> QED BY <1>2, <1>3, <1>4, <1>5, Still, SameSelf

\* A round that was asked for begins: the group only forgets that it was asked.
LEMMA RoundBegins ==
  ASSUME AgcInv, Shapes', RoundDue', UNCHANGED <<out, pub, mu, work, call, dc, left>>,
         rt' = [rt EXCEPT !.pending = rt'.pending],
         \A q \in Slots : thr[q].ctl = "out" => thr'[q].ctl = "out"
  PROVE  AgcInv'
<1>1. /\ rt'.st = rt.st /\ rt'.fun = rt.fun /\ rt'.cmd = rt.cmd /\ rt'.tuning = rt.tuning
      /\ rt'.avail = rt.avail /\ rt'.sent = rt.sent /\ rt'.handle = rt.handle /\ rt'.fresh = rt.fresh
  BY DEF AgcInv, Shapes, Sound, Groups
<1>2. Locks' /\ Finished'
  BY <1>1 DEF AgcInv, Locks, Finished, At
<1>3. Sends'
  BY <1>1 DEF AgcInv, Sends, Current
<1>4. BlockFollows'
  BY DEF BlockFollows, BlockDue
<1>5. Uncrossed'
  BY <1>1 DEF AgcInv, Uncrossed, Recorded, Computed, Reserved, SetpointsFollow, AppliedDue,
              Working, Regulating, Tuning, Goal, Due, At
<1> QED BY <1>2, <1>3, <1>4, <1>5 DEF AgcInv

\* While nobody holds the output mutex there is no output.
LEMMA NoOutput ==
  ASSUME AgcInv, out = None
  PROVE  work = NoWork /\ work.stage = "none" /\ \A r \in Rpcs : call[r].pc \notin {"totalSet", "switched"}
<1>1. work.stage = "none"
  BY NamesAssumption DEF AgcInv, Shapes, WorkOK, NoWork, Works, Locks, Holders
<1>2. work = NoWork
  BY <1>1 DEF AgcInv, Shapes, WorkOK, Works, Stages
<1> QED BY <1>1, <1>2, NamesAssumption DEF AgcInv, Locks

\* A look at the heartbeats while nobody publishes.
LEMMA LookedKeeps ==
  ASSUME AgcInv, Shapes', out = None, mu = None, NEW g, Same(rt, g), g.fresh = rt.fresh, After(g, rt'),
         UNCHANGED <<out, pub, mu, work, call, dc, left>>,
         \A t \in Slots : thr[t].ctl \in {"tick", "out"} => thr'[t].ctl = thr[t].ctl
  PROVE  AgcInv'
<1>1. work.stage = "none" /\ \A r \in Rpcs : call[r].pc \notin {"totalSet", "switched"}
  BY NoOutput
<1>2. \A r \in Rpcs : call[r].pc \notin {"joinOld", "eraseTuner", "joinErase"}
  BY NamesAssumption DEF AgcInv, Locks, At
<1>3. CASE Same(rt, rt') /\ rt'.fresh = rt.fresh
  BY <1>3, Still
<1>4. CASE /\ rt'.fresh = {} /\ \A m \in Members : rt'.sent[m] \in {None, rt.sent[m]}
           /\ ~Regulating' \/ RoundDue'
  <2>1. Locks' /\ Finished'
    BY <1>1, <1>2 DEF AgcInv, Locks, Finished, At
  <2>2. \A r \in Rpcs : call'[r].pc \notin {"totalSet", "switched"}
    BY <1>1
  <2> QED BY <1>1, <1>4, <2>1, <2>2, Voided
<1> QED BY <1>3, <1>4, AfterIs

LEMMA SubApplyKeeps ==
  ASSUME AgcInv, NEW t \in Slots, SubApply(t) PROVE AgcInv'
<1> DEFINE th == [thr[t] EXCEPT !.sub = IF rt.st = "absent" THEN "off" ELSE "wait", !.upd = None]
           upd == thr[t].upd
<1>1. thr' = [thr EXCEPT ![t] = th] /\ th \in Generations /\ th.ctl = thr[t].ctl /\ ThreadOK(th)
  BY DEF SubApply, AgcInv, Shapes, ThreadsOK, Generations, ThreadOK
<1> HIDE DEF th
<1>2. ThreadsOK' /\ thr'[t] = th /\ \A q \in Slots \ {t} : thr'[q] = thr[q]
  BY <1>1, ThreadMoves DEF AgcInv, Shapes
<1>3. \A q \in Slots : thr[q].ctl \in {"tick", "out"} => thr'[q].ctl = thr[q].ctl
  BY <1>1, <1>2
<1>4. UNCHANGED <<out, pub, mu, work, call, dc, left>> /\ out = None /\ mu = None /\ Sound(rt)
  BY DEF SubApply, AgcInv, Shapes
<1>5. ASSUME Sound(rt') PROVE Shapes'
  BY <1>2, <1>4, <1>5 DEF AgcInv, Shapes, WorkOK, CallsOK, LocksOK
<1>6. upd \in Updates /\ (upd.tag = "cmd" => upd.cmd \in Totals) /\ (upd.tag # "cmd" => upd.beat \in Beats)
  BY DEF SubApply, AgcInv, Shapes, ThreadsOK, ThreadOK
<1> HIDE DEF upd
<1>7. rt' = IF rt.st = "absent" THEN rt ELSE Handled(rt, upd)
  BY DEF SubApply, upd
<1>8. CASE rt' = rt
  BY <1>3, <1>4, <1>5, <1>8, Still, SameSelf
<1>9. CASE rt' # rt /\ upd.tag # "cmd"
  <2> DEFINE g == Beaten(rt, upd.tag, upd.beat)
  <2>1. Same(rt, g) /\ g.fresh = rt.fresh
    BY <1>4, <1>6, <1>9, BeatenSame DEF Updates, Tags
  <2>2. After(g, rt')
    BY <1>7, <1>9, <2>1, RefreshedAfter DEF Handled, Same
  <2> HIDE DEF g
  <2>3. Sound(rt')
    BY <2>2 DEF After
  <2> QED BY <1>3, <1>4, <1>5, <2>1, <2>2, <2>3, LookedKeeps
<1>10. CASE rt' # rt /\ upd.tag = "cmd"
  <2> DEFINE g == [rt EXCEPT !.cmd = upd.cmd, !.fresh = {}]
  <2>1. rt' = Requested(g)
    BY <1>7, <1>10 DEF Handled
  <2>2. Sound(g) /\ g.fresh = {} /\ g.sent = rt.sent /\ g.st = rt.st
    BY <1>4, <1>6, <1>10 DEF Sound, Groups, Tuning, Commands
  <2> HIDE DEF g
  <2>3. Same(g, rt') /\ rt'.fresh = {} /\ (g.st = "running" => g.handle \in rt'.pending)
    BY <2>1, <2>2, RequestedSame
  <2>4. Sound(rt') /\ rt'.fresh = {} /\ rt'.sent = rt.sent /\ (~Regulating' \/ RoundDue')
    BY <2>2, <2>3 DEF Same, Regulating, RoundDue
  <2>5. /\ work.stage = "none"
        /\ \A r \in Rpcs : call[r].pc \notin {"totalSet", "switched", "joinOld", "eraseTuner", "joinErase"}
    BY <1>4, NoOutput, NamesAssumption DEF AgcInv, Locks, At
  <2>6. Locks' /\ Finished'
    BY <1>4, <2>5 DEF AgcInv, Locks, Finished, At
  <2>7. \A r \in Rpcs : call'[r].pc \notin {"totalSet", "switched"}
    BY <1>4, <2>5
  <2> QED BY <1>4, <1>5, <2>4, <2>5, <2>6, <2>7, Voided
<1> QED BY <1>8, <1>9, <1>10

LEMMA CtlChecksKeeps ==
  ASSUME AgcInv, NEW t \in Slots, CtlChecks(t) PROVE AgcInv'
<1> DEFINE h == IF rt.st = "absent" THEN rt ELSE Refreshed(rt)
           th == [thr[t] EXCEPT !.ctl = IF t \in h.pending THEN "tick" ELSE "wait"]
<1>1. UNCHANGED <<out, pub, mu, work, call, dc, left>> /\ out = None /\ mu = None /\ Sound(rt)
  BY DEF CtlChecks, AgcInv, Shapes
<1>2. rt' = [h EXCEPT !.pending = @ \ {t}] /\ (h = rt \/ After(rt, h))
  BY <1>1, RefreshedAfter DEF CtlChecks
<1>3. thr' = [thr EXCEPT ![t].ctl = IF t \in h.pending THEN "tick" ELSE "wait"] /\ thr[t].ctl = "check"
  BY DEF CtlChecks
<1> HIDE DEF h
<1>4. Sound(h)
  BY <1>1, <1>2 DEF After
<1>5. /\ thr' = [thr EXCEPT ![t] = th] /\ th \in Generations /\ th.sub = thr[t].sub /\ th.upd = thr[t].upd
      /\ th.ctl = IF t \in h.pending THEN "tick" ELSE "wait"
  BY <1>3 DEF AgcInv, Shapes, ThreadsOK, Generations
<1>6. ThreadOK(th)
  BY <1>5 DEF AgcInv, Shapes, ThreadsOK, ThreadOK
<1> HIDE DEF th
<1>7. ThreadsOK' /\ thr'[t] = th /\ \A q \in Slots \ {t} : thr'[q] = thr[q]
  BY <1>5, <1>6, ThreadMoves DEF AgcInv, Shapes
<1>8. \A q \in Slots : thr[q].ctl \in {"tick", "out"} => thr'[q].ctl = thr[q].ctl
  BY <1>3, <1>7
<1>9. /\ Sound(rt') /\ rt'.st = h.st /\ rt'.tuning = h.tuning /\ rt'.handle = h.handle
      /\ rt'.fresh = h.fresh /\ rt'.sent = h.sent /\ rt'.pending = h.pending \ {t}
  BY <1>2, <1>4 DEF Sound, Groups, Tuning
<1>10. Shapes'
  BY <1>1, <1>7, <1>9 DEF AgcInv, Shapes, WorkOK, CallsOK, LocksOK
<1>11. CASE h # rt
  <2>1. /\ rt'.fresh = {} /\ \A m \in Members : rt'.sent[m] \in {None, rt.sent[m]}
        /\ ~Regulating' \/ RoundDue'
    BY <1>2, <1>5, <1>7, <1>9, <1>11 DEF After, Regulating, RoundDue
  <2>2. work.stage = "none"
        /\ \A r \in Rpcs : call[r].pc \notin {"totalSet", "switched", "joinOld", "eraseTuner", "joinErase"}
    BY <1>1, NoOutput, NamesAssumption DEF AgcInv, Locks, At
  <2>3. Locks' /\ Finished'
    BY <1>1, <2>2 DEF AgcInv, Locks, Finished, At
  <2>4. \A r \in Rpcs : call'[r].pc \notin {"totalSet", "switched"}
    BY <1>1, <2>2
  <2> QED BY <1>1, <1>10, <2>1, <2>2, <2>3, <2>4, Voided
<1>12. CASE h = rt /\ t \in rt.pending
  <2>1. RoundDue' /\ \A q \in Slots : thr[q].ctl = "out" => thr'[q].ctl = "out"
    BY <1>5, <1>7, <1>8, <1>12 DEF RoundDue
  <2>2. rt' = [rt EXCEPT !.pending = rt'.pending]
    BY <1>1, <1>2, <1>12 DEF Sound, Groups
  <2> QED BY <1>1, <1>10, <2>1, <2>2, RoundBegins
<1>13. CASE h = rt /\ t \notin rt.pending
  <2>1. rt' = rt
    BY <1>1, <1>2, <1>13 DEF Sound, Groups
  <2> QED BY <1>1, <1>8, <1>10, <2>1, Still, SameSelf
<1> QED BY <1>11, <1>12, <1>13

LEMMA CtlTickKeeps ==
  ASSUME AgcInv, NEW t \in Slots, CtlTick(t) PROVE AgcInv'
<1>1. UNCHANGED <<pub, mu, call, dc, left>> /\ out = None /\ mu = None /\ thr[t].ctl = "tick"
  BY DEF CtlTick
<1>2. /\ work.stage = "none"
      /\ \A r \in Rpcs : call[r].pc \notin {"totalSet", "switched", "joinOld", "eraseTuner", "joinErase"}
  BY <1>1, NoOutput, NamesAssumption DEF AgcInv, Locks, At
<1>3. ASSUME NEW pc \in {"wait", "out"}, thr' = [thr EXCEPT ![t].ctl = pc]
      PROVE  ThreadsOK' /\ thr'[t].ctl = pc /\ \A u \in Slots \ {t} : thr'[u] = thr[u]
  <2> DEFINE th == [thr[t] EXCEPT !.ctl = pc]
  <2>1. /\ thr' = [thr EXCEPT ![t] = th] /\ th \in Generations
        /\ th.sub = thr[t].sub /\ th.upd = thr[t].upd /\ th.ctl = pc
    BY <1>3 DEF AgcInv, Shapes, ThreadsOK, Generations
  <2>2. ThreadOK(th)
    BY <2>1 DEF AgcInv, Shapes, ThreadsOK, ThreadOK
  <2> HIDE DEF th
  <2> QED BY <2>1, <2>2, ThreadMoves DEF AgcInv, Shapes
<1>4. CASE rt.st # "running"
  <2>1. UNCHANGED <<rt, out, work>> /\ ThreadsOK' /\ \A q \in Slots : thr[q].ctl = "out" => thr'[q].ctl = "out"
    BY <1>1, <1>3, <1>4 DEF CtlTick
  <2>2. Shapes'
    BY <1>1, <2>1 DEF AgcInv, Shapes, WorkOK, CallsOK, LocksOK
  <2>3. Locks' /\ Finished' /\ Sends'
    BY <1>1, <2>1 DEF AgcInv, Locks, Finished, Sends, Current, At, Due
  <2>4. ~Regulating'
    BY <1>4, <2>1 DEF Regulating
  <2>5. Uncrossed'
    BY <1>1, <1>2, <2>1, <2>4 DEF AgcInv, Uncrossed, Recorded, Computed, Reserved, SetpointsFollow, At, Due
  <2> QED BY <2>2, <2>3, <2>4, <2>5 DEF AgcInv, BlockFollows
<1>5. CASE rt.st = "running"
  <2> DEFINE g == Refreshed(rt)
             total == IF Tuning(g) THEN g.tuning ELSE g.cmd
             w == [by |-> t, stage |-> "limits", todo |-> g.avail, block |-> None,
                   gives |-> g.fun /\ total # None, value |-> Setpoint(total, g.avail), crossed |-> FALSE]
  <2>1. After(rt, g)
    BY RefreshedAfter DEF AgcInv, Shapes
  <2>2. rt' = [g EXCEPT !.fresh = @ \cup {t}] /\ out' = t /\ work' = w /\ thr' = [thr EXCEPT ![t].ctl = "out"]
    BY <1>5 DEF CtlTick
  <2> HIDE DEF g
  <2>3. /\ Sound(rt') /\ rt'.st = g.st /\ rt'.tuning = g.tuning /\ rt'.fun = g.fun /\ rt'.cmd = g.cmd
        /\ rt'.avail = g.avail /\ rt'.sent = g.sent /\ t \in rt'.fresh /\ g.avail \subseteq Members
    BY <2>1, <2>2 DEF After, Sound, Groups, Tuning, Holders
  <2>4. total \in Totals \cup {None, "up", "down"}
    BY <2>1 DEF After, Sound, Groups, Tuning, Commands
  <2>5. w.value \in Setpoints /\ w.value = Setpoint(total, g.avail)
    BY <2>3, <2>4 DEF Setpoint, Setpoints
  <2>6. /\ w \in Works /\ w.by = t /\ w.stage = "limits" /\ w.todo = g.avail
        /\ (w.gives <=> g.fun /\ total # None) /\ ~w.crossed
    BY <2>3, <2>5 DEF Works, Stages, Holders
  <2> HIDE DEF w
  <2>7. Shapes'
    BY <1>1, <1>3, <2>2, <2>3, <2>6 DEF AgcInv, Shapes, WorkOK, CallsOK, LocksOK, Holders
  <2>8. Locks' /\ Finished' /\ Sends' /\ BlockFollows'
    BY <1>1, <1>2, <1>3, <2>2, <2>6, NamesAssumption DEF AgcInv, Locks, Finished, Sends, BlockFollows, BlockDue, At
  <2>9. Working'
    BY <2>2, <2>3, <2>6 DEF Working
  <2>10. Computed'
    <3>1. ASSUME Regulating' PROVE total = rt'.cmd
      BY <2>3, <3>1 DEF Regulating, Tuning
    <3> QED BY <2>2, <2>3, <2>5, <2>6, <3>1 DEF Computed, Goal
  <2>11. ASSUME ~left.crossed PROVE Recorded'
    BY <1>1, <1>2, <2>1, <2>2, <2>3, <2>6, <2>11 DEF AgcInv, Uncrossed, Recorded, After
  <2>12. Uncrossed'
    BY <1>1, <1>2, <2>9, <2>10, <2>11 DEF Uncrossed, Reserved, SetpointsFollow, AppliedDue, At
  <2> QED BY <2>7, <2>8, <2>12 DEF AgcInv
<1> QED BY <1>4, <1>5

LEMMA TuneRoundKeeps ==
  ASSUME AgcInv, NEW t \in Slots, TuneRound(t) PROVE AgcInv'
<1>1. UNCHANGED <<out, pub, mu, work, call, dc, left>> /\ out = None /\ mu = None /\ Sound(rt)
  BY DEF TuneRound, AgcInv, Shapes
<1>2. /\ work.stage = "none"
      /\ \A r \in Rpcs : call[r].pc \notin {"totalSet", "switched", "joinOld", "eraseTuner", "joinErase"}
  BY <1>1, NoOutput, NamesAssumption DEF AgcInv, Locks, At
<1>3. ThreadsOK' /\ \A q \in Slots : thr[q].ctl \in {"tick", "out"} => thr'[q].ctl = thr[q].ctl
  <2>1. PICK pc \in {"off", "asleep"} : thr' = [thr EXCEPT ![t].tun = pc]
    BY DEF TuneRound
  <2> DEFINE th == [thr[t] EXCEPT !.tun = pc]
  <2>2. /\ thr' = [thr EXCEPT ![t] = th] /\ th \in Generations /\ th.ctl = thr[t].ctl
        /\ th.sub = thr[t].sub /\ th.upd = thr[t].upd
    BY <2>1 DEF AgcInv, Shapes, ThreadsOK, Generations
  <2>3. ThreadOK(th)
    BY <2>2 DEF AgcInv, Shapes, ThreadsOK, ThreadOK
  <2> HIDE DEF th
  <2>4. ThreadsOK' /\ thr'[t] = th /\ \A u \in Slots \ {t} : thr'[u] = thr[u]
    BY <2>2, <2>3, ThreadMoves DEF AgcInv, Shapes
  <2> QED BY <2>2, <2>4
<1>4. ASSUME Sound(rt') PROVE Shapes'
  BY <1>1, <1>3, <1>4 DEF AgcInv, Shapes, WorkOK, CallsOK, LocksOK
<1>5. ASSUME Sound(rt'), rt'.fresh = {}, ~Regulating', rt'.sent = rt.sent PROVE AgcInv'
  <2>1. Locks' /\ Finished'
    BY <1>1, <1>2 DEF AgcInv, Locks, Finished, At
  <2>2. \A r \in Rpcs : call'[r].pc \notin {"totalSet", "switched"}
    BY <1>1, <1>2
  <2> QED BY <1>1, <1>2, <1>4, <1>5, <2>1, <2>2, Voided
<1>6. CASE rt' = rt
  BY <1>1, <1>3, <1>4, <1>6, Still, SameSelf
<1>7. CASE rt' = Requested(rt)
  <2>1. Same(rt, rt') /\ rt'.fresh = rt.fresh
    BY <1>1, <1>7, RequestedSame
  <2> QED BY <1>1, <1>3, <1>4, <2>1, Still DEF Same
<1>8. CASE /\ Tuning(rt)
           /\ rt' = Requested([rt EXCEPT !.tuning = IF @ = "up" THEN "down" ELSE "up", !.fresh = {}])
  <2> DEFINE g == [rt EXCEPT !.tuning = IF @ = "up" THEN "down" ELSE "up", !.fresh = {}]
  <2>1. Sound(g) /\ Tuning(g) /\ g.fresh = {} /\ g.sent = rt.sent
    BY <1>1, <1>8 DEF Sound, Groups, Tuning
  <2> HIDE DEF g
  <2>2. Same(g, rt') /\ rt'.fresh = {}
    BY <1>8, <2>1, RequestedSame DEF g
  <2>3. Sound(rt') /\ ~Regulating' /\ rt'.sent = rt.sent
    BY <2>1, <2>2 DEF Same, Regulating, Tuning
  <2> QED BY <1>5, <2>2, <2>3
<1>9. CASE /\ Tuning(rt)
           /\ rt' = [rt EXCEPT !.tuning = "ended", !.st = "stopped", !.fresh = {},
                               !.stopping = @ \cup {rt.handle}]
  <2>1. Sound(rt') /\ ~Regulating' /\ rt'.sent = rt.sent /\ rt'.fresh = {}
    BY <1>1, <1>9 DEF Sound, Groups, Tuning, Regulating
  <2> QED BY <1>5, <2>1
<1> QED BY <1>6, <1>7, <1>8, <1>9 DEF TuneRound

LEMMA MeasurementKeeps ==
  ASSUME AgcInv, NEW t \in Slots, Measurement(t) PROVE AgcInv'
<1>1. UNCHANGED <<thr, out, pub, mu, work, call, dc>> /\ rt' = Requested(rt) /\ mu = None
  BY DEF Measurement
<1>2. left' \in Lefts /\ left'.failed = left.failed /\ left'.crossed = left.crossed
  BY DEF Measurement, AgcInv, Shapes, Lefts
<1>3. Same(rt, rt') /\ rt'.fresh = rt.fresh
  BY <1>1, RequestedSame DEF AgcInv, Shapes
<1>4. Shapes'
  BY <1>1, <1>2, <1>3 DEF AgcInv, Shapes, WorkOK, CallsOK, LocksOK, ThreadsOK, Same
<1> QED BY <1>1, <1>2, <1>3, <1>4, Still
-----------------------------------------------------------------------------
(* The output. *)

LEMMA Outputting ==
  ASSUME AgcInv, work.stage # "none"
  PROVE  /\ work \in Works /\ out = work.by /\ (work.by \in Rpcs => At(work.by, "out"))
         /\ work.by \in Slots => thr[work.by].ctl = "out"
         /\ \A r \in Rpcs : call[r].pc \notin {"totalSet", "switched"}
<1>1. /\ work \in Works /\ out = work.by /\ (work.by \in Rpcs => At(work.by, "out"))
      /\ work.by \in Slots => thr[work.by].ctl = "out"
  BY DEF AgcInv, Shapes, WorkOK, NoWork, Locks
<1> QED BY <1>1 DEF AgcInv, Locks, At

LEMMA StageOK ==
  ASSUME work \in Works, NEW s \in Stages, Stage(s)
  PROVE  /\ work' \in Works /\ work'.by = work.by /\ work'.stage = s /\ work'.todo = work.todo
         /\ work'.block = work.block /\ work'.gives = work.gives /\ work'.value = work.value
         /\ work'.crossed = work.crossed
         /\ UNCHANGED <<out, thr, call>>
BY DEF Works, Stage

LEMMA EndsOK ==
  ASSUME AgcInv, work.stage # "none", OutputEnds
  PROVE  /\ ThreadsOK' /\ CallsOK' /\ WorkOK' /\ out' = None /\ work'.stage = "none"
         /\ \A t \in Slots : thr[t].ctl = "tick" => thr'[t].ctl = "tick"
         /\ \A r \in Rpcs : call'[r] = call[r] \/ (call[r].pc = "out" /\ call'[r].pc = "idle")
<1>1. out' = None /\ WorkOK' /\ work'.stage = "none"
  BY DEF OutputEnds, NoWork, WorkOK
<1>2. CASE work.by \in Slots
  <2> DEFINE t == work.by
             th == [thr[t] EXCEPT !.ctl = "wait"]
  <2>1. /\ thr' = [thr EXCEPT ![t] = th] /\ th \in Generations /\ UNCHANGED call
        /\ th.sub = thr[t].sub /\ th.upd = thr[t].upd
    BY <1>2 DEF OutputEnds, AgcInv, Shapes, ThreadsOK, Generations
  <2>2. ThreadOK(th)
    BY <1>2, <2>1 DEF AgcInv, Shapes, ThreadsOK, ThreadOK
  <2> HIDE DEF th
  <2>3. ThreadsOK' /\ \A u \in Slots \ {t} : thr'[u] = thr[u]
    BY <1>2, <2>1, <2>2, ThreadMoves DEF AgcInv, Shapes
  <2>4. thr[t].ctl = "out"
    BY <1>2 DEF AgcInv, Locks
  <2> QED BY <1>1, <2>1, <2>3, <2>4 DEF AgcInv, Shapes, CallsOK
<1>3. CASE work.by \notin Slots
  <2>1. work.by \in Rpcs /\ At(work.by, "out")
    BY <1>3, Outputting DEF Works, Holders
  <2>2. Goes(work.by, NoCall) /\ UNCHANGED thr
    BY <1>3 DEF OutputEnds, Goes
  <2>3. CallsOK' /\ call'[work.by].pc = "idle" /\ \A q \in Rpcs \ {work.by} : call'[q] = call[q]
    BY <2>1, <2>2, ReturnsOK DEF Returns, AgcInv, Shapes
  <2> QED BY <1>1, <2>1, <2>2, <2>3 DEF AgcInv, Shapes, ThreadsOK, At
<1> QED BY <1>2, <1>3

LEMMA OutLimitsKeeps == ASSUME AgcInv, OutLimits PROVE AgcInv'
<1>1. work.stage = "limits" /\ mu = None /\ Stage("blockFirst") /\ UNCHANGED <<pub, mu, dc, left>>
  BY DEF OutLimits
<1>2. /\ work \in Works /\ out = work.by /\ (work.by \in Rpcs => At(work.by, "out"))
      /\ \A r \in Rpcs : call[r].pc \notin {"totalSet", "switched"}
  BY <1>1, Outputting
<1>3. /\ work' \in Works /\ work'.by = work.by /\ work'.stage = "blockFirst" /\ work'.todo = work.todo
      /\ work'.gives = work.gives /\ work'.value = work.value
      /\ work'.crossed = work.crossed /\ UNCHANGED <<out, thr, call>>
  BY <1>1, <1>2, StageOK DEF Stages
<1>4. Sound(rt') /\ ((Same(rt, rt') /\ rt'.fresh = rt.fresh) \/ After(rt, rt'))
  BY SameSelf, RefreshedAfter DEF OutLimits, AgcInv, Shapes, After
<1>5. Shapes'
  BY <1>1, <1>3, <1>4 DEF AgcInv, Shapes, WorkOK, CallsOK, LocksOK, ThreadsOK
<1>6. \A r \in Rpcs : call[r].pc \notin {"joinOld", "eraseTuner", "joinErase"}
  BY <1>1, NamesAssumption DEF AgcInv, Locks, At
<1>7. Locks' /\ Finished' /\ Sends' /\ BlockFollows'
  BY <1>1, <1>2, <1>3, <1>6 DEF AgcInv, Locks, Finished, Sends, BlockFollows, BlockDue, At
<1>8. CASE Same(rt, rt') /\ rt'.fresh = rt.fresh
  <2>1. ASSUME ~left.crossed PROVE Recorded' /\ Computed' /\ Reserved' /\ SetpointsFollow'
    <3>1. Recorded /\ Computed /\ SetpointsFollow
      BY <2>1 DEF AgcInv, Uncrossed
    <3>2. Recorded'
      BY <3>1, <1>1, <1>3, <1>8 DEF Recorded, Same
    <3>3. /\ Goal' = Goal /\ (Working' <=> Working) /\ (Regulating' => Regulating)
          /\ (RoundDue => RoundDue')
      BY <1>1, <1>3, <1>8 DEF Goal, Working, Regulating, Tuning, Same, RoundDue
    <3>4. Computed'
      BY <3>1, <3>3, <1>1, <1>3, <1>8 DEF Computed, Same
    <3>5. Reserved'
      BY <1>2, <1>3 DEF Reserved, At
    <3>6. SetpointsFollow'
      BY <3>1, <3>3, <1>1, <1>3, <1>8 DEF SetpointsFollow, AppliedDue, Applied, Same
    <3> QED BY <3>2, <3>4, <3>5, <3>6
  <2> QED BY <1>1, <1>5, <1>7, <2>1 DEF AgcInv, Uncrossed
<1>9. CASE After(rt, rt') /\ ~(Same(rt, rt') /\ rt'.fresh = rt.fresh)
  <2>1. /\ rt'.fresh = {} /\ \A m \in Members : rt'.sent[m] \in {None, rt.sent[m]}
        /\ ~Regulating' \/ RoundDue'
    BY <1>9, AfterIs, SameSelf
  <2>2. \A r \in Rpcs : call'[r].pc \notin {"totalSet", "switched"}
    BY <1>2, <1>3
  <2> QED BY <1>1, <1>3, <1>5, <1>7, <2>1, <2>2, Voided
<1> QED BY <1>4, <1>8, <1>9

\* A step of the output that changes neither the group nor the setpoints.
LEMMA StageKeeps ==
  ASSUME AgcInv, Shapes', work.stage \in Stages \ {"send", "record"}, work'.stage \in Stages \ {"record"},
         work'.by = work.by, work'.todo = work.todo, work'.gives = work.gives, work'.value = work.value,
         UNCHANGED <<rt, thr, call, out, mu>>, left'.failed = left.failed, left'.crossed = left.crossed,
         dc'.set = dc.set, Locks', Finished', BlockFollows', Sends'
  PROVE  AgcInv'
<1>1. ASSUME ~left.crossed PROVE Recorded' /\ Computed' /\ Reserved' /\ SetpointsFollow'
  <2>1. Recorded /\ Computed /\ Reserved /\ SetpointsFollow
    BY <1>1 DEF AgcInv, Uncrossed
  <2>2. Recorded' /\ Reserved'
    BY <2>1 DEF Recorded, Reserved, Regulating, Tuning, At, Stages
  <2>3. Computed' /\ SetpointsFollow'
    BY <2>1 DEF Computed, SetpointsFollow, AppliedDue, Applied, RoundDue, Working, Goal, Regulating, Tuning,
                Stages
  <2> QED BY <2>2, <2>3
<1> QED BY <1>1 DEF AgcInv, Uncrossed

\* The end of an output: what it was to bring about has been done.
LEMMA EndKeeps ==
  ASSUME AgcInv, Shapes', work.stage \in Stages \ {"record"}, OutputEnds, UNCHANGED <<rt, mu>>,
         left'.crossed = left.crossed, left.failed => left'.failed, dc'.set = dc.set, Locks', BlockFollows',
         ~left.crossed /\ ~left'.failed /\ Regulating /\ rt.fun /\ rt.cmd # None /\ Working => Applied
  PROVE  AgcInv'
<1>1. work.stage # "none"
  BY DEF Stages
<1>2. /\ work'.stage = "none" /\ \A t \in Slots : thr[t].ctl = "tick" => thr'[t].ctl = "tick"
      /\ \A r \in Rpcs : call'[r] = call[r] \/ (call[r].pc = "out" /\ call'[r].pc = "idle")
  BY <1>1, EndsOK
<1>3. ASSUME ~left.crossed PROVE Recorded' /\ Computed' /\ Reserved' /\ SetpointsFollow'
  <2>1. Recorded /\ Reserved /\ SetpointsFollow
    BY <1>3 DEF AgcInv, Uncrossed
  <2>2. Recorded' /\ Reserved' /\ Computed'
    BY <1>2, <2>1 DEF Recorded, Reserved, Regulating, Tuning, At, Computed, Working
  <2>3. SetpointsFollow'
    BY <1>2, <1>3, <2>1 DEF SetpointsFollow, AppliedDue, Applied, RoundDue, Goal, Regulating, Tuning
  <2> QED BY <2>2, <2>3
<1> QED BY <1>2, <1>3 DEF AgcInv, Uncrossed, Finished, Sends

\* What happens when the output ends, as far as the locks are concerned.
LEMMA EndLocks ==
  ASSUME AgcInv, work.stage # "none", OutputEnds, UNCHANGED mu,
         pub' = pub \/ (pub' = None /\ pub = work.by),
         rt' = rt \/ mu = None
  PROVE  Locks'
<1>1. /\ work'.stage = "none"
      /\ \A r \in Rpcs : call'[r] = call[r] \/ (call[r].pc = "out" /\ call'[r].pc = "idle")
  BY EndsOK
<1>2. /\ work \in Works /\ out = work.by /\ (work.by \in Rpcs => At(work.by, "out"))
      /\ \A r \in Rpcs : call[r].pc \notin {"totalSet", "switched"}
  BY Outputting
<1>3. \A r \in Rpcs : call[r].pc \in {"joinOld", "eraseTuner", "joinErase"} => rt' = rt
  BY NamesAssumption DEF AgcInv, Locks, At
<1>4. \A r \in Rpcs : At(r, "blockSend") => pub' = pub
  BY <1>2 DEF AgcInv, Locks, At
<1> QED BY <1>1, <1>2, <1>3, <1>4 DEF AgcInv, Locks, At

LEMMA OutBlockReadKeeps == ASSUME AgcInv, OutBlockRead PROVE AgcInv'
<1> DEFINE s == IF work.stage = "blockFirst" THEN "sendFirst" ELSE "sendLast"
<1>1. /\ work.stage \in {"blockFirst", "blockLast"} /\ pub = None /\ pub' = work.by
      /\ UNCHANGED <<rt, thr, out, mu, call, dc, left>>
      /\ work' = [work EXCEPT !.block = BlockOf(rt), !.stage = s]
  BY DEF OutBlockRead
<1>2. /\ work \in Works /\ out = work.by /\ (work.by \in Rpcs => At(work.by, "out"))
      /\ work.by \in Slots => thr[work.by].ctl = "out"
  BY <1>1, Outputting
<1>3. BlockOf(rt) \in Blocks
  BY BlockOfOK DEF AgcInv, Shapes, Sound
<1>4. /\ work' \in Works /\ work'.by = work.by /\ work'.stage = s /\ work'.todo = work.todo
      /\ work'.gives = work.gives /\ work'.value = work.value
      /\ work'.crossed = work.crossed /\ work'.block = BlockOf(rt)
  BY <1>1, <1>2, <1>3 DEF Works, Stages
<1>5. Shapes'
  BY <1>1, <1>2, <1>3, <1>4 DEF AgcInv, Shapes, WorkOK, CallsOK, LocksOK, ThreadsOK, Works
<1>6. \A r \in Rpcs : ~At(r, "blockSend")
  BY <1>1, NamesAssumption DEF AgcInv, Locks
<1>7. Locks' /\ Finished' /\ Sends'
  BY <1>1, <1>2, <1>4, <1>6 DEF AgcInv, Locks, Finished, Sends, At
<1>8. BlockOf(rt)' = BlockOf(rt)
  BY <1>1 DEF BlockOf
<1>9. BlockFollows'
  BY <1>1, <1>4, <1>8 DEF BlockFollows, Holding
<1> QED BY <1>1, <1>4, <1>5, <1>7, <1>9, StageKeeps DEF Stages

LEMMA OutBlockNoneKeeps == ASSUME AgcInv, OutBlockNone PROVE AgcInv'
<1>1. /\ work.stage \in {"blockFirst", "blockLast"} /\ rt.st = "absent" /\ mu = None
      /\ UNCHANGED <<rt, pub, mu, dc, left>>
  BY DEF OutBlockNone
<1>2. /\ work \in Works /\ out = work.by /\ (work.by \in Rpcs => At(work.by, "out"))
      /\ work.by \in Slots => thr[work.by].ctl = "out"
  BY <1>1, Outputting
<1>3. ~Regulating /\ ~Regulating'
  BY <1>1 DEF Regulating
<1>4. CASE work.stage = "blockLast"
  <2>1. OutputEnds
    BY <1>4 DEF OutBlockNone
  <2>2. ThreadsOK' /\ CallsOK' /\ WorkOK' /\ out' = None
    BY <1>1, <2>1, EndsOK
  <2>3. Shapes'
    BY <1>1, <2>2 DEF AgcInv, Shapes, LocksOK
  <2>4. Locks'
    BY <1>1, <2>1, EndLocks
  <2>5. BlockFollows'
    BY <1>3 DEF BlockFollows
  <2> QED BY <1>1, <1>3, <2>1, <2>3, <2>4, <2>5, EndKeeps DEF Stages
<1>5. CASE work.stage = "blockFirst"
  <2>1. Stage("compute")
    BY <1>5 DEF OutBlockNone
  <2>2. /\ work' \in Works /\ work'.by = work.by /\ work'.stage = "compute" /\ work'.todo = work.todo
        /\ work'.gives = work.gives /\ work'.value = work.value
        /\ work'.crossed = work.crossed /\ UNCHANGED <<out, thr, call>>
    BY <1>2, <2>1, StageOK DEF Stages
  <2>3. Shapes'
    BY <1>1, <2>2 DEF AgcInv, Shapes, WorkOK, CallsOK, LocksOK, ThreadsOK
  <2>4. Locks' /\ Finished' /\ Sends' /\ BlockFollows'
    BY <1>1, <1>2, <1>3, <2>2 DEF AgcInv, Locks, Finished, Sends, BlockFollows, At
  <2> QED BY <1>1, <2>2, <2>3, <2>4, StageKeeps DEF Stages
<1> QED BY <1>1, <1>4, <1>5

\* A publication of the block points that fails leaves None, and owes nothing.
LEMMA BlockPublishedOK ==
  ASSUME AgcInv, NEW v \in Blocks, BlockPublished(v)
  PROVE  /\ dc' \in DataCenters /\ dc'.set = dc.set /\ dc'.block \in {v, None}
         /\ left' \in Lefts /\ left'.failed = left.failed /\ left'.crossed = left.crossed
<1>1. PICK b \in {v, None} : dc' = [dc EXCEPT !.block = b]
  BY DEF BlockPublished
<1>2. dc' \in DataCenters /\ dc'.set = dc.set /\ dc'.block \in {v, None}
  BY <1>1 DEF AgcInv, Shapes, DataCenters
<1>3. \/ left' = left
      \/ left.faults > 0 /\ left' = [left EXCEPT !.faults = @ - 1]
  BY Zenon DEF BlockPublished
<1>4. left \in Lefts
  BY DEF AgcInv, Shapes
<1>5. left' \in Lefts /\ left'.failed = left.failed /\ left'.crossed = left.crossed
  BY <1>3, <1>4 DEF Lefts
<1> QED BY <1>2, <1>5

LEMMA OutBlockSendKeeps == ASSUME AgcInv, OutBlockSend PROVE AgcInv'
<1>1. /\ work.stage \in {"sendFirst", "sendLast"} /\ BlockPublished(work.block) /\ pub' = None
      /\ UNCHANGED <<rt, mu>> /\ pub = work.by
  BY DEF OutBlockSend, AgcInv, Locks
<1>2. /\ work \in Works /\ out = work.by /\ (work.by \in Rpcs => At(work.by, "out"))
      /\ work.by \in Slots => thr[work.by].ctl = "out"
  BY <1>1, Outputting
<1>3. work.block \in Blocks
  BY <1>1 DEF AgcInv, Shapes, WorkOK
<1>4. /\ dc' \in DataCenters /\ dc'.set = dc.set /\ dc'.block \in {work.block, None}
      /\ left' \in Lefts /\ left'.failed = left.failed /\ left'.crossed = left.crossed
  BY <1>1, <1>3, BlockPublishedOK
<1>5. \A r \in Rpcs : ~At(r, "blockSend")
  BY <1>1, <1>2 DEF AgcInv, Locks, At
<1>6. BlockOf(rt)' = BlockOf(rt)
  BY <1>1 DEF BlockOf
<1>7. Holding(BlockOf(rt)) => pub' = None /\ dc'.block \in {BlockOf(rt)', None}
  BY <1>1, <1>2, <1>4, <1>5, <1>6, NamesAssumption DEF Holding, Works, Holders
<1>8. CASE work.stage = "sendLast"
  <2>1. OutputEnds
    BY <1>8 DEF OutBlockSend
  <2>2. /\ ThreadsOK' /\ CallsOK' /\ WorkOK' /\ out' = None
        /\ \A t \in Slots : thr[t].ctl = "tick" => thr'[t].ctl = "tick"
        /\ \A r \in Rpcs : call'[r] = call[r] \/ (call[r].pc = "out" /\ call'[r].pc = "idle")
    BY <1>1, <2>1, EndsOK
  <2>3. Shapes'
    BY <1>1, <1>4, <2>2 DEF AgcInv, Shapes, LocksOK
  <2>4. Locks'
    BY <1>1, <2>1, EndLocks
  <2>5. BlockFollows'
    <3>1. Regulating' => (BlockDue => BlockDue')
      BY <1>1, <1>8, <2>2 DEF BlockDue, RoundDue, Regulating
    <3> QED BY <1>1, <1>7, <3>1 DEF AgcInv, BlockFollows, Holding, Regulating, Tuning
  <2>6. ASSUME ~left.crossed, ~left.failed, Regulating, Working PROVE Applied
    <3>1. work.todo = {} /\ Computed
      BY <1>8, <2>6 DEF AgcInv, Finished, Uncrossed
    <3> QED BY <2>6, <3>1 DEF Computed, Applied
  <2> QED BY <1>1, <1>4, <2>1, <2>3, <2>4, <2>5, <2>6, EndKeeps DEF Stages
<1>9. CASE work.stage = "sendFirst"
  <2>1. Stage("compute")
    BY <1>9 DEF OutBlockSend
  <2>2. /\ work' \in Works /\ work'.by = work.by /\ work'.stage = "compute" /\ work'.todo = work.todo
        /\ work'.gives = work.gives /\ work'.value = work.value
        /\ work'.crossed = work.crossed /\ UNCHANGED <<out, thr, call>>
    BY <1>2, <2>1, StageOK DEF Stages
  <2>3. Shapes'
    BY <1>1, <1>4, <2>2 DEF AgcInv, Shapes, WorkOK, CallsOK, LocksOK, ThreadsOK
  <2>4. Locks' /\ Finished' /\ Sends'
    BY <1>1, <1>2, <1>5, <2>2 DEF AgcInv, Locks, Finished, Sends, At
  <2>5. BlockFollows'
    <3>1. Regulating' => (BlockDue => BlockDue')
      BY <1>1, <1>9, <2>2 DEF BlockDue, RoundDue, Regulating
    <3> QED BY <1>1, <1>7, <3>1 DEF AgcInv, BlockFollows, Holding, Regulating, Tuning
  <2> QED BY <1>1, <1>4, <2>2, <2>3, <2>4, <2>5, StageKeeps DEF Stages
<1> QED BY <1>1, <1>8, <1>9

LEMMA OutComputeKeeps == ASSUME AgcInv, OutCompute PROVE AgcInv'
<1>1. work.stage = "compute" /\ UNCHANGED <<rt, pub, mu, dc, left>>
  BY DEF OutCompute
<1>2. /\ work \in Works /\ out = work.by /\ (work.by \in Rpcs => At(work.by, "out"))
      /\ work.by \in Slots => thr[work.by].ctl = "out"
  BY <1>1, Outputting
<1>3. BlockOf(rt)' = BlockOf(rt)
  BY <1>1 DEF BlockOf
<1>4. CASE work.gives /\ (work.by \in Slots => Current)
  <2>1. Stage("members")
    BY <1>4 DEF OutCompute
  <2>2. /\ work' \in Works /\ work'.by = work.by /\ work'.stage = "members" /\ work'.todo = work.todo
        /\ work'.gives = work.gives /\ work'.value = work.value
        /\ work'.crossed = work.crossed /\ UNCHANGED <<out, thr, call>>
    BY <1>2, <2>1, StageOK DEF Stages
  <2>3. Shapes'
    BY <1>1, <2>2 DEF AgcInv, Shapes, WorkOK, CallsOK, LocksOK, ThreadsOK
  <2>4. Locks' /\ Finished' /\ Sends'
    BY <1>1, <1>2, <2>2 DEF AgcInv, Locks, Finished, Sends, At
  <2>5. BlockFollows'
    BY <1>1, <1>3, <2>2 DEF AgcInv, BlockFollows, BlockDue, RoundDue, Holding, Regulating, Tuning, At
  <2> QED BY <1>1, <2>2, <2>3, <2>4, <2>5, StageKeeps DEF Stages
<1>5. CASE ~(work.gives /\ (work.by \in Slots => Current))
  <2>1. OutputEnds
    BY <1>5 DEF OutCompute
  <2>2. /\ ThreadsOK' /\ CallsOK' /\ WorkOK' /\ out' = None /\ work'.stage = "none"
        /\ \A t \in Slots : thr[t].ctl = "tick" => thr'[t].ctl = "tick"
        /\ \A r \in Rpcs : call'[r] = call[r] \/ (call[r].pc = "out" /\ call'[r].pc = "idle")
    BY <1>1, <2>1, EndsOK
  <2>3. Shapes'
    BY <1>1, <2>2 DEF AgcInv, Shapes, LocksOK
  <2>4. Locks'
    BY <1>1, <2>1, EndLocks
  <2>5. BlockFollows'
    BY <1>1, <1>3, <2>2 DEF AgcInv, BlockFollows, BlockDue, RoundDue, Holding, Regulating, Tuning, At
  <2>6. ~left.crossed /\ Regulating /\ rt.fun /\ rt.cmd # None => ~Working
    BY <1>5 DEF AgcInv, Uncrossed, Computed, Current, Regulating, Working
  <2> QED BY <1>1, <2>1, <2>3, <2>4, <2>5, <2>6, EndKeeps DEF Stages
<1> QED BY <1>4, <1>5

LEMMA OutComputeFailsKeeps == ASSUME AgcInv, OutComputeFails PROVE AgcInv'
<1>1. /\ work.stage = "compute" /\ OutputEnds /\ UNCHANGED <<rt, pub, mu, dc>>
      /\ left.faults > 0 /\ left' = [left EXCEPT !.faults = @ - 1, !.failed = TRUE]
  BY DEF OutComputeFails
<1>2. left' \in Lefts /\ left'.failed = TRUE /\ left'.crossed = left.crossed
  <2>1. left \in Lefts /\ left.faults - 1 \in Nat
    BY <1>1 DEF AgcInv, Shapes, Lefts
  <2> QED BY <1>1, <2>1 DEF Lefts
<1>3. /\ ThreadsOK' /\ CallsOK' /\ WorkOK' /\ out' = None /\ work'.stage = "none"
      /\ \A t \in Slots : thr[t].ctl = "tick" => thr'[t].ctl = "tick"
      /\ \A r \in Rpcs : call'[r] = call[r] \/ (call[r].pc = "out" /\ call'[r].pc = "idle")
  BY <1>1, EndsOK
<1>4. Shapes'
  BY <1>1, <1>2, <1>3 DEF AgcInv, Shapes, LocksOK
<1>5. Locks'
  BY <1>1, EndLocks
<1>6. BlockOf(rt)' = BlockOf(rt)
  BY <1>1 DEF BlockOf
<1>7. BlockFollows'
  BY <1>1, <1>3, <1>6 DEF AgcInv, BlockFollows, BlockDue, RoundDue, Holding, Regulating, Tuning, At
<1> QED BY <1>1, <1>2, <1>4, <1>5, <1>7, EndKeeps DEF Stages

LEMMA OutMembersDoneKeeps == ASSUME AgcInv, OutMembersDone PROVE AgcInv'
<1>1. work.stage = "members" /\ work.todo = {} /\ Stage("blockLast") /\ UNCHANGED <<rt, pub, mu, dc, left>>
  BY DEF OutMembersDone
<1>2. /\ work \in Works /\ out = work.by /\ (work.by \in Rpcs => At(work.by, "out"))
      /\ work.by \in Slots => thr[work.by].ctl = "out"
  BY <1>1, Outputting
<1>3. /\ work' \in Works /\ work'.by = work.by /\ work'.stage = "blockLast" /\ work'.todo = work.todo
      /\ work'.gives = work.gives /\ work'.value = work.value
      /\ work'.crossed = work.crossed /\ UNCHANGED <<out, thr, call>>
  BY <1>1, <1>2, StageOK DEF Stages
<1>4. Shapes'
  BY <1>1, <1>3 DEF AgcInv, Shapes, WorkOK, CallsOK, LocksOK, ThreadsOK
<1>5. Locks' /\ Finished' /\ Sends' /\ BlockFollows'
  BY <1>1, <1>2, <1>3 DEF AgcInv, Locks, Finished, Sends, BlockFollows, BlockDue, At
<1> QED BY <1>1, <1>3, <1>4, <1>5, StageKeeps DEF Stages

LEMMA OutMemberKeeps == ASSUME AgcInv, OutMember PROVE AgcInv'
<1>1. work.stage = "members" /\ mu = None /\ work.todo # {} /\ UNCHANGED <<pub, mu, dc, left>> /\ Due \in work.todo
  BY DEF OutMember, Due
<1>2. /\ work \in Works /\ out = work.by /\ (work.by \in Rpcs => At(work.by, "out"))
      /\ work.by \in Slots => thr[work.by].ctl = "out"
      /\ \A r \in Rpcs : call[r].pc \notin {"totalSet", "switched"}
  BY <1>1, Outputting
<1>3. CASE OutputEnds
  <2>1. /\ ThreadsOK' /\ CallsOK' /\ WorkOK' /\ out' = None /\ work'.stage = "none"
        /\ \A t \in Slots : thr[t].ctl = "tick" => thr'[t].ctl = "tick"
        /\ \A r \in Rpcs : call'[r] = call[r] \/ (call[r].pc = "out" /\ call'[r].pc = "idle")
    BY <1>1, <1>3, EndsOK
  <2>2. Locks' /\ Finished'
    BY <1>1, <1>3, <2>1, EndLocks DEF Finished
  <2>3. ASSUME Sound(rt') PROVE Shapes'
    BY <1>1, <2>1, <2>3 DEF AgcInv, Shapes, LocksOK
  <2>4. CASE ~Current /\ rt' = rt
    <3>1. Shapes'
      BY <2>3, <2>4 DEF AgcInv, Shapes
    <3>2. BlockFollows'
      <4>1. BlockOf(rt)' = BlockOf(rt)
        BY <2>4 DEF BlockOf
      <4> QED BY <1>1, <2>1, <2>4, <4>1
              DEF AgcInv, BlockFollows, BlockDue, RoundDue, Holding, Regulating, Tuning, At
    <3>3. Regulating /\ rt.fun => ~Working
      BY <2>4 DEF Current, Regulating, Working
    <3> QED BY <1>1, <1>3, <2>2, <2>4, <3>1, <3>2, <3>3, EndKeeps DEF Stages
  <2>5. CASE Refreshed(rt) # rt /\ rt' = Refreshed(rt)
    <3>1. After(rt, rt')
      BY <2>5, RefreshedAfter DEF AgcInv, Shapes
    <3>2. rt'.fresh = {} /\ (\A m \in Members : rt'.sent[m] \in {None, rt.sent[m]})
          /\ (~Regulating' \/ RoundDue')
      BY <2>5, <3>1 DEF After, Regulating, RoundDue
    <3>3. \A r \in Rpcs : call'[r].pc \notin {"totalSet", "switched"}
      BY <1>2, <2>1
    <3> QED BY <1>1, <2>1, <2>2, <2>3, <3>1, <3>2, <3>3, Voided DEF After
  <2>6. work.stage # "none" /\ work'.stage = "none"
    BY <1>1, <2>1
  <2> QED BY <2>4, <2>5, <2>6, <1>2 DEF OutMember, Stage, Works
<1>4. CASE ~OutputEnds
  <2>1. Current /\ UNCHANGED <<rt, out, thr, call>>
    BY <1>4 DEF OutMember, Stage
  <2>2. BlockOf(rt)' = BlockOf(rt)
    BY <2>1 DEF BlockOf
  <2>3. CASE rt.sent[Due] = work.value /\ work' = [work EXCEPT !.todo = @ \ {Due}]
    <3>1. /\ work' \in Works /\ work'.by = work.by /\ work'.stage = "members"
          /\ work'.todo = work.todo \ {Due} /\ work'.gives = work.gives /\ work'.value = work.value
          /\ work'.crossed = work.crossed
      BY <1>1, <1>2, <2>3 DEF Works
    <3>2. Shapes'
      BY <1>1, <2>1, <3>1 DEF AgcInv, Shapes, WorkOK, CallsOK, LocksOK, ThreadsOK
    <3>3. Locks' /\ Finished' /\ Sends'
      BY <1>1, <1>2, <2>1, <3>1 DEF AgcInv, Locks, Finished, Sends, At
    <3>4. BlockFollows'
      BY <1>1, <2>1, <3>1 DEF BlockFollows, BlockDue, Current
    <3>5. ASSUME ~left.crossed PROVE Recorded' /\ Computed' /\ Reserved' /\ SetpointsFollow'
      <4>1. Recorded /\ Computed /\ Reserved
        BY <3>5 DEF AgcInv, Uncrossed
      <4>2. Recorded' /\ Reserved'
        BY <1>1, <2>1, <3>1, <4>1 DEF Recorded, Reserved, Regulating, Tuning, At
      <4>3. work.value # None /\ Due \in Members
        BY <1>1, <1>2, NamesAssumption DEF Works, Setpoints
      <4>4. dc.set[Due] = work.value
        BY <1>1, <2>3, <4>1, <4>3 DEF Recorded
      <4>5. Computed'
        BY <1>1, <2>1, <3>1, <4>1, <4>4 DEF Computed, Working, Goal, Regulating, Tuning
      <4>6. SetpointsFollow'
        BY <2>1, <3>1, <1>1 DEF SetpointsFollow, AppliedDue, Working, Current
      <4> QED BY <4>2, <4>5, <4>6
    <3> QED BY <1>1, <3>2, <3>3, <3>4, <3>5 DEF AgcInv, Uncrossed
  <2>4. CASE Stage("send")
    <3>1. /\ work' \in Works /\ work'.by = work.by /\ work'.stage = "send" /\ work'.todo = work.todo
          /\ work'.gives = work.gives /\ work'.value = work.value /\ work'.crossed = work.crossed
      BY <1>2, <2>4, StageOK DEF Stages
    <3>2. Shapes'
      BY <1>1, <2>1, <3>1 DEF AgcInv, Shapes, WorkOK, CallsOK, LocksOK, ThreadsOK
    <3>3. Locks' /\ Finished' /\ Sends'
      BY <1>1, <1>2, <2>1, <3>1 DEF AgcInv, Locks, Finished, Sends, At, Current
    <3>4. BlockFollows'
      BY <1>1, <2>1, <3>1 DEF BlockFollows, BlockDue, Current
    <3> QED BY <1>1, <2>1, <3>1, <3>2, <3>3, <3>4, StageKeeps DEF Stages
  <2> QED BY <1>4, <2>3, <2>4 DEF OutMember, Due
<1> QED BY <1>3, <1>4

LEMMA OutSendKeeps == ASSUME AgcInv, OutSend PROVE AgcInv'
<1>1. /\ work.stage = "send" /\ dc' = [dc EXCEPT !.set[Due] = work.value] /\ Stage("record")
      /\ UNCHANGED <<rt, pub, mu, left>>
  BY DEF OutSend, Due
<1>2. /\ work \in Works /\ out = work.by /\ (work.by \in Rpcs => At(work.by, "out"))
      /\ work.by \in Slots => thr[work.by].ctl = "out"
  BY <1>1, Outputting
<1>3. /\ work' \in Works /\ work'.by = work.by /\ work'.stage = "record" /\ work'.todo = work.todo
      /\ work'.gives = work.gives /\ work'.value = work.value
      /\ work'.crossed = work.crossed /\ UNCHANGED <<out, thr, call>> /\ Due' = Due
  BY <1>1, <1>2, StageOK DEF Stages, Due
<1>4. Due \in work.todo /\ Due \in Members /\ work.value \in Setpoints
  BY <1>1, <1>2 DEF AgcInv, Sends, Due, Works
<1>5. /\ dc' \in DataCenters /\ dc'.block = dc.block /\ dc'.set[Due] = work.value
      /\ \A m \in Members \ {Due} : dc'.set[m] = dc.set[m]
  <2>1. dc.set \in Outputs /\ [dc.set EXCEPT ![Due] = work.value] \in Outputs
    BY <1>4 DEF AgcInv, Shapes, DataCenters, Outputs
  <2>2. dc' = [dc EXCEPT !.set = [dc.set EXCEPT ![Due] = work.value]]
    BY <1>1 DEF AgcInv, Shapes, DataCenters
  <2>3. dc' \in DataCenters /\ dc'.block = dc.block /\ dc'.set = [dc.set EXCEPT ![Due] = work.value]
    BY <2>1, <2>2 DEF AgcInv, Shapes, DataCenters
  <2> QED BY <1>4, <2>1, <2>3 DEF Outputs
<1>6. Shapes'
  BY <1>1, <1>3, <1>5 DEF AgcInv, Shapes, WorkOK, CallsOK, LocksOK, ThreadsOK
<1>7. Locks' /\ Finished' /\ Sends'
  BY <1>1, <1>2, <1>3 DEF AgcInv, Locks, Finished, Sends, At, Current
<1>8. BlockOf(rt)' = BlockOf(rt)
  BY <1>1 DEF BlockOf
<1>9. BlockFollows'
  BY <1>1, <1>3, <1>5, <1>8
     DEF AgcInv, BlockFollows, BlockDue, RoundDue, Holding, Regulating, Tuning, At, Current
<1>10. ASSUME ~left.crossed PROVE Recorded' /\ Computed' /\ Reserved' /\ SetpointsFollow'
  <2>1. Recorded /\ Computed /\ Reserved /\ Current
    BY <1>1, <1>10 DEF AgcInv, Uncrossed, Sends, Shapes, WorkOK
  <2>2. Recorded'
    BY <1>1, <1>3, <1>5, <2>1 DEF Recorded
  <2>3. Computed'
    BY <1>1, <1>2, <1>3, <1>4, <1>5, <2>1
       DEF Computed, Working, Goal, Regulating, Tuning, AgcInv, Shapes, Sound, Groups
  <2>4. Reserved'
    BY <1>1, <1>3, <2>1 DEF Reserved, Regulating, Tuning, At
  <2>5. SetpointsFollow'
    BY <1>1, <1>3, <2>1 DEF SetpointsFollow, AppliedDue, Working, Current
  <2> QED BY <2>2, <2>3, <2>4, <2>5
<1> QED BY <1>1, <1>6, <1>7, <1>9, <1>10 DEF AgcInv, Uncrossed

LEMMA OutSendFailsKeeps == ASSUME AgcInv, OutSendFails PROVE AgcInv'
<1>1. /\ work.stage = "send" /\ left' = [left EXCEPT !.faults = @ - 1, !.failed = TRUE] /\ left.faults > 0
      /\ work' = [work EXCEPT !.stage = "members", !.todo = @ \ {Due}]
      /\ UNCHANGED <<rt, thr, out, pub, mu, call, dc>>
  BY DEF OutSendFails, Due
<1>2. /\ work \in Works /\ out = work.by /\ (work.by \in Rpcs => At(work.by, "out"))
      /\ work.by \in Slots => thr[work.by].ctl = "out"
  BY <1>1, Outputting
<1>3. /\ work' \in Works /\ work'.by = work.by /\ work'.stage = "members"
      /\ work'.gives = work.gives /\ work'.value = work.value /\ work'.crossed = work.crossed
  BY <1>1, <1>2 DEF Works, Stages
<1>4. left' \in Lefts /\ left'.failed = TRUE /\ left'.crossed = left.crossed
  <2>1. left \in Lefts /\ left.faults - 1 \in Nat
    BY <1>1 DEF AgcInv, Shapes, Lefts
  <2> QED BY <1>1, <2>1 DEF Lefts
<1>5. Shapes'
  BY <1>1, <1>3, <1>4 DEF AgcInv, Shapes, WorkOK, CallsOK, LocksOK, ThreadsOK
<1>6. Locks' /\ Finished' /\ Sends'
  BY <1>1, <1>2, <1>3 DEF AgcInv, Locks, Finished, Sends, At
<1>7. BlockOf(rt)' = BlockOf(rt)
  BY <1>1 DEF BlockOf
<1>8. BlockFollows'
  BY <1>1, <1>3, <1>7 DEF AgcInv, BlockFollows, BlockDue, RoundDue, Holding, Regulating, Tuning, At, Current
<1>9. ASSUME ~left.crossed PROVE Recorded' /\ Computed' /\ Reserved' /\ SetpointsFollow'
  <2>1. Recorded /\ Computed /\ Reserved
    BY <1>9 DEF AgcInv, Uncrossed
  <2>2. Recorded' /\ Reserved'
    BY <1>1, <1>3, <2>1 DEF Recorded, Reserved, Regulating, Tuning, At
  <2>3. Computed' /\ SetpointsFollow'
    BY <1>1, <1>3, <1>4, <2>1 DEF Computed, SetpointsFollow, Working, Goal, Regulating, Tuning
  <2> QED BY <2>2, <2>3
<1> QED BY <1>4, <1>5, <1>6, <1>8, <1>9 DEF AgcInv, Uncrossed

LEMMA OutRecordKeeps == ASSUME AgcInv, OutRecord PROVE AgcInv'
<1>1. /\ work.stage = "record" /\ mu = None /\ work' = [work EXCEPT !.stage = "members", !.todo = @ \ {Due}]
      /\ UNCHANGED <<thr, out, pub, mu, call, dc, left>>
      /\ rt' = IF rt.st = "running" /\ work.by \in rt.fresh
                 THEN [rt EXCEPT !.sent[Due] = work.value, !.published[Due] = work.value] ELSE rt
  BY DEF OutRecord, Due
<1>2. /\ work \in Works /\ out = work.by /\ (work.by \in Rpcs => At(work.by, "out"))
      /\ work.by \in Slots => thr[work.by].ctl = "out"
      /\ \A r \in Rpcs : call[r].pc \notin {"totalSet", "switched"}
  BY <1>1, Outputting
<1>3. /\ work' \in Works /\ work'.by = work.by /\ work'.stage = "members" /\ work'.todo = work.todo \ {Due}
      /\ work'.gives = work.gives /\ work'.value = work.value /\ work'.crossed = work.crossed
  BY <1>1, <1>2 DEF Works, Stages
<1>4. Due \in work.todo /\ Due \in Members /\ work.value \in Setpoints
  BY <1>1, <1>2 DEF AgcInv, Sends, Due, Works
<1>5. /\ Sound(rt') /\ rt'.st = rt.st /\ rt'.fun = rt.fun /\ rt'.cmd = rt.cmd /\ rt'.tuning = rt.tuning
      /\ rt'.avail = rt.avail /\ rt'.handle = rt.handle /\ rt'.fresh = rt.fresh /\ rt'.pending = rt.pending
      /\ \A m \in Members \ {Due} : rt'.sent[m] = rt.sent[m]
      /\ rt'.sent[Due] \in {work.value, rt.sent[Due]}
      /\ rt'.sent[Due] = work.value \/ ~(rt.st = "running" /\ work.by \in rt.fresh)
      /\ ~(rt.st = "running" /\ work.by \in rt.fresh) => rt' = rt
  <2>1. CASE rt.st = "running" /\ work.by \in rt.fresh
    <3> DEFINE f == [rt.sent EXCEPT ![Due] = work.value]
               q == [rt.published EXCEPT ![Due] = work.value]
    <3>1. rt \in Groups /\ rt.sent \in Outputs /\ rt.published \in Outputs
      BY DEF AgcInv, Shapes, Sound, Groups
    <3>2. f \in Outputs /\ q \in Outputs /\ f[Due] = work.value /\ \A m \in Members \ {Due} : f[m] = rt.sent[m]
      BY <1>4, <3>1 DEF Outputs
    <3>3. rt' = [rt EXCEPT !.sent = f, !.published = q]
      BY <1>1, <2>1, <3>1 DEF Groups
    <3> HIDE DEF f, q
    <3>4. /\ rt' \in Groups /\ rt'.sent = f /\ rt'.st = rt.st /\ rt'.fun = rt.fun /\ rt'.cmd = rt.cmd
          /\ rt'.tuning = rt.tuning /\ rt'.avail = rt.avail /\ rt'.handle = rt.handle
          /\ rt'.fresh = rt.fresh /\ rt'.pending = rt.pending
      BY <3>1, <3>2, <3>3 DEF Groups
    <3> QED BY <2>1, <3>2, <3>4 DEF AgcInv, Shapes, Sound, Tuning
  <2>2. CASE ~(rt.st = "running" /\ work.by \in rt.fresh)
    <3>1. rt' = rt
      BY <1>1, <2>2
    <3> QED BY <2>2, <3>1 DEF AgcInv, Shapes
  <2> QED BY <2>1, <2>2
<1>6. Shapes'
  BY <1>1, <1>3, <1>5 DEF AgcInv, Shapes, WorkOK, CallsOK, LocksOK, ThreadsOK
<1>7. \A r \in Rpcs : ~At(r, "joinOld")
  BY <1>1, NamesAssumption DEF AgcInv, Locks
<1>8. Locks' /\ Finished' /\ Sends'
  BY <1>1, <1>2, <1>3, <1>7 DEF AgcInv, Locks, Finished, Sends, At
<1>9. BlockFollows'
  <2>1. CASE Working /\ Regulating
    BY <1>1, <1>3, <1>5, <2>1 DEF AgcInv, Sends, BlockFollows, BlockDue, Current, Working, Regulating
  <2>2. CASE ~Working /\ Regulating
    <3>1. rt' = rt /\ ~Current
      BY <1>1, <1>5, <2>2 DEF Working, Current
    <3>2. BlockOf(rt)' = BlockOf(rt)
      BY <3>1 DEF BlockOf
    <3> QED BY <1>1, <1>3, <2>2, <3>1, <3>2 DEF AgcInv, BlockFollows, BlockDue, RoundDue, Holding, At
  <2>3. CASE ~Regulating
    BY <1>5, <2>3 DEF BlockFollows, Regulating, Tuning
  <2> QED BY <2>1, <2>2, <2>3
<1>10. ASSUME ~left.crossed PROVE Recorded' /\ Computed' /\ Reserved' /\ SetpointsFollow'
  <2>1. Recorded /\ Computed /\ Current
    BY <1>1, <1>10 DEF AgcInv, Uncrossed, Sends, Shapes, WorkOK
  <2>2. rt'.sent[Due] = work.value /\ dc.set[Due] = work.value
    BY <1>1, <1>5, <2>1 DEF Current, Recorded
  <2>3. Recorded'
    BY <1>1, <1>3, <1>5, <2>1, <2>2 DEF Recorded
  <2>4. Computed'
    BY <1>1, <1>3, <1>5, <2>1, <2>2 DEF Computed, Working, Goal, Regulating, Tuning
  <2>5. Reserved'
    BY <1>1, <1>2 DEF Reserved, At
  <2>6. SetpointsFollow'
    BY <1>1, <1>3, <1>5, <2>1 DEF SetpointsFollow, AppliedDue, Working, Current
  <2> QED BY <2>3, <2>4, <2>5, <2>6
<1> QED BY <1>1, <1>6, <1>8, <1>9, <1>10 DEF AgcInv, Uncrossed
-----------------------------------------------------------------------------
(* The calls. *)

\* A step of a caller that neither begins nor ends anything that is owed.
LEMMA CallStill ==
  ASSUME AgcInv, NEW r \in Rpcs, CallsOK', Same(rt, rt'), mu = None \/ rt'.fresh = rt.fresh,
         work.stage # "none" => (work.by \in rt.fresh <=> work.by \in rt'.fresh),
         UNCHANGED <<thr, out, pub, mu, work, dc>>,
         left' \in Lefts, left'.failed = left.failed, left'.crossed = left.crossed,
         call[r].pc \notin {"out", "block", "stop", "switched", "blockSend", "totalSet",
                            "eraseTuner", "joinErase", "joinOld"},
         call'[r].pc \notin {"switched", "blockSend", "totalSet", "eraseTuner", "joinErase", "joinOld"},
         \A q \in Rpcs \ {r} : call'[q] = call[q]
  PROVE  AgcInv'
<1>1. Shapes'
  BY DEF AgcInv, Shapes, WorkOK, LocksOK, ThreadsOK, Same
<1> QED BY <1>1, Still

LEMMA BeginKeeps ==
  ASSUME AgcInv, NEW r \in Rpcs, NEW q \in left.ask[r], Begin(r, q) PROVE AgcInv'
<1> DEFINE c == [pc |-> IF q.op = "delete" THEN "stop" ELSE q.op, op |-> q.op, val |-> q.val,
                 join |-> {}, among |-> {}, block |-> None]
<1>1. /\ At(r, "idle") /\ left' = [left EXCEPT !.ask[r] = @ \ {q}] /\ Goes(r, c)
      /\ UNCHANGED <<rt, thr, out, pub, mu, work, dc>>
  BY DEF Begin
<1>2. q \in Requests /\ left' \in Lefts /\ left'.failed = left.failed /\ left'.crossed = left.crossed
  <2>1. left.ask \in [Rpcs -> SUBSET Requests]
    BY DEF AgcInv, Shapes, Lefts
  <2>2. [left.ask EXCEPT ![r] = @ \ {q}] \in [Rpcs -> SUBSET Requests] /\ q \in Requests
    BY <2>1
  <2>3. left' = [left EXCEPT !.ask = [left.ask EXCEPT ![r] = @ \ {q}]]
    BY <1>1 DEF AgcInv, Shapes, Lefts
  <2> QED BY <2>2, <2>3 DEF AgcInv, Shapes, Lefts
<1>3. \/ q.op \in {"upsert", "start", "stop", "delete", "tune", "untune"} /\ q.val = None
      \/ q.op \in {"function", "remote"} /\ q.val \in BOOLEAN
      \/ q.op = "total" /\ q.val \in Totals
  <2>1. CASE q \in [op : {"upsert", "start", "stop", "delete", "tune", "untune"}, val : {None}]
    BY <2>1
  <2>2. CASE q \in [op : {"function", "remote"}, val : BOOLEAN]
    BY <2>2
  <2>3. CASE q \in [op : {"total"}, val : Totals]
    BY <2>3
  <2> QED BY <1>2, <2>1, <2>2, <2>3 DEF Requests
<1>4. c \in Calls /\ c.pc = (IF q.op = "delete" THEN "stop" ELSE q.op) /\ c.val = q.val
  BY <1>3 DEF Calls, Places, Commands
<1>5. CallOK(c)
  BY <1>3, <1>4 DEF CallOK
<1> HIDE DEF c
<1>6. CallsOK' /\ call'[r] = c /\ \A p \in Rpcs \ {r} : call'[p] = call[p]
  BY <1>1, <1>4, <1>5, GoesOK DEF AgcInv, Shapes
<1>7. /\ call'[r].pc \notin {"switched", "blockSend", "totalSet", "eraseTuner", "joinErase", "joinOld"}
      /\ call[r].pc = "idle"
  BY <1>1, <1>3, <1>4, <1>6 DEF At
<1> QED BY <1>1, <1>2, <1>6, <1>7, CallStill, SameSelf

LEMMA UpsertKeeps == ASSUME AgcInv, NEW r \in Rpcs, Upsert(r) PROVE AgcInv'
<1>1. At(r, "upsert") /\ mu = None /\ UNCHANGED <<thr, out, pub, mu, work, dc, left>>
  BY DEF Upsert
<1>2. CallsOK' /\ call'[r].pc \in {"idle", "limits"} /\ \A q \in Rpcs \ {r} : call'[q] = call[q]
  <2>1. call[r].pc \in Places
    BY <1>1 DEF At, Places
  <2> QED BY <2>1, ReturnsOK, ToOK DEF Upsert, Places, AgcInv, Shapes
<1>3. CASE rt' = rt
  BY <1>1, <1>2, <1>3, CallStill, SameSelf DEF At, AgcInv, Shapes
<1>4. CASE rt' # rt
  <2>1. rt.st \in {"absent", "stopped"} /\ rt' = Rebuilt(IF rt.st = "absent" THEN NewGroup ELSE rt, TRUE)
    BY <1>4 DEF Upsert, AgcInv, Shapes, Sound, Groups
  <2>2. /\ Sound(rt') /\ rt'.fresh = {} /\ rt'.sent = Nothing /\ rt'.st = "stopped"
        /\ rt.st = "stopped" => rt'.fun = rt.fun /\ rt'.handle = rt.handle
        /\ rt.st = "absent" => rt'.fun = TRUE
    BY <2>1, RebuiltOK, NewGroupOK DEF AgcInv, Shapes
  <2>3. Shapes'
    BY <1>1, <1>2, <2>2 DEF AgcInv, Shapes, WorkOK, LocksOK, ThreadsOK
  <2>4. \A q \in Rpcs : call[q].pc \notin {"joinOld", "eraseTuner", "joinErase"}
    BY <1>1, NamesAssumption DEF AgcInv, Locks, At
  <2>5. Locks' /\ Finished'
    BY <1>1, <1>2, <2>4 DEF AgcInv, Locks, Finished, At
  <2>6. \A m \in Members : rt'.sent[m] = None
    BY <2>2, NothingOK
  <2>7. ~Regulating'
    BY <2>2 DEF Regulating
  <2>8. work.stage \in {"send", "record"} => work.crossed /\ left.crossed /\ rt'.fun
    BY <2>1, <2>2 DEF AgcInv, Sends, Current, Shapes, WorkOK
  <2>9. ~left.crossed => Reserved'
    BY <1>1, <1>2, <2>1, <2>2 DEF AgcInv, Uncrossed, Reserved, Regulating, At
  <2> QED BY <1>1, <2>2, <2>3, <2>5, <2>6, <2>7, <2>8, <2>9, Voided
<1> QED BY <1>3, <1>4

\* An output goes on; when the group was changed under it, it remembers that.
GoesOn(changed) ==
    \/ work' = work /\ (changed => work.stage = "none")
    \/ /\ work \in Works /\ work' \in Works /\ work'.crossed /\ changed
       /\ work'.by = work.by /\ work'.stage = work.stage /\ work'.todo = work.todo
       /\ work'.block = work.block /\ work'.gives = work.gives /\ work'.value = work.value

LEMMA ChangedIs ==
  ASSUME WorkOK, NEW l \in Lefts, NEW g, Changed(g, l)
  PROVE  /\ rt' = g /\ left' \in Lefts /\ left'.failed = l.failed
         /\ left'.crossed <=> l.crossed \/ (out # None /\ g # rt)
         /\ GoesOn(rt' # rt)
<1>1. /\ rt' = g /\ left' \in Lefts /\ left'.failed = l.failed
      /\ left'.crossed <=> l.crossed \/ (out # None /\ g # rt)
  BY DEF Changed, Lefts
<1>2. CASE work = NoWork \/ g = rt
  BY <1>1, <1>2 DEF Changed, GoesOn, NoWork
<1>3. CASE work \in Works /\ g # rt
  <2>1. work' = [work EXCEPT !.crossed = TRUE]
    BY <1>3 DEF Changed, NoWork, Works, Stages
  <2> QED BY <1>1, <1>3, <2>1 DEF GoesOn, Works
<1> QED BY <1>1, <1>2, <1>3 DEF WorkOK

\* The output keeps its place, and what it remembers is no more than left does.
LEMMA GoesOnOK ==
  ASSUME AgcInv, NEW changed, GoesOn(changed), changed /\ out # None => left'.crossed,
         left.crossed => left'.crossed
  PROVE  WorkOK' /\ (Finished => Finished')
<1>1. work.stage # "none" => out # None
  BY Outputting, NamesAssumption DEF Works, Holders
<1> QED BY <1>1 DEF GoesOn, AgcInv, Shapes, WorkOK, Finished, Works, Stages

LEMMA CrossedOK == ASSUME AgcInv PROVE left \in Lefts /\ left.crossed \in BOOLEAN /\ left.failed \in BOOLEAN
BY DEF AgcInv, Shapes, Lefts

LEMMA LimitsKeeps == ASSUME AgcInv, NEW r \in Rpcs, Limits(r) PROVE AgcInv'
<1>1. At(r, "limits") /\ mu = None /\ UNCHANGED <<thr, out, pub, mu, dc>>
  BY DEF Limits
<1>2. CallsOK' /\ call'[r].pc \in {"auto", "block"} /\ \A q \in Rpcs \ {r} : call'[q] = call[q]
  BY <1>1, ToOK DEF Limits, AgcInv, Shapes, At, Places
<1>3. /\ rt' = (IF rt.st = "absent" THEN rt ELSE Refreshed(rt))
      /\ left' \in Lefts /\ left'.failed = left.failed
      /\ left'.crossed <=> left.crossed \/ (out # None /\ rt' # rt)
      /\ GoesOn(rt' # rt)
  BY ChangedIs, CrossedOK DEF Limits, AgcInv, Shapes
<1>4. CASE rt' = rt
  <2>1. left'.crossed = left.crossed /\ work' = work
    BY <1>3, <1>4, CrossedOK DEF Lefts, GoesOn
  <2> QED BY <1>1, <1>2, <1>3, <1>4, <2>1, CallStill, SameSelf DEF At
<1>5. CASE rt' # rt
  <2>1. After(rt, rt')
    BY <1>3, <1>5, RefreshedAfter DEF AgcInv, Shapes
  <2>2. rt'.fresh = {} /\ (~Regulating' \/ RoundDue') /\ rt'.fun = rt.fun
    BY <1>5, <2>1 DEF After, Regulating, RoundDue
  <2>3. Shapes'
    <3>1. WorkOK'
      BY <1>3, <1>5, GoesOnOK
    <3> QED BY <1>1, <1>2, <1>3, <2>1, <3>1 DEF AgcInv, Shapes, LocksOK, ThreadsOK, After
  <2>4. \A q \in Rpcs : call[q].pc \notin {"joinOld", "eraseTuner", "joinErase"}
    BY <1>1, NamesAssumption DEF AgcInv, Locks, At
  <2>5. Locks' /\ Finished'
    BY <1>1, <1>2, <1>3, <1>5, <2>4 DEF AgcInv, Locks, Finished, At, GoesOn
  <2>6. work.stage # "none" => left'.crossed = TRUE
    <3>1. work.stage # "none" => out # None
      BY Outputting, NamesAssumption DEF Works, Holders
    <3> QED BY <1>3, <1>5, <3>1 DEF Lefts
  <2>7. left'.crossed \/ \A q \in Rpcs : call'[q].pc \notin {"totalSet", "switched"}
    BY <1>2, <1>3, <1>5, NamesAssumption DEF AgcInv, Locks
  <2>8. \A m \in Members : rt'.sent[m] \in {None, rt.sent[m]}
    BY <2>1 DEF After
  <2>9. \/ work'.stage \notin {"send", "record"}
        \/ work.stage \in {"send", "record"} /\ work'.todo = work.todo /\ rt'.fun /\ work'.crossed
    BY <1>3, <1>5, <2>2 DEF AgcInv, Sends, GoesOn
  <2>10. left.crossed => left'.crossed
    BY <1>3
  <2> QED BY <1>1, <2>2, <2>3, <2>5, <2>6, <2>7, <2>8, <2>9, <2>10, Voided
<1> QED BY <1>4, <1>5

\* A caller that publishes block points.
LEMMA PublisherKeeps ==
  ASSUME AgcInv, NEW r \in Rpcs, CallsOK', UNCHANGED <<rt, thr, out, mu, work>>,
         left' \in Lefts, left'.failed = left.failed, left'.crossed = left.crossed,
         pub' \in Holders \cup {None}, dc' \in DataCenters, dc'.set = dc.set, Locks', BlockFollows',
         call[r].pc \in {"block", "blockSend"}, call'[r].pc \notin {"switched", "totalSet"},
         \A q \in Rpcs \ {r} : call'[q] = call[q]
  PROVE  AgcInv'
<1>1. Shapes'
  BY DEF AgcInv, Shapes, WorkOK, LocksOK, ThreadsOK
<1>2. Sends' /\ Finished'
  BY DEF AgcInv, Sends, Finished, Current, Due
<1>3. ASSUME ~left.crossed PROVE Recorded' /\ Computed' /\ Reserved' /\ SetpointsFollow'
  <2>1. Recorded /\ Computed /\ Reserved /\ SetpointsFollow
    BY <1>3 DEF AgcInv, Uncrossed
  <2>2. Recorded' /\ Computed' /\ Reserved'
    BY <2>1 DEF Recorded, Computed, Reserved, Working, Goal, Regulating, Tuning, At, Due
  <2>3. SetpointsFollow'
    BY <2>1 DEF SetpointsFollow, AppliedDue, Applied, RoundDue, Working, Goal, Regulating, Tuning
  <2> QED BY <2>2, <2>3
<1> QED BY <1>1, <1>2, <1>3 DEF AgcInv, Uncrossed

LEMMA AfterBlockOK ==
  ASSUME AgcInv, NEW r \in Rpcs, call[r].pc \in {"block", "blockSend"}, AfterBlock(r)
  PROVE  CallsOK' /\ call'[r].pc \in {"idle", "auto"} /\ \A q \in Rpcs \ {r} : call'[q] = call[q]
BY ReturnsOK, ToOK DEF AfterBlock, AgcInv, Shapes, Places

LEMMA BlockReadKeeps == ASSUME AgcInv, NEW r \in Rpcs, BlockRead(r) PROVE AgcInv'
<1>1. At(r, "block") /\ mu = None /\ UNCHANGED <<rt, thr, out, mu, work, dc, left>> /\ dc \in DataCenters
      /\ left \in Lefts /\ pub \in Holders \cup {None}
  BY DEF BlockRead, AgcInv, Shapes, LocksOK
<1>2. CASE rt.st = "absent"
  <2>1. CallsOK' /\ call'[r].pc \in {"idle", "auto"} /\ (\A q \in Rpcs \ {r} : call'[q] = call[q])
        /\ UNCHANGED pub
    BY <1>1, <1>2, AfterBlockOK DEF BlockRead, At
  <2>2. Locks' /\ BlockFollows'
    BY <1>1, <1>2, <2>1 DEF AgcInv, Locks, At, BlockFollows, Regulating
  <2> QED BY <1>1, <2>1, <2>2, PublisherKeeps DEF At
<1>3. CASE rt.st # "absent"
  <2> DEFINE c == [call[r] EXCEPT !.pc = "blockSend", !.block = BlockOf(rt)]
  <2>1. BlockOf(rt) \in Blocks /\ call[r] \in Calls
    BY <1>1, BlockOfOK, CallIs DEF AgcInv, Shapes, Sound, At, Places
  <2>2. c \in Calls /\ c.pc = "blockSend" /\ c.block = BlockOf(rt)
    BY <2>1 DEF Calls, Places
  <2>3. CallOK(c)
    BY <2>1, <2>2 DEF CallOK
  <2> HIDE DEF c
  <2>4. CallsOK' /\ call'[r] = c /\ (\A q \in Rpcs \ {r} : call'[q] = call[q]) /\ pub = None /\ pub' = r
    BY <1>3, <2>2, <2>3, GoesOK DEF BlockRead, c, AgcInv, Shapes
  <2>5. \A q \in Rpcs : ~At(q, "blockSend")
    BY <2>4, NamesAssumption DEF AgcInv, Locks
  <2>6. work.stage \notin {"sendFirst", "sendLast"}
    BY <2>4, NamesAssumption, Outputting DEF AgcInv, Locks, Works, Holders
  <2>7. Locks'
    BY <1>1, <2>2, <2>4, <2>5, <2>6 DEF AgcInv, Locks, At
  <2>8. BlockOf(rt)' = BlockOf(rt)
    BY <1>1 DEF BlockOf
  <2>9. BlockFollows'
    BY <2>2, <2>4, <2>8 DEF BlockFollows, Holding, At
  <2> QED BY <1>1, <2>2, <2>4, <2>7, <2>9, PublisherKeeps DEF At, Holders
<1> QED BY <1>2, <1>3

LEMMA BlockSendKeeps == ASSUME AgcInv, NEW r \in Rpcs, BlockSend(r) PROVE AgcInv'
<1>1. /\ At(r, "blockSend") /\ BlockPublished(call[r].block) /\ pub' = None
      /\ UNCHANGED <<rt, thr, out, mu, work>> /\ pub = r /\ call[r].block \in Blocks
  BY DEF BlockSend, AgcInv, Locks, Shapes, CallsOK, CallOK, At
<1>2. CallsOK' /\ call'[r].pc \in {"idle", "auto"} /\ \A q \in Rpcs \ {r} : call'[q] = call[q]
  BY <1>1, AfterBlockOK DEF BlockSend, At
<1>3. /\ dc' \in DataCenters /\ dc'.set = dc.set /\ dc'.block \in {call[r].block, None}
      /\ left' \in Lefts /\ left'.failed = left.failed /\ left'.crossed = left.crossed
  BY <1>1, BlockPublishedOK
<1>4. work.stage \notin {"sendFirst", "sendLast"}
  BY <1>1 DEF AgcInv, Locks, At
<1>5. \A q \in Rpcs \ {r} : ~At(q, "blockSend")
  BY <1>1 DEF AgcInv, Locks
<1>6. Locks'
  BY <1>1, <1>2, <1>4, <1>5 DEF AgcInv, Locks, At
<1>7. BlockOf(rt)' = BlockOf(rt)
  BY <1>1 DEF BlockOf
<1>8. Holding(BlockOf(rt)) => dc'.block \in {BlockOf(rt), None}
  BY <1>1, <1>3, <1>4, <1>5, NamesAssumption DEF Holding
<1>9. BlockFollows'
  <2>1. Regulating' => Regulating /\ (BlockDue => BlockDue')
    BY <1>1, <1>2 DEF BlockDue, RoundDue, Regulating, Tuning, Current, At
  <2> QED BY <1>1, <1>7, <1>8, <2>1 DEF AgcInv, BlockFollows, Holding
<1> QED BY <1>1, <1>2, <1>3, <1>6, <1>9, PublisherKeeps DEF At

LEMMA AutoStartKeeps == ASSUME AgcInv, NEW r \in Rpcs, AutoStart(r) PROVE AgcInv'
<1>1. At(r, "auto") /\ UNCHANGED <<rt, thr, out, pub, mu, work, dc, left>> /\ call[r] \in Calls
  BY CallIs DEF AutoStart, At, Places, AgcInv, Shapes
<1>2. CallsOK' /\ call'[r].pc \in {"idle", "start"} /\ \A q \in Rpcs \ {r} : call'[q] = call[q]
  <2> DEFINE c == [call[r] EXCEPT !.pc = "start", !.op = "start"]
  <2>1. c \in Calls /\ c.pc = "start"
    BY <1>1 DEF Calls, Places
  <2>2. CallOK(c)
    BY <2>1 DEF CallOK
  <2>3. Returns(r) \/ Goes(r, c)
    BY DEF AutoStart
  <2> HIDE DEF c
  <2> QED BY <2>1, <2>2, <2>3, ReturnsOK, GoesOK DEF AgcInv, Shapes
<1> QED BY <1>1, <1>2, CallStill, SameSelf DEF At, AgcInv, Shapes

LEMMA AskStopKeeps == ASSUME AgcInv, NEW r \in Rpcs, AskStop(r) PROVE AgcInv'
<1>1. /\ At(r, "askStop") /\ UNCHANGED <<thr, out, pub, mu, work, dc, left>>
      /\ rt' = [rt EXCEPT !.stopping = @ \cup call[r].join] /\ call[r].join \subseteq Slots
  BY CallIs DEF AskStop, At, Places, AgcInv, Shapes, Calls
<1>2. CallsOK' /\ call'[r].pc = "join" /\ \A q \in Rpcs \ {r} : call'[q] = call[q]
  BY <1>1, ToOK DEF AskStop, At, Places, AgcInv, Shapes
<1>3. Same(rt, rt') /\ rt'.fresh = rt.fresh
  BY <1>1 DEF AgcInv, Shapes, Same, Sound, Groups, Tuning
<1> QED BY <1>1, <1>2, <1>3, CallStill DEF At, AgcInv, Shapes

LEMMA JoinKeeps == ASSUME AgcInv, NEW r \in Rpcs, Join(r) PROVE AgcInv'
<1>1. At(r, "join") /\ UNCHANGED <<rt, thr, out, pub, mu, work, dc, left>>
  BY DEF Join
<1>2. CallsOK' /\ call'[r].pc = "joinTuner" /\ \A q \in Rpcs \ {r} : call'[q] = call[q]
  BY <1>1, ToOK DEF Join, At, Places, AgcInv, Shapes
<1> QED BY <1>1, <1>2, CallStill, SameSelf DEF At, AgcInv, Shapes

LEMMA JoinTunerKeeps == ASSUME AgcInv, NEW r \in Rpcs, JoinTuner(r) PROVE AgcInv'
<1>1. At(r, "joinTuner") /\ UNCHANGED <<rt, thr, out, pub, mu, work, dc, left>>
  BY DEF JoinTuner
<1>2. CallsOK' /\ call'[r].pc \in {"drop", "idle"} /\ \A q \in Rpcs \ {r} : call'[q] = call[q]
  BY <1>1, ToOK, ReturnsOK DEF JoinTuner, At, Places, AgcInv, Shapes
<1> QED BY <1>1, <1>2, CallStill, SameSelf DEF At, AgcInv, Shapes

LEMMA SwitchRemoteKeeps == ASSUME AgcInv, NEW r \in Rpcs, SwitchRemote(r) PROVE AgcInv'
<1>1. /\ At(r, "remote") /\ mu = None /\ UNCHANGED <<thr, out, pub, mu, work, dc, left>>
      /\ rt' = (IF rt.st \in {"absent", "pending"} THEN rt ELSE [rt EXCEPT !.remote = call[r].val])
      /\ call[r].val \in BOOLEAN
  BY DEF SwitchRemote, At, AgcInv, Shapes, CallsOK, CallOK
<1>2. CallsOK' /\ call'[r].pc = "idle" /\ \A q \in Rpcs \ {r} : call'[q] = call[q]
  BY <1>1, ReturnsOK DEF SwitchRemote, AgcInv, Shapes
<1>3. Same(rt, rt') /\ rt'.fresh = rt.fresh
  BY <1>1 DEF AgcInv, Shapes, Same, Sound, Groups, Tuning
<1> QED BY <1>1, <1>2, <1>3, CallStill DEF At, AgcInv, Shapes

LEMMA TuneKeeps == ASSUME AgcInv, NEW r \in Rpcs, Tune(r) PROVE AgcInv'
<1>1. /\ At(r, "tune") /\ mu = None /\ UNCHANGED <<thr, out, pub, mu, work, dc, left>>
      /\ rt' = rt \/ rt' = [rt EXCEPT !.fresh = @ \cup {r}]
  BY DEF Tune
<1>2. CallsOK' /\ call'[r].pc \in {"tuneRead", "idle"} /\ \A q \in Rpcs \ {r} : call'[q] = call[q]
  BY <1>1, ToOK, ReturnsOK DEF Tune, At, Places, AgcInv, Shapes
<1>3. Same(rt, rt') /\ (rt'.fresh = rt.fresh \/ rt'.fresh = rt.fresh \cup {r})
  BY <1>1 DEF AgcInv, Shapes, Same, Sound, Groups, Tuning, Holders
<1>4. work.stage # "none" => work.by # r
  BY <1>1, NamesAssumption DEF AgcInv, Locks, At
<1> QED BY <1>1, <1>2, <1>3, <1>4, CallStill DEF At, AgcInv, Shapes

LEMMA TuneReadKeeps == ASSUME AgcInv, NEW r \in Rpcs, TuneRead(r) PROVE AgcInv'
<1> DEFINE c == [call[r] EXCEPT !.pc = "tuneGo", !.block = dc.beat]
<1>1. At(r, "tuneRead") /\ Goes(r, c) /\ UNCHANGED <<rt, thr, out, pub, mu, work, dc, left>>
  BY DEF TuneRead
<1>2. call[r] \in Calls /\ dc.beat \in [Members -> Beats]
  BY <1>1, CallIs DEF At, Places, AgcInv, Shapes, DataCenters
<1>3. c \in Calls /\ c.pc = "tuneGo" /\ c.block = dc.beat
  BY <1>2 DEF Calls, Places
<1>4. CallOK(c)
  BY <1>2, <1>3 DEF CallOK
<1> HIDE DEF c
<1>5. CallsOK' /\ call'[r].pc = "tuneGo" /\ \A q \in Rpcs \ {r} : call'[q] = call[q]
  BY <1>1, <1>3, <1>4, GoesOK DEF AgcInv, Shapes
<1> QED BY <1>1, <1>5, CallStill, SameSelf DEF At, AgcInv, Shapes

\* A caller that moves without the locks of the others.
LEMMA CallLocks ==
  ASSUME AgcInv, NEW r \in Rpcs, UNCHANGED <<out, pub>>, work' = work \/ GoesOn(TRUE),
         \A q \in Rpcs \ {r} : call'[q] = call[q],
         call[r].pc # "out", call'[r].pc \notin {"switched", "totalSet", "blockSend"},
         \A q \in Rpcs \ {r} : call[q].pc \notin {"joinOld", "eraseTuner", "joinErase"},
         \A u \in Slots : thr[u].ctl = "out" => thr'[u].ctl = "out",
         call'[r].pc \in {"eraseTuner", "joinErase"} => mu' = r /\ rt'.handle \in Slots,
         call'[r].pc = "joinOld" => /\ mu' = r /\ rt'.st = "stopped" /\ rt'.handle \in Slots
                                    /\ rt'.cmd = None /\ rt'.fresh = {}
  PROVE  Locks'
<1>1. /\ work'.stage # "none" => /\ out' = work'.by /\ (work'.by \in Rpcs => call'[work'.by].pc = "out")
                                 /\ work'.by \in Slots => thr'[work'.by].ctl = "out"
      /\ work'.stage \in {"sendFirst", "sendLast"} => pub' = work'.by
  BY DEF AgcInv, Locks, At, GoesOn
<1>2. \A q \in Rpcs : /\ call'[q].pc \in {"switched", "totalSet"} => out' = q
                      /\ At(q, "blockSend")' => pub' = q
  BY DEF AgcInv, Locks, At
<1>3. \A q \in Rpcs : /\ call'[q].pc \in {"eraseTuner", "joinErase"} => mu' = q /\ rt'.handle \in Slots
                      /\ At(q, "joinOld")' => /\ mu' = q /\ rt'.st = "stopped" /\ rt'.handle \in Slots
                                              /\ rt'.cmd = None /\ rt'.fresh = {}
  BY DEF At
<1> QED BY <1>1, <1>2, <1>3 DEF AgcInv, Locks, At

LEMMA StartedOK ==
  ASSUME NEW g, Sound(g), NEW t \in Slots
  PROVE  /\ Sound(Started(g, t)) /\ Started(g, t).st = "running" /\ Started(g, t).fun = g.fun
         /\ Started(g, t).cmd = g.cmd /\ Started(g, t).fresh = g.fresh /\ Started(g, t).sent = g.sent
         /\ Started(g, t).handle = t /\ Started(g, t).tuning = g.tuning
BY DEF Started, Sound, Groups, Tuning

LEMMA FreeOK ==
  ASSUME ThreadsOK, NEW t \in Slots, Free(t), NEW tunes \in BOOLEAN, thr' = [thr EXCEPT ![t] = Threads(tunes)]
  PROVE  ThreadsOK' /\ \A u \in Slots : thr[u].ctl \in {"tick", "out"} => thr'[u].ctl = thr[u].ctl
<1>1. Threads(tunes) \in Generations /\ ThreadOK(Threads(tunes))
  BY DEF Threads, Generations, ThreadOK, Tags
<1>2. ThreadsOK' /\ \A u \in Slots \ {t} : thr'[u] = thr[u]
  BY <1>1, ThreadMoves
<1> QED BY <1>2 DEF Free, OffThreads

\* The threads of a stopped group start.
LEMMA StartedKeeps ==
  ASSUME AgcInv, NEW r \in Rpcs, NEW t \in Slots, Free(t), NEW g, Sound(g),
         rt.st = "stopped", g.fun = rt.fun, g.cmd = None, g.fresh = {},
         \A m \in Members : g.sent[m] \in {None, rt.sent[m]},
         rt' = Started(g, t), thr' = [thr EXCEPT ![t] = Threads(FALSE)], mu' = None,
         CallsOK', call'[r].pc = "block", \A q \in Rpcs \ {r} : call'[q] = call[q],
         call[r].pc \in {"start", "joinOld"},
         \A q \in Rpcs \ {r} : call[q].pc \notin {"joinOld", "eraseTuner", "joinErase"},
         UNCHANGED <<out, pub, work, dc, left>>
  PROVE  AgcInv'
<1>1. /\ Sound(rt') /\ rt'.st = "running" /\ rt'.fun = rt.fun /\ rt'.cmd = None /\ rt'.fresh = {}
      /\ \A m \in Members : rt'.sent[m] \in {None, rt.sent[m]}
  BY StartedOK
<1>2. ThreadsOK' /\ \A u \in Slots : thr[u].ctl \in {"tick", "out"} => thr'[u].ctl = thr[u].ctl
  BY FreeOK DEF AgcInv, Shapes
<1>3. Shapes'
  BY <1>1, <1>2 DEF AgcInv, Shapes, WorkOK, LocksOK
<1>4. Locks' /\ Finished'
  BY <1>2, CallLocks DEF AgcInv, Finished
<1>5. work.stage \in {"send", "record"} => work.crossed /\ left.crossed /\ rt.fun
  BY DEF AgcInv, Sends, Current, Shapes, WorkOK
<1>6. ~left.crossed => Reserved'
  BY <1>1 DEF AgcInv, Uncrossed, Reserved, Regulating, At
<1> QED BY <1>1, <1>3, <1>4, <1>5, <1>6, Voided

LEMMA StartKeeps == ASSUME AgcInv, NEW r \in Rpcs, Start(r) PROVE AgcInv'
<1>1. At(r, "start") /\ mu = None /\ UNCHANGED <<out, pub, work, dc, left>> /\ Sound(rt)
  BY DEF Start, AgcInv, Shapes
<1>2. \A q \in Rpcs : call[q].pc \notin {"joinOld", "eraseTuner", "joinErase"}
  BY <1>1, NamesAssumption DEF AgcInv, Locks, At
<1>3. ASSUME NEW pc \in {"block", "joinOld"}, To(r, pc)
      PROVE  CallsOK' /\ call'[r].pc = pc /\ \A q \in Rpcs \ {r} : call'[q] = call[q]
  BY <1>1, <1>3, ToOK DEF At, Places, AgcInv, Shapes
<1>4. CASE rt.st \in {"absent", "pending", "running"}
  <2>1. CallsOK' /\ call'[r].pc \in {"idle", "block"} /\ \A q \in Rpcs \ {r} : call'[q] = call[q]
    BY <1>3, <1>4, ReturnsOK DEF Start, AgcInv, Shapes
  <2>2. UNCHANGED <<rt, thr, mu>>
    BY <1>4 DEF Start
  <2> QED BY <1>1, <2>1, <2>2, CallStill, SameSelf DEF At, AgcInv, Shapes
<1>5. /\ Sound(Rebuilt(rt, FALSE)) /\ Rebuilt(rt, FALSE).fun = rt.fun /\ Rebuilt(rt, FALSE).cmd = None
      /\ Rebuilt(rt, FALSE).fresh = {} /\ Rebuilt(rt, FALSE).st = rt.st
      /\ Rebuilt(rt, FALSE).handle = rt.handle
      /\ \A m \in Members : Rebuilt(rt, FALSE).sent[m] = None
  BY <1>1, RebuiltOK, NothingOK
<1>6. CASE rt.st = "stopped" /\ rt.handle = None
  <2>1. PICK t \in Slots : /\ Free(t) /\ rt' = Started(Rebuilt(rt, FALSE), t)
                           /\ thr' = [thr EXCEPT ![t] = Threads(FALSE)] /\ To(r, "block") /\ mu' = mu
    BY <1>6 DEF Start
  <2> QED BY <1>1, <1>2, <1>3, <1>5, <1>6, <2>1, StartedKeeps DEF At
<1>7. CASE rt.st = "stopped" /\ rt.handle # None
  <2>1. /\ rt' = [Rebuilt(rt, FALSE) EXCEPT !.stopping = @ \cup {rt.handle}]
        /\ mu' = r /\ To(r, "joinOld") /\ UNCHANGED thr
    BY <1>7 DEF Start
  <2>2. rt.handle \in Slots
    BY <1>1, <1>7 DEF Sound, Groups
  <2>3. /\ Sound(rt') /\ rt'.fun = rt.fun /\ rt'.cmd = None /\ rt'.fresh = {} /\ rt'.st = "stopped"
        /\ rt'.handle = rt.handle /\ \A m \in Members : rt'.sent[m] = None
    <3> HIDE DEF Rebuilt
    <3> QED BY <1>5, <1>7, <2>1, <2>2 DEF Sound, Groups, Tuning
  <2>4. CallsOK' /\ call'[r].pc = "joinOld" /\ \A q \in Rpcs \ {r} : call'[q] = call[q]
    BY <1>3, <2>1
  <2>5. Shapes'
    BY <1>1, <2>1, <2>3, <2>4 DEF AgcInv, Shapes, WorkOK, LocksOK, ThreadsOK
  <2>6. Locks' /\ Finished'
    BY <1>1, <1>2, <2>1, <2>2, <2>3, <2>4, CallLocks DEF AgcInv, Finished, At
  <2>7. work.stage \in {"send", "record"} => work.crossed /\ left.crossed /\ rt.fun
    BY <1>7 DEF AgcInv, Sends, Current, Shapes, WorkOK
  <2>8. ~left.crossed => Reserved'
    BY <1>1, <1>7, <2>3, <2>4 DEF AgcInv, Uncrossed, Reserved, Regulating, At
  <2>9. ~Regulating'
    BY <2>3 DEF Regulating
  <2> QED BY <1>1, <2>3, <2>5, <2>6, <2>7, <2>8, <2>9, Voided
<1> QED BY <1>1, <1>4, <1>6, <1>7 DEF Sound, Groups

LEMMA JoinOldKeeps == ASSUME AgcInv, NEW r \in Rpcs, JoinOld(r) PROVE AgcInv'
<1>1. /\ At(r, "joinOld") /\ mu' = None /\ UNCHANGED <<out, pub, work, dc, left>> /\ Sound(rt)
      /\ mu = r /\ rt.st = "stopped" /\ rt.cmd = None /\ rt.fresh = {}
  BY DEF JoinOld, AgcInv, Shapes, Locks
<1>2. \A q \in Rpcs \ {r} : call[q].pc \notin {"joinOld", "eraseTuner", "joinErase"}
  BY <1>1 DEF AgcInv, Locks, At
<1>3. CallsOK' /\ call'[r].pc = "block" /\ \A q \in Rpcs \ {r} : call'[q] = call[q]
  BY <1>1, ToOK DEF JoinOld, At, Places, AgcInv, Shapes
<1>4. PICK t \in Slots : Free(t) /\ rt' = Started(rt, t) /\ thr' = [thr EXCEPT ![t] = Threads(FALSE)]
  BY DEF JoinOld
<1> QED BY <1>1, <1>2, <1>3, <1>4, StartedKeeps DEF At

\* A call while nobody publishes leaves nothing owed, or goes on to stop the group.
LEMMA QuietCall ==
  ASSUME AgcInv, NEW r \in Rpcs, out = None, mu = None, Sound(rt'),
         \A m \in Members : rt'.sent[m] \in {None, rt.sent[m]},
         CallsOK', \A q \in Rpcs \ {r} : call'[q] = call[q], call[r].pc # "out",
         call'[r].pc \notin {"switched", "totalSet", "blockSend", "eraseTuner", "joinErase", "joinOld"},
         UNCHANGED <<thr, out, pub, mu, work, dc, left>>,
         ~Regulating' \/ call'[r].pc = "stop"
  PROVE  AgcInv'
<1>1. work.stage = "none" /\ \A q \in Rpcs : call[q].pc \notin {"totalSet", "switched"}
  BY NoOutput
<1>2. Shapes'
  BY DEF AgcInv, Shapes, WorkOK, LocksOK, ThreadsOK
<1>3. \A q \in Rpcs : call[q].pc \notin {"joinOld", "eraseTuner", "joinErase"}
  BY NamesAssumption DEF AgcInv, Locks, At
<1>4. Locks' /\ Finished' /\ Sends'
  BY <1>1, <1>3, CallLocks DEF Finished, Sends
<1>5. BlockFollows'
  BY DEF BlockFollows, BlockDue
<1>6. ASSUME ~left.crossed PROVE Recorded' /\ Computed' /\ Reserved' /\ SetpointsFollow'
  <2>1. Recorded
    BY <1>6 DEF AgcInv, Uncrossed
  <2>2. Recorded'
    BY <1>1, <2>1 DEF Recorded
  <2>3. Computed' /\ Reserved'
    BY <1>1 DEF Computed, Reserved, Working, At
  <2>4. SetpointsFollow'
    BY DEF SetpointsFollow, AppliedDue
  <2> QED BY <2>2, <2>3, <2>4
<1> QED BY <1>2, <1>4, <1>5, <1>6 DEF AgcInv, Uncrossed

LEMMA StopKeeps == ASSUME AgcInv, NEW r \in Rpcs, Stop(r) PROVE AgcInv'
<1>1. /\ At(r, "stop") /\ out = None /\ mu = None /\ UNCHANGED <<thr, out, pub, mu, work, dc, left>>
      /\ Sound(rt)
  BY DEF Stop, AgcInv, Shapes
<1>2. CASE rt.st = "absent"
  <2>1. UNCHANGED rt
    BY <1>2 DEF Stop
  <2>2. CallsOK' /\ call'[r].pc \in {"drop", "idle"} /\ \A q \in Rpcs \ {r} : call'[q] = call[q]
    BY <1>1, <1>2, ToOK, ReturnsOK DEF Stop, At, Places, AgcInv, Shapes
  <2> QED BY <1>1, <1>2, <2>1, <2>2, QuietCall DEF At, Regulating
<1>3. CASE rt.st # "absent"
  <2> DEFINE c == [call[r] EXCEPT !.pc = "askStop", !.join = {rt.handle, rt.tuner} \ {None}]
  <2>1. /\ rt' = [rt EXCEPT !.st = IF @ = "pending" THEN @ ELSE "stopped",
                            !.handle = None, !.tuner = None, !.fresh = {}, !.sent = Nothing,
                            !.tuning = IF Tuning(rt) THEN "ended" ELSE @]
        /\ Goes(r, c)
    BY <1>3 DEF Stop
  <2>2. /\ Sound(rt') /\ rt'.st # "running" /\ rt'.sent = Nothing
    BY <1>1, <1>3, <2>1, NothingOK DEF Sound, Groups, Tuning
  <2>3. call[r] \in Calls /\ {rt.handle, rt.tuner} \ {None} \subseteq Slots
    BY <1>1, CallIs DEF At, Places, AgcInv, Shapes, Sound, Groups
  <2>4. c \in Calls /\ c.pc = "askStop"
    BY <2>3 DEF Calls, Places
  <2>5. CallOK(c)
    BY <2>4 DEF CallOK
  <2> HIDE DEF c
  <2>6. CallsOK' /\ call'[r].pc = "askStop" /\ \A q \in Rpcs \ {r} : call'[q] = call[q]
    BY <2>1, <2>4, <2>5, GoesOK DEF AgcInv, Shapes
  <2> QED BY <1>1, <2>2, <2>6, NothingOK, QuietCall DEF At, Regulating
<1> QED BY <1>2, <1>3

LEMMA UntuneKeeps == ASSUME AgcInv, NEW r \in Rpcs, Untune(r) PROVE AgcInv'
<1>1. /\ At(r, "untune") /\ out = None /\ mu = None /\ UNCHANGED <<thr, out, pub, mu, work, dc, left>>
      /\ Sound(rt)
      /\ rt' = (IF Tuning(rt) THEN [rt EXCEPT !.tuning = "ended", !.fresh = {}] ELSE rt)
  BY DEF Untune, AgcInv, Shapes
<1>2. /\ CallsOK' /\ call'[r].pc \in {"stop", "idle"} /\ (\A q \in Rpcs \ {r} : call'[q] = call[q])
      /\ Tuning(rt) => call'[r].pc = "stop"
  BY <1>1, ToOK, ReturnsOK DEF Untune, At, Places, AgcInv, Shapes
<1>3. CASE Tuning(rt)
  <2>1. Sound(rt') /\ rt'.sent = rt.sent
    BY <1>1, <1>3 DEF Sound, Groups, Tuning
  <2> QED BY <1>1, <1>2, <1>3, <2>1, QuietCall DEF At
<1>4. CASE ~Tuning(rt)
  BY <1>1, <1>2, <1>4, CallStill, SameSelf DEF At, AgcInv, Shapes
<1> QED BY <1>3, <1>4

\* A group that is taken away, perhaps under an output.
LEMMA TakenAway ==
  ASSUME AgcInv, NEW r \in Rpcs, Sound(rt'), rt'.fun \in {TRUE, rt.fun}, rt'.st # "running",
         \A m \in Members : rt'.sent[m] \in {None, rt.sent[m]},
         UNCHANGED <<thr, out, pub, dc>>, mu' = None, GoesOn(rt' # rt),
         left' \in Lefts, left'.crossed <=> left.crossed \/ (out # None /\ rt' # rt),
         CallsOK', call'[r].pc = "idle", \A q \in Rpcs \ {r} : call'[q] = call[q],
         call[r].pc \in {"drop", "joinErase"},
         \A q \in Rpcs \ {r} : call[q].pc \notin {"joinOld", "eraseTuner", "joinErase"}
  PROVE  AgcInv'
<1>1. WorkOK' /\ Finished'
  BY GoesOnOK DEF AgcInv
<1>2. Shapes'
  BY <1>1 DEF AgcInv, Shapes, LocksOK, ThreadsOK
<1>3. ~Regulating' /\ BlockFollows'
  BY DEF Regulating, BlockFollows
<1>4. work.stage # "none" => out # None
  BY Outputting, NamesAssumption DEF Works, Holders
<1>5. Sends' /\ Locks'
  <2>1. CASE rt' = rt
    BY <2>1, CallLocks DEF AgcInv, Sends, Current, GoesOn
  <2>2. CASE rt' # rt
    <3>1. work'.stage \in {"send", "record"} => work'.crossed /\ work'.todo = work.todo /\ rt.fun
      BY <2>2 DEF AgcInv, Sends, GoesOn
    <3>2. GoesOn(TRUE)
      BY <2>2 DEF GoesOn
    <3>3. Sends'
      BY <2>2, <3>1, <3>2 DEF AgcInv, Sends, GoesOn
    <3> QED BY <3>2, <3>3, CallLocks
  <2> QED BY <2>1, <2>2
<1>6. ASSUME ~left'.crossed PROVE Recorded' /\ Computed' /\ Reserved' /\ SetpointsFollow'
  <2>1. Recorded /\ Reserved /\ (out = None \/ rt' = rt) /\ work' = work
    BY <1>4, <1>6 DEF AgcInv, Uncrossed, GoesOn, Works, Stages
  <2>2. Recorded'
    BY <2>1 DEF Recorded, Due
  <2>3. Computed' /\ SetpointsFollow'
    BY <1>3 DEF Computed, SetpointsFollow
  <2>4. Reserved'
    <3>1. CASE out = None
      BY <3>1, NoOutput DEF Reserved, At
    <3>2. CASE rt' = rt
      BY <3>2, <2>1 DEF Reserved, Regulating, Tuning, At
    <3> QED BY <3>1, <3>2, <2>1
  <2> QED BY <2>2, <2>3, <2>4
<1> QED BY <1>1, <1>2, <1>3, <1>5, <1>6 DEF AgcInv, Uncrossed

LEMMA DropKeeps == ASSUME AgcInv, NEW r \in Rpcs, Drop(r) PROVE AgcInv'
<1>1. At(r, "drop") /\ mu = None /\ UNCHANGED <<thr, out, pub, dc>> /\ Sound(rt) /\ WorkOK
  BY DEF Drop, AgcInv, Shapes
<1>2. \A q \in Rpcs : call[q].pc \notin {"joinOld", "eraseTuner", "joinErase"}
  BY <1>1, NamesAssumption DEF AgcInv, Locks, At
<1>3. CASE rt.handle = None /\ Changed(Absent, left) /\ Returns(r) /\ UNCHANGED mu
  <2>1. CallsOK' /\ call'[r].pc = "idle" /\ \A q \in Rpcs \ {r} : call'[q] = call[q]
    BY <1>3, ReturnsOK DEF AgcInv, Shapes
  <2>2. /\ rt' = Absent /\ left' \in Lefts /\ (left'.crossed <=> left.crossed \/ (out # None /\ rt' # rt))
        /\ GoesOn(rt' # rt)
    BY <1>1, <1>3, ChangedIs, CrossedOK
  <2> QED BY <1>1, <1>2, <1>3, <2>1, <2>2, NewGroupOK, NothingOK, TakenAway DEF At
<1>4. CASE rt.handle # None /\ mu' = r /\ To(r, "eraseTuner") /\ UNCHANGED <<rt, work, left>>
  <2>1. CallsOK' /\ call'[r].pc = "eraseTuner" /\ \A q \in Rpcs \ {r} : call'[q] = call[q]
    BY <1>1, <1>4, ToOK DEF AgcInv, Shapes, At, Places
  <2>2. Same(rt, rt') /\ rt'.fresh = rt.fresh
    BY <1>4, SameSelf
  <2>3. Shapes'
    BY <1>1, <1>4, <2>1, <2>2 DEF AgcInv, Shapes, WorkOK, LocksOK, ThreadsOK, Same
  <2>4. Locks'
    BY <1>1, <1>2, <1>4, <2>1, CallLocks DEF At, Sound, Groups
  <2> QED BY <1>1, <1>4, <2>1, <2>2, <2>3, <2>4, StillLocked DEF At
<1>5. CASE /\ left.faults > 0
           /\ Changed(IF rt.st = "absent" THEN rt ELSE [rt EXCEPT !.st = "pending"],
                      [left EXCEPT !.faults = @ - 1, !.failed = TRUE])
           /\ Returns(r) /\ UNCHANGED mu
  <2> DEFINE l == [left EXCEPT !.faults = @ - 1, !.failed = TRUE]
             g == IF rt.st = "absent" THEN rt ELSE [rt EXCEPT !.st = "pending"]
  <2>1. left \in Lefts /\ left.faults - 1 \in Nat
    BY <1>5, CrossedOK DEF Lefts
  <2>2. l \in Lefts /\ l.crossed = left.crossed
    BY <2>1 DEF Lefts
  <2>3. Sound(g) /\ g.fun = rt.fun /\ g.sent = rt.sent /\ g.st # "running"
    BY <1>1 DEF Sound, Groups, Tuning
  <2> HIDE DEF l, g
  <2>4. Changed(g, l)
    BY <1>5 DEF g, l
  <2>5. /\ rt' = g /\ left' \in Lefts /\ (left'.crossed <=> left.crossed \/ (out # None /\ rt' # rt))
        /\ GoesOn(rt' # rt)
    BY <1>1, <2>2, <2>4, ChangedIs
  <2>6. CallsOK' /\ call'[r].pc = "idle" /\ \A q \in Rpcs \ {r} : call'[q] = call[q]
    BY <1>5, ReturnsOK DEF AgcInv, Shapes
  <2> QED BY <1>1, <1>2, <1>5, <2>3, <2>5, <2>6, TakenAway DEF At
<1> QED BY <1>3, <1>4, <1>5 DEF Drop

LEMMA EraseTunerKeeps == ASSUME AgcInv, NEW r \in Rpcs, EraseTuner(r) PROVE AgcInv'
<1>1. /\ At(r, "eraseTuner") /\ mu = r /\ rt.handle \in Slots /\ Sound(rt)
      /\ UNCHANGED <<thr, out, pub, mu, work, dc, left>>
      /\ rt' = [rt EXCEPT !.stopping = @ \cup {rt.handle}] /\ To(r, "joinErase")
  BY DEF EraseTuner, AgcInv, Locks, Shapes, At
<1>2. \A q \in Rpcs \ {r} : call[q].pc \notin {"joinOld", "eraseTuner", "joinErase"}
  BY <1>1 DEF AgcInv, Locks, At
<1>3. CallsOK' /\ call'[r].pc = "joinErase" /\ \A q \in Rpcs \ {r} : call'[q] = call[q]
  BY <1>1, ToOK DEF AgcInv, Shapes, At, Places
<1>4. Same(rt, rt') /\ rt'.fresh = rt.fresh
  BY <1>1 DEF Same, Sound, Groups, Tuning
<1>5. Shapes'
  BY <1>1, <1>3, <1>4 DEF AgcInv, Shapes, WorkOK, LocksOK, ThreadsOK, Same
<1>6. Locks'
  BY <1>1, <1>2, <1>3, <1>4, CallLocks DEF At, Same
<1> QED BY <1>1, <1>3, <1>4, <1>5, <1>6, StillLocked DEF At

LEMMA JoinEraseKeeps == ASSUME AgcInv, NEW r \in Rpcs, JoinErase(r) PROVE AgcInv'
<1>1. /\ At(r, "joinErase") /\ mu = r /\ mu' = None /\ UNCHANGED <<thr, out, pub, dc>>
      /\ Changed(Absent, left) /\ Returns(r) /\ WorkOK
  BY DEF JoinErase, AgcInv, Locks, Shapes, At
<1>2. \A q \in Rpcs \ {r} : call[q].pc \notin {"joinOld", "eraseTuner", "joinErase"}
  BY <1>1 DEF AgcInv, Locks, At
<1>3. CallsOK' /\ call'[r].pc = "idle" /\ \A q \in Rpcs \ {r} : call'[q] = call[q]
  BY <1>1, ReturnsOK DEF AgcInv, Shapes
<1>4. /\ rt' = Absent /\ left' \in Lefts /\ (left'.crossed <=> left.crossed \/ (out # None /\ rt' # rt))
      /\ GoesOn(rt' # rt)
  BY <1>1, ChangedIs, CrossedOK
<1> QED BY <1>1, <1>2, <1>3, <1>4, NewGroupOK, NothingOK, TakenAway DEF At

\* A call that takes the output mutex, or leaves it, and publishes nothing.
LEMMA OutCall ==
  ASSUME AgcInv, NEW r \in Rpcs, work.stage = "none", Sound(rt'), mu = None,
         \A m \in Members : rt'.sent[m] \in {None, rt.sent[m]},
         UNCHANGED <<thr, pub, mu, work, dc, left>>, out' \in {None, r, out},
         CallsOK', \A q \in Rpcs \ {r} : call'[q] = call[q],
         \A q \in Rpcs \ {r} : call[q].pc \notin {"switched", "totalSet"},
         call[r].pc \in {"function", "switched", "total", "totalSet"},
         call'[r].pc \notin {"blockSend", "eraseTuner", "joinErase", "joinOld"},
         call'[r].pc \in {"switched", "totalSet"} => out' = r,
         BlockFollows', ~left.crossed => Reserved' /\ SetpointsFollow'
  PROVE  AgcInv'
<1>1. Shapes'
  BY DEF AgcInv, Shapes, WorkOK, LocksOK, ThreadsOK, Holders
<1>2. \A q \in Rpcs : call[q].pc \notin {"joinOld", "eraseTuner", "joinErase"}
  BY NamesAssumption DEF AgcInv, Locks, At
<1>3. Locks'
  BY <1>2 DEF AgcInv, Locks, At
<1>4. Sends' /\ Finished'
  BY DEF Sends, Finished
<1>5. ~left.crossed => Recorded' /\ Computed'
  BY DEF AgcInv, Uncrossed, Recorded, Computed, Working
<1> QED BY <1>1, <1>3, <1>4, <1>5 DEF AgcInv, Uncrossed

LEMMA SwitchFunctionKeeps == ASSUME AgcInv, NEW r \in Rpcs, SwitchFunction(r) PROVE AgcInv'
<1>1. /\ At(r, "function") /\ out = None /\ mu = None /\ UNCHANGED <<thr, pub, mu, work, dc, left>>
      /\ Sound(rt) /\ call[r].val \in BOOLEAN /\ call[r] \in Calls
  BY CallIs DEF SwitchFunction, AgcInv, Shapes, CallsOK, CallOK, At, Places
<1>2. CASE Returns(r) /\ UNCHANGED <<rt, out>>
  <2>1. CallsOK' /\ call'[r].pc = "idle" /\ \A q \in Rpcs \ {r} : call'[q] = call[q]
    BY <1>2, ReturnsOK DEF AgcInv, Shapes
  <2> QED BY <1>1, <1>2, <2>1, CallStill, SameSelf DEF At, AgcInv, Shapes
<1>3. CASE /\ rt.st \notin {"absent", "pending"} /\ out' = r
           /\ Goes(r, [call[r] EXCEPT !.pc = "switched", !.val = @ /\ rt.st = "running"])
           /\ rt' = [rt EXCEPT !.fun = call[r].val, !.fresh = {}, !.sent = Nothing]
  <2> DEFINE v == call[r].val /\ rt.st = "running"
             c == [call[r] EXCEPT !.pc = "switched", !.val = v]
  <2>1. c \in Calls /\ c.pc = "switched" /\ c.val = (call[r].val /\ rt.st = "running")
    <3>1. v \in BOOLEAN
      OBVIOUS
    <3> HIDE DEF v
    <3>2. c \in Calls /\ c.pc = "switched" /\ c.val = v
      BY <1>1, <3>1 DEF Calls, Places
    <3> QED BY <3>2 DEF v
  <2>2. CallOK(c) /\ Goes(r, c)
    BY <1>1, <1>3, <2>1 DEF CallOK, Calls
  <2> HIDE DEF c
  <2>3. CallsOK' /\ call'[r] = c /\ \A q \in Rpcs \ {r} : call'[q] = call[q]
    BY <2>1, <2>2, GoesOK DEF AgcInv, Shapes
  <2>4. /\ Sound(rt') /\ rt'.fun = call[r].val /\ rt'.sent = Nothing /\ rt'.st = rt.st /\ rt'.avail = rt.avail
        /\ rt'.published = rt.published /\ rt'.tuning = rt.tuning /\ rt'.handle = rt.handle
        /\ rt'.pending = rt.pending
    BY <1>1, <1>3, NothingOK DEF Sound, Groups, Tuning
  <2>5. work.stage = "none" /\ \A q \in Rpcs : call[q].pc \notin {"totalSet", "switched"}
    BY <1>1, NoOutput
  <2>6. BlockOf(rt') = BlockOf(rt)
    BY <2>4 DEF BlockOf
  <2>7. BlockFollows'
    BY <1>1, <2>3, <2>4, <2>5, <2>6
       DEF AgcInv, BlockFollows, BlockDue, RoundDue, Holding, Regulating, Tuning, At
  <2>8. Reserved'
    BY <1>1, <2>1, <2>3, <2>4, <2>5 DEF Reserved, Regulating, At
  <2>9. SetpointsFollow'
    BY <2>1, <2>3 DEF SetpointsFollow, AppliedDue
  <2> QED BY <1>1, <1>3, <2>1, <2>3, <2>4, <2>5, <2>7, <2>8, <2>9, NothingOK, OutCall DEF At
<1> QED BY <1>2, <1>3 DEF SwitchFunction

\* A caller that holds the output mutex and has not begun its output.
LEMMA HoldsOut ==
  ASSUME AgcInv, NEW r \in Rpcs, call[r].pc \in {"switched", "totalSet"}
  PROVE  /\ out = r /\ work.stage = "none" /\ \A q \in Rpcs \ {r} : call[q].pc \notin {"totalSet", "switched"}
<1>1. out = r
  BY DEF AgcInv, Locks
<1> QED BY <1>1 DEF AgcInv, Locks, At

LEMMA SwitchedKeeps == ASSUME AgcInv, NEW r \in Rpcs, Switched(r) PROVE AgcInv'
<1>1. /\ At(r, "switched") /\ mu = None /\ UNCHANGED <<thr, pub, mu, work, dc, left>> /\ out' = None
      /\ Sound(rt) /\ rt' = (IF call[r].val THEN Requested(rt) ELSE rt)
  BY DEF Switched, AgcInv, Shapes
<1>2. CallsOK' /\ call'[r].pc = "idle" /\ \A q \in Rpcs \ {r} : call'[q] = call[q]
  BY ReturnsOK DEF Switched, AgcInv, Shapes
<1>3. Same(rt, rt') /\ (call[r].val /\ rt.st = "running" => rt'.handle \in rt'.pending)
  BY <1>1, RequestedSame, SameSelf DEF Same
<1>4. work.stage = "none" /\ \A q \in Rpcs \ {r} : call[q].pc \notin {"totalSet", "switched"}
  BY <1>1, HoldsOut DEF At
<1>5. BlockOf(rt') = BlockOf(rt)
  BY <1>3, BlockOfSame
<1>6. (RoundDue => RoundDue') /\ (Regulating' <=> Regulating)
  BY <1>1, <1>3 DEF RoundDue, Regulating, Same, Tuning
<1>7. BlockFollows'
  BY <1>1, <1>2, <1>4, <1>5, <1>6 DEF AgcInv, BlockFollows, BlockDue, Holding, At
<1>8. ~left.crossed => Reserved' /\ SetpointsFollow'
  <2>1. Reserved'
    BY <1>2, <1>4 DEF Reserved, At
  <2>2. ~left.crossed /\ Regulating' /\ rt'.fun /\ rt'.cmd # None => RoundDue'
    BY <1>1, <1>3, <1>6 DEF AgcInv, Uncrossed, Reserved, RoundDue, Regulating, Same
  <2> QED BY <1>1, <2>1, <2>2 DEF SetpointsFollow, AppliedDue
<1> QED BY <1>1, <1>2, <1>3, <1>4, <1>7, <1>8, OutCall DEF Same, At

LEMMA TotalKeeps == ASSUME AgcInv, NEW r \in Rpcs, Total(r) PROVE AgcInv'
<1>1. /\ At(r, "total") /\ out = None /\ mu = None /\ UNCHANGED <<thr, pub, mu, work, dc, left>>
      /\ Sound(rt) /\ call[r].val \in Totals /\ call[r] \in Calls
  BY CallIs DEF Total, AgcInv, Shapes, CallsOK, CallOK, At, Places
<1>2. work.stage = "none" /\ \A q \in Rpcs : call[q].pc \notin {"totalSet", "switched"}
  BY <1>1, NoOutput
<1>3. CASE rt.st # "running" \/ Tuning(rt) \/ ~rt.remote \/ ~rt.fun
  <2>1. CallsOK' /\ call'[r].pc = "idle" /\ (\A q \in Rpcs \ {r} : call'[q] = call[q]) /\ UNCHANGED <<rt, out>>
    BY <1>3, ReturnsOK DEF Total, AgcInv, Shapes
  <2> QED BY <1>1, <2>1, CallStill, SameSelf DEF At, AgcInv, Shapes
<1>4. CASE rt.st = "running" /\ ~Tuning(rt) /\ rt.remote /\ rt.fun
  <2>1. After(rt, rt')
    BY <1>1, <1>4, RefreshedAfter DEF Total
  <2>2. /\ Sound(rt') /\ Regulating' /\ rt'.fun /\ rt'.avail = TakePart(rt)
        /\ \A m \in Members : rt'.sent[m] \in {None, rt.sent[m]}
        /\ rt' = rt \/ RoundDue'
    BY <1>1, <1>4, <2>1 DEF After, Regulating, RoundDue, Tuning
  <2>3. BlockOf(rt)' = BlockOf(rt') /\ (rt' = rt => Goal' = Goal)
    BY DEF Goal, BlockOf
  <2>4. ASSUME CallsOK', call'[r].pc \in {"idle", "totalSet"}, \A q \in Rpcs \ {r} : call'[q] = call[q]
        PROVE  BlockFollows' /\ (~left.crossed => SetpointsFollow')
    <3>1. CASE rt' = rt
      <4>1. BlockFollows'
        BY <1>1, <1>2, <2>4, <3>1 DEF AgcInv, BlockFollows, BlockDue, RoundDue, Holding, Regulating, Tuning,
                                      At, BlockOf
      <4>2. ~left.crossed => SetpointsFollow'
        BY <1>1, <1>2, <2>4, <3>1 DEF AgcInv, Uncrossed, SetpointsFollow, AppliedDue, Applied, RoundDue,
                                      Working, Goal, Regulating, Tuning, At
      <4> QED BY <4>1, <4>2
    <3>2. CASE RoundDue'
      BY <3>2 DEF BlockFollows, BlockDue, SetpointsFollow, AppliedDue
    <3> QED BY <3>1, <3>2, <2>2
  <2>5. CASE Returns(r) /\ UNCHANGED out
    <3>1. CallsOK' /\ call'[r].pc = "idle" /\ \A q \in Rpcs \ {r} : call'[q] = call[q]
      BY <2>5, ReturnsOK DEF AgcInv, Shapes
    <3>2. Reserved'
      BY <1>2, <3>1 DEF Reserved, At
    <3> QED BY <1>1, <1>2, <2>2, <2>4, <2>5, <3>1, <3>2, OutCall DEF At
  <2>6. CASE out' = r /\ Goes(r, [call[r] EXCEPT !.pc = "totalSet", !.among = TakePart(rt)])
    <3> DEFINE c == [call[r] EXCEPT !.pc = "totalSet", !.among = TakePart(rt)]
    <3>1. c \in Calls /\ c.pc = "totalSet" /\ c.val = call[r].val /\ c.among = TakePart(rt)
      BY <1>1, TakePartOK DEF Calls, Places
    <3>2. CallOK(c)
      BY <1>1, <3>1 DEF CallOK
    <3> HIDE DEF c
    <3>3. CallsOK' /\ call'[r] = c /\ \A q \in Rpcs \ {r} : call'[q] = call[q]
      BY <2>6, <3>1, <3>2, GoesOK DEF c, AgcInv, Shapes
    <3>4. Reserved'
      BY <1>2, <2>2, <3>1, <3>3 DEF Reserved, At
    <3> QED BY <1>1, <1>2, <2>2, <2>4, <2>6, <3>1, <3>3, <3>4, OutCall DEF At
  <2> QED BY <1>4, <2>5, <2>6 DEF Total
<1> QED BY <1>1, <1>3, <1>4 DEF Sound, Groups

LEMMA TotalSetKeeps == ASSUME AgcInv, NEW r \in Rpcs, TotalSet(r) PROVE AgcInv'
<1>1. /\ At(r, "totalSet") /\ mu = None /\ UNCHANGED <<thr, pub, mu, dc, left>>
      /\ Sound(rt) /\ call[r].val \in Totals /\ call[r] \in Calls
  BY CallIs DEF TotalSet, AgcInv, Shapes, CallsOK, CallOK, At, Places
<1>2. /\ out = r /\ work.stage = "none"
      /\ \A q \in Rpcs \ {r} : call[q].pc \notin {"totalSet", "switched"}
  BY <1>1, HoldsOut DEF At
<1>3. CASE rt.st # "running"
  <2>1. /\ CallsOK' /\ call'[r].pc = "idle" /\ (\A q \in Rpcs \ {r} : call'[q] = call[q])
        /\ out' = None /\ UNCHANGED <<rt, work>>
    BY <1>3, ReturnsOK DEF TotalSet, AgcInv, Shapes
  <2>2. BlockFollows' /\ SetpointsFollow' /\ Reserved'
    BY <1>2, <1>3, <2>1 DEF BlockFollows, SetpointsFollow, Reserved, Regulating, At
  <2> QED BY <1>1, <1>2, <2>1, <2>2, OutCall DEF At
<1>4. CASE rt.st = "running"
  <2>1. /\ rt' = [rt EXCEPT !.cmd = call[r].val, !.fresh = {r}]
        /\ work' = [by |-> r, stage |-> "limits", todo |-> call[r].among, block |-> None,
                    gives |-> TRUE, value |-> Setpoint(call[r].val, call[r].among), crossed |-> FALSE]
        /\ To(r, "out") /\ UNCHANGED out
    BY <1>4 DEF TotalSet
  <2>2. CallsOK' /\ call'[r].pc = "out" /\ \A q \in Rpcs \ {r} : call'[q] = call[q]
    BY <1>1, <2>1, ToOK DEF AgcInv, Shapes, At, Places
  <2>3. /\ Sound(rt') /\ rt'.cmd = call[r].val /\ rt'.fresh = {r} /\ rt'.st = rt.st /\ rt'.tuning = rt.tuning
        /\ rt'.fun = rt.fun /\ rt'.avail = rt.avail /\ rt'.sent = rt.sent
    BY <1>1, <2>1 DEF Sound, Groups, Tuning, Commands, Holders
  <2>4. work' \in Works /\ work'.stage = "limits" /\ work'.by = r /\ ~work'.crossed
    BY <1>1, <2>1 DEF Works, Holders, Stages, Setpoint, Setpoints, Calls
  <2>5. Shapes'
    BY <1>1, <2>1, <2>2, <2>3, <2>4 DEF AgcInv, Shapes, WorkOK, LocksOK, ThreadsOK
  <2>6. \A q \in Rpcs : call[q].pc \notin {"joinOld", "eraseTuner", "joinErase"}
    BY <1>1, NamesAssumption DEF AgcInv, Locks, At
  <2>7. Locks'
    BY <1>1, <1>2, <2>1, <2>2, <2>4, <2>6, NamesAssumption DEF AgcInv, Locks, At
  <2>8. Sends' /\ Finished' /\ BlockFollows'
    BY <2>4 DEF Sends, Finished, BlockFollows, BlockDue
  <2>9. ASSUME ~left.crossed PROVE Recorded' /\ Computed' /\ Reserved' /\ SetpointsFollow'
    <3>1. Recorded /\ rt.fun /\ call[r].among = rt.avail
      BY <1>1, <2>9 DEF AgcInv, Uncrossed, Reserved
    <3>2. Recorded'
      BY <1>1, <1>2, <2>3, <2>4, <3>1 DEF Recorded
    <3>3. Computed'
      BY <1>1, <2>1, <2>3, <3>1, NamesAssumption DEF Computed, Goal
    <3>4. Reserved'
      BY <1>2, <2>2 DEF Reserved, At
    <3>5. SetpointsFollow'
      BY <2>3, <2>4 DEF SetpointsFollow, AppliedDue, Working
    <3> QED BY <3>2, <3>3, <3>4, <3>5
  <2> QED BY <1>1, <2>5, <2>7, <2>8, <2>9 DEF AgcInv, Uncrossed
<1> QED BY <1>3, <1>4

LEMMA TuneGoKeeps == ASSUME AgcInv, NEW r \in Rpcs, TuneGo(r) PROVE AgcInv'
<1>1. /\ At(r, "tuneGo") /\ mu = None /\ UNCHANGED <<out, pub, mu, work, dc, left>> /\ Sound(rt)
      /\ call[r].block \in [Members -> Beats]
  BY DEF TuneGo, AgcInv, Shapes, CallsOK, CallOK, At
<1>2. CallsOK' /\ call'[r].pc = "idle" /\ \A q \in Rpcs \ {r} : call'[q] = call[q]
  BY ReturnsOK DEF TuneGo, AgcInv, Shapes
<1>3. CASE rt.st # "stopped" \/ r \notin rt.fresh
  <2>1. UNCHANGED <<rt, thr>>
    BY <1>3 DEF TuneGo
  <2> QED BY <1>1, <1>2, <2>1, CallStill, SameSelf DEF At, AgcInv, Shapes
<1>4. CASE rt.st = "stopped" /\ r \in rt.fresh
  <2> DEFINE f == [m \in Members |-> Beaten(rt, m, call[r].block[m]).beat[m]]
             b == [rt EXCEPT !.beat = f]
             g == Refreshed(b)
  <2>1. f \in [Members -> Beats]
    <3>1. ASSUME NEW m \in Members PROVE Beaten(rt, m, call[r].block[m]).beat[m] \in Beats
      <4>1. Sound(Beaten(rt, m, call[r].block[m]))
        BY <1>1, BeatenSame DEF Same
      <4> QED BY <4>1 DEF Sound, Groups
    <3> QED BY <3>1
  <2> HIDE DEF f
  <2>2. Same(rt, b) /\ b.fresh = rt.fresh
    BY <1>1, <2>1 DEF Same, Sound, Groups, Tuning
  <2> HIDE DEF b
  <2>3. After(b, g)
    BY <2>2, RefreshedAfter DEF Same
  <2>4. /\ rt' = g /\ UNCHANGED thr
        \/ \E t \in Slots : /\ Free(t) /\ thr' = [thr EXCEPT ![t] = Threads(TRUE)]
                            /\ rt' = [Started(Rebuilt(g, FALSE), t) EXCEPT !.tuner = t, !.tuning = "up",
                                                                  !.beat = g.beat, !.avail = g.avail]
    BY <1>4 DEF TuneGo, f, b
  <2> HIDE DEF g
  <2>5. g.st = "stopped" /\ g.fun = rt.fun /\ Sound(g) /\ \A m \in Members : g.sent[m] \in {None, rt.sent[m]}
    BY <1>4, <2>2, <2>3 DEF After, Same
  <2>6. \A q \in Rpcs : call[q].pc \notin {"joinOld", "eraseTuner", "joinErase"}
    BY <1>1, NamesAssumption DEF AgcInv, Locks, At
  <2>7. work.stage \in {"send", "record"} => work.crossed /\ left.crossed /\ rt.fun
    BY <1>4 DEF AgcInv, Sends, Current, Shapes, WorkOK
  <2>8. ASSUME rt'.fun = rt.fun, ~Regulating' PROVE ~left.crossed => Reserved'
    BY <1>1, <1>2, <1>4, <2>8 DEF AgcInv, Uncrossed, Reserved, Regulating, At
  <2>9. CASE rt' = g /\ UNCHANGED thr
    <3>1. CASE Same(rt, rt') /\ rt'.fresh = rt.fresh
      BY <1>1, <1>2, <2>9, <3>1, CallStill DEF At, AgcInv, Shapes
    <3>2. CASE rt'.fresh = {}
      <4>1. Shapes'
        BY <1>1, <1>2, <2>5, <2>9 DEF AgcInv, Shapes, WorkOK, LocksOK, ThreadsOK
      <4>2. Locks' /\ Finished' /\ ~Regulating'
        BY <1>1, <1>2, <2>5, <2>6, <2>9, CallLocks DEF AgcInv, Finished, At, Regulating
      <4> QED BY <1>1, <2>5, <2>7, <2>8, <2>9, <3>2, <4>1, <4>2, Voided
    <3> QED BY <2>2, <2>3, <2>9, <3>1, <3>2, AfterIs
  <2>10. ASSUME NEW t \in Slots, Free(t), thr' = [thr EXCEPT ![t] = Threads(TRUE)],
                rt' = [Started(Rebuilt(g, FALSE), t) EXCEPT !.tuner = t, !.tuning = "up",
                                                            !.beat = g.beat, !.avail = g.avail]
         PROVE  AgcInv'
    <3> DEFINE h == Started(Rebuilt(g, FALSE), t)
    <3>1. /\ Sound(h) /\ h.st = "running" /\ h.handle = t /\ h.fun = rt.fun /\ h.fresh = {}
          /\ h.sent = Nothing
      <4>1. /\ Sound(Rebuilt(g, FALSE)) /\ Rebuilt(g, FALSE).fun = rt.fun /\ Rebuilt(g, FALSE).fresh = {}
            /\ Rebuilt(g, FALSE).sent = Nothing
        BY <2>5, RebuiltOK
      <4> QED BY <4>1, StartedOK
    <3> HIDE DEF h
    <3>2. rt' = [h EXCEPT !.tuner = t, !.tuning = "up", !.beat = g.beat, !.avail = g.avail]
      BY <2>10 DEF h
    <3>3. /\ Sound(rt') /\ rt'.st = "running" /\ rt'.fun = rt.fun /\ rt'.fresh = {}
          /\ rt'.sent = Nothing /\ Tuning(rt')
      BY <2>5, <3>1, <3>2 DEF Sound, Groups, Tuning
    <3>4. ThreadsOK' /\ \A u \in Slots : thr[u].ctl \in {"tick", "out"} => thr'[u].ctl = thr[u].ctl
      BY <2>10, FreeOK DEF AgcInv, Shapes
    <3>5. Shapes'
      BY <1>1, <1>2, <3>3, <3>4 DEF AgcInv, Shapes, WorkOK, LocksOK
    <3>6. Locks' /\ Finished' /\ ~Regulating'
      BY <1>1, <1>2, <2>6, <3>3, <3>4, CallLocks DEF AgcInv, Finished, At, Regulating, Tuning
    <3>7. \A m \in Members : rt'.sent[m] = None
      BY <3>3, NothingOK
    <3> QED BY <1>1, <2>7, <2>8, <3>3, <3>5, <3>6, <3>7, Voided
  <2> QED BY <2>4, <2>9, <2>10
<1> QED BY <1>3, <1>4
-----------------------------------------------------------------------------
(* What happens outside, and where the group begins. *)

LEMMA EventKeeps ==
  ASSUME AgcInv, NEW tags, tags \subseteq Tags, Event(tags), dc' \in DataCenters,
         dc'.set = dc.set, dc'.block = dc.block
  PROVE  AgcInv'
<1>1. /\ left.events > 0 /\ left' = [left EXCEPT !.events = @ - 1] /\ UNCHANGED <<rt, out, pub, mu, work, call>>
      /\ thr' = [t \in Slots |-> IF thr[t].sub = "off" THEN thr[t] ELSE [thr[t] EXCEPT !.due = @ \cup tags]]
  BY DEF Event
<1>2. left' \in Lefts /\ left'.failed = left.failed /\ left'.crossed = left.crossed
  <2>1. left \in Lefts /\ left.events - 1 \in Nat
    BY <1>1, CrossedOK DEF Lefts
  <2> QED BY <1>1, <2>1 DEF Lefts
<1>3. ASSUME NEW t \in Slots
      PROVE  thr'[t] \in Generations /\ thr'[t].ctl = thr[t].ctl /\ ThreadOK(thr'[t])
  <2>1. thr[t] \in Generations /\ ThreadOK(thr[t])
    BY DEF AgcInv, Shapes, ThreadsOK
  <2>2. CASE thr[t].sub = "off"
    BY <1>1, <2>1, <2>2
  <2>3. CASE thr[t].sub # "off"
    <3>1. thr'[t] = [thr[t] EXCEPT !.due = @ \cup tags]
      BY <1>1, <2>3
    <3>2. /\ thr'[t] \in Generations /\ thr'[t].ctl = thr[t].ctl /\ thr'[t].sub = thr[t].sub
          /\ thr'[t].upd = thr[t].upd
      BY <2>1, <3>1 DEF Generations
    <3> QED BY <2>1, <3>2 DEF ThreadOK
  <2> QED BY <2>2, <2>3
<1>4. ThreadsOK'
  BY <1>1, <1>3 DEF ThreadsOK
<1>5. Shapes'
  BY <1>1, <1>2, <1>4 DEF AgcInv, Shapes, WorkOK, CallsOK, LocksOK
<1> QED BY <1>1, <1>2, <1>3, <1>5, Still, SameSelf

LEMMA OutsideKeeps ==
  ASSUME AgcInv,
         \/ \E v \in Totals : CommandPoint(v)
         \/ \E m \in Members : HeartbeatExpires(m) \/ \E ok \in BOOLEAN : Heartbeat(m, ok)
  PROVE  AgcInv'
<1>1. dc \in DataCenters /\ dc.beat \in [Members -> Beats] /\ dc.expired \in [Members -> Nat]
  BY DEF AgcInv, Shapes, DataCenters
<1>2. ASSUME NEW v \in Totals, CommandPoint(v) PROVE AgcInv'
  <2>1. dc' \in DataCenters /\ dc'.set = dc.set /\ dc'.block = dc.block /\ Event({"cmd"})
    BY <1>1, <1>2 DEF CommandPoint, DataCenters, Commands
  <2> QED BY <2>1, EventKeeps DEF Tags
<1>3. ASSUME NEW m \in Members, HeartbeatExpires(m) PROVE AgcInv'
  <2>1. dc.beat[m].ts \in Nat
    BY <1>1 DEF Beats
  <2>2. [dc.expired EXCEPT ![m] = dc.beat[m].ts] \in [Members -> Nat]
    BY <1>1, <2>1
  <2>3. dc' = [dc EXCEPT !.expired = [dc.expired EXCEPT ![m] = dc.beat[m].ts]] /\ Event({})
    BY <1>1, <1>3 DEF HeartbeatExpires, DataCenters
  <2>4. dc' \in DataCenters /\ dc'.set = dc.set /\ dc'.block = dc.block
    BY <1>1, <2>2, <2>3 DEF DataCenters
  <2> QED BY <2>3, <2>4, EventKeeps
<1>4. ASSUME NEW m \in Members, NEW ok \in BOOLEAN, Heartbeat(m, ok) PROVE AgcInv'
  <2> DEFINE b == [ok |-> ok, ts |-> dc.beat[m].ts + 1]
  <2>1. b \in Beats
    BY <1>1 DEF Beats
  <2>2. [dc.beat EXCEPT ![m] = b] \in [Members -> Beats]
    BY <1>1, <2>1
  <2>3. dc' = [dc EXCEPT !.beat = [dc.beat EXCEPT ![m] = b]] /\ Event({m})
    BY <1>1, <1>4 DEF Heartbeat, DataCenters
  <2> HIDE DEF b
  <2>4. dc' \in DataCenters /\ dc'.set = dc.set /\ dc'.block = dc.block
    BY <1>1, <2>2, <2>3 DEF DataCenters
  <2> QED BY <2>3, <2>4, EventKeeps DEF Tags
<1> QED BY <1>2, <1>3, <1>4

LEMMA RunningOK ==
  ASSUME NEW t \in Slots, NEW total \in Commands
  PROVE  LET g == Running(t, total)
         IN /\ Sound(g) /\ g.st = "running" /\ g.handle = t /\ g.cmd = total /\ g.avail = Members
            /\ g.fresh = {} /\ g.sent = g.published
            /\ total # None => \A m \in Members : g.published[m] = Setpoint(total, Members)
<1> DEFINE set == IF total = None THEN Nothing ELSE [m \in Members |-> Setpoint(total, Members)]
<1>1. Setpoint(total, Members) \in Setpoints
  BY DEF Setpoint, Setpoints, Commands
<1>2. set \in Outputs
  BY <1>1, NothingOK DEF Outputs
<1>3. total # None => \A m \in Members : set[m] = Setpoint(total, Members)
  OBVIOUS
<1>4. Alive \in [Members -> Beats]
  BY DEF Alive, Beats
<1> HIDE DEF set
<1>5. Running(t, total) = [NewGroup EXCEPT !.st = "running", !.handle = t, !.cmd = total, !.beat = Alive,
                                           !.avail = Members, !.sent = set, !.published = set]
  BY DEF Running, set
<1> DEFINE g == [NewGroup EXCEPT !.st = "running", !.handle = t, !.cmd = total, !.beat = Alive,
                                 !.avail = Members, !.sent = set, !.published = set]
<1>6. /\ g \in Groups /\ g.st = "running" /\ g.handle = t /\ g.cmd = total /\ g.avail = Members
      /\ g.fresh = {} /\ g.sent = set /\ g.published = set
  <2>1. NewGroup \in Groups /\ NewGroup.fresh = {}
    BY NewGroupOK DEF Sound, NewGroup
  <2> QED BY <1>2, <1>4, <2>1 DEF Groups
<1>7. Sound(g)
  BY <1>6 DEF Sound
<1> HIDE DEF g
<1>8. Running(t, total) = g
  BY <1>5 DEF g
<1> QED BY <1>3, <1>6, <1>7, <1>8

\* Where a world begins.
LEMMA WorldOK ==
  ASSUME NEW w \in Worlds
  PROVE  /\ Sound(w.group) /\ w.beat \in [Members -> Beats] /\ w.left \in Lefts
         /\ \A m \in Members : w.group.sent[m] \in {None, w.group.published[m]}
         /\ \/ w.group.st # "running"
            \/ \E total \in Commands :
                 /\ w.group.cmd = total
                 /\ total # None => \A m \in w.group.avail :
                                      w.group.published[m] = Setpoint(total, w.group.avail)
<1>1. /\ w.group.cmd \in Commands /\ w.group.avail \subseteq Members
      /\ w.group.beat \in [Members -> Beats] /\ w.beat \in [Members -> Beats]
      /\ w.left \in [ask : [Rpcs -> SUBSET Requests], events : Nat, faults : Nat,
                     failed : {FALSE}, crossed : {FALSE}]
      /\ \/ w.group = Absent
         \/ w.group = [NewGroup EXCEPT !.cmd = w.group.cmd, !.beat = w.group.beat, !.avail = w.group.avail]
         \/ \E t \in Slots, total \in Commands : w.group = Running(t, total)
  BY WorldsAssumption DEF Beats, Commands
<1>2. w.left \in Lefts
  BY <1>1 DEF Lefts
<1>3. CASE w.group = Absent
  BY <1>1, <1>2, <1>3, NewGroupOK, NothingOK
<1>4. CASE w.group = [NewGroup EXCEPT !.cmd = w.group.cmd, !.beat = w.group.beat, !.avail = w.group.avail]
  <2> DEFINE c == w.group.cmd
             b == w.group.beat
             a == w.group.avail
  <2>1. c \in Commands /\ b \in [Members -> Beats] /\ a \subseteq Members
    BY <1>1
  <2>2. w.group = [NewGroup EXCEPT !.cmd = c, !.beat = b, !.avail = a]
    BY <1>4
  <2> HIDE DEF c, b, a
  <2>3. Sound(w.group) /\ w.group.st = "stopped" /\ w.group.sent = Nothing
    BY <2>1, <2>2, NewGroupOK DEF Sound, Groups, Tuning
  <2> QED BY <1>1, <1>2, <2>3, NothingOK
<1>5. ASSUME NEW t \in Slots, NEW total \in Commands, w.group = Running(t, total)
      PROVE  /\ Sound(w.group)
             /\ \A m \in Members : w.group.sent[m] \in {None, w.group.published[m]}
             /\ w.group.cmd = total
             /\ total # None => \A m \in w.group.avail :
                                  w.group.published[m] = Setpoint(total, w.group.avail)
  BY <1>5, RunningOK
<1> QED BY <1>1, <1>2, <1>3, <1>4, <1>5

LEMMA AgcInitInv == AgcInit => AgcInv
<1> SUFFICES ASSUME NEW w \in Worlds, rt = w.group,
                    thr = [t \in Slots |-> IF t = w.group.handle
                                THEN [OffThreads EXCEPT !.ctl = "wait", !.sub = "wait"] ELSE OffThreads],
                    out = None, pub = None, mu = None, work = NoWork, call = [r \in Rpcs |-> NoCall],
                    dc = [cmd |-> w.group.cmd, beat |-> w.beat, expired |-> [m \in Members |-> 0],
                          set |-> w.group.published, block |-> BlockOf(w.group)],
                    left = w.left
             PROVE  AgcInv
  BY DEF AgcInit
<1>1. ThreadsOK
  <2>1. /\ OffThreads \in Generations /\ ThreadOK(OffThreads)
        /\ [OffThreads EXCEPT !.ctl = "wait", !.sub = "wait"] \in Generations
        /\ ThreadOK([OffThreads EXCEPT !.ctl = "wait", !.sub = "wait"])
    BY DEF OffThreads, Generations, ThreadOK
  <2> QED BY <2>1 DEF ThreadsOK
<1>2. CallsOK /\ \A r \in Rpcs : call[r].pc = "idle"
  BY NoCallOK DEF CallsOK
<1>3. dc \in DataCenters
  <2>1. BlockOf(w.group) \in Blocks /\ w.group.published \in Outputs /\ w.group.cmd \in Commands
    BY WorldOK, BlockOfOK DEF Sound, Groups
  <2> QED BY <2>1, WorldOK DEF DataCenters
<1>4. work.stage = "none"
  BY DEF NoWork
<1>5. Shapes
  BY <1>1, <1>2, <1>3, <1>4, WorldOK DEF Shapes, WorkOK, LocksOK
<1>6. Locks /\ Sends /\ Finished
  BY <1>2, <1>4 DEF Locks, Sends, Finished, At
<1>7. BlockFollows
  BY DEF BlockFollows, Holding
<1>8. Recorded /\ Computed /\ Reserved
  BY <1>2, <1>4, WorldOK DEF Recorded, Computed, Reserved, Working, At
<1>9. SetpointsFollow
  BY WorldOK DEF SetpointsFollow, Applied, Goal, Regulating
<1> QED BY <1>5, <1>6, <1>7, <1>8, <1>9 DEF AgcInv, Uncrossed
-----------------------------------------------------------------------------
LEMMA StutterKeeps == ASSUME AgcInv, UNCHANGED agcVars PROVE AgcInv'
<1>1. Shapes'
  BY DEF agcVars, AgcInv, Shapes, ThreadsOK, WorkOK, CallsOK, LocksOK
<1> QED BY <1>1, Still, SameSelf DEF agcVars

LEMMA ThreadStepKeeps ==
  ASSUME AgcInv, NEW t \in Slots, ThreadStep(t) \/ TuneWakes(t) \/ TuneRound(t) \/ Measurement(t)
  PROVE  AgcInv'
BY SubReadKeeps, SubApplyKeeps, ThreadOnlyKeeps, CtlChecksKeeps, CtlTickKeeps, TuneRoundKeeps,
   MeasurementKeeps DEF ThreadStep

LEMMA OutputKeeps == ASSUME AgcInv, Output PROVE AgcInv'
BY OutLimitsKeeps, OutBlockReadKeeps, OutBlockNoneKeeps, OutBlockSendKeeps, OutComputeKeeps,
   OutComputeFailsKeeps, OutMemberKeeps, OutMembersDoneKeeps, OutSendKeeps, OutSendFailsKeeps,
   OutRecordKeeps DEF Output

LEMMA CallStepKeeps == ASSUME AgcInv, NEW r \in Rpcs, CallStep(r) PROVE AgcInv'
BY UpsertKeeps, LimitsKeeps, BlockReadKeeps, BlockSendKeeps, AutoStartKeeps, StartKeeps, JoinOldKeeps,
   StopKeeps, AskStopKeeps, JoinKeeps, JoinTunerKeeps, DropKeeps, EraseTunerKeeps, JoinEraseKeeps,
   SwitchFunctionKeeps, SwitchedKeeps, SwitchRemoteKeeps, TotalKeeps, TotalSetKeeps, TuneKeeps,
   TuneReadKeeps, TuneGoKeeps, UntuneKeeps DEF CallStep

\* The invariant of the group, with all that is owed and reserved.
THEOREM AgcInvariant == AgcSpec => []AgcInv
<1>1. ASSUME AgcInv, [AgcNext]_agcVars PROVE AgcInv'
  BY <1>1, StutterKeeps, ThreadStepKeeps, OutputKeeps, CallStepKeeps, BeginKeeps, OutsideKeeps DEF AgcNext
<1> QED BY <1>1, AgcInitInv, PTL DEF AgcSpec

\* The types of the group, of its threads and of its locks; and the block points
\* in DataCenter are those of the setpoints last published, whichever of the
\* control thread, a total command, UpsertGroup and StartGroup published them last,
\* unless that last publication failed; one that failed before it was made good.
THEOREM SafeAgc == AgcSpec => []AgcSafe
<1>1. ASSUME AgcInv PROVE AgcTypeOK
  <2>1. Sound(rt) /\ thr \in [Slots -> Generations] /\ LocksOK
    BY <1>1 DEF AgcInv, Shapes, ThreadsOK
  <2> QED BY <2>1, NewGroupOK DEF AgcTypeOK, Sound, Groups, Generations, LocksOK, Locked, Holders, Commands
<1>2. ASSUME AgcInv PROVE BlockIsCurrent
  <2> SUFFICES ASSUME Quiet PROVE dc.block \in {BlockOf(rt), None}
    BY DEF BlockIsCurrent
  <2>1. work.stage = "none" /\ Regulating /\ ~RoundDue /\ \A r \in Rpcs : call[r].pc = "idle"
    BY <1>2, NoOutput DEF Quiet, AllIdle, Regulating, RoundDue, At
  <2>2. Holding(BlockOf(rt))
    BY <1>2, <2>1 DEF AgcInv, BlockFollows, BlockDue
  <2> QED BY <2>1, <2>2 DEF Holding, At
<1> QED BY <1>1, <1>2, AgcInvariant, PTL DEF AgcSafe

\* A running group that has nothing left to do has sent its members what it was
\* last told, unless it was changed under an output: no wake-up of the control
\* thread is lost, and no remembered setpoint hides that a member has another one.
THEOREM AppliedWhenIdle == AgcSpec => []IdleIsApplied
<1>1. ASSUME AgcInv PROVE IdleIsApplied
  <2> SUFFICES ASSUME ~left.crossed, Quiet, rt.fun, rt.cmd # None, ~left.failed, NEW m \in rt.avail
               PROVE  dc.set[m] = Setpoint(rt.cmd, rt.avail)
    BY DEF IdleIsApplied, IdleApplied
  <2>1. work.stage = "none" /\ Regulating /\ ~RoundDue /\ \A r \in Rpcs : call[r].pc = "idle"
    BY <1>1, NoOutput DEF Quiet, AllIdle, Regulating, RoundDue, At
  <2>2. Applied
    BY <1>1, <2>1 DEF AgcInv, Uncrossed, SetpointsFollow, AppliedDue, Working
  <2> QED BY <2>2 DEF Applied, Goal
<1> QED BY <1>1, AgcInvariant, PTL

\* No setpoint leaves for a group that was stopped or whose function was switched
\* off, unless the tail of an upsert or a deletion changed it under that very
\* output: the calls that stop or switch take the output mutex first.
THEOREM SentWhenOn == AgcSpec => SentOnlyWhenOn
<1>1. ASSUME AgcInv PROVE work.stage = "send" => work.crossed \/ (rt.st = "running" /\ rt.fun)
  BY <1>1 DEF AgcInv, Sends, Current
<1> QED BY <1>1, AgcInvariant, PTL DEF SentOnlyWhenOn
=============================================================================
