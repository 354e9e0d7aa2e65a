------------------------------- MODULE AgcGroup -------------------------------
(***************************************************************************)
(* One control group of the AGC module in its event driven mode: what its  *)
(* RPC handlers, its control thread, its subscription thread and its       *)
(* tuning thread do to it at the same time.  A step is what happens under  *)
(* mu_, or one call of DataCenter.  The output mutex of the group (out)    *)
(* and the one of its block points (pub) are held over several steps.      *)
(*                                                                         *)
(* Amounts are abstract: the setpoint of a member is what it is computed   *)
(* from, the total and the members that take part.  A revision is only     *)
(* compared for equality, so rt.fresh holds those whose captured revision  *)
(* is still the revision of the group.                                     *)
(***************************************************************************)
EXTENDS Naturals, FiniteSets

CONSTANTS Members,   \* members of the group, all with a communication point
          Totals,    \* values of the total command
          Rpcs,      \* concurrent callers
          Slots,     \* bound: generations of threads that can be alive
          Worlds,    \* where to begin: a group, heartbeats, what callers ask
          None

\* What a caller may ask.
Requests == [op : {"upsert", "start", "stop", "delete", "tune", "untune"}, val : {None}]
            \cup [op : {"function", "remote"}, val : BOOLEAN] \cup [op : {"total"}, val : Totals]

VARIABLES rt,     \* GroupRuntime
          thr,    \* the threads of each generation
          out,    \* holder of outputMutex
          pub,    \* holder of directionBlockPublishMutex
          mu,     \* a caller that joins a thread while it holds mu_
          work,   \* the output being published by the holder of out
          call,   \* the call of each caller
          dc,     \* DataCenter: command, heartbeats, setpoints, and block points: None
                  \* when the last publication of the two points failed
          left    \* bounds: what each caller may still ask, events, faults; and whether
                  \* an output failed, or the group was ever changed under one

agcVars == <<rt, thr, out, pub, mu, work, call, dc, left>>

Nothing == [m \in Members |-> None]
NeverBeat == [m \in Members |-> [ok |-> FALSE, ts |-> 0]]
Tuning(g) == g.tuning \in {"up", "down"}
Setpoint(total, among) == [total |-> total, among |-> among]

\* rebuildTagCache: the inputs start again, what was published may be kept.
Rebuilt(g, reset) ==
    [g EXCEPT !.cmd = None, !.beat = NeverBeat, !.avail = {}, !.sent = Nothing, !.fresh = {},
              !.published = IF reset THEN Nothing ELSE @]

NewGroup ==
    [st |-> "stopped", fun |-> TRUE, remote |-> TRUE, cmd |-> None, tuning |-> "none",
     beat |-> NeverBeat, avail |-> {}, sent |-> Nothing, published |-> Nothing, fresh |-> {},
     handle |-> None, tuner |-> None, pending |-> {}, stopping |-> {}]

Absent == [NewGroup EXCEPT !.st = "absent"]

\* requestControlLocked
Requested(g) == IF g.st = "running" /\ g.handle # None
                  THEN [g EXCEPT !.pending = @ \cup {g.handle}] ELSE g

\* Those whose heartbeat is good and not too old take part.
TakePart(g) == {m \in Members : g.beat[m].ok /\ g.beat[m].ts > dc.expired[m]}
Forget(f, ms) == [m \in Members |-> IF m \in ms THEN None ELSE f[m]]

\* Mutant: a change of who takes part asks for no new round.
RefreshedQuietly(g) ==
    LET now == TakePart(g)
        changed == (now \ g.avail) \cup (g.avail \ now)
    IN IF changed = {} THEN g
       ELSE [g EXCEPT !.avail = now, !.fresh = {}, !.sent = Forget(@, changed),
                      !.published = Forget(@, changed)]

\* refreshCommunicationAvailabilityLocked
Refreshed(g) ==
    LET now == TakePart(g)
        changed == (now \ g.avail) \cup (g.avail \ now)
        after == [g EXCEPT !.avail = now, !.fresh = {}, !.sent = Forget(@, changed),
                           !.published = Forget(@, changed)]
    IN IF changed = {} THEN g
       ELSE IF Tuning(g)
         THEN [after EXCEPT !.tuning = "ended", !.st = "stopped", !.stopping = @ \cup {g.handle}]
         ELSE Requested(after)

\* handleUpdateLocked for a heartbeat: an old good one does not count.
Beaten(g, m, beat) ==
    IF beat.ok /\ beat.ts <= g.beat[m].ts THEN g
    ELSE [g EXCEPT !.beat[m] = [ok |-> beat.ok, ts |-> IF beat.ts > @.ts THEN beat.ts ELSE @.ts]]

\* ComputeDirectionBlockOutput: known when every member that takes part has a
\* published setpoint.
BlockOf(g) ==
    IF \E m \in g.avail : g.published[m] = None THEN [known |-> FALSE, at |-> Nothing]
    ELSE [known |-> TRUE, at |-> Forget(g.published, Members \ g.avail)]

At(r, pc) == call[r].pc = pc
OffThreads == [ctl |-> "off", sub |-> "off", tun |-> "off", due |-> {}, upd |-> None]
NoWork == [stage |-> "none"]
NoCall == [pc |-> "idle"]

\* Before the group exists, or after it was stopped, or while it runs and
\* everything it was told is applied.
Alive == [m \in Members |-> [ok |-> TRUE, ts |-> 1]]
Running(t, total) ==
    LET set == IF total = None THEN Nothing ELSE [m \in Members |-> Setpoint(total, Members)]
    IN [NewGroup EXCEPT !.st = "running", !.handle = t, !.cmd = total, !.beat = Alive, !.avail = Members,
                        !.sent = set, !.published = set]

ASSUME NamesAssumption ==
    /\ None \notin Members \cup Totals \cup Slots \cup Rpcs
                 \cup [total : Totals \cup {None, "up", "down"}, among : SUBSET Members]
    /\ Slots \cap Rpcs = {} /\ "cmd" \notin Members

\* A world begins with no group, a stopped or a running one.
ASSUME WorldsAssumption ==
    \A w \in Worlds :
      /\ \/ w.group = Absent
         \/ w.group = [NewGroup EXCEPT !.cmd = w.group.cmd, !.beat = w.group.beat, !.avail = w.group.avail]
         \/ \E t \in Slots, total \in Totals \cup {None} : w.group = Running(t, total)
      /\ w.group.cmd \in Totals \cup {None} /\ w.group.avail \subseteq Members
      /\ w.group.beat \in [Members -> [ok : BOOLEAN, ts : Nat]]
      /\ w.beat \in [Members -> [ok : BOOLEAN, ts : Nat]]
      /\ w.left \in [ask : [Rpcs -> SUBSET Requests], events : Nat, faults : Nat,
                     failed : {FALSE}, crossed : {FALSE}]

AgcInit ==
    \E w \in Worlds :
      /\ rt = w.group
      /\ thr = [t \in Slots |-> IF t = w.group.handle
                                THEN [OffThreads EXCEPT !.ctl = "wait", !.sub = "wait"] ELSE OffThreads]
      /\ out = None /\ pub = None /\ mu = None /\ work = NoWork
      /\ call = [r \in Rpcs |-> NoCall]
      /\ dc = [cmd |-> w.group.cmd, beat |-> w.beat, expired |-> [m \in Members |-> 0],
               set |-> w.group.published, block |-> BlockOf(w.group)]
      /\ left = w.left

(***************************************************************************)
(* Threads.  A generation is the control thread, the subscription thread   *)
(* and, when it tunes, the tuning thread.                                  *)
(***************************************************************************)
\* Not joinable, and nobody waits for it.
Free(t) == /\ thr[t] = OffThreads /\ t \notin {rt.handle, rt.tuner}
           /\ \A r \in Rpcs : call[r].pc \in {"askStop", "join", "joinTuner"} => t \notin call[r].join

\* startThreadsLocked; the subscription begins with a snapshot.
Started(g, t) == [g EXCEPT !.st = "running", !.handle = t, !.pending = @ \ {t}, !.stopping = @ \ {t}]
Threads(tunes) == [ctl |-> "wait", sub |-> "wait", tun |-> IF tunes THEN "asleep" ELSE "off",
                   due |-> {"cmd"} \cup Members, upd |-> None]

SubRead(t) ==
    /\ thr[t].sub = "wait" /\ t \notin rt.stopping
    /\ \E tag \in thr[t].due :
         thr' = [thr EXCEPT ![t].due = @ \ {tag},
                            ![t].sub = IF tag = "cmd" /\ dc.cmd = None THEN "wait" ELSE "got",
                            ![t].upd = [tag |-> tag, cmd |-> dc.cmd,
                                        beat |-> IF tag = "cmd" THEN None ELSE dc.beat[tag]]]
    /\ UNCHANGED <<rt, out, pub, mu, work, call, dc, left>>

Handled(g, upd) ==
    IF upd.tag # "cmd" THEN Refreshed(Beaten(g, upd.tag, upd.beat))
    ELSE IF g.cmd = upd.cmd THEN g ELSE Requested([g EXCEPT !.cmd = upd.cmd, !.fresh = {}])

SubApply(t) ==
    /\ thr[t].sub = "got" /\ out = None /\ mu = None
    /\ rt' = IF rt.st = "absent" THEN rt ELSE Handled(rt, thr[t].upd)
    /\ thr' = [thr EXCEPT ![t].sub = IF rt.st = "absent" THEN "off" ELSE "wait", ![t].upd = None]
    /\ UNCHANGED <<out, pub, mu, work, call, dc, left>>

SubEnds(t) ==
    /\ thr[t].sub = "wait" /\ t \in rt.stopping
    /\ thr' = [thr EXCEPT ![t].sub = "off", ![t].due = {}]
    /\ UNCHANGED <<rt, out, pub, mu, work, call, dc, left>>

CtlEnds(t) ==
    /\ thr[t].ctl = "wait" /\ t \in rt.stopping
    /\ thr' = [thr EXCEPT ![t].ctl = "off"]
    /\ UNCHANGED <<rt, out, pub, mu, work, call, dc, left>>

\* Signaled, or after 250 ms.
CtlWakes(t) ==
    /\ thr[t].ctl = "wait" /\ t \notin rt.stopping
    /\ thr' = [thr EXCEPT ![t].ctl = "check"]
    /\ UNCHANGED <<rt, out, pub, mu, work, call, dc, left>>

\* checkCommunicationTimeouts under both locks, then a round if one was asked for.
CtlChecks(t) ==
    /\ thr[t].ctl = "check" /\ out = None /\ mu = None
    /\ LET g == IF rt.st = "absent" THEN rt ELSE Refreshed(rt)
       IN /\ rt' = [g EXCEPT !.pending = @ \ {t}]
          /\ thr' = [thr EXCEPT ![t].ctl = IF t \in g.pending THEN "tick" ELSE "wait"]
    /\ UNCHANGED <<out, pub, mu, work, call, dc, left>>

\* controlTick reads its inputs under both locks.  While it tunes the total is
\* the one of the tuning.
CtlTick(t) ==
    /\ thr[t].ctl = "tick" /\ out = None /\ mu = None
    /\ IF rt.st # "running"
         THEN /\ thr' = [thr EXCEPT ![t].ctl = "wait"] /\ UNCHANGED <<rt, out, work>>
         ELSE LET g == Refreshed(rt)
                  total == IF Tuning(g) THEN g.tuning ELSE g.cmd
              IN /\ rt' = [g EXCEPT !.fresh = @ \cup {t}]
                 /\ out' = t
                 /\ work' = [by |-> t, stage |-> "limits", todo |-> g.avail, block |-> None,
                             gives |-> g.fun /\ total # None, value |-> Setpoint(total, g.avail),
                             crossed |-> FALSE]
                 /\ thr' = [thr EXCEPT ![t].ctl = "out"]
    /\ UNCHANGED <<pub, mu, call, dc, left>>

\* The tuning thread sleeps for 200 ms, and ends when it was asked to meanwhile.
TunerAsked(t) == \E r \in Rpcs : \/ At(r, "joinTuner") /\ t \in call[r].join
                                 \/ At(r, "eraseTuner") /\ t = rt.tuner

TuneWakes(t) ==
    /\ thr[t].tun = "asleep"
    /\ thr' = [thr EXCEPT ![t].tun = IF TunerAsked(t) THEN "off" ELSE "look"]
    /\ UNCHANGED <<rt, out, pub, mu, work, call, dc, left>>

\* It looks under both locks: the tuning goes on, turns, or is finished.
TuneRound(t) ==
    /\ thr[t].tun = "look" /\ out = None /\ mu = None
    /\ \/ /\ ~Tuning(rt) /\ UNCHANGED rt
          /\ thr' = [thr EXCEPT ![t].tun = "off"]
       \/ /\ Tuning(rt)
          /\ \/ rt' = Requested(rt)
             \/ rt' = Requested([rt EXCEPT !.tuning = IF @ = "up" THEN "down" ELSE "up", !.fresh = {}])
          /\ thr' = [thr EXCEPT ![t].tun = "asleep"]
       \/ /\ Tuning(rt)
          /\ rt' = [rt EXCEPT !.tuning = "ended", !.st = "stopped", !.fresh = {},
                              !.stopping = @ \cup {rt.handle}]
          /\ thr' = [thr EXCEPT ![t].tun = "off"]
    /\ UNCHANGED <<out, pub, mu, work, call, dc, left>>

(***************************************************************************)
(* The output of the holder of outputMutex: the limits and block points    *)
(* (publishDefaultLimitPoints), then one setpoint after the other          *)
(* (publishMemberSetpoints), then the block points again.                  *)
(***************************************************************************)
OutputEnds ==
    /\ out' = None /\ work' = NoWork
    /\ IF work.by \in Slots
         THEN thr' = [thr EXCEPT ![work.by].ctl = "wait"] /\ UNCHANGED call
         ELSE call' = [call EXCEPT ![work.by] = NoCall] /\ UNCHANGED thr

Stage(s) == work' = [work EXCEPT !.stage = s] /\ UNCHANGED <<out, thr, call>>
Current == rt.st = "running" /\ rt.fun /\ work.by \in rt.fresh

OutLimits ==
    /\ work.stage = "limits" /\ mu = None
    /\ rt' = IF rt.st = "absent" THEN rt ELSE Refreshed(rt)
    /\ Stage("blockFirst")
    /\ UNCHANGED <<pub, mu, dc, left>>

\* publishDirectionBlockPoints: what is read under mu_ is published before
\* anyone else may read.
OutBlockRead ==
    /\ work.stage \in {"blockFirst", "blockLast"} /\ mu = None /\ pub = None /\ rt.st # "absent"
    /\ pub' = work.by
    /\ work' = [work EXCEPT !.block = BlockOf(rt),
                            !.stage = IF @ = "blockFirst" THEN "sendFirst" ELSE "sendLast"]
    /\ UNCHANGED <<rt, thr, out, mu, call, dc, left>>

OutBlockNone ==
    /\ work.stage \in {"blockFirst", "blockLast"} /\ mu = None /\ rt.st = "absent"
    /\ IF work.stage = "blockLast" THEN OutputEnds ELSE Stage("compute")
    /\ UNCHANGED <<rt, pub, mu, dc, left>>

\* Either of the two points may fail to be published: it is logged, and nobody
\* publishes it again until somebody publishes both.
BlockPublished(v) ==
    \/ dc' = [dc EXCEPT !.block = v] /\ UNCHANGED left
    \/ /\ left.faults > 0 /\ left' = [left EXCEPT !.faults = @ - 1]
       /\ dc' = [dc EXCEPT !.block = None]

OutBlockSend ==
    /\ work.stage \in {"sendFirst", "sendLast"}
    /\ BlockPublished(work.block) /\ pub' = None
    /\ IF work.stage = "sendLast" THEN OutputEnds ELSE Stage("compute")
    /\ UNCHANGED <<rt, mu>>

\* A tick drops its result when the group changed while it computed.
OutCompute ==
    /\ work.stage = "compute" /\ mu = None
    /\ IF work.gives /\ (work.by \in Slots => Current) THEN Stage("members") ELSE OutputEnds
    /\ UNCHANGED <<rt, pub, mu, dc, left>>

\* ComputeControlOutput may find that the amounts cannot be computed.
OutComputeFails ==
    /\ work.stage = "compute" /\ work.by \in Slots /\ work.gives
    /\ left.faults > 0 /\ left' = [left EXCEPT !.faults = @ - 1, !.failed = TRUE]
    /\ OutputEnds
    /\ UNCHANGED <<rt, pub, mu, dc>>

OutMember ==
    /\ work.stage = "members" /\ mu = None /\ work.todo # {}
    /\ LET m == CHOOSE x \in work.todo : TRUE
           skip == work' = [work EXCEPT !.todo = @ \ {m}] /\ UNCHANGED <<out, thr, call>>
       IN IF ~Current THEN OutputEnds /\ UNCHANGED rt
          ELSE IF Refreshed(rt) # rt THEN OutputEnds /\ rt' = Refreshed(rt)
          ELSE /\ UNCHANGED rt
               /\ \/ rt.sent[m] = work.value /\ skip
                  \/ Stage("send")   \* also a refresh of an old one
    /\ UNCHANGED <<pub, mu, dc, left>>

OutSend ==
    /\ work.stage = "send"
    /\ LET m == CHOOSE x \in work.todo : TRUE
       IN dc' = [dc EXCEPT !.set[m] = work.value]
    /\ Stage("record")
    /\ UNCHANGED <<rt, pub, mu, left>>

OutSendFails ==
    /\ work.stage = "send" /\ left.faults > 0
    /\ left' = [left EXCEPT !.faults = @ - 1, !.failed = TRUE]
    /\ work' = [work EXCEPT !.stage = "members", !.todo = @ \ {CHOOSE x \in work.todo : TRUE}]
    /\ UNCHANGED <<rt, thr, out, pub, mu, call, dc>>

OutRecord ==
    /\ work.stage = "record" /\ mu = None
    /\ LET m == CHOOSE x \in work.todo : TRUE
       IN /\ rt' = IF rt.st = "running" /\ work.by \in rt.fresh
                     THEN [rt EXCEPT !.sent[m] = work.value, !.published[m] = work.value] ELSE rt
          /\ work' = [work EXCEPT !.stage = "members", !.todo = @ \ {m}]
    /\ UNCHANGED <<thr, out, pub, mu, call, dc, left>>

OutMembersDone ==
    /\ work.stage = "members" /\ work.todo = {}
    /\ Stage("blockLast")
    /\ UNCHANGED <<rt, pub, mu, dc, left>>

Output == OutLimits \/ OutBlockRead \/ OutBlockNone \/ OutBlockSend \/ OutCompute \/ OutComputeFails
          \/ OutMember \/ OutSend \/ OutSendFails \/ OutRecord \/ OutMembersDone

(***************************************************************************)
(* The calls.                                                              *)
(***************************************************************************)
Goes(r, c) == call' = [call EXCEPT ![r] = c]
Returns(r) == Goes(r, NoCall)
To(r, pc) == Goes(r, [call[r] EXCEPT !.pc = pc])

\* The tails of UpsertGroup and DeleteGroup change the group without the output
\* mutex: the output they do it under, and left, remember that for the properties.
Changed(g, l) ==
    /\ rt' = g
    /\ left' = [l EXCEPT !.crossed = @ \/ (out # None /\ g # rt)]
    /\ work' = IF work = NoWork \/ g = rt THEN work ELSE [work EXCEPT !.crossed = TRUE]

Begin(r, q) ==
    /\ At(r, "idle")
    /\ left' = [left EXCEPT !.ask[r] = @ \ {q}]
    /\ Goes(r, [pc |-> IF q.op = "delete" THEN "stop" ELSE q.op, op |-> q.op, val |-> q.val,
                join |-> {}, among |-> {}, block |-> None])
    /\ UNCHANGED <<rt, thr, out, pub, mu, work, dc>>

\* UpsertGroup up to the save, which may fail and leaves the group changed.
Upsert(r) ==
    /\ At(r, "upsert") /\ mu = None
    /\ IF rt.st \in {"running", "pending"} THEN Returns(r) /\ UNCHANGED rt
       ELSE /\ rt' = Rebuilt(IF rt.st = "absent" THEN NewGroup ELSE rt, TRUE)
            /\ To(r, "limits") \/ Returns(r)
    /\ UNCHANGED <<thr, out, pub, mu, work, dc, left>>

Limits(r) ==
    /\ At(r, "limits") /\ mu = None
    /\ Changed(IF rt.st = "absent" THEN rt ELSE Refreshed(rt), left)
    /\ To(r, IF rt.st = "absent" THEN "auto" ELSE "block")
    /\ UNCHANGED <<thr, out, pub, mu, dc>>

AfterBlock(r) == IF call[r].op = "upsert" THEN To(r, "auto") ELSE Returns(r)

\* Mutant: the block points are read and published without their mutex.
BlockReadUnlocked(r) ==
    /\ At(r, "block") /\ mu = None
    /\ Goes(r, [call[r] EXCEPT !.pc = "blockSend", !.block = BlockOf(rt)])
    /\ UNCHANGED <<rt, thr, out, pub, mu, work, dc, left>>

BlockRead(r) ==
    /\ At(r, "block") /\ mu = None
    /\ IF rt.st = "absent" THEN AfterBlock(r) /\ UNCHANGED pub
       ELSE /\ pub = None /\ pub' = r
            /\ Goes(r, [call[r] EXCEPT !.pc = "blockSend", !.block = BlockOf(rt)])
    /\ UNCHANGED <<rt, thr, out, mu, work, dc, left>>

BlockSend(r) ==
    /\ At(r, "blockSend")
    /\ BlockPublished(call[r].block) /\ pub' = None
    /\ AfterBlock(r)
    /\ UNCHANGED <<rt, thr, out, mu, work>>

\* tryAutoStartGroup looks first and then calls StartGroup.
AutoStart(r) ==
    /\ At(r, "auto") /\ mu = None
    /\ IF rt.st = "stopped" THEN Goes(r, [call[r] EXCEPT !.pc = "start", !.op = "start"]) ELSE Returns(r)
    /\ UNCHANGED <<rt, thr, out, pub, mu, work, dc, left>>

\* StartGroup.  Threads that ended by themselves, after a tuning, are still
\* joinable: the new ones are assigned over them, under mu_.
Start(r) ==
    /\ At(r, "start") /\ mu = None
    /\ CASE rt.st \in {"absent", "pending"} -> Returns(r) /\ UNCHANGED <<rt, thr, mu>>
         [] rt.st = "running" -> To(r, "block") /\ UNCHANGED <<rt, thr, mu>>
         [] rt.st = "stopped" /\ rt.handle = None ->
              \E t \in Slots : /\ Free(t)
                               /\ rt' = Started(Rebuilt(rt, FALSE), t)
                               /\ thr' = [thr EXCEPT ![t] = Threads(FALSE)]
                               /\ To(r, "block") /\ UNCHANGED mu
         [] OTHER -> /\ rt' = [Rebuilt(rt, FALSE) EXCEPT !.stopping = @ \cup {rt.handle}]
                     /\ mu' = r /\ To(r, "joinOld") /\ UNCHANGED thr
    /\ UNCHANGED <<out, pub, work, dc, left>>

Gone(t) == thr[t].ctl = "off" /\ thr[t].sub = "off"

JoinOld(r) ==
    /\ At(r, "joinOld") /\ Gone(rt.handle)
    /\ \E t \in Slots : /\ Free(t)
                        /\ rt' = Started(rt, t)
                        /\ thr' = [thr EXCEPT ![t] = Threads(FALSE)]
    /\ mu' = None /\ To(r, "block")
    /\ UNCHANGED <<out, pub, work, dc, left>>

\* Mutant: the group is stopped without waiting for its output.
StopAtOnce(r) ==
    /\ At(r, "stop") /\ mu = None /\ rt.st # "absent"
    /\ rt' = [rt EXCEPT !.st = IF @ = "pending" THEN @ ELSE "stopped",
                        !.handle = None, !.tuner = None, !.fresh = {}, !.sent = Nothing,
                        !.tuning = IF Tuning(rt) THEN "ended" ELSE @]
    /\ Goes(r, [call[r] EXCEPT !.pc = "askStop", !.join = {rt.handle, rt.tuner} \ {None}])
    /\ UNCHANGED <<thr, out, pub, mu, work, dc, left>>

\* StopGroup: the threads are taken over under both locks, and asked to stop
\* and joined after them.
Stop(r) ==
    /\ At(r, "stop") /\ out = None /\ mu = None
    /\ IF rt.st = "absent"
         THEN (IF call[r].op = "delete" THEN To(r, "drop") ELSE Returns(r)) /\ UNCHANGED rt
         ELSE /\ rt' = [rt EXCEPT !.st = IF @ = "pending" THEN @ ELSE "stopped",
                                  !.handle = None, !.tuner = None, !.fresh = {}, !.sent = Nothing,
                                  !.tuning = IF Tuning(rt) THEN "ended" ELSE @]
              /\ Goes(r, [call[r] EXCEPT !.pc = "askStop", !.join = {rt.handle, rt.tuner} \ {None}])
    /\ UNCHANGED <<thr, out, pub, mu, work, dc, left>>

\* Mutant: the threads are joined without being asked to stop.
AskStopNot(r) ==
    /\ At(r, "askStop")
    /\ To(r, "join")
    /\ UNCHANGED <<rt, thr, out, pub, mu, work, dc, left>>

AskStop(r) ==
    /\ At(r, "askStop")
    /\ rt' = [rt EXCEPT !.stopping = @ \cup call[r].join]
    /\ To(r, "join")
    /\ UNCHANGED <<thr, out, pub, mu, work, dc, left>>

Join(r) ==
    /\ At(r, "join") /\ \A t \in call[r].join : Gone(t)
    /\ To(r, "joinTuner")
    /\ UNCHANGED <<rt, thr, out, pub, mu, work, dc, left>>

JoinTuner(r) ==
    /\ At(r, "joinTuner") /\ \A t \in call[r].join : thr[t].tun = "off"
    /\ IF call[r].op = "delete" THEN To(r, "drop") ELSE Returns(r)
    /\ UNCHANGED <<rt, thr, out, pub, mu, work, dc, left>>

\* DeleteGroup, after StopGroup: the connection is deleted, then the group;
\* when DataCenter refuses, the group waits to be deleted.  Threads that were
\* started meanwhile are joined by the erase, under mu_: the last member first.
Drop(r) ==
    /\ At(r, "drop") /\ mu = None
    /\ \/ /\ rt.handle = None /\ Changed(Absent, left)
          /\ Returns(r) /\ UNCHANGED mu
       \/ /\ rt.handle # None
          /\ mu' = r /\ To(r, "eraseTuner") /\ UNCHANGED <<rt, work, left>>
       \/ /\ left.faults > 0
          /\ Changed(IF rt.st = "absent" THEN rt ELSE [rt EXCEPT !.st = "pending"],
                     [left EXCEPT !.faults = @ - 1, !.failed = TRUE])
          /\ Returns(r) /\ UNCHANGED mu
    /\ UNCHANGED <<thr, out, pub, dc>>

EraseTuner(r) ==
    /\ At(r, "eraseTuner") /\ (rt.tuner # None => thr[rt.tuner].tun = "off")
    /\ rt' = [rt EXCEPT !.stopping = @ \cup {rt.handle}]
    /\ To(r, "joinErase")
    /\ UNCHANGED <<thr, out, pub, mu, work, dc, left>>

JoinErase(r) ==
    /\ At(r, "joinErase") /\ Gone(rt.handle)
    /\ Changed(Absent, left) /\ mu' = None /\ Returns(r)
    /\ UNCHANGED <<thr, out, pub, dc>>

\* ExecuteCommand on the function point and on the remote point.  A round is
\* asked for later if the group was running when it was switched on.
SwitchFunction(r) ==
    /\ At(r, "function") /\ out = None /\ mu = None
    /\ IF rt.st \in {"absent", "pending"} \/ ~rt.remote \/ rt.fun = call[r].val
         THEN Returns(r) /\ UNCHANGED <<rt, out>>
         ELSE /\ rt' = [rt EXCEPT !.fun = call[r].val, !.fresh = {}, !.sent = Nothing]
              /\ out' = r
              /\ Goes(r, [call[r] EXCEPT !.pc = "switched", !.val = @ /\ rt.st = "running"])
    /\ UNCHANGED <<thr, pub, mu, work, dc, left>>

Switched(r) ==
    /\ At(r, "switched") /\ mu = None
    /\ rt' = IF call[r].val THEN Requested(rt) ELSE rt
    /\ out' = None /\ Returns(r)
    /\ UNCHANGED <<thr, pub, mu, work, dc, left>>

SwitchRemote(r) ==
    /\ At(r, "remote") /\ out = None /\ mu = None
    /\ rt' = IF rt.st \in {"absent", "pending"} THEN rt ELSE [rt EXCEPT !.remote = call[r].val]
    /\ Returns(r)
    /\ UNCHANGED <<thr, out, pub, mu, work, dc, left>>

\* ExecuteCommand on the total: computed from what is read first, refused when
\* it is out of reach, and otherwise the command of the group.
Total(r) ==
    /\ At(r, "total") /\ out = None /\ mu = None
    /\ IF rt.st # "running" \/ Tuning(rt) \/ ~rt.remote \/ ~rt.fun
         THEN Returns(r) /\ UNCHANGED <<rt, out>>
         ELSE /\ rt' = Refreshed(rt)
              /\ \/ Returns(r) /\ UNCHANGED out
                 \/ /\ TakePart(rt) # {} /\ out' = r
                    /\ Goes(r, [call[r] EXCEPT !.pc = "totalSet", !.among = TakePart(rt)])
    /\ UNCHANGED <<thr, pub, mu, work, dc, left>>

TotalSet(r) ==
    /\ At(r, "totalSet") /\ mu = None
    /\ IF rt.st # "running" THEN Returns(r) /\ out' = None /\ UNCHANGED <<rt, work>>
       ELSE /\ rt' = [rt EXCEPT !.cmd = call[r].val, !.fresh = {r}]
            /\ work' = [by |-> r, stage |-> "limits", todo |-> call[r].among, block |-> None,
                        gives |-> TRUE, value |-> Setpoint(call[r].val, call[r].among),
                        crossed |-> FALSE]
            /\ To(r, "out") /\ UNCHANGED out
    /\ UNCHANGED <<thr, pub, mu, dc, left>>

\* StartTuning reads the heartbeats of DataCenter without the lock.
Tune(r) ==
    /\ At(r, "tune") /\ mu = None
    /\ IF rt.st # "stopped" THEN Returns(r) /\ UNCHANGED rt
       ELSE rt' = [rt EXCEPT !.fresh = @ \cup {r}] /\ To(r, "tuneRead")
    /\ UNCHANGED <<thr, out, pub, mu, work, dc, left>>

TuneRead(r) ==
    /\ At(r, "tuneRead")
    /\ Goes(r, [call[r] EXCEPT !.pc = "tuneGo", !.block = dc.beat])
    /\ UNCHANGED <<rt, thr, out, pub, mu, work, dc, left>>

TuneGo(r) ==
    /\ At(r, "tuneGo") /\ mu = None
    /\ IF rt.st # "stopped" \/ r \notin rt.fresh THEN Returns(r) /\ UNCHANGED <<rt, thr>>
       ELSE LET g == Refreshed([rt EXCEPT !.beat = [m \in Members |-> Beaten(rt, m, call[r].block[m]).beat[m]]])
            IN /\ IF g.avail # Members \/ g.handle # None \/ g.tuner # None
                    THEN rt' = g /\ UNCHANGED thr
                    ELSE \E t \in Slots :
                           /\ Free(t)
                           /\ rt' = [Started(Rebuilt(g, FALSE), t) EXCEPT !.tuner = t, !.tuning = "up",
                                                                          !.beat = g.beat, !.avail = g.avail]
                           /\ thr' = [thr EXCEPT ![t] = Threads(TRUE)]
               /\ Returns(r)
    /\ UNCHANGED <<out, pub, mu, work, dc, left>>

\* StopTuning ends the tuning, and stops the group when the lock is free again.
Untune(r) ==
    /\ At(r, "untune") /\ out = None /\ mu = None
    /\ rt' = IF Tuning(rt) THEN [rt EXCEPT !.tuning = "ended", !.fresh = {}] ELSE rt
    /\ IF Tuning(rt) \/ {rt.handle, rt.tuner} # {None} THEN To(r, "stop") ELSE Returns(r)
    /\ UNCHANGED <<thr, out, pub, mu, work, dc, left>>

CallStep(r) ==
    Upsert(r) \/ Limits(r) \/ BlockRead(r) \/ BlockSend(r) \/ AutoStart(r) \/ Start(r) \/ JoinOld(r)
    \/ Stop(r) \/ AskStop(r) \/ Join(r) \/ JoinTuner(r) \/ Drop(r) \/ EraseTuner(r) \/ JoinErase(r)
    \/ SwitchFunction(r) \/ Switched(r) \/ SwitchRemote(r) \/ Total(r) \/ TotalSet(r)
    \/ Tune(r) \/ TuneRead(r) \/ TuneGo(r) \/ Untune(r)

(***************************************************************************)
(* Outside: a total command or a heartbeat reaches DataCenter, time passes *)
(***************************************************************************)
Event(tags) ==
    /\ left.events > 0 /\ left' = [left EXCEPT !.events = @ - 1]
    /\ thr' = [t \in Slots |-> IF thr[t].sub = "off" THEN thr[t] ELSE [thr[t] EXCEPT !.due = @ \cup tags]]
    /\ UNCHANGED <<rt, out, pub, mu, work, call>>

CommandPoint(v) == dc.cmd # v /\ dc' = [dc EXCEPT !.cmd = v] /\ Event({"cmd"})

Heartbeat(m, ok) == dc' = [dc EXCEPT !.beat[m] = [ok |-> ok, ts |-> @.ts + 1]] /\ Event({m})

HeartbeatExpires(m) ==
    /\ dc.beat[m].ok /\ dc.beat[m].ts > dc.expired[m]
    /\ dc' = [dc EXCEPT !.expired[m] = dc.beat[m].ts]
    /\ Event({})

\* A measurement changed: the subscription thread asks for a control round.
Measurement(t) ==
    /\ thr[t].sub = "wait" /\ t \notin rt.stopping /\ mu = None /\ Requested(rt) # rt
    /\ left.events > 0 /\ left' = [left EXCEPT !.events = @ - 1]
    /\ rt' = Requested(rt)
    /\ UNCHANGED <<thr, out, pub, mu, work, call, dc>>

ThreadStep(t) == SubRead(t) \/ SubApply(t) \/ SubEnds(t) \/ CtlEnds(t) \/ CtlWakes(t) \/ CtlChecks(t) \/ CtlTick(t)

AgcNext ==
    \/ \E t \in Slots : ThreadStep(t) \/ TuneWakes(t) \/ TuneRound(t) \/ Measurement(t)
    \/ Output
    \/ \E r \in Rpcs : CallStep(r) \/ \E q \in left.ask[r] : Begin(r, q)
    \/ \E v \in Totals : CommandPoint(v)
    \/ \E m \in Members : HeartbeatExpires(m) \/ \E ok \in BOOLEAN : Heartbeat(m, ok)

AgcFairness ==
    /\ \A t \in Slots : /\ WF_agcVars(SubRead(t) \/ SubApply(t) \/ SubEnds(t))
                        /\ WF_agcVars(CtlEnds(t) \/ CtlChecks(t) \/ CtlTick(t))
                        /\ SF_agcVars(TuneWakes(t) \/ TuneRound(t))
    /\ WF_agcVars(Output)
    /\ \A r \in Rpcs : SF_agcVars(CallStep(r))

AgcSpec == AgcInit /\ [][AgcNext]_agcVars
FairAgcSpec == AgcSpec /\ AgcFairness
-----------------------------------------------------------------------------
Locked(x) == x \in Slots \cup Rpcs \cup {None}

AgcTypeOK ==
    /\ rt.st \in {"absent", "stopped", "running", "pending"} /\ rt.fun \in BOOLEAN /\ rt.remote \in BOOLEAN
    /\ rt.cmd \in Totals \cup {None} /\ rt.tuning \in {"none", "up", "down", "ended"}
    /\ rt.avail \subseteq Members /\ rt.fresh \subseteq Slots \cup Rpcs
    /\ rt.handle \in Slots \cup {None} /\ rt.tuner \in Slots \cup {None}
    /\ rt.pending \subseteq Slots /\ rt.stopping \subseteq Slots
    /\ \A t \in Slots : /\ thr[t].ctl \in {"off", "wait", "check", "tick", "out"}
                        /\ thr[t].sub \in {"off", "wait", "got"} /\ thr[t].tun \in {"off", "asleep", "look"}
    /\ Locked(out) /\ Locked(pub) /\ Locked(mu)

\* No setpoint leaves once the group was stopped or its function was switched
\* off, whoever was publishing, unless the tail of an upsert or a deletion
\* changed the group while that very output was under way.
SentOnlyWhenOn ==
    [][work.stage = "send" /\ work'.stage = "record" =>
         work.crossed \/ (rt.st = "running" /\ rt.fun)]_agcVars

AllIdle == \A r \in Rpcs : At(r, "idle")

\* A tuning asks for a round every 200 ms whatever happened.
Quiet == /\ ~Tuning(rt) /\ out = None /\ pub = None /\ mu = None /\ AllIdle
         /\ rt.st = "running" /\ rt.handle \notin rt.pending
         /\ \A t \in Slots : thr[t].ctl # "tick" /\ thr[t].sub # "got"

\* What the group was last told is what its members were sent.
IdleApplied ==
    Quiet /\ rt.fun /\ rt.cmd # None /\ ~left.failed =>
      \A m \in rt.avail : dc.set[m] = Setpoint(rt.cmd, rt.avail)

\* No wake-up is lost between a command, a heartbeat or a switch and the control
\* thread.  A group that was ever changed under an output is left out: a setpoint
\* on its way then reaches its member and is not recorded, see AgcGroupStale.cfg.
IdleIsApplied == ~left.crossed => IdleApplied

\* The block points in DataCenter are those of the published setpoints, unless
\* the last publication of them failed: one that fails earlier is made good.
BlockIsCurrent == Quiet => dc.block \in {BlockOf(rt), None}

\* A join under mu_ waits for a thread that itself comes for mu_: neither goes on.
Jammed ==
    /\ mu # None /\ rt.handle # None
    /\ \/ thr[rt.handle].ctl \in {"check", "tick", "out"} \/ thr[rt.handle].sub = "got"
       \/ At(mu, "eraseTuner") /\ rt.tuner # None /\ thr[rt.tuner].tun = "look"

\* Every call is answered, unless StartGroup or the erase of DeleteGroup joins,
\* under mu_, a thread that itself waits for mu_: what callers ask is finite, so
\* all calls end when again and again none is under way.
GroupCallsEnd == []<>(AllIdle \/ Jammed)

\* Every call is answered.  It does not hold: see AgcGroupJam.cfg.
AllCallsEnd == []<>AllIdle

\* The types, and: the block points in DataCenter are those of the setpoints
\* last published, whoever published them last, unless that publication failed.
AgcSafe == AgcTypeOK /\ BlockIsCurrent
=============================================================================
