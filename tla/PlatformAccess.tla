--------------------------- MODULE PlatformAccess ---------------------------
(***************************************************************************)
(* PlatformAccessSupervisor: Set saves the access configuration after      *)
(* applying its network, and puts the old network back when that fails;    *)
(* Get answers with a check of the network; the Run thread keeps the       *)
(* network in place and owns the worker that connects to the platform.     *)
(* saveMutex_ serialises the three; a section under mutex_ is one step.    *)
(* A configuration is its revision, its network and whether access is on,  *)
(* which stands for every other setting.                                   *)
(***************************************************************************)
EXTENDS OrdinaryNetwork, Integers

CONSTANT MaxRevision  \* bound: the largest revision (2^64 - 1 in the code)

ASSUME RevisionAssumption == MaxRevision \in Nat \ {0}

VARIABLES disk,       \* platform_access.json as a reader sees it
          synced,     \* what a power failure leaves of it at least
          saved,      \* saved_
          persisted,  \* persisted_
          paused,     \* paused_
          generation, \* generation_
          online,     \* online_
          saveMutex,  \* who holds saveMutex_
          setCall, getCall, run, \* the three threads
          worker      \* the connection task: a joinable thread, or none

memoryVars == <<saved, persisted, paused, generation, online>>
fileVars == <<disk, synced>>
accessVars == <<networkVars, memoryVars, fileVars, saveMutex, setCall, getCall, run, worker>>

Configs == [revision : 0..MaxRevision, network : AnyNetwork, enabled : BOOLEAN]
Default == [revision |-> 0, network |-> System, enabled |-> FALSE]

NoSet == [pc |-> "idle", next |-> Default, applied |-> FALSE]
NoGet == [pc |-> "idle", revision |-> 0, network |-> System, applied |-> FALSE]
NoWorker == [pc |-> "none", gen |-> 0]

\* applied: the generation the thread acted on last, -1 for none yet.
NewRun == [pc |-> "waiting", gen |-> 0, network |-> System, enabled |-> FALSE,
           ready |-> FALSE, applied |-> -1]

\* The constructor, over what the file holds.
Loaded(config) ==
    /\ saved' = config /\ persisted' = (config.revision > 0)
    /\ paused' = FALSE /\ generation' = 0 /\ online' = FALSE
    /\ saveMutex' = "free" /\ setCall' = NoSet /\ getCall' = NoGet
    /\ run' = NewRun /\ worker' = NoWorker

AccessInit ==
    /\ NetworkInit
    /\ disk = Default /\ synced = Default
    /\ saved = Default /\ persisted = FALSE /\ paused = FALSE
    /\ generation = 0 /\ online = FALSE /\ saveMutex = "free"
    /\ setCall = NoSet /\ getCall = NoGet /\ run = NewRun /\ worker = NoWorker

-----------------------------------------------------------------------------
(* Set: it holds saveMutex_ from its first step to its last, or is refused *)
(* after a second, like a request with another revision than the saved.    *)

SetReturn == setCall' = NoSet /\ saveMutex' = "free"
SetGoes(pc) == setCall' = [setCall EXCEPT !.pc = pc] /\ UNCHANGED saveMutex

SetBegin(network, enabled) ==
    /\ saveMutex = "free" /\ saveMutex' = "set"
    /\ network # saved.network => saved.revision < MaxRevision
    /\ setCall' = [pc |-> IF network = saved.network THEN "checking" ELSE "applying",
                   next |-> [revision |-> saved.revision + 1,
                             network |-> network, enabled |-> enabled],
                   applied |-> network # saved.network]
    /\ UNCHANGED <<networkVars, memoryVars, fileVars, getCall, run, worker>>

SameConfiguration == persisted /\ ~paused /\ setCall.next.enabled = saved.enabled

\* The network stays: the check decides whether it has to be applied again.
SetChecked ==
    /\ setCall.pc = "checking"
    /\ \E ok \in BOOLEAN :
        /\ Checked(saved.network, ok)
        /\ \/ SameConfiguration /\ ok /\ SetReturn
           \/ SameConfiguration /\ ~ok /\ SetGoes("repairing")
           \/ ~SameConfiguration /\ saved.revision = MaxRevision /\ SetReturn
           \/ /\ ~SameConfiguration /\ saved.revision < MaxRevision
              /\ setCall' = [setCall EXCEPT !.pc = IF ok THEN "saving" ELSE "applying",
                                            !.applied = ~ok]
              /\ UNCHANGED saveMutex
    /\ UNCHANGED <<record, routes, dns, helper, memoryVars, fileVars, getCall, run, worker>>

\* The network a call is putting in place.
SetTarget == IF setCall.pc = "applying" THEN setCall.next.network ELSE saved.network

SetApplies ==
    /\ setCall.pc \in {"applying", "repairing", "restoring"}
    /\ ApplyCall(SetTarget)
    /\ UNCHANGED <<memoryVars, fileVars, saveMutex, setCall, getCall, run, worker>>

\* restoreNetwork follows a failed application; its own result is only told.
SetApplied ==
    /\ setCall.pc \in {"applying", "repairing", "restoring"}
    /\ \E ok \in BOOLEAN :
        /\ Answered(SetTarget, ok)
        /\ IF setCall.pc # "applying" THEN SetReturn
           ELSE SetGoes(IF ok THEN "saving" ELSE "restoring")
    /\ UNCHANGED <<record, routes, dns, faults, memoryVars, fileVars, getCall, run, worker>>

\* store_.Save: a synced replacement, one that may not last, or an exception.
SetSaves ==
    /\ setCall.pc = "saving"
    /\ \/ /\ disk' = setCall.next /\ synced' = setCall.next
          /\ SetGoes("publishing") /\ UNCHANGED faults
       \/ /\ disk' = setCall.next /\ UNCHANGED synced
          /\ SetGoes("publishing") /\ Fault
       \/ /\ Fault /\ UNCHANGED fileVars
          /\ IF setCall.applied THEN SetGoes("restoring") ELSE SetReturn
    /\ UNCHANGED <<record, routes, dns, helper, memoryVars, getCall, run, worker>>

\* Mutant: an uncertain save does not pause.
SetPublishesUncertain ==
    /\ setCall.pc = "publishing"
    /\ saved' = setCall.next /\ generation' = generation + 1
    /\ online' = FALSE /\ persisted' = TRUE /\ paused' = FALSE
    /\ SetReturn
    /\ UNCHANGED <<networkVars, fileVars, getCall, run, worker>>

SetPublishes ==
    /\ setCall.pc = "publishing"
    /\ saved' = setCall.next /\ generation' = generation + 1
    /\ online' = FALSE /\ persisted' = TRUE
    /\ paused' = (synced # setCall.next)
    /\ SetReturn
    /\ UNCHANGED <<networkVars, fileVars, getCall, run, worker>>

SetNext == SetChecked \/ SetApplies \/ SetApplied \/ SetSaves \/ SetPublishes

-----------------------------------------------------------------------------
(* Get, when it gets the mutex at once; otherwise it reports no network.   *)

\* Mutant: Get does not wait for the mutex to be free.
GetAnyway ==
    /\ getCall.pc \in {"idle", "done"}
    /\ getCall' = [pc |-> "checking", revision |-> saved.revision,
                   network |-> saved.network, applied |-> FALSE]
    /\ UNCHANGED <<networkVars, memoryVars, fileVars, saveMutex, setCall, run, worker>>

GetBegin ==
    /\ saveMutex = "free" /\ saveMutex' = "get"
    /\ getCall' = [pc |-> "checking", revision |-> saved.revision,
                   network |-> saved.network, applied |-> FALSE]
    /\ UNCHANGED <<networkVars, memoryVars, fileVars, setCall, run, worker>>

GetEnd ==
    /\ getCall.pc = "checking" /\ saveMutex' = "free"
    /\ \E ok \in BOOLEAN :
        Checked(getCall.network, ok)
            /\ getCall' = [getCall EXCEPT !.pc = "done", !.applied = ok]
    /\ UNCHANGED <<record, routes, dns, helper, memoryVars, fileVars, setCall, run, worker>>

GetAnswered ==
    /\ getCall.pc = "done" /\ getCall' = NoGet
    /\ UNCHANGED <<networkVars, memoryVars, fileVars, saveMutex, setCall, run, worker>>

-----------------------------------------------------------------------------
(* Run. *)

RunGoes(pc) == run' = [run EXCEPT !.pc = pc]

\* A new generation or the five seconds; a paused configuration counts as off.
RunWakes ==
    /\ run.pc = "waiting"
    /\ run' = [run EXCEPT !.pc = "locking", !.gen = generation, !.network = saved.network,
                          !.enabled = saved.enabled /\ ~paused, !.ready = FALSE]
    /\ UNCHANGED <<networkVars, memoryVars, fileVars, saveMutex, setCall, getCall, worker>>

\* Mutant: what was read before the lock is used without a second look.
RunLocksBlindly ==
    /\ run.pc = "locking" /\ saveMutex = "free"
    /\ RunGoes("checking") /\ saveMutex' = "run"
    /\ UNCHANGED <<networkVars, memoryVars, fileVars, setCall, getCall, worker>>

\* A save that came first makes the thread start over.
RunLocks ==
    /\ run.pc = "locking" /\ saveMutex = "free"
    /\ \/ /\ run.gen = generation
          /\ RunGoes("checking") /\ saveMutex' = "run"
       \/ /\ run.gen # generation
          /\ RunGoes("waiting") /\ UNCHANGED saveMutex
    /\ UNCHANGED <<networkVars, memoryVars, fileVars, setCall, getCall, worker>>

RunChecked ==
    /\ run.pc = "checking"
    /\ \E ok \in BOOLEAN :
        /\ Checked(run.network, ok)
        /\ run' = [run EXCEPT !.pc = IF ok THEN "deciding" ELSE "repairing", !.ready = ok]
        /\ saveMutex' = IF ok THEN "free" ELSE "run"
    /\ UNCHANGED <<record, routes, dns, helper, memoryVars, fileVars, setCall, getCall, worker>>

RunApplies ==
    /\ run.pc = "repairing" /\ ApplyCall(run.network)
    /\ UNCHANGED <<memoryVars, fileVars, saveMutex, setCall, getCall, run, worker>>

RunApplied ==
    /\ run.pc = "repairing"
    /\ \E ok \in BOOLEAN :
        /\ Answered(run.network, ok)
        /\ run' = [run EXCEPT !.pc = "deciding", !.ready = ok]
    /\ saveMutex' = "free"
    /\ UNCHANGED <<record, routes, dns, faults, memoryVars, fileVars, setCall, getCall, worker>>

\* Mutant: a generation whose network was not ready is not tried again.
RunDecidesOnce ==
    /\ run.pc = "deciding"
    /\ \/ /\ run.applied = run.gen
          /\ RunGoes("waiting") /\ UNCHANGED worker
       \/ /\ worker.pc \in {"running", "ended"} /\ run.applied # run.gen
          /\ worker' = IF worker.pc = "ended" THEN NoWorker
                       ELSE [worker EXCEPT !.pc = "stopping"]
          /\ UNCHANGED run
       \/ /\ worker.pc = "none" /\ run.applied # run.gen
          /\ run' = [run EXCEPT !.applied = run.gen,
                                !.pc = IF run.enabled /\ run.ready THEN "starting"
                                       ELSE "waiting"]
          /\ UNCHANGED worker
    /\ UNCHANGED <<networkVars, memoryVars, fileVars, saveMutex, setCall, getCall>>

\* The worker goes on through a repair; a new generation takes it down first.
RunDecides ==
    /\ run.pc = "deciding"
    /\ \/ /\ worker.pc # "none" /\ run.applied = run.gen
          /\ RunGoes("waiting") /\ UNCHANGED worker
       \/ /\ worker.pc \in {"running", "ended"} /\ run.applied # run.gen
          /\ worker' = IF worker.pc = "ended" THEN NoWorker
                       ELSE [worker EXCEPT !.pc = "stopping"]
          /\ UNCHANGED run
       \/ /\ worker.pc = "none"
          /\ run' = [run EXCEPT !.applied = run.gen,
                                !.pc = IF run.enabled /\ run.ready THEN "starting"
                                       ELSE "waiting"]
          /\ UNCHANGED worker
    /\ UNCHANGED <<networkVars, memoryVars, fileVars, saveMutex, setCall, getCall>>

\* The last look at the generation; the thread is created after it.
RunStarts ==
    /\ run.pc = "starting"
    /\ \/ run.gen = generation /\ online' = FALSE /\ RunGoes("launching")
       \/ run.gen # generation /\ RunGoes("waiting") /\ UNCHANGED online
    /\ UNCHANGED <<networkVars, fileVars, saved, persisted, paused, generation,
                   saveMutex, setCall, getCall, worker>>

RunLaunches ==
    /\ run.pc = "launching" /\ RunGoes("waiting")
    /\ worker' = [pc |-> "running", gen |-> run.gen]
    /\ UNCHANGED <<networkVars, memoryVars, fileVars, saveMutex, setCall, getCall>>

RunNext ==
    \/ RunWakes \/ RunChecked \/ RunApplies \/ RunApplied \/ RunDecides
    \/ RunStarts \/ RunLaunches

-----------------------------------------------------------------------------
(* The worker, whose reports count while its generation is the last one.   *)

\* Mutant: reports of any generation count.
ObserverOfAny(up) == online' = up
Observer(up) == online' = (IF worker.gen = generation THEN up ELSE online)

WorkerReports(up) ==
    /\ worker.pc = "running" \/ (worker.pc = "stopping" /\ ~up)
    /\ Observer(up)
    /\ UNCHANGED <<networkVars, fileVars, saved, persisted, paused, generation,
                   saveMutex, setCall, getCall, run, worker>>

\* The runner returns once it is told to stop; Run joins the thread.
WorkerStops ==
    /\ worker.pc = "stopping" /\ worker' = [worker EXCEPT !.pc = "ended"]
    /\ Observer(FALSE)
    /\ UNCHANGED <<networkVars, fileVars, saved, persisted, paused, generation,
                   saveMutex, setCall, getCall, run>>

\* An exception pauses the access until a new save.
WorkerThrows ==
    /\ worker.pc \in {"running", "stopping"} /\ Fault
    /\ worker' = [worker EXCEPT !.pc = "ended"]
    /\ Observer(FALSE)
    /\ paused' = (paused \/ worker.gen = generation)
    /\ UNCHANGED <<record, routes, dns, helper, fileVars, saved, persisted, generation,
                   saveMutex, setCall, getCall, run>>

-----------------------------------------------------------------------------
(* The process and the device. *)

HelperGoesOn ==
    /\ HelperStep \/ HelperFail \/ HelperKilled \/ RulesDropped
    /\ UNCHANGED <<memoryVars, fileVars, saveMutex, setCall, getCall, run, worker>>

\* A restart of the process reads the file, and may fail to.
ProcessDies ==
    /\ Fault /\ CallerDies /\ UNCHANGED fileVars
    /\ Loaded(disk) \/ Loaded(Default)

\* After a power failure the file may be the last one that was synced.
PowerFails ==
    /\ Fault /\ Reboot
    /\ disk' \in {disk, synced} /\ synced' = disk'
    /\ Loaded(disk')

AccessNext ==
    \/ \E n \in AnyNetwork, e \in BOOLEAN : SetBegin(n, e)
    \/ SetNext
    \/ GetBegin \/ GetEnd \/ GetAnswered
    \/ RunLocks \/ RunNext
    \/ \E up \in BOOLEAN : WorkerReports(up)
    \/ WorkerStops \/ WorkerThrows
    \/ HelperGoesOn \/ ProcessDies \/ PowerFails

\* The threads and the script go on; the lock is granted in the end.
AccessFairness ==
    /\ WF_accessVars(SetNext) /\ WF_accessVars(GetEnd) /\ WF_accessVars(RunNext)
    /\ SF_accessVars(RunLocks)
    /\ WF_accessVars(HelperGoesOn) /\ WF_accessVars(WorkerStops)

AccessSpec == AccessInit /\ [][AccessNext]_accessVars /\ AccessFairness

-----------------------------------------------------------------------------
SetCalls == [pc : {"idle", "checking", "applying", "repairing", "restoring", "saving",
                   "publishing"},
             next : [revision : 0..(MaxRevision + 1), network : AnyNetwork,
                     enabled : BOOLEAN],
             applied : BOOLEAN]
GetCalls == [pc : {"idle", "checking", "done"}, revision : 0..MaxRevision,
             network : AnyNetwork, applied : BOOLEAN]
Runs == [pc : {"waiting", "locking", "checking", "repairing", "deciding", "starting",
               "launching"},
         gen : 0..MaxRevision, network : AnyNetwork, enabled : BOOLEAN, ready : BOOLEAN,
         applied : -1..MaxRevision]
Workers == [pc : {"none", "running", "stopping", "ended"}, gen : 0..MaxRevision]

(* The type of the supervisor's state, the script's included. *)
AccessTypeOK ==
    /\ NetworkTypeOK
    /\ disk \in Configs /\ synced \in Configs /\ saved \in Configs
    /\ persisted \in BOOLEAN /\ paused \in BOOLEAN /\ online \in BOOLEAN
    /\ generation \in 0..MaxRevision
    /\ saveMutex \in {"free", "set", "get", "run"}
    /\ setCall \in SetCalls /\ getCall \in GetCalls /\ run \in Runs /\ worker \in Workers

\* The background recovery works on the saved network: a save and a recovery
\* that overlap never end with the recovery putting the replaced network back.
RecoversTheSaved ==
    run.pc \in {"checking", "repairing"} => run.network = saved.network

\* Reported online means there is a task of the configuration now saved, with
\* access on and not paused: an old task cannot speak for a new configuration.
OnlineIsCurrent ==
    online => /\ worker.pc \in {"running", "stopping"} /\ worker.gen = generation
              /\ saved.enabled /\ ~paused

\* A task of a configuration saved by this process runs only when a power
\* failure cannot bring back an older one.
RunsWhatLasts ==
    worker.pc = "running" /\ worker.gen = generation /\ generation > 0
        => synced.revision >= saved.revision

\* An answer that says the network is in place names the revision and the
\* network that are saved when it is given, and that network is in place.
AppliedAnswerIsCurrent ==
    [][getCall.pc = "checking" /\ getCall'.pc = "done" /\ getCall'.applied
        => getCall.revision = saved.revision /\ Installed(saved.network)]_accessVars

\* Whatever failed, died or was interrupted: in the end the device has the
\* network of the saved configuration, and its task runs just when it should.
Settled ==
    /\ Installed(saved.network)
    /\ IF saved.enabled /\ ~paused
       THEN worker.pc = "running" /\ worker.gen = generation
       ELSE worker.pc \in {"none", "ended"}
Settles == <>[]Settled

\* However the script is used, killed or repaired by the supervisor, the original
\* resolver settings are on record and a finished record tells the routes.
AccessSafe == AccessTypeOK /\ OriginalDnsKept /\ RecordTellsRoutes
=============================================================================
