-------------------------- MODULE OrdinaryNetwork ---------------------------
(***************************************************************************)
(* The helper script that gives the device its ordinary uplink: one call   *)
(* of `apply` is a transaction over the kernel's routes and rules and the  *)
(* resolver settings of the interfaces, with a state file written before   *)
(* the first change and after the last.  A step may fail, which starts the *)
(* undo, and the caller's time limit kills the script at any step: either  *)
(* may leave the step half done.  Rules may be removed behind the script's *)
(* back; a reboot empties the kernel and the resolver, and keeps the file. *)
(***************************************************************************)
EXTENDS Naturals

CONSTANTS Interfaces,
          Networks,   \* the uplinks that may be configured
          SyncFails,  \* whether a file may be replaced and its sync still fail
          MaxFaults   \* bound: how many things may go wrong

\* `dns` says whether the configuration names DNS servers.  No interface: the
\* system's own network.
System == [iface |-> "system", dns |-> FALSE]

ASSUME NetworkAssumption ==
    /\ Networks \subseteq [iface : Interfaces, dns : BOOLEAN]
    /\ "system" \notin Interfaces
    /\ SyncFails \in BOOLEAN /\ MaxFaults \in Nat

VARIABLES record, \* ordinary_network_state.json
          routes, \* table 18684 and the two rules of this feature
          dns,    \* each interface's resolver settings: its own, or ours, or mixed
          helper, \* the script's process
          faults

networkVars == <<record, routes, dns, helper, faults>>

AnyNetwork == Networks \cup {System}
Settings == {"own", "mixed", "ours"}
Backups == [Interfaces -> Settings \cup {"none"}]
NoBackups == [i \in Interfaces |-> "none"]

\* No file: what apply reads as the configuration and the backups then.
NoRecord == [config |-> System, backups |-> NoBackups, pending |-> FALSE]
Records == [config : AnyNetwork, backups : Backups, pending : BOOLEAN]

NoRoutes == [net |-> System, rules |-> FALSE]
RoutesOf(n) == [net |-> n, rules |-> n # System]

\* The process has in memory the record it found, and the backups it has written.
Idle == [pc |-> "idle", owner |-> "none", target |-> System, old |-> NoRecord,
         backups |-> NoBackups, undoing |-> FALSE, applied |-> FALSE]

NetworkInit ==
    /\ record = NoRecord /\ routes = NoRoutes
    /\ dns = [i \in Interfaces |-> "own"]
    /\ helper = Idle /\ faults = 0

Fault == faults < MaxFaults /\ faults' = faults + 1

-----------------------------------------------------------------------------
(* What the supervisor calls. *)

\* Neither call runs the script when nothing is configured and no file exists.
Untouched(n) == n = System /\ record = NoRecord

RoutesUp(n) == routes = RoutesOf(n) /\ (n.dns => dns[n.iface] = "ours")

\* check, check_locked.
Installed(n) ==
    IF n = System THEN record = NoRecord
    ELSE /\ record.config = n /\ ~record.pending /\ RoutesUp(n)
         /\ n.dns => record.backups[n.iface] # "none"

\* CheckOrdinaryNetwork: it fails when the file is locked or the time is up.
Checked(n, ok) ==
    \/ /\ ok = (Untouched(n) \/ (helper.pc = "idle" /\ Installed(n)))
       /\ UNCHANGED faults
    \/ ok = FALSE /\ ~Untouched(n) /\ Fault

\* ApplyOrdinaryNetwork starts the script ...
ApplyCall(n) ==
    /\ helper.pc = "idle" /\ ~Untouched(n)
    /\ helper' = [Idle EXCEPT !.pc = "called", !.owner = "caller", !.target = n]
    /\ UNCHANGED <<record, routes, dns, faults>>

\* ... and returns its answer; one left by a dead process holds the lock.
Answered(n, ok) ==
    \/ /\ helper.owner = "caller" /\ helper.pc = "ended"
       /\ ok = helper.applied /\ helper' = Idle
    \/ /\ helper.owner # "caller" /\ UNCHANGED helper
       /\ ok = Untouched(n)
       /\ Untouched(n) \/ helper.owner = "orphan"

-----------------------------------------------------------------------------
(* apply. *)

Finish(ok) ==
    helper' = IF helper.owner = "orphan" THEN Idle
              ELSE [Idle EXCEPT !.pc = "ended", !.owner = "caller", !.applied = ok]

GoTo(pc) == helper' = [helper EXCEPT !.pc = pc]

\* snapshot_dns, for an interface whose settings are about to be replaced.
WithSnapshot(n, backups) ==
    IF n.dns /\ backups[n.iface] = "none"
    THEN [backups EXCEPT ![n.iface] = dns[n.iface]] ELSE backups

\* Mutant: the record is not marked as unfinished.
JournalUnmarked ==
    [config |-> record.config, pending |-> record.pending,
     backups |-> WithSnapshot(helper.target, record.backups)]
Journal == [config |-> record.config, pending |-> TRUE,
            backups |-> WithSnapshot(helper.target, record.backups)]

\* The configuration is the installed one: only what is missing is put back.
Repairs == record.config = helper.target /\ ~record.pending /\ helper.target # System

\* The file is written before anything is changed.
HelperJournal ==
    /\ helper.pc = "called" /\ ~Repairs
    /\ record' = Journal
    /\ helper' = [helper EXCEPT !.pc = "removing", !.old = record, !.backups = Journal.backups]
    /\ UNCHANGED <<routes, dns, faults>>

\* repair_plan refuses the routes of another configuration, and apply a
\* record without the backup.
Repairable ==
    /\ routes.net \in {helper.target, System}
    /\ helper.target.dns => record.backups[helper.target.iface] # "none"

HelperRepair ==
    /\ helper.pc = "called" /\ Repairs
    /\ IF Repairable
       THEN /\ routes' = RoutesOf(helper.target)
            /\ dns' = IF helper.target.dns THEN [dns EXCEPT ![helper.target.iface] = "ours"]
                      ELSE dns
       ELSE UNCHANGED <<routes, dns>>
    /\ Finish(Repairable)
    /\ UNCHANGED <<record, faults>>

HelperRemove ==
    /\ helper.pc = "removing"
    /\ routes' = NoRoutes
    /\ GoTo("restoring")
    /\ UNCHANGED <<record, dns, faults>>

\* restore_dns, of the backups in memory: the file may have fewer of them by the
\* time of an undo.
HelperRestoreDns ==
    /\ helper.pc = "restoring"
    /\ dns' = [i \in Interfaces |-> IF helper.backups[i] = "none" THEN dns[i]
                                    ELSE helper.backups[i]]
    /\ GoTo("installing")
    /\ UNCHANGED <<record, routes, faults>>

\* install: the routes and the rules, then the DNS servers if there are any.
HelperInstall ==
    /\ helper.pc = "installing"
    /\ routes' = RoutesOf(helper.target)
    /\ GoTo(IF helper.target.dns THEN "naming" ELSE "committing")
    /\ UNCHANGED <<record, dns, faults>>

HelperNameServers ==
    /\ helper.pc = "naming"
    /\ dns' = [dns EXCEPT ![helper.target.iface] = "ours"]
    /\ GoTo("committing")
    /\ UNCHANGED <<record, routes, faults>>

Retained(n) ==
    IF n.dns THEN [NoBackups EXCEPT ![n.iface] = helper.backups[n.iface]] ELSE NoBackups

\* What the last write leaves: the new configuration, or the old record.
LastRecord ==
    IF helper.undoing THEN helper.old
    ELSE [config |-> helper.target, backups |-> Retained(helper.target), pending |-> FALSE]

Verified == helper.undoing \/ helper.target = System \/ RoutesUp(helper.target)

HelperCommit ==
    /\ helper.pc = "committing" /\ Verified
    /\ record' = LastRecord
    /\ Finish(~helper.undoing)
    /\ UNCHANGED <<routes, dns, faults>>

\* What is done about a command that fails at the step the script is in.
Abandon ==
    IF helper.pc = "called" \/ helper.undoing THEN Finish(FALSE)
    ELSE helper' = [helper EXCEPT !.pc = "removing", !.undoing = TRUE,
                                  !.target = helper.old.config]

Working == helper.pc \notin {"idle", "ended"}

\* What a step that is broken off leaves of its work.
RoutesHalfDone ==
    /\ \/ helper.pc = "removing" /\ routes' = [routes EXCEPT !.rules = FALSE]
       \/ helper.pc = "installing" /\ helper.target # System
            /\ routes' = [net |-> helper.target, rules |-> FALSE]
       \/ helper.pc = "called" /\ Repairs /\ Repairable
            /\ routes' = [routes EXCEPT !.net = helper.target]
    /\ UNCHANGED dns

Mixed(i) == dns[i] # "ours" /\ dns' = [dns EXCEPT ![i] = "mixed"]

DnsHalfDone ==
    \/ /\ helper.pc = "restoring" /\ UNCHANGED routes
       /\ dns' \in [Interfaces -> Settings]
       /\ \A i \in Interfaces :
            \/ dns'[i] = dns[i]
            \/ /\ helper.backups[i] # "none" /\ dns[i] # helper.backups[i]
               /\ dns'[i] \in {"mixed", helper.backups[i]}
    \/ helper.pc = "naming" /\ UNCHANGED routes /\ Mixed(helper.target.iface)
    \/ /\ helper.pc = "called" /\ Repairs /\ Repairable /\ helper.target.dns
       /\ routes' = RoutesOf(helper.target) /\ Mixed(helper.target.iface)

HalfDone == UNCHANGED record /\ (UNCHANGED <<routes, dns>> \/ RoutesHalfDone \/ DnsHalfDone)

\* write_state has replaced the file when the sync of the directory fails.
Unsynced ==
    /\ SyncFails
    /\ \/ helper.pc = "called" /\ ~Repairs /\ record' = Journal
       \/ helper.pc = "committing" /\ Verified /\ LastRecord # NoRecord
            /\ record' = LastRecord
    /\ UNCHANGED <<routes, dns>>

HelperFail == Working /\ Fault /\ Abandon /\ (HalfDone \/ Unsynced)

\* The check before the last write finds that something has been removed.
HelperVerifyFail ==
    /\ helper.pc = "committing" /\ ~Verified /\ Abandon
    /\ UNCHANGED <<record, routes, dns, faults>>

\* The time limit of Execute.
HelperKilled ==
    /\ Working /\ helper.owner = "caller" /\ Fault
    /\ helper' = [Idle EXCEPT !.pc = "ended", !.owner = "caller"]
    /\ HalfDone

HelperStep ==
    \/ HelperJournal \/ HelperRepair \/ HelperRemove \/ HelperRestoreDns
    \/ HelperInstall \/ HelperNameServers \/ HelperCommit \/ HelperVerifyFail

-----------------------------------------------------------------------------
(* What happens around it. *)

\* networkd drops rules it does not know, when an interface is made anew.
RulesDropped ==
    /\ routes.rules /\ Fault
    /\ routes' = [routes EXCEPT !.rules = FALSE]
    /\ UNCHANGED <<record, dns, helper>>

\* The process dies and the script goes on alone, or dies with it.
CallerDies ==
    \/ helper' = Idle /\ HalfDone
    \/ /\ Working /\ helper' = [helper EXCEPT !.owner = "orphan"]
       /\ UNCHANGED <<record, routes, dns>>

Reboot ==
    /\ helper' = Idle /\ routes' = NoRoutes
    /\ dns' = [i \in Interfaces |-> "own"]
    /\ UNCHANGED record

\* What goes wrong on the caller's side only.
CallerFails == UNCHANGED <<record, routes, dns, helper>>

NetworkNext ==
    \/ \E n \in AnyNetwork : ApplyCall(n)
    \/ \E n \in AnyNetwork, ok \in BOOLEAN :
        Answered(n, ok) /\ UNCHANGED <<record, routes, dns, faults>>
    \/ HelperStep \/ HelperFail \/ HelperKilled \/ RulesDropped
    \/ Fault /\ (CallerDies \/ Reboot \/ CallerFails)

NetworkSpec == NetworkInit /\ [][NetworkNext]_networkVars

-----------------------------------------------------------------------------
Pcs == {"idle", "called", "removing", "restoring", "installing", "naming",
        "committing", "ended"}
Helpers == [pc : Pcs, owner : {"none", "caller", "orphan"}, target : AnyNetwork,
            old : Records, backups : Backups, undoing : BOOLEAN, applied : BOOLEAN]

\* The type of the script's world.
NetworkTypeOK ==
    /\ record \in Records
    /\ routes \in [net : AnyNetwork, rules : BOOLEAN]
    /\ dns \in [Interfaces -> Settings]
    /\ helper \in Helpers
    /\ faults \in 0..MaxFaults

\* An interface whose resolver settings are not its own has those in the file,
\* through every failure, kill, undo and reboot: they can be put back.
OriginalDnsKept ==
    \A i \in Interfaces : dns[i] # "own" => record.backups[i] = "own"

\* "The interface's original values are recorded before they are changed for
\* the first time, and restored when the network is withdrawn": said here only
\* of what is left when no script is running.
OriginalDnsLasts == helper.pc = "idle" => OriginalDnsKept

\* With no transaction under way and none marked as unfinished, the routes are
\* those of the configuration in the file, or have been lost to a reboot: the
\* script never leaves one configuration's routes under another's record.
RecordTellsRoutes ==
    helper.pc \in {"idle", "ended"} /\ ~record.pending =>
        routes.net \in {record.config, System}

=============================================================================
