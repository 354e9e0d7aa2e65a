-------------------------- MODULE SupervisorProofs --------------------------
(***************************************************************************)
(* Proofs about the two components that run other parts: the access        *)
(* supervisor of PlatformAgent, with the network script it runs, and       *)
(* ModuleManager.  The script's are for any interfaces, any uplinks and    *)
(* any number of faults, as long as a replaced file is there to stay: with *)
(* SyncFails the run of MCOrdinaryNetwork shows the invariant broken.  The *)
(* module manager's are for any modules, graphs, threads and boot lists,   *)
(* whether Overlap lets calls overlap or not: what is said of the modules  *)
(* that run holds for as long as no two calls have been under way at once, *)
(* and the rest holds however they overlap.                                *)
(***************************************************************************)
EXTENDS PlatformAccess, ModuleManager, SequenceTheorems, WellFoundedInduction, TLAPS

(***************************************************************************)
(* The network script: what the journal of a transaction under way holds,  *)
(* and what each of its steps leaves of the kernel and the resolver.       *)
(***************************************************************************)

InTransaction == helper.pc \in {"removing", "restoring", "installing", "naming",
    "committing"}

\* A backup is never our own setting taken for the original.
Genuine(backups) == \A i \in Interfaces : backups[i] \in {"none", "own"}

\* The servers a record names are on an interface whose settings it has saved.
Covers(n, backups) == n.dns => backups[n.iface] = "own"

RecordSound == Genuine(record.backups) /\ Covers(record.config, record.backups)

JournalSound ==
    /\ helper.pc = "called" => ~helper.undoing
    /\ InTransaction =>
        /\ record.pending /\ helper.backups = record.backups
        /\ Genuine(helper.old.backups) /\ Covers(helper.old.config, helper.old.backups)
        /\ record.config = helper.old.config
        /\ Covers(helper.target, record.backups)
        /\ helper.undoing => helper.target = helper.old.config

DnsFollows ==
    /\ helper.pc = "naming" => helper.target.dns
    /\ helper.pc \in {"installing", "naming"} => \A i \in Interfaces : dns[i] = "own"
    /\ helper.pc = "committing" =>
        \A i \in Interfaces : dns[i] # "own" => helper.target.dns /\ i = helper.target.iface

RoutesFollow ==
    /\ helper.pc \in {"naming", "committing"} => routes.net = helper.target
    /\ ~InTransaction /\ ~record.pending => routes.net \in {record.config, System}

NetworkInv ==
    NetworkTypeOK /\ OriginalDnsKept /\ RecordSound /\ JournalSound /\ DnsFollows /\ RoutesFollow

-----------------------------------------------------------------------------
\* The initial state satisfies the invariant.
LEMMA NetworkInvInit == NetworkInit => NetworkInv
  <1> SUFFICES ASSUME NetworkInit PROVE NetworkInv
    OBVIOUS
  <1> QED
    BY NetworkAssumption DEF NetworkInit, NetworkInv, NetworkTypeOK, OriginalDnsKept,
       RecordSound, JournalSound, DnsFollows, RoutesFollow, InTransaction, Genuine, Covers,
       Settings, Backups, NoRecord, NoBackups, NoRoutes, Idle, Records, AnyNetwork,
           System, Pcs, Helpers

\* Only an uplink of the device names servers, on one of its interfaces.
LEMMA ServersOnInterface ==
  ASSUME NEW n \in AnyNetwork, n.dns PROVE n.iface \in Interfaces /\ n # System
  BY NetworkAssumption DEF AnyNetwork, System

\* The end of the script leaves every part of its world as it was.
LEMMA FinishKeeps ==
  ASSUME NetworkInv, NEW ok \in BOOLEAN, Finish(ok)
  PROVE  /\ helper' \in Helpers
         /\ helper'.pc \in {"idle", "ended"}
  BY DEF Finish, Idle, Pcs, Helpers, NoRecord, Records, AnyNetwork, Settings, Backups,
      NoBackups

\* Snapshotting keeps a backup that exists and saves the interface's own
\* settings: they have not been replaced, or the backup would exist.
LEMMA SnapshotSound ==
  ASSUME NetworkInv, NEW n \in AnyNetwork
  PROVE  LET b == WithSnapshot(n, record.backups)
         IN  /\ b \in Backups
             /\ Genuine(b) /\ Covers(n, b) /\ Covers(record.config, b)
             /\ \A i \in Interfaces : record.backups[i] = "own" => b[i] = "own"
  <1>1. CASE n.dns /\ record.backups[n.iface] = "none"
    <2>1. n.iface \in Interfaces
      BY <1>1, ServersOnInterface
    <2>2. dns[n.iface] = "own"
      BY <1>1, <2>1 DEF NetworkInv, OriginalDnsKept, NetworkTypeOK
    <2>3. WithSnapshot(n, record.backups) = [record.backups EXCEPT ![n.iface] = "own"]
      BY <1>1, <2>2 DEF WithSnapshot
    <2>4. record.config.dns => record.config.iface \in Interfaces
      BY ServersOnInterface DEF NetworkInv, NetworkTypeOK, Records
    <2> QED
      BY <2>1, <2>3, <2>4
      DEF NetworkInv, NetworkTypeOK, Records, Settings, Backups, RecordSound, Genuine,
          Covers
  <1>2. CASE ~(n.dns /\ record.backups[n.iface] = "none")
    <2>1. WithSnapshot(n, record.backups) = record.backups
      BY <1>2 DEF WithSnapshot
    <2>2. n.dns => n.iface \in Interfaces
      BY ServersOnInterface
    <2> QED
      BY <1>2, <2>1, <2>2
      DEF NetworkInv, NetworkTypeOK, Records, Settings, Backups, RecordSound, Genuine,
          Covers
  <1> QED
    BY <1>1, <1>2

-----------------------------------------------------------------------------
\* Writing the journal.
LEMMA JournalKeepsInv ==
  ASSUME NetworkInv, HelperJournal PROVE NetworkInv'
  <1> DEFINE b == WithSnapshot(helper.target, record.backups)
  <1>1. helper.target \in AnyNetwork /\ helper.old \in Records /\ record \in Records
    BY DEF NetworkInv, NetworkTypeOK, Helpers
  <1>2. /\ record' = [config |-> record.config, pending |-> TRUE, backups |-> b]
        /\ helper' = [helper EXCEPT !.pc = "removing", !.old = record, !.backups = b]
        /\ helper.pc = "called" /\ UNCHANGED <<routes, dns, faults>>
    BY DEF HelperJournal, Journal
  <1>3. /\ b \in Backups
        /\ Genuine(b) /\ Covers(helper.target, b) /\ Covers(record.config, b)
        /\ \A i \in Interfaces : record.backups[i] = "own" => b[i] = "own"
    BY <1>1, SnapshotSound
  <1> HIDE DEF b
  <1>4. NetworkTypeOK'
    BY <1>1, <1>2, <1>3 DEF NetworkInv, NetworkTypeOK, Records, Pcs, Helpers
  <1>5. OriginalDnsKept' /\ RecordSound'
    BY <1>2, <1>3 DEF NetworkInv, OriginalDnsKept, RecordSound, Genuine, Covers
  <1> QED
    BY <1>1, <1>2, <1>3, <1>4, <1>5
    DEF NetworkInv, NetworkTypeOK, JournalSound, DnsFollows, RoutesFollow, InTransaction,
        RecordSound, Genuine, Covers

\* Putting back what is missing of the installed configuration.
LEMMA RepairKeepsInv ==
  ASSUME NetworkInv, HelperRepair PROVE NetworkInv'
  <1>1. /\ helper.target \in AnyNetwork
        /\ helper.target.dns => helper.target.iface \in Interfaces
    BY ServersOnInterface DEF NetworkInv, NetworkTypeOK, Helpers
  <1>2. Finish(Repairable) /\ Repairable \in BOOLEAN
    BY DEF HelperRepair, Repairable
  <1>3. NetworkTypeOK'
    <2>1. routes' \in [net : AnyNetwork, rules : BOOLEAN]
      <3>1. RoutesOf(helper.target) \in [net : AnyNetwork, rules : BOOLEAN]
        BY <1>1 DEF RoutesOf
      <3> QED
        BY <3>1 DEF HelperRepair, NetworkInv, NetworkTypeOK
    <2>3. dns' \in [Interfaces -> Settings]
      <3>1. dns \in [Interfaces -> Settings]
        BY DEF NetworkInv, NetworkTypeOK
      <3>2. helper.target.dns => [dns EXCEPT ![helper.target.iface] = "ours"]
                                   \in [Interfaces -> Settings]
        BY <3>1 DEF Settings
      <3> QED
        BY <3>1, <3>2 DEF HelperRepair
    <2>2. helper' \in Helpers
      BY <1>2, FinishKeeps
    <2> QED
      BY <2>1, <2>2, <2>3 DEF HelperRepair, NetworkInv, NetworkTypeOK
  <1>4. OriginalDnsKept'
    BY <1>1
    DEF HelperRepair, Repairs, NetworkInv, NetworkTypeOK, OriginalDnsKept, RecordSound,
        Covers
  <1>5. helper'.pc \notin {"called", "removing", "restoring", "installing", "naming",
                          "committing"}
    BY <1>2, FinishKeeps
  <1>6. RecordSound' /\ JournalSound' /\ DnsFollows'
    BY <1>5 DEF HelperRepair, NetworkInv, RecordSound, JournalSound, DnsFollows,
       InTransaction, Genuine, Covers
  <1>7. routes'.net \in {record'.config, System}
    BY DEF HelperRepair, Repairs, RoutesOf, NetworkInv, RoutesFollow, InTransaction
  <1> QED
    BY <1>3, <1>4, <1>5, <1>6, <1>7 DEF NetworkInv, RoutesFollow, InTransaction

\* Restoring the saved settings leaves every interface with its own ones: one
\* without a backup has not been touched.
LEMMA RestoreKeepsInv ==
  ASSUME NetworkInv, HelperRestoreDns PROVE NetworkInv'
  <1>1. \A i \in Interfaces : dns'[i] = "own"
    BY DEF HelperRestoreDns, NetworkInv, NetworkTypeOK, Records, Settings, Backups,
       OriginalDnsKept, RecordSound, JournalSound, InTransaction, Genuine
  <1>2. dns' \in [Interfaces -> Settings]
    BY <1>1 DEF HelperRestoreDns, Settings
  <1> QED
    BY <1>1, <1>2
    DEF HelperRestoreDns, GoTo, NetworkInv, NetworkTypeOK, Pcs, Helpers, OriginalDnsKept,
        RecordSound,
        JournalSound, DnsFollows, RoutesFollow, InTransaction, Genuine, Covers

\* Naming the servers of the target, whose interface the journal covers.
LEMMA NamingKeepsInv ==
  ASSUME NetworkInv, HelperNameServers PROVE NetworkInv'
  <1> DEFINE i == helper.target.iface
  <1>1. helper.target \in AnyNetwork /\ helper.target.dns
    BY DEF HelperNameServers, NetworkInv, NetworkTypeOK, Helpers, DnsFollows
  <1>2. i \in Interfaces
    BY <1>1, ServersOnInterface
  <1>3. /\ record.backups[i] = "own" /\ \A k \in Interfaces : dns[k] = "own"
    BY <1>1 DEF HelperNameServers, NetworkInv, JournalSound, InTransaction, Covers,
        DnsFollows
  <1>4. /\ dns' \in [Interfaces -> Settings]
        /\ \A k \in Interfaces : dns'[k] # "own" => k = i
    BY <1>2, <1>3 DEF HelperNameServers, NetworkInv, NetworkTypeOK, Settings
  <1>5. NetworkTypeOK' /\ OriginalDnsKept'
    BY <1>3, <1>4
    DEF HelperNameServers, GoTo, NetworkInv, NetworkTypeOK, Pcs, Helpers, OriginalDnsKept
  <1>6. DnsFollows'
    BY <1>1, <1>4 DEF HelperNameServers, GoTo, NetworkInv, NetworkTypeOK, DnsFollows
  <1> QED
    BY <1>5, <1>6
    DEF HelperNameServers, GoTo, NetworkInv, NetworkTypeOK, RecordSound, JournalSound,
        RoutesFollow, InTransaction, Genuine, Covers

\* Taking the routes down, and putting those of the target up.
LEMMA RoutesKeepInv ==
  ASSUME NetworkInv, HelperRemove \/ HelperInstall PROVE NetworkInv'
  <1>1. CASE HelperRemove
    BY <1>1
    DEF HelperRemove, NoRoutes, AnyNetwork, GoTo, NetworkInv, NetworkTypeOK, Pcs, Helpers,
        OriginalDnsKept, RecordSound, JournalSound, DnsFollows, RoutesFollow, InTransaction,
        Genuine, Covers
  <1>2. CASE HelperInstall
    <2>1. helper.target \in AnyNetwork
      BY DEF NetworkInv, NetworkTypeOK, Helpers
    <2>2. routes' \in [net : AnyNetwork, rules : BOOLEAN] /\ routes'.net = helper.target
      BY <1>2, <2>1 DEF HelperInstall, RoutesOf
    <2> QED
      BY <1>2, <2>1, <2>2
      DEF HelperInstall, GoTo, NetworkInv, NetworkTypeOK, Pcs, Helpers, OriginalDnsKept,
          RecordSound,
          JournalSound, DnsFollows, RoutesFollow, InTransaction, Genuine, Covers
  <1> QED
    BY <1>1, <1>2

\* The last write: it keeps the backup of the one interface whose settings are
\* still replaced, and names the configuration whose routes are up.
LEMMA CommitKeepsInv ==
  ASSUME NetworkInv, HelperCommit PROVE NetworkInv'
  <1>1. /\ helper.target \in AnyNetwork
        /\ helper.target.dns => helper.target.iface \in Interfaces
    BY ServersOnInterface DEF NetworkInv, NetworkTypeOK, Helpers
  <1>2. /\ record.pending /\ helper.backups = record.backups
        /\ helper.old \in Records /\ record \in Records
        /\ Genuine(helper.old.backups) /\ Covers(helper.old.config, helper.old.backups)
        /\ Covers(helper.target, record.backups)
        /\ helper.undoing => helper.target = helper.old.config
        /\ routes.net = helper.target
        /\ \A i \in Interfaces : dns[i] # "own" => helper.target.dns /\ i = helper.target.iface
    BY DEF HelperCommit, NetworkInv, NetworkTypeOK, Helpers, JournalSound, RoutesFollow,
        DnsFollows,
       InTransaction
  <1>3. /\ record' \in Records /\ record'.config = helper.target
        /\ Genuine(record'.backups) /\ Covers(helper.target, record'.backups)
    <2>1. CASE helper.undoing
      BY <1>2, <2>1 DEF HelperCommit, LastRecord
    <2>2. CASE ~helper.undoing
      <3>1. record' = [config |-> helper.target, backups |-> Retained(helper.target),
                       pending |-> FALSE]
        BY <2>2 DEF HelperCommit, LastRecord
      <3>2. /\ Retained(helper.target) \in Backups
            /\ Genuine(Retained(helper.target))
            /\ Covers(helper.target, Retained(helper.target))
        BY <1>1, <1>2 DEF Retained, NoBackups, Genuine, Covers, Records, Settings, Backups
      <3> QED
        BY <1>1, <3>1, <3>2 DEF Records
    <2> QED
      BY <2>1, <2>2
  <1>4. helper' \in Helpers
        /\ helper'.pc \in {"idle", "ended"}
    <2>1. (~helper.undoing) \in BOOLEAN /\ Finish(~helper.undoing)
      BY DEF HelperCommit, NetworkInv, NetworkTypeOK
    <2> QED
      BY <2>1, FinishKeeps
  <1>5. UNCHANGED <<routes, dns, faults>>
    BY DEF HelperCommit
  <1>6. NetworkTypeOK' /\ RecordSound' /\ OriginalDnsKept'
    BY <1>2, <1>3, <1>4, <1>5
    DEF NetworkInv, NetworkTypeOK, RecordSound, OriginalDnsKept, Covers
  <1> QED
    BY <1>2, <1>3, <1>4, <1>5, <1>6
    DEF NetworkInv, JournalSound, DnsFollows, RoutesFollow, InTransaction

\* What a step that is broken off leaves: settings that are not an interface's
\* own only where the file has the originals, and no other routes than those of
\* the record unless it is marked as unfinished.
LEMMA HalfDoneSound ==
  ASSUME NetworkInv, HalfDone
  PROVE  /\ record' = record /\ routes' \in [net : AnyNetwork, rules : BOOLEAN]
         /\ dns' \in [Interfaces -> Settings] /\ OriginalDnsKept'
         /\ ~record.pending => routes'.net \in {record.config, System}
  <1>1. /\ helper.target \in AnyNetwork /\ routes \in [net : AnyNetwork, rules : BOOLEAN]
        /\ dns \in [Interfaces -> Settings] /\ record' = record
        /\ OriginalDnsKept
        /\ ~InTransaction /\ ~record.pending => routes.net \in {record.config, System}
        /\ InTransaction => record.pending
    BY DEF HalfDone, NetworkInv, NetworkTypeOK, Helpers, JournalSound, RoutesFollow
  <1>2. CASE UNCHANGED <<routes, dns>>
    BY <1>1, <1>2 DEF OriginalDnsKept
  <1>3. CASE RoutesHalfDone
    <2>1. /\ routes' \in [net : AnyNetwork, rules : BOOLEAN]
          /\ InTransaction \/ (Repairs /\ routes'.net = helper.target)
      <3>1. CASE helper.pc = "removing" /\ routes' = [routes EXCEPT !.rules = FALSE]
        BY <1>1, <3>1 DEF InTransaction
      <3>2. CASE helper.pc = "installing" /\ routes' = [net |-> helper.target,
          rules |-> FALSE]
        BY <1>1, <3>2 DEF InTransaction
      <3>3. CASE Repairs /\ routes' = [routes EXCEPT !.net = helper.target]
        BY <1>1, <3>3
      <3> QED
        BY <1>3, <3>1, <3>2, <3>3 DEF RoutesHalfDone
    <2>2. UNCHANGED dns
      BY <1>3 DEF RoutesHalfDone
    <2> QED
      BY <1>1, <2>1, <2>2 DEF OriginalDnsKept, Repairs
  <1>4. CASE DnsHalfDone
    <2>1. CASE helper.pc = "restoring"
      <3>1. /\ dns' \in [Interfaces -> Settings] /\ routes' = routes
            /\ \A i \in Interfaces : dns'[i] = dns[i] \/ record.backups[i] # "none"
        BY <1>4, <2>1 DEF DnsHalfDone, NetworkInv, JournalSound, InTransaction
      <3>2. \A i \in Interfaces : record.backups[i] \in {"none", "own"}
        BY DEF NetworkInv, RecordSound, Genuine
      <3> QED
        BY <1>1, <2>1, <3>1, <3>2 DEF OriginalDnsKept, InTransaction
    <2>2. CASE helper.pc # "restoring"
      <3> DEFINE i == helper.target.iface
      <3>1. /\ helper.target.dns /\ Mixed(i)
            /\ \/ helper.pc = "naming" /\ routes' = routes
               \/ helper.pc = "called" /\ Repairs /\ routes' = RoutesOf(helper.target)
        BY <1>4, <2>2 DEF DnsHalfDone, NetworkInv, DnsFollows
      <3>2. i \in Interfaces
        BY <1>1, <3>1, ServersOnInterface
      <3>3. record.backups[i] = "own"
        BY <3>1
        DEF NetworkInv, JournalSound, RecordSound, InTransaction, Covers, Repairs
      <3>4. /\ dns' \in [Interfaces -> Settings]
            /\ \A k \in Interfaces : k = i \/ dns'[k] = dns[k]
        BY <1>1, <3>1, <3>2 DEF Mixed, Settings
      <3>5. /\ routes' \in [net : AnyNetwork, rules : BOOLEAN]
            /\ InTransaction \/ (Repairs /\ routes'.net = helper.target)
        <4>1. CASE helper.pc = "naming" /\ routes' = routes
          BY <1>1, <4>1 DEF InTransaction
        <4>2. CASE Repairs /\ routes' = RoutesOf(helper.target)
          BY <1>1, <4>2 DEF RoutesOf
        <4> QED
          BY <3>1, <4>1, <4>2
      <3>6. OriginalDnsKept'
        BY <1>1, <3>3, <3>4 DEF OriginalDnsKept
      <3> QED
        BY <1>1, <3>4, <3>5, <3>6 DEF Repairs
    <2> QED
      BY <2>1, <2>2
  <1> QED
    BY <1>2, <1>3, <1>4 DEF HalfDone

\* A script that is cut short is over.
LEMMA CutShortKeepsInv ==
  ASSUME NetworkInv, HalfDone, faults' \in 0..MaxFaults, helper'.pc \in {"idle", "ended"},
         helper' \in Helpers
  PROVE  NetworkInv'
  <1>1. NetworkTypeOK' /\ OriginalDnsKept'
    BY HalfDoneSound DEF NetworkInv, NetworkTypeOK
  <1> QED
    BY <1>1, HalfDoneSound
    DEF NetworkInv, RecordSound, JournalSound, DnsFollows, RoutesFollow, InTransaction,
        Genuine, Covers

\* A failure ends the script, or turns it to the undoing of what it did.
LEMMA AbandonKeepsInv ==
  ASSUME NetworkInv, Working, Abandon, HalfDone, faults' \in 0..MaxFaults
  PROVE  NetworkInv'
  <1>1. CASE helper.pc = "called" \/ helper.undoing
    <2>1. Finish(FALSE)
      BY <1>1 DEF Abandon
    <2> QED
      BY <2>1, FinishKeeps, CutShortKeepsInv
  <1>2. CASE ~(helper.pc = "called" \/ helper.undoing)
    <2>1. InTransaction
      BY <1>2 DEF Working, InTransaction, NetworkInv, NetworkTypeOK, Pcs, Helpers
    <2>2. helper' = [helper EXCEPT !.pc = "removing", !.undoing = TRUE,
                                   !.target = helper.old.config]
      BY <1>2 DEF Abandon
    <2>3. helper.old.config \in AnyNetwork
      BY DEF NetworkInv, NetworkTypeOK, Helpers, Records
    <2>4. NetworkTypeOK' /\ OriginalDnsKept'
      BY <2>2, <2>3, HalfDoneSound DEF NetworkInv, NetworkTypeOK, Pcs, Helpers
    <2> QED
      BY <2>1, <2>2, <2>3, <2>4, HalfDoneSound
      DEF NetworkInv, NetworkTypeOK, RecordSound, JournalSound, DnsFollows, RoutesFollow,
          InTransaction, Genuine, Covers
  <1> QED
    BY <1>1, <1>2

\* The caller's steps: a call begins, ends or is answered, or the script dies.
LEMMA CallsKeepInv ==
  ASSUME NetworkInv, UNCHANGED <<record, routes, dns>>, faults' \in 0..MaxFaults,
         \/ helper' = Idle \/ helper' = helper
         \/ helper' = [helper EXCEPT !.owner = "orphan"]
         \/ helper.pc = "idle" /\ \E n \in AnyNetwork :
             helper' = [Idle EXCEPT !.pc = "called", !.owner = "caller", !.target = n]
  PROVE  NetworkInv'
  <1> USE DEF OriginalDnsKept, RecordSound, JournalSound, DnsFollows, RoutesFollow,
              InTransaction, Genuine, Covers
  <1>1. Idle \in Helpers /\ helper \in Helpers
    BY DEF Idle, Pcs, Helpers, NoRecord, Settings, Backups, NoBackups, Records, AnyNetwork,
       NetworkInv, NetworkTypeOK
  <1>2. helper' \in Helpers => NetworkTypeOK'
    BY DEF NetworkInv, NetworkTypeOK
  <1>3. CASE helper' = Idle
    BY <1>1, <1>2, <1>3 DEF Idle, NetworkInv
  <1>4. CASE helper' = helper
    BY <1>1, <1>2, <1>4 DEF NetworkInv
  <1>5. CASE helper' = [helper EXCEPT !.owner = "orphan"]
    <2>1. /\ helper' \in Helpers
          /\ helper'.pc = helper.pc /\ helper'.target = helper.target
          /\ helper'.old = helper.old /\ helper'.undoing = helper.undoing
          /\ helper'.backups = helper.backups
      BY <1>1, <1>5 DEF Helpers
    <2> QED
      BY <1>2, <2>1 DEF NetworkInv
  <1>6. CASE helper.pc = "idle" /\ \E n \in AnyNetwork :
               helper' = [Idle EXCEPT !.pc = "called", !.owner = "caller", !.target = n]
    <2>1. /\ helper' \in Helpers
          /\ helper'.pc = "called" /\ ~helper'.undoing
      BY <1>1, <1>6 DEF Helpers, Idle, Pcs
    <2> QED
      BY <1>2, <1>6, <2>1 DEF NetworkInv
  <1> QED
    BY <1>3, <1>4, <1>5, <1>6

\* Rules dropped by another program, and a reboot.
LEMMA OutsideKeepsInv ==
  ASSUME NetworkInv, Fault, RulesDropped \/ Reboot PROVE NetworkInv'
  <1>1. faults' \in 0..MaxFaults
    BY NetworkAssumption DEF Fault, NetworkInv, NetworkTypeOK
  <1>2. CASE RulesDropped
    BY <1>1, <1>2
    DEF RulesDropped, NetworkInv, NetworkTypeOK, OriginalDnsKept, RecordSound, JournalSound,
        DnsFollows, RoutesFollow, InTransaction, Genuine, Covers
  <1>3. CASE Reboot
    BY <1>1, <1>3
    DEF Reboot, NoRoutes, Idle, NoRecord, Settings, Backups, NoBackups, Records,
        AnyNetwork, Pcs, Helpers, NetworkInv,
        NetworkTypeOK, OriginalDnsKept, RecordSound, JournalSound, DnsFollows, RoutesFollow,
        InTransaction, Genuine, Covers
  <1> QED
    BY <1>2, <1>3

-----------------------------------------------------------------------------
\* Every step of the script and of its surroundings keeps the invariant.
LEMMA NetworkInvStep ==
  ASSUME ~SyncFails, NetworkInv, [NetworkNext]_networkVars PROVE NetworkInv'
  <1>0. /\ faults \in 0..MaxFaults
        /\ Fault => faults' \in 0..MaxFaults
    BY NetworkAssumption DEF Fault, NetworkInv, NetworkTypeOK
  <1>1. CASE \E n \in AnyNetwork : ApplyCall(n)
    BY <1>0, <1>1, CallsKeepInv DEF ApplyCall
  <1>2. CASE \E n \in AnyNetwork, ok \in BOOLEAN :
               Answered(n, ok) /\ UNCHANGED <<record, routes, dns, faults>>
    BY <1>0, <1>2, CallsKeepInv DEF Answered
  <1>3. CASE HelperStep
    <2>1. HelperVerifyFail => NetworkInv'
      BY <1>0, AbandonKeepsInv DEF HelperVerifyFail, Working, HalfDone
    <2> QED
      BY <1>3, <2>1, JournalKeepsInv, RepairKeepsInv, RoutesKeepInv, RestoreKeepsInv,
         NamingKeepsInv, CommitKeepsInv DEF HelperStep
  <1>4. CASE HelperFail
    BY <1>0, <1>4, AbandonKeepsInv DEF HelperFail, Unsynced
  <1>a. Idle \in Helpers
    BY DEF Idle, Pcs, Helpers, NoRecord, Records, AnyNetwork, Settings, Backups, NoBackups
  <1>5. CASE HelperKilled
    <2>1. helper' = [Idle EXCEPT !.pc = "ended", !.owner = "caller"] /\ HalfDone /\ Fault
      BY <1>5 DEF HelperKilled
    <2>2. helper'.pc = "ended"
      BY <2>1 DEF Idle
    <2>3. helper' \in Helpers
      BY <1>a, <2>1 DEF Pcs, Helpers
    <2> QED
      BY <1>0, <2>1, <2>2, <2>3, CutShortKeepsInv
  <1>6. CASE RulesDropped
    BY <1>6, OutsideKeepsInv DEF RulesDropped
  <1>7. CASE Fault /\ (CallerDies \/ CallerFails)
    <2>1. CASE helper' = Idle /\ HalfDone
      BY <1>0, <1>7, <1>a, <2>1, CutShortKeepsInv DEF Idle
    <2>2. CASE ~(helper' = Idle /\ HalfDone)
      BY <1>0, <1>7, <2>2, CallsKeepInv DEF CallerDies, CallerFails
    <2> QED
      BY <2>1, <2>2
  <1>8. CASE Fault /\ Reboot
    BY <1>8, OutsideKeepsInv
  <1>9. CASE UNCHANGED networkVars
    BY <1>0, <1>9, CallsKeepInv DEF networkVars
  <1> QED
    BY <1>1, <1>2, <1>3, <1>4, <1>5, <1>6, <1>7, <1>8, <1>9 DEF NetworkNext

\* The invariant holds of every state of the script's world.
THEOREM NetworkInvariant == ASSUME ~SyncFails PROVE NetworkSpec => []NetworkInv
  <1>1. NetworkInv /\ [NetworkNext]_networkVars => NetworkInv'
    BY NetworkInvStep
  <1> QED
    BY <1>1, NetworkInvInit, PTL DEF NetworkSpec

\* The variables of the script's world keep their types.
THEOREM NetworkTypeCorrect == ASSUME ~SyncFails PROVE NetworkSpec => []NetworkTypeOK
  <1>1. NetworkInv => NetworkTypeOK
    BY DEF NetworkInv
  <1> QED
    BY <1>1, NetworkInvariant, PTL

\* For any interfaces and uplinks, and however many failures, kills and
\* reboots: the original resolver settings can always be put back.
THEOREM OriginalDnsAlwaysKept == ASSUME ~SyncFails PROVE NetworkSpec => []OriginalDnsKept
  <1>1. NetworkInv => OriginalDnsKept
    BY DEF NetworkInv
  <1> QED
    BY <1>1, NetworkInvariant, PTL

\* A record without a transaction under way never covers other routes.
THEOREM RecordAlwaysTellsRoutes == ASSUME ~SyncFails PROVE NetworkSpec => []RecordTellsRoutes
  <1>1. NetworkInv => RecordTellsRoutes
    BY DEF NetworkInv, RoutesFollow, InTransaction, RecordTellsRoutes
  <1> QED
    BY <1>1, NetworkInvariant, PTL

-----------------------------------------------------------------------------
(***************************************************************************)
(* The supervisor.  It uses the script only as OrdinaryNetwork says, so    *)
(* what holds of the script holds here; and an invariant that ties the     *)
(* three threads to the mutex, the Run thread's notes to the generation    *)
(* they were taken in, and the worker to the last generation the Run       *)
(* thread acted on.                                                        *)
(***************************************************************************)

\* Each step of the supervisor is a step of the script's world, or none.
LEMMA AccessStepIsNetworkStep ==
  ASSUME AccessTypeOK, [AccessNext]_accessVars PROVE [NetworkNext]_networkVars
  <1>1. ASSUME Fault, UNCHANGED <<record, routes, dns, helper>>
        PROVE  [NetworkNext]_networkVars
    BY <1>1 DEF NetworkNext, CallerFails
  <1>2. ASSUME NEW n, NEW ok, Checked(n, ok), UNCHANGED <<record, routes, dns, helper>>
        PROVE  [NetworkNext]_networkVars
    BY <1>1, <1>2 DEF Checked, networkVars
  <1>3. SetTarget \in AnyNetwork /\ run.network \in AnyNetwork
    BY DEF SetTarget, AccessTypeOK, Configs, SetCalls, Runs
  <1>4. ASSUME NEW n \in AnyNetwork, ApplyCall(n) PROVE [NetworkNext]_networkVars
    BY <1>4 DEF NetworkNext
  <1>5. ASSUME NEW n \in AnyNetwork, NEW ok \in BOOLEAN, Answered(n, ok),
               UNCHANGED <<record, routes, dns, faults>>
        PROVE  [NetworkNext]_networkVars
    BY <1>5 DEF NetworkNext
  <1>6. CASE SetNext
    BY <1>1, <1>2, <1>3, <1>4, <1>5, <1>6
    DEF SetNext, SetChecked, SetApplies, SetApplied, SetSaves, SetPublishes, networkVars
  <1>7. CASE RunNext
    BY <1>2, <1>3, <1>4, <1>5, <1>7
    DEF RunNext, RunWakes, RunChecked, RunApplies, RunApplied, RunDecides, RunStarts,
        RunLaunches, networkVars
  <1>8. CASE GetEnd
    BY <1>2, <1>8 DEF GetEnd
  <1>9. CASE WorkerThrows
    BY <1>1, <1>9 DEF WorkerThrows
  <1>10. CASE HelperGoesOn
    BY <1>10 DEF HelperGoesOn, NetworkNext
  <1>11. CASE ProcessDies
    BY <1>11 DEF ProcessDies, NetworkNext
  <1>12. CASE PowerFails
    BY <1>12 DEF PowerFails, NetworkNext
  <1>13. CASE \/ \E n \in AnyNetwork, e \in BOOLEAN : SetBegin(n, e)
              \/ GetBegin \/ GetAnswered \/ RunLocks
              \/ \E up \in BOOLEAN : WorkerReports(up)
              \/ WorkerStops \/ UNCHANGED accessVars
    BY <1>13
    DEF SetBegin, GetBegin, GetAnswered, RunLocks, WorkerReports, WorkerStops, accessVars,
        networkVars
  <1> QED
    BY <1>6, <1>7, <1>8, <1>9, <1>10, <1>11, <1>12, <1>13 DEF AccessNext

-----------------------------------------------------------------------------
\* Who holds the mutex is where it says.
LockHeld ==
    /\ saveMutex = "set" <=> setCall.pc # "idle"
    /\ saveMutex = "get" <=> getCall.pc = "checking"
    /\ saveMutex = "run" <=> run.pc \in {"checking", "repairing"}

\* A save in progress is the next revision, and there is one.
SaveSound ==
    /\ setCall.pc # "idle" => setCall.next.revision = saved.revision + 1
    /\ setCall.pc \in {"applying", "saving", "publishing"} => saved.revision < MaxRevision
    /\ getCall.pc = "checking" =>
        getCall.revision = saved.revision /\ getCall.network = saved.network

\* Generations: what the Run thread has noted is never ahead of what is saved.
GenerationSound ==
    /\ generation <= saved.revision /\ run.gen <= generation /\ run.applied <= run.gen
    /\ worker.pc # "none" => worker.gen = run.applied /\ run.applied >= 0

\* What the Run thread has noted holds as long as no other save was published;
\* a pause after its note comes from the worker of that very generation.
NotesSound ==
    /\ run.pc \in {"checking", "repairing"} => run.gen = generation
    /\ run.pc # "waiting" /\ run.gen = generation =>
        /\ run.network = saved.network
        /\ run.enabled => saved.enabled
        /\ run.enabled /\ paused => worker.pc # "none" /\ run.applied = generation
    /\ run.pc \in {"starting", "launching"} =>
        worker.pc = "none" /\ run.enabled /\ run.applied = run.gen

WorkerSound ==
    /\ worker.pc = "running" /\ worker.gen = generation => saved.enabled /\ ~paused
    /\ generation > 0 /\ ~paused => synced.revision >= saved.revision

AccessInv ==
    /\ AccessTypeOK /\ LockHeld /\ SaveSound /\ GenerationSound /\ NotesSound
    /\ WorkerSound /\ OnlineIsCurrent

\* The values Set gives to its state.
LEMMA SetCallTypes ==
  ASSUME AccessTypeOK
  PROVE  /\ NoSet \in SetCalls
         /\ \A pc \in {"checking", "applying", "repairing", "restoring", "saving", "publishing"} :
               /\ [setCall EXCEPT !.pc = pc] \in SetCalls
               /\ \A b \in BOOLEAN : [setCall EXCEPT !.pc = pc, !.applied = b] \in SetCalls
  <1> DEFINE Pc == {"checking", "applying", "repairing", "restoring", "saving", "publishing"}
  <1>1. NoSet \in SetCalls
    BY RevisionAssumption DEF NoSet, Default, AnyNetwork, SetCalls
  <1>2. \A pc \in Pc : [setCall EXCEPT !.pc = pc] \in SetCalls
    BY DEF AccessTypeOK, SetCalls
  <1>3. \A pc \in Pc, b \in BOOLEAN : [setCall EXCEPT !.pc = pc, !.applied = b] \in SetCalls
    BY DEF AccessTypeOK, SetCalls
  <1> QED
    BY <1>1, <1>2, <1>3

\* Set takes the mutex.
LEMMA BeginKeeps ==
  ASSUME AccessInv, NetworkTypeOK', NEW n \in AnyNetwork, NEW e \in BOOLEAN, SetBegin(n, e)
  PROVE  AccessInv'
  <1> USE RevisionAssumption DEF AccessInv, AccessTypeOK, Configs, memoryVars, fileVars
  <1>1. AccessTypeOK'
    <2>1. setCall' \in SetCalls
      BY DEF SetBegin, SetCalls
    <2>2. getCall' \in GetCalls
      BY DEF SetBegin, GetCalls
    <2>3. run' \in Runs
      BY DEF SetBegin, Runs
    <2>4. worker' \in Workers
      BY DEF SetBegin, Workers
    <2> QED
      BY <2>1, <2>2, <2>3, <2>4 DEF SetBegin, GenerationSound, SaveSound, LockHeld, SetCalls
  <1>2. LockHeld'
    BY DEF SetBegin, LockHeld, SetCalls, GetCalls, Runs, Workers
  <1>3. SaveSound'
    BY DEF SetBegin, LockHeld, SaveSound, SetCalls, GetCalls, Runs, Workers
  <1>4. GenerationSound'
    BY DEF SetBegin, GenerationSound, NotesSound, SaveSound, SetCalls, GetCalls, Runs, Workers
  <1>5. NotesSound'
    BY DEF SetBegin, LockHeld, GenerationSound, NotesSound, WorkerSound, SetCalls, GetCalls,
      Runs, Workers
  <1>6. WorkerSound'
    BY DEF SetBegin, GenerationSound, NotesSound, WorkerSound, SaveSound, SetCalls, GetCalls,
      Runs, Workers
  <1>7. OnlineIsCurrent'
    BY DEF SetBegin, GenerationSound, NotesSound, WorkerSound, OnlineIsCurrent, SetCalls,
      GetCalls, Runs, Workers
  <1> QED
    BY <1>1, <1>2, <1>3, <1>4, <1>5, <1>6, <1>7

\* Set looks at the network it keeps.
LEMMA SetCheckedKeeps ==
  ASSUME AccessInv, NetworkTypeOK', SetChecked PROVE AccessInv'
  <1> USE RevisionAssumption DEF AccessInv, AccessTypeOK, Configs, memoryVars, fileVars
  <1>0. /\ \/ setCall' = NoSet /\ saveMutex' = "free"
           \/ setCall' = [setCall EXCEPT !.pc = "repairing"] /\ UNCHANGED saveMutex
           \/ /\ setCall' = [setCall EXCEPT !.pc = "saving", !.applied = FALSE]
              /\ saved.revision < MaxRevision /\ UNCHANGED saveMutex
           \/ /\ setCall' = [setCall EXCEPT !.pc = "applying", !.applied = TRUE]
              /\ saved.revision < MaxRevision /\ UNCHANGED saveMutex
        /\ setCall.pc = "checking"
        /\ UNCHANGED <<memoryVars, fileVars, getCall, run, worker>>
    BY DEF SetChecked, SetReturn, SetGoes
  <1>1. AccessTypeOK'
    <2>1. setCall' \in SetCalls
      BY <1>0, SetCallTypes
    <2>2. getCall' \in GetCalls
      BY <1>0 DEF NoSet, Default, AnyNetwork, GetCalls
    <2>3. run' \in Runs
      BY <1>0 DEF NoSet, Default, AnyNetwork, Runs
    <2>4. worker' \in Workers
      BY <1>0 DEF NoSet, Default, AnyNetwork, Workers
    <2> QED
      BY <1>0, <2>1, <2>2, <2>3, <2>4 DEF NoSet, Default, AnyNetwork, GenerationSound,
        SaveSound, LockHeld, SetCalls
  <1> DEFINE next == setCall'
  <1>a. /\ (saveMutex' = "free" /\ next.pc = "idle")
           \/ (saveMutex' = saveMutex /\ next.pc # "idle" /\ next.next = setCall.next)
        /\ next.pc \in {"applying", "saving", "publishing"} => saved.revision < MaxRevision
    <2>1. CASE setCall' = NoSet /\ saveMutex' = "free"
      BY <2>1 DEF NoSet
    <2>2. CASE setCall' = [setCall EXCEPT !.pc = "repairing"] /\ UNCHANGED saveMutex
      BY <2>2 DEF SetCalls
    <2>3. CASE /\ setCall' = [setCall EXCEPT !.pc = "saving", !.applied = FALSE]
               /\ saved.revision < MaxRevision /\ UNCHANGED saveMutex
      BY <2>3 DEF SetCalls
    <2>4. CASE /\ setCall' = [setCall EXCEPT !.pc = "applying", !.applied = TRUE]
               /\ saved.revision < MaxRevision /\ UNCHANGED saveMutex
      BY <2>4 DEF SetCalls
    <2> QED
      BY <1>0, <2>1, <2>2, <2>3, <2>4
  <1> HIDE DEF next
  <1>2. LockHeld'
    BY <1>0, <1>a DEF LockHeld, next
  <1>3. SaveSound'
    BY <1>0, <1>a DEF LockHeld, SaveSound, next
  <1>4. GenerationSound'
    BY <1>0 DEF NoSet, Default, AnyNetwork, GenerationSound, NotesSound, SaveSound, SetCalls,
      GetCalls, Runs, Workers
  <1>5. NotesSound'
    BY <1>0 DEF NoSet, Default, AnyNetwork, LockHeld, GenerationSound, NotesSound,
      WorkerSound, SetCalls, GetCalls, Runs, Workers
  <1>6. WorkerSound'
    BY <1>0 DEF NoSet, Default, AnyNetwork, GenerationSound, NotesSound, WorkerSound,
      SaveSound, SetCalls, GetCalls, Runs, Workers
  <1>7. OnlineIsCurrent'
    BY <1>0 DEF NoSet, Default, AnyNetwork, GenerationSound, NotesSound, WorkerSound,
      OnlineIsCurrent, SetCalls, GetCalls, Runs, Workers
  <1> QED
    BY <1>1, <1>2, <1>3, <1>4, <1>5, <1>6, <1>7

\* Set gets the answer of the script.
LEMMA SetAppliedKeeps ==
  ASSUME AccessInv, NetworkTypeOK', SetApplied PROVE AccessInv'
  <1> USE RevisionAssumption DEF AccessInv, AccessTypeOK, Configs, memoryVars, fileVars
  <1>1. AccessTypeOK'
    <2>1. setCall' \in SetCalls
      BY SetCallTypes DEF SetApplied, SetReturn, SetGoes
    <2>2. getCall' \in GetCalls
      BY DEF SetApplied, SetReturn, SetGoes, NoSet, Default, AnyNetwork, GetCalls
    <2>3. run' \in Runs
      BY DEF SetApplied, SetReturn, SetGoes, NoSet, Default, AnyNetwork, Runs
    <2>4. worker' \in Workers
      BY DEF SetApplied, SetReturn, SetGoes, NoSet, Default, AnyNetwork, Workers
    <2> QED
      BY <2>1, <2>2, <2>3, <2>4 DEF SetApplied, SetReturn, SetGoes, NoSet, Default,
        AnyNetwork, GenerationSound, SaveSound, LockHeld, SetCalls
  <1>2. LockHeld'
    BY DEF SetApplied, SetReturn, SetGoes, NoSet, Default, AnyNetwork, LockHeld, SetCalls,
      GetCalls, Runs, Workers
  <1>3. SaveSound'
    BY DEF SetApplied, SetReturn, SetGoes, NoSet, Default, AnyNetwork, LockHeld, SaveSound,
      SetCalls, GetCalls, Runs, Workers
  <1>4. GenerationSound'
    BY DEF SetApplied, SetReturn, SetGoes, NoSet, Default, AnyNetwork, GenerationSound,
      NotesSound, SaveSound, SetCalls, GetCalls, Runs, Workers
  <1>5. NotesSound'
    BY DEF SetApplied, SetReturn, SetGoes, NoSet, Default, AnyNetwork, LockHeld,
      GenerationSound, NotesSound, WorkerSound, SetCalls, GetCalls, Runs, Workers
  <1>6. WorkerSound'
    BY DEF SetApplied, SetReturn, SetGoes, NoSet, Default, AnyNetwork, GenerationSound,
      NotesSound, WorkerSound, SaveSound, SetCalls, GetCalls, Runs, Workers
  <1>7. OnlineIsCurrent'
    BY DEF SetApplied, SetReturn, SetGoes, NoSet, Default, AnyNetwork, GenerationSound,
      NotesSound, WorkerSound, OnlineIsCurrent, SetCalls, GetCalls, Runs, Workers
  <1> QED
    BY <1>1, <1>2, <1>3, <1>4, <1>5, <1>6, <1>7

\* Set writes the file.
LEMMA SetSavesKeeps ==
  ASSUME AccessInv, NetworkTypeOK', SetSaves PROVE AccessInv'
  <1> USE RevisionAssumption DEF AccessInv, AccessTypeOK, Configs, memoryVars, fileVars
  <1>1. AccessTypeOK'
    <2>1. setCall' \in SetCalls
      BY SetCallTypes DEF SetSaves, SetReturn, SetGoes
    <2>2. getCall' \in GetCalls
      BY DEF SetSaves, SetReturn, SetGoes, NoSet, Default, AnyNetwork, GetCalls
    <2>3. run' \in Runs
      BY DEF SetSaves, SetReturn, SetGoes, NoSet, Default, AnyNetwork, Runs
    <2>4. worker' \in Workers
      BY DEF SetSaves, SetReturn, SetGoes, NoSet, Default, AnyNetwork, Workers
    <2> QED
      BY <2>1, <2>2, <2>3, <2>4 DEF SetSaves, SetReturn, SetGoes, NoSet, Default, AnyNetwork,
        GenerationSound, SaveSound, LockHeld, SetCalls
  <1>2. LockHeld'
    BY DEF SetSaves, SetReturn, SetGoes, NoSet, Default, AnyNetwork, LockHeld, SetCalls,
      GetCalls, Runs, Workers
  <1>3. SaveSound'
    BY DEF SetSaves, SetReturn, SetGoes, NoSet, Default, AnyNetwork, LockHeld, SaveSound,
      SetCalls, GetCalls, Runs, Workers
  <1>4. GenerationSound'
    BY DEF SetSaves, SetReturn, SetGoes, NoSet, Default, AnyNetwork, GenerationSound,
      NotesSound, SaveSound, SetCalls, GetCalls, Runs, Workers
  <1>5. NotesSound'
    BY DEF SetSaves, SetReturn, SetGoes, NoSet, Default, AnyNetwork, LockHeld,
      GenerationSound, NotesSound, WorkerSound, SetCalls, GetCalls, Runs, Workers
  <1>6. WorkerSound'
    BY DEF SetSaves, SetReturn, SetGoes, NoSet, Default, AnyNetwork, GenerationSound,
      NotesSound, WorkerSound, SaveSound, SetCalls, GetCalls, Runs, Workers
  <1>7. OnlineIsCurrent'
    BY DEF SetSaves, SetReturn, SetGoes, NoSet, Default, AnyNetwork, GenerationSound,
      NotesSound, WorkerSound, OnlineIsCurrent, SetCalls, GetCalls, Runs, Workers
  <1> QED
    BY <1>1, <1>2, <1>3, <1>4, <1>5, <1>6, <1>7

\* Set makes the saved configuration the current one.
LEMMA SetPublishesKeeps ==
  ASSUME AccessInv, NetworkTypeOK', SetPublishes PROVE AccessInv'
  <1> USE RevisionAssumption DEF AccessInv, AccessTypeOK, Configs, memoryVars, fileVars
  <1>1. AccessTypeOK'
    <2>1. setCall' \in SetCalls
      BY DEF SetPublishes, SetReturn, SetGoes, NoSet, Default, AnyNetwork, SetCalls
    <2>2. getCall' \in GetCalls
      BY DEF SetPublishes, SetReturn, SetGoes, NoSet, Default, AnyNetwork, GetCalls
    <2>3. run' \in Runs
      BY DEF SetPublishes, SetReturn, SetGoes, NoSet, Default, AnyNetwork, Runs
    <2>4. worker' \in Workers
      BY DEF SetPublishes, SetReturn, SetGoes, NoSet, Default, AnyNetwork, Workers
    <2>5. setCall.next \in Configs /\ generation + 1 \in 0..MaxRevision
      BY DEF SetPublishes, SaveSound, GenerationSound, SetCalls
    <2> QED
      BY <2>1, <2>2, <2>3, <2>4, <2>5 DEF SetPublishes, SetReturn
  <1>2. LockHeld'
    BY DEF SetPublishes, SetReturn, SetGoes, NoSet, Default, AnyNetwork, LockHeld, SetCalls,
      GetCalls, Runs, Workers
  <1>3. SaveSound'
    BY DEF SetPublishes, SetReturn, SetGoes, NoSet, Default, AnyNetwork, LockHeld, SaveSound,
      SetCalls, GetCalls, Runs, Workers
  <1>4. GenerationSound'
    BY DEF SetPublishes, SetReturn, SetGoes, NoSet, Default, AnyNetwork, GenerationSound,
      NotesSound, SaveSound, SetCalls, GetCalls, Runs, Workers
  <1>5. NotesSound'
    BY DEF SetPublishes, SetReturn, SetGoes, NoSet, Default, AnyNetwork, LockHeld,
      GenerationSound, NotesSound, WorkerSound, SetCalls, GetCalls, Runs, Workers
  <1>6. WorkerSound'
    <2>1. worker.pc # "none" => worker.gen # generation + 1
      BY DEF GenerationSound, Workers, Runs
    <2>2. ~paused' => synced'.revision >= saved'.revision
      <3>1. ~paused' => synced = setCall.next
        BY Zenon DEF SetPublishes
      <3>2. synced' = synced /\ saved' = setCall.next
        BY DEF SetPublishes
      <3> QED
        BY <3>1, <3>2
    <2> QED
      BY <2>1, <2>2 DEF SetPublishes, WorkerSound
  <1>7. OnlineIsCurrent'
    BY DEF SetPublishes, SetReturn, SetGoes, NoSet, Default, AnyNetwork, GenerationSound,
      NotesSound, WorkerSound, OnlineIsCurrent, SetCalls, GetCalls, Runs, Workers
  <1> QED
    BY <1>1, <1>2, <1>3, <1>4, <1>5, <1>6, <1>7

\* Get takes the mutex.
LEMMA GetBeginKeeps ==
  ASSUME AccessInv, NetworkTypeOK', GetBegin PROVE AccessInv'
  <1> USE RevisionAssumption DEF AccessInv, AccessTypeOK, Configs, memoryVars, fileVars
  <1>1. AccessTypeOK'
    <2>1. setCall' \in SetCalls
      BY DEF GetBegin, NoGet, AnyNetwork, SetCalls
    <2>2. getCall' \in GetCalls
      BY DEF GetBegin, NoGet, AnyNetwork, GetCalls
    <2>3. run' \in Runs
      BY DEF GetBegin, NoGet, AnyNetwork, Runs
    <2>4. worker' \in Workers
      BY DEF GetBegin, NoGet, AnyNetwork, Workers
    <2> QED
      BY <2>1, <2>2, <2>3, <2>4 DEF GetBegin, NoGet, AnyNetwork, GenerationSound, SaveSound,
        LockHeld, SetCalls
  <1>2. LockHeld'
    BY DEF GetBegin, NoGet, AnyNetwork, LockHeld, SetCalls, GetCalls, Runs, Workers
  <1>3. SaveSound'
    BY DEF GetBegin, NoGet, AnyNetwork, LockHeld, SaveSound, SetCalls, GetCalls, Runs, Workers
  <1>4. GenerationSound'
    BY DEF GetBegin, NoGet, AnyNetwork, GenerationSound, NotesSound, SaveSound, SetCalls,
      GetCalls, Runs, Workers
  <1>5. NotesSound'
    BY DEF GetBegin, NoGet, AnyNetwork, LockHeld, GenerationSound, NotesSound, WorkerSound,
      SetCalls, GetCalls, Runs, Workers
  <1>6. WorkerSound'
    BY DEF GetBegin, NoGet, AnyNetwork, GenerationSound, NotesSound, WorkerSound, SaveSound,
      SetCalls, GetCalls, Runs, Workers
  <1>7. OnlineIsCurrent'
    BY DEF GetBegin, NoGet, AnyNetwork, GenerationSound, NotesSound, WorkerSound,
      OnlineIsCurrent, SetCalls, GetCalls, Runs, Workers
  <1> QED
    BY <1>1, <1>2, <1>3, <1>4, <1>5, <1>6, <1>7

\* Get gives it back.
LEMMA GetEndKeeps ==
  ASSUME AccessInv, NetworkTypeOK', GetEnd PROVE AccessInv'
  <1> USE RevisionAssumption DEF AccessInv, AccessTypeOK, Configs, memoryVars, fileVars
  <1>1. AccessTypeOK'
    <2>1. setCall' \in SetCalls
      BY DEF GetEnd, NoGet, AnyNetwork, SetCalls
    <2>2. getCall' \in GetCalls
      BY DEF GetEnd, NoGet, AnyNetwork, GetCalls
    <2>3. run' \in Runs
      BY DEF GetEnd, NoGet, AnyNetwork, Runs
    <2>4. worker' \in Workers
      BY DEF GetEnd, NoGet, AnyNetwork, Workers
    <2> QED
      BY <2>1, <2>2, <2>3, <2>4 DEF GetEnd, NoGet, AnyNetwork, GenerationSound, SaveSound,
        LockHeld, SetCalls
  <1>2. LockHeld'
    BY DEF GetEnd, NoGet, AnyNetwork, LockHeld, SetCalls, GetCalls, Runs, Workers
  <1>3. SaveSound'
    BY DEF GetEnd, NoGet, AnyNetwork, LockHeld, SaveSound, SetCalls, GetCalls, Runs, Workers
  <1>4. GenerationSound'
    BY DEF GetEnd, NoGet, AnyNetwork, GenerationSound, NotesSound, SaveSound, SetCalls,
      GetCalls, Runs, Workers
  <1>5. NotesSound'
    BY DEF GetEnd, NoGet, AnyNetwork, LockHeld, GenerationSound, NotesSound, WorkerSound,
      SetCalls, GetCalls, Runs, Workers
  <1>6. WorkerSound'
    BY DEF GetEnd, NoGet, AnyNetwork, GenerationSound, NotesSound, WorkerSound, SaveSound,
      SetCalls, GetCalls, Runs, Workers
  <1>7. OnlineIsCurrent'
    BY DEF GetEnd, NoGet, AnyNetwork, GenerationSound, NotesSound, WorkerSound,
      OnlineIsCurrent, SetCalls, GetCalls, Runs, Workers
  <1> QED
    BY <1>1, <1>2, <1>3, <1>4, <1>5, <1>6, <1>7

\* Get is over.
LEMMA GetAnsweredKeeps ==
  ASSUME AccessInv, NetworkTypeOK', GetAnswered PROVE AccessInv'
  <1> USE RevisionAssumption DEF AccessInv, AccessTypeOK, Configs, memoryVars, fileVars
  <1>1. AccessTypeOK'
    <2>1. setCall' \in SetCalls
      BY DEF GetAnswered, NoGet, AnyNetwork, SetCalls
    <2>2. getCall' \in GetCalls
      BY DEF GetAnswered, NoGet, AnyNetwork, GetCalls
    <2>3. run' \in Runs
      BY DEF GetAnswered, NoGet, AnyNetwork, Runs
    <2>4. worker' \in Workers
      BY DEF GetAnswered, NoGet, AnyNetwork, Workers
    <2> QED
      BY <2>1, <2>2, <2>3, <2>4 DEF GetAnswered, NoGet, AnyNetwork, GenerationSound,
        SaveSound, LockHeld, SetCalls
  <1>2. LockHeld'
    BY DEF GetAnswered, NoGet, AnyNetwork, LockHeld, SetCalls, GetCalls, Runs, Workers
  <1>3. SaveSound'
    BY DEF GetAnswered, NoGet, AnyNetwork, LockHeld, SaveSound, SetCalls, GetCalls, Runs,
      Workers
  <1>4. GenerationSound'
    BY DEF GetAnswered, NoGet, AnyNetwork, GenerationSound, NotesSound, SaveSound, SetCalls,
      GetCalls, Runs, Workers
  <1>5. NotesSound'
    BY DEF GetAnswered, NoGet, AnyNetwork, LockHeld, GenerationSound, NotesSound,
      WorkerSound, SetCalls, GetCalls, Runs, Workers
  <1>6. WorkerSound'
    BY DEF GetAnswered, NoGet, AnyNetwork, GenerationSound, NotesSound, WorkerSound,
      SaveSound, SetCalls, GetCalls, Runs, Workers
  <1>7. OnlineIsCurrent'
    BY DEF GetAnswered, NoGet, AnyNetwork, GenerationSound, NotesSound, WorkerSound,
      OnlineIsCurrent, SetCalls, GetCalls, Runs, Workers
  <1> QED
    BY <1>1, <1>2, <1>3, <1>4, <1>5, <1>6, <1>7

\* Run notes what is saved.
LEMMA RunWakesKeeps ==
  ASSUME AccessInv, NetworkTypeOK', RunWakes PROVE AccessInv'
  <1> USE RevisionAssumption DEF AccessInv, AccessTypeOK, Configs, memoryVars, fileVars
  <1>1. AccessTypeOK'
    <2>1. setCall' \in SetCalls
      BY DEF RunWakes, RunGoes, NoWorker, SetCalls
    <2>2. getCall' \in GetCalls
      BY DEF RunWakes, RunGoes, NoWorker, GetCalls
    <2>3. run' \in Runs
      BY DEF RunWakes, RunGoes, NoWorker, Runs
    <2>4. worker' \in Workers
      BY DEF RunWakes, RunGoes, NoWorker, Workers
    <2> QED
      BY <2>1, <2>2, <2>3, <2>4 DEF RunWakes, RunGoes, NoWorker, GenerationSound, SaveSound,
        LockHeld, SetCalls
  <1>2. LockHeld'
    BY DEF RunWakes, RunGoes, NoWorker, LockHeld, SetCalls, GetCalls, Runs, Workers
  <1>3. SaveSound'
    BY DEF RunWakes, RunGoes, NoWorker, LockHeld, SaveSound, SetCalls, GetCalls, Runs, Workers
  <1>4. GenerationSound'
    BY DEF RunWakes, RunGoes, NoWorker, GenerationSound, NotesSound, SaveSound, SetCalls,
      GetCalls, Runs, Workers
  <1>5. NotesSound'
    BY DEF RunWakes, RunGoes, NoWorker, LockHeld, GenerationSound, NotesSound, WorkerSound,
      SetCalls, GetCalls, Runs, Workers
  <1>6. WorkerSound'
    BY DEF RunWakes, RunGoes, NoWorker, GenerationSound, NotesSound, WorkerSound, SaveSound,
      SetCalls, GetCalls, Runs, Workers
  <1>7. OnlineIsCurrent'
    BY DEF RunWakes, RunGoes, NoWorker, GenerationSound, NotesSound, WorkerSound,
      OnlineIsCurrent, SetCalls, GetCalls, Runs, Workers
  <1> QED
    BY <1>1, <1>2, <1>3, <1>4, <1>5, <1>6, <1>7

\* Run takes the mutex, or starts over.
LEMMA RunLocksKeeps ==
  ASSUME AccessInv, NetworkTypeOK', RunLocks PROVE AccessInv'
  <1> USE RevisionAssumption DEF AccessInv, AccessTypeOK, Configs, memoryVars, fileVars
  <1>1. AccessTypeOK'
    <2>1. setCall' \in SetCalls
      BY DEF RunLocks, RunGoes, NoWorker, SetCalls
    <2>2. getCall' \in GetCalls
      BY DEF RunLocks, RunGoes, NoWorker, GetCalls
    <2>3. run' \in Runs
      BY DEF RunLocks, RunGoes, NoWorker, Runs
    <2>4. worker' \in Workers
      BY DEF RunLocks, RunGoes, NoWorker, Workers
    <2> QED
      BY <2>1, <2>2, <2>3, <2>4 DEF RunLocks, RunGoes, NoWorker, GenerationSound, SaveSound,
        LockHeld, SetCalls
  <1>2. LockHeld'
    BY DEF RunLocks, RunGoes, NoWorker, LockHeld, SetCalls, GetCalls, Runs, Workers
  <1>3. SaveSound'
    BY DEF RunLocks, RunGoes, NoWorker, LockHeld, SaveSound, SetCalls, GetCalls, Runs, Workers
  <1>4. GenerationSound'
    BY DEF RunLocks, RunGoes, NoWorker, GenerationSound, NotesSound, SaveSound, SetCalls,
      GetCalls, Runs, Workers
  <1>5. NotesSound'
    BY DEF RunLocks, RunGoes, NoWorker, LockHeld, GenerationSound, NotesSound, WorkerSound,
      SetCalls, GetCalls, Runs, Workers
  <1>6. WorkerSound'
    BY DEF RunLocks, RunGoes, NoWorker, GenerationSound, NotesSound, WorkerSound, SaveSound,
      SetCalls, GetCalls, Runs, Workers
  <1>7. OnlineIsCurrent'
    BY DEF RunLocks, RunGoes, NoWorker, GenerationSound, NotesSound, WorkerSound,
      OnlineIsCurrent, SetCalls, GetCalls, Runs, Workers
  <1> QED
    BY <1>1, <1>2, <1>3, <1>4, <1>5, <1>6, <1>7

\* Run looks at the network.
LEMMA RunCheckedKeeps ==
  ASSUME AccessInv, NetworkTypeOK', RunChecked PROVE AccessInv'
  <1> USE RevisionAssumption DEF AccessInv, AccessTypeOK, Configs, memoryVars, fileVars
  <1>1. AccessTypeOK'
    <2>1. setCall' \in SetCalls
      BY DEF RunChecked, RunGoes, NoWorker, SetCalls
    <2>2. getCall' \in GetCalls
      BY DEF RunChecked, RunGoes, NoWorker, GetCalls
    <2>3. run' \in Runs
      BY DEF RunChecked, RunGoes, NoWorker, Runs
    <2>4. worker' \in Workers
      BY DEF RunChecked, RunGoes, NoWorker, Workers
    <2> QED
      BY <2>1, <2>2, <2>3, <2>4 DEF RunChecked, RunGoes, NoWorker, GenerationSound,
        SaveSound, LockHeld, SetCalls
  <1>2. LockHeld'
    BY DEF RunChecked, RunGoes, NoWorker, LockHeld, SetCalls, GetCalls, Runs, Workers
  <1>3. SaveSound'
    BY DEF RunChecked, RunGoes, NoWorker, LockHeld, SaveSound, SetCalls, GetCalls, Runs, Workers
  <1>4. GenerationSound'
    BY DEF RunChecked, RunGoes, NoWorker, GenerationSound, NotesSound, SaveSound, SetCalls,
      GetCalls, Runs, Workers
  <1>5. NotesSound'
    BY DEF RunChecked, RunGoes, NoWorker, LockHeld, GenerationSound, NotesSound, WorkerSound,
      SetCalls, GetCalls, Runs, Workers
  <1>6. WorkerSound'
    BY DEF RunChecked, RunGoes, NoWorker, GenerationSound, NotesSound, WorkerSound,
      SaveSound, SetCalls, GetCalls, Runs, Workers
  <1>7. OnlineIsCurrent'
    BY DEF RunChecked, RunGoes, NoWorker, GenerationSound, NotesSound, WorkerSound,
      OnlineIsCurrent, SetCalls, GetCalls, Runs, Workers
  <1> QED
    BY <1>1, <1>2, <1>3, <1>4, <1>5, <1>6, <1>7

\* Run gets the answer of the script.
LEMMA RunAppliedKeeps ==
  ASSUME AccessInv, NetworkTypeOK', RunApplied PROVE AccessInv'
  <1> USE RevisionAssumption DEF AccessInv, AccessTypeOK, Configs, memoryVars, fileVars
  <1>1. AccessTypeOK'
    <2>1. setCall' \in SetCalls
      BY DEF RunApplied, RunGoes, NoWorker, SetCalls
    <2>2. getCall' \in GetCalls
      BY DEF RunApplied, RunGoes, NoWorker, GetCalls
    <2>3. run' \in Runs
      BY DEF RunApplied, RunGoes, NoWorker, Runs
    <2>4. worker' \in Workers
      BY DEF RunApplied, RunGoes, NoWorker, Workers
    <2> QED
      BY <2>1, <2>2, <2>3, <2>4 DEF RunApplied, RunGoes, NoWorker, GenerationSound,
        SaveSound, LockHeld, SetCalls
  <1>2. LockHeld'
    BY DEF RunApplied, RunGoes, NoWorker, LockHeld, SetCalls, GetCalls, Runs, Workers
  <1>3. SaveSound'
    BY DEF RunApplied, RunGoes, NoWorker, LockHeld, SaveSound, SetCalls, GetCalls, Runs, Workers
  <1>4. GenerationSound'
    BY DEF RunApplied, RunGoes, NoWorker, GenerationSound, NotesSound, SaveSound, SetCalls,
      GetCalls, Runs, Workers
  <1>5. NotesSound'
    BY DEF RunApplied, RunGoes, NoWorker, LockHeld, GenerationSound, NotesSound, WorkerSound,
      SetCalls, GetCalls, Runs, Workers
  <1>6. WorkerSound'
    BY DEF RunApplied, RunGoes, NoWorker, GenerationSound, NotesSound, WorkerSound,
      SaveSound, SetCalls, GetCalls, Runs, Workers
  <1>7. OnlineIsCurrent'
    BY DEF RunApplied, RunGoes, NoWorker, GenerationSound, NotesSound, WorkerSound,
      OnlineIsCurrent, SetCalls, GetCalls, Runs, Workers
  <1> QED
    BY <1>1, <1>2, <1>3, <1>4, <1>5, <1>6, <1>7

\* Run keeps the worker, takes it down, or goes on to a new one.
LEMMA RunDecidesKeeps ==
  ASSUME AccessInv, NetworkTypeOK', RunDecides PROVE AccessInv'
  <1> USE RevisionAssumption DEF AccessInv, AccessTypeOK, Configs, memoryVars, fileVars
  <1>0. /\ run.pc = "deciding"
        /\ UNCHANGED <<memoryVars, fileVars, saveMutex, setCall, getCall>>
        /\ \/ run' = [run EXCEPT !.pc = "waiting"] /\ UNCHANGED worker
           \/ /\ run.applied # run.gen /\ UNCHANGED run
              /\ \/ worker.pc = "ended" /\ worker' = NoWorker
                 \/ worker.pc = "running" /\ worker' = [worker EXCEPT !.pc = "stopping"]
           \/ /\ worker.pc = "none" /\ UNCHANGED worker
              /\ run' = [run EXCEPT !.applied = run.gen, !.pc = "waiting"]
           \/ /\ worker.pc = "none" /\ UNCHANGED worker /\ run.enabled
              /\ run' = [run EXCEPT !.applied = run.gen, !.pc = "starting"]
    BY DEF RunDecides, RunGoes
  <1>a. /\ run' \in Runs
        /\ run'.gen = run.gen /\ run'.network = run.network /\ run'.enabled = run.enabled
        /\ run'.applied = run.applied \/ (worker.pc = "none" /\ run'.applied = run.gen)
        /\ run'.pc = "deciding" \/ run'.pc = "waiting"
            \/ (run'.pc = "starting" /\ worker.pc = "none" /\ run.enabled
                  /\ run'.applied = run.gen)
    <2>1. CASE run' = [run EXCEPT !.pc = "waiting"]
      BY <2>1 DEF Runs
    <2>2. CASE UNCHANGED run
      BY <1>0, <2>2
    <2>0. run.gen \in -1..MaxRevision
      BY DEF Runs
    <2>3. CASE worker.pc = "none" /\ run' = [run EXCEPT !.applied = run.gen, !.pc = "waiting"]
      BY <2>0, <2>3 DEF Runs
    <2>4. CASE worker.pc = "none" /\ run.enabled
                 /\ run' = [run EXCEPT !.applied = run.gen, !.pc = "starting"]
      BY <2>0, <2>4 DEF Runs
    <2> QED
      BY <1>0, <2>1, <2>2, <2>3, <2>4
  <1>1. AccessTypeOK'
    <2>1. setCall' \in SetCalls
      BY <1>0 DEF NoWorker, SetCalls
    <2>2. getCall' \in GetCalls
      BY <1>0 DEF NoWorker, GetCalls
    <2>3. run' \in Runs
      BY <1>a
    <2>4. worker' \in Workers
      BY <1>0 DEF NoWorker, Workers
    <2> QED
      BY <1>0, <2>1, <2>2, <2>3, <2>4 DEF NoWorker, GenerationSound, SaveSound, LockHeld,
        SetCalls
  <1>2. LockHeld'
    BY <1>0 DEF NoWorker, LockHeld, SetCalls, GetCalls, Runs, Workers
  <1>3. SaveSound'
    BY <1>0 DEF NoWorker, LockHeld, SaveSound, SetCalls, GetCalls, Runs, Workers
  <1>4. GenerationSound'
    BY <1>0, <1>a DEF NoWorker, GenerationSound, NotesSound, SaveSound, SetCalls, GetCalls,
      Runs, Workers
  <1>5. NotesSound'
    BY <1>0, <1>a DEF NoWorker, LockHeld, GenerationSound, NotesSound, WorkerSound, SetCalls,
      GetCalls, Runs, Workers
  <1>6. WorkerSound'
    BY <1>0 DEF NoWorker, GenerationSound, NotesSound, WorkerSound, SaveSound, SetCalls,
      GetCalls, Runs, Workers
  <1>7. OnlineIsCurrent'
    BY <1>0 DEF NoWorker, GenerationSound, NotesSound, WorkerSound, OnlineIsCurrent,
      SetCalls, GetCalls, Runs, Workers
  <1> QED
    BY <1>1, <1>2, <1>3, <1>4, <1>5, <1>6, <1>7

\* Run looks at the generation once more.
LEMMA RunStartsKeeps ==
  ASSUME AccessInv, NetworkTypeOK', RunStarts PROVE AccessInv'
  <1> USE RevisionAssumption DEF AccessInv, AccessTypeOK, Configs, memoryVars, fileVars
  <1>1. AccessTypeOK'
    <2>1. setCall' \in SetCalls
      BY DEF RunStarts, RunGoes, NoWorker, SetCalls
    <2>2. getCall' \in GetCalls
      BY DEF RunStarts, RunGoes, NoWorker, GetCalls
    <2>3. run' \in Runs
      BY DEF RunStarts, RunGoes, NoWorker, Runs
    <2>4. worker' \in Workers
      BY DEF RunStarts, RunGoes, NoWorker, Workers
    <2> QED
      BY <2>1, <2>2, <2>3, <2>4 DEF RunStarts, RunGoes, NoWorker, GenerationSound, SaveSound,
        LockHeld, SetCalls
  <1>2. LockHeld'
    BY DEF RunStarts, RunGoes, NoWorker, LockHeld, SetCalls, GetCalls, Runs, Workers
  <1>3. SaveSound'
    BY DEF RunStarts, RunGoes, NoWorker, LockHeld, SaveSound, SetCalls, GetCalls, Runs, Workers
  <1>4. GenerationSound'
    BY DEF RunStarts, RunGoes, NoWorker, GenerationSound, NotesSound, SaveSound, SetCalls,
      GetCalls, Runs, Workers
  <1>5. NotesSound'
    BY DEF RunStarts, RunGoes, NoWorker, LockHeld, GenerationSound, NotesSound, WorkerSound,
      SetCalls, GetCalls, Runs, Workers
  <1>6. WorkerSound'
    BY DEF RunStarts, RunGoes, NoWorker, GenerationSound, NotesSound, WorkerSound, SaveSound,
      SetCalls, GetCalls, Runs, Workers
  <1>7. OnlineIsCurrent'
    BY DEF RunStarts, RunGoes, NoWorker, GenerationSound, NotesSound, WorkerSound,
      OnlineIsCurrent, SetCalls, GetCalls, Runs, Workers
  <1> QED
    BY <1>1, <1>2, <1>3, <1>4, <1>5, <1>6, <1>7

\* Run creates the worker.
LEMMA RunLaunchesKeeps ==
  ASSUME AccessInv, NetworkTypeOK', RunLaunches PROVE AccessInv'
  <1> USE RevisionAssumption DEF AccessInv, AccessTypeOK, Configs, memoryVars, fileVars
  <1>1. AccessTypeOK'
    <2>1. setCall' \in SetCalls
      BY DEF RunLaunches, RunGoes, NoWorker, SetCalls
    <2>2. getCall' \in GetCalls
      BY DEF RunLaunches, RunGoes, NoWorker, GetCalls
    <2>3. run' \in Runs
      BY DEF RunLaunches, RunGoes, NoWorker, Runs
    <2>4. worker' \in Workers
      BY DEF RunLaunches, Workers, Runs
    <2> QED
      BY <2>1, <2>2, <2>3, <2>4 DEF RunLaunches, RunGoes, NoWorker, GenerationSound,
        SaveSound, LockHeld, SetCalls
  <1>2. LockHeld'
    BY DEF RunLaunches, RunGoes, NoWorker, LockHeld, SetCalls, GetCalls, Runs, Workers
  <1>3. SaveSound'
    BY DEF RunLaunches, RunGoes, NoWorker, LockHeld, SaveSound, SetCalls, GetCalls, Runs,
      Workers
  <1>4. GenerationSound'
    BY DEF RunLaunches, RunGoes, NoWorker, GenerationSound, NotesSound, SaveSound, SetCalls,
      GetCalls, Runs, Workers
  <1>5. NotesSound'
    BY DEF RunLaunches, RunGoes, NoWorker, LockHeld, GenerationSound, NotesSound,
      WorkerSound, SetCalls, GetCalls, Runs, Workers
  <1>6. WorkerSound'
    BY DEF RunLaunches, RunGoes, NoWorker, GenerationSound, NotesSound, WorkerSound,
      SaveSound, SetCalls, GetCalls, Runs, Workers
  <1>7. OnlineIsCurrent'
    BY DEF RunLaunches, RunGoes, NoWorker, GenerationSound, NotesSound, WorkerSound,
      OnlineIsCurrent, SetCalls, GetCalls, Runs, Workers
  <1> QED
    BY <1>1, <1>2, <1>3, <1>4, <1>5, <1>6, <1>7

\* The worker reports.
LEMMA ReportKeeps ==
  ASSUME AccessInv, NetworkTypeOK', NEW up \in BOOLEAN, WorkerReports(up) PROVE AccessInv'
  <1> USE RevisionAssumption DEF AccessInv, AccessTypeOK, Configs, memoryVars, fileVars
  <1>1. AccessTypeOK'
    <2>1. setCall' \in SetCalls
      BY DEF WorkerReports, Observer, SetCalls
    <2>2. getCall' \in GetCalls
      BY DEF WorkerReports, Observer, GetCalls
    <2>3. run' \in Runs
      BY DEF WorkerReports, Observer, Runs
    <2>4. worker' \in Workers
      BY DEF WorkerReports, Observer, Workers
    <2> QED
      BY <2>1, <2>2, <2>3, <2>4 DEF WorkerReports, Observer, GenerationSound, SaveSound,
        LockHeld, SetCalls
  <1>2. LockHeld'
    BY DEF WorkerReports, Observer, LockHeld, SetCalls, GetCalls, Runs, Workers
  <1>3. SaveSound'
    BY DEF WorkerReports, Observer, LockHeld, SaveSound, SetCalls, GetCalls, Runs, Workers
  <1>4. GenerationSound'
    BY DEF WorkerReports, Observer, GenerationSound, NotesSound, SaveSound, SetCalls,
      GetCalls, Runs, Workers
  <1>5. NotesSound'
    BY DEF WorkerReports, Observer, LockHeld, GenerationSound, NotesSound, WorkerSound,
      SetCalls, GetCalls, Runs, Workers
  <1>6. WorkerSound'
    BY DEF WorkerReports, Observer, GenerationSound, NotesSound, WorkerSound, SaveSound,
      SetCalls, GetCalls, Runs, Workers
  <1>7. OnlineIsCurrent'
    BY DEF WorkerReports, Observer, GenerationSound, NotesSound, WorkerSound,
      OnlineIsCurrent, SetCalls, GetCalls, Runs, Workers
  <1> QED
    BY <1>1, <1>2, <1>3, <1>4, <1>5, <1>6, <1>7

\* The worker stops.
LEMMA WorkerStopsKeeps ==
  ASSUME AccessInv, NetworkTypeOK', WorkerStops PROVE AccessInv'
  <1> USE RevisionAssumption DEF AccessInv, AccessTypeOK, Configs, memoryVars, fileVars
  <1>1. AccessTypeOK'
    <2>1. setCall' \in SetCalls
      BY DEF WorkerStops, Observer, SetCalls
    <2>2. getCall' \in GetCalls
      BY DEF WorkerStops, Observer, GetCalls
    <2>3. run' \in Runs
      BY DEF WorkerStops, Observer, Runs
    <2>4. worker' \in Workers
      BY DEF WorkerStops, Observer, Workers
    <2> QED
      BY <2>1, <2>2, <2>3, <2>4 DEF WorkerStops, Observer, GenerationSound, SaveSound,
        LockHeld, SetCalls
  <1>2. LockHeld'
    BY DEF WorkerStops, Observer, LockHeld, SetCalls, GetCalls, Runs, Workers
  <1>3. SaveSound'
    BY DEF WorkerStops, Observer, LockHeld, SaveSound, SetCalls, GetCalls, Runs, Workers
  <1>4. GenerationSound'
    BY DEF WorkerStops, Observer, GenerationSound, NotesSound, SaveSound, SetCalls, GetCalls,
      Runs, Workers
  <1>5. NotesSound'
    BY DEF WorkerStops, Observer, LockHeld, GenerationSound, NotesSound, WorkerSound,
      SetCalls, GetCalls, Runs, Workers
  <1>6. WorkerSound'
    BY DEF WorkerStops, Observer, GenerationSound, NotesSound, WorkerSound, SaveSound,
      SetCalls, GetCalls, Runs, Workers
  <1>7. OnlineIsCurrent'
    BY DEF WorkerStops, Observer, GenerationSound, NotesSound, WorkerSound, OnlineIsCurrent,
      SetCalls, GetCalls, Runs, Workers
  <1> QED
    BY <1>1, <1>2, <1>3, <1>4, <1>5, <1>6, <1>7

\* The worker throws.
LEMMA WorkerThrowsKeeps ==
  ASSUME AccessInv, NetworkTypeOK', WorkerThrows PROVE AccessInv'
  <1> USE RevisionAssumption DEF AccessInv, AccessTypeOK, Configs, memoryVars, fileVars
  <1>1. AccessTypeOK'
    <2>1. setCall' \in SetCalls
      BY DEF WorkerThrows, Observer, SetCalls
    <2>2. getCall' \in GetCalls
      BY DEF WorkerThrows, Observer, GetCalls
    <2>3. run' \in Runs
      BY DEF WorkerThrows, Observer, Runs
    <2>4. worker' \in Workers
      BY DEF WorkerThrows, Observer, Workers
    <2> QED
      BY <2>1, <2>2, <2>3, <2>4 DEF WorkerThrows, Observer, GenerationSound, SaveSound,
        LockHeld, SetCalls
  <1>2. LockHeld'
    BY DEF WorkerThrows, Observer, LockHeld, SetCalls, GetCalls, Runs, Workers
  <1>3. SaveSound'
    BY DEF WorkerThrows, Observer, LockHeld, SaveSound, SetCalls, GetCalls, Runs, Workers
  <1>4. GenerationSound'
    BY DEF WorkerThrows, Observer, GenerationSound, NotesSound, SaveSound, SetCalls,
      GetCalls, Runs, Workers
  <1>5. NotesSound'
    BY DEF WorkerThrows, Observer, LockHeld, GenerationSound, NotesSound, WorkerSound,
      SetCalls, GetCalls, Runs, Workers
  <1>6. WorkerSound'
    BY DEF WorkerThrows, Observer, GenerationSound, NotesSound, WorkerSound, SaveSound,
      SetCalls, GetCalls, Runs, Workers
  <1>7. OnlineIsCurrent'
    BY DEF WorkerThrows, Observer, GenerationSound, NotesSound, WorkerSound, OnlineIsCurrent,
      SetCalls, GetCalls, Runs, Workers
  <1> QED
    BY <1>1, <1>2, <1>3, <1>4, <1>5, <1>6, <1>7

\* The process starts again, with what the file holds or without.
LEMMA RestartKeeps ==
  ASSUME AccessInv, NetworkTypeOK', NEW config \in {disk', Default}, Loaded(config),
         disk' \in Configs, synced' \in Configs
  PROVE  AccessInv'
  <1> USE RevisionAssumption DEF AccessInv, AccessTypeOK, Configs, memoryVars, fileVars
  <1>1. AccessTypeOK'
    <2>1. setCall' \in SetCalls
      BY DEF Loaded, Default, AnyNetwork, NoSet, NoGet, NewRun, NoWorker, SetCalls
    <2>2. getCall' \in GetCalls
      BY DEF Loaded, Default, AnyNetwork, NoSet, NoGet, NewRun, NoWorker, GetCalls
    <2>3. run' \in Runs
      BY DEF Loaded, Default, AnyNetwork, NoSet, NoGet, NewRun, NoWorker, Runs
    <2>4. worker' \in Workers
      BY DEF Loaded, Default, AnyNetwork, NoSet, NoGet, NewRun, NoWorker, Workers
    <2>5. Default \in Configs
      BY DEF Default, AnyNetwork
    <2>6. persisted' \in BOOLEAN
      BY DEF Loaded
    <2>7. saved' \in Configs
      BY <2>5 DEF Loaded
    <2>8. /\ paused' = FALSE /\ generation' = 0 /\ online' = FALSE /\ saveMutex' = "free"
          /\ 0 \in 0..MaxRevision
      BY DEF Loaded
    <2> QED
      BY <2>1, <2>2, <2>3, <2>4, <2>6, <2>7, <2>8
  <1>2. LockHeld'
    BY DEF Loaded, Default, AnyNetwork, NoSet, NoGet, NewRun, NoWorker, LockHeld, SetCalls,
      GetCalls, Runs, Workers
  <1>3. SaveSound'
    BY DEF Loaded, Default, AnyNetwork, NoSet, NoGet, NewRun, NoWorker, LockHeld, SaveSound,
      SetCalls, GetCalls, Runs, Workers
  <1>4. GenerationSound'
    BY DEF Loaded, Default, AnyNetwork, NoSet, NoGet, NewRun, NoWorker, GenerationSound,
      NotesSound, SaveSound, SetCalls, GetCalls, Runs, Workers
  <1>5. NotesSound'
    BY DEF Loaded, Default, AnyNetwork, NoSet, NoGet, NewRun, NoWorker, LockHeld,
      GenerationSound, NotesSound, WorkerSound, SetCalls, GetCalls, Runs, Workers
  <1>6. WorkerSound'
    BY DEF Loaded, Default, AnyNetwork, NoSet, NoGet, NewRun, NoWorker, GenerationSound,
      NotesSound, WorkerSound, SaveSound, SetCalls, GetCalls, Runs, Workers
  <1>7. OnlineIsCurrent'
    BY DEF Loaded, Default, AnyNetwork, NoSet, NoGet, NewRun, NoWorker, GenerationSound,
      NotesSound, WorkerSound, OnlineIsCurrent, SetCalls, GetCalls, Runs, Workers
  <1> QED
    BY <1>1, <1>2, <1>3, <1>4, <1>5, <1>6, <1>7

\* Steps of the script only.
LEMMA ScriptStepKeeps ==
  ASSUME AccessInv, NetworkTypeOK',
         UNCHANGED <<memoryVars, fileVars, saveMutex, setCall, getCall, run, worker>>
  PROVE  AccessInv'
  BY DEF AccessInv, AccessTypeOK, memoryVars, fileVars, LockHeld, SaveSound, GenerationSound,
     NotesSound, WorkerSound, OnlineIsCurrent

-----------------------------------------------------------------------------
\* The first state.
LEMMA AccessInvInit == AccessInit => NetworkInv /\ AccessInv
  <1> SUFFICES ASSUME AccessInit PROVE NetworkInv /\ AccessInv
    OBVIOUS
  <1>1. NetworkInv
    BY NetworkInvInit DEF AccessInit
  <1>2. NetworkTypeOK /\ Default \in Configs
    BY <1>1, RevisionAssumption DEF NetworkInv, Default, Configs, AnyNetwork
  <1>3. NoSet \in SetCalls /\ NoGet \in GetCalls /\ NewRun \in Runs /\ NoWorker \in Workers
    BY RevisionAssumption DEF NoSet, NoGet, NewRun, NoWorker, SetCalls, GetCalls, Runs,
       Workers, Default, AnyNetwork
  <1>4. AccessTypeOK
    <2>1. 0 \in 0..MaxRevision
      BY RevisionAssumption
    <2>2. saveMutex \in {"free", "set", "get", "run"} /\ generation \in 0..MaxRevision
      BY <2>1 DEF AccessInit
    <2>3. disk \in Configs /\ synced \in Configs /\ saved \in Configs
      BY <1>2 DEF AccessInit
    <2>4. persisted \in BOOLEAN /\ paused \in BOOLEAN /\ online \in BOOLEAN
      BY DEF AccessInit
    <2>5. setCall \in SetCalls /\ getCall \in GetCalls /\ run \in Runs /\ worker \in Workers
      BY <1>3 DEF AccessInit
    <2> QED
      BY <1>2, <2>2, <2>3, <2>4, <2>5 DEF AccessTypeOK
  <1> QED
    BY <1>1, <1>4
    DEF AccessInit, AccessInv, LockHeld, SaveSound, GenerationSound, NotesSound, WorkerSound,
        OnlineIsCurrent, Default, NoSet, NoGet, NewRun, NoWorker

\* A restart has the file of before, or what a power failure left of it.
LEMMA RestartsKeep ==
  ASSUME AccessInv, NetworkTypeOK', ProcessDies \/ PowerFails PROVE AccessInv'
  <1>1. disk \in Configs /\ synced \in Configs
    BY DEF AccessInv, AccessTypeOK
  <1>2. CASE ProcessDies
    BY <1>1, <1>2, RestartKeeps DEF ProcessDies, fileVars
  <1>3. CASE PowerFails
    BY <1>1, <1>3, RestartKeeps DEF PowerFails
  <1> QED
    BY <1>2, <1>3

\* Every step keeps the supervisor's invariant and the script's.
LEMMA AccessInvStep ==
  ASSUME ~SyncFails, NetworkInv, AccessInv, [AccessNext]_accessVars
  PROVE  NetworkInv' /\ AccessInv'
  <1>0. NetworkInv' /\ NetworkTypeOK'
    BY AccessStepIsNetworkStep, NetworkInvStep DEF AccessInv, NetworkInv
  <1>1. CASE \E n \in AnyNetwork, e \in BOOLEAN : SetBegin(n, e)
    BY <1>0, <1>1, BeginKeeps
  <1>2. CASE SetNext
    BY <1>0, <1>2, SetCheckedKeeps, SetAppliedKeeps, SetSavesKeeps, SetPublishesKeeps,
       ScriptStepKeeps DEF SetNext, SetApplies
  <1>3. CASE GetBegin \/ GetEnd \/ GetAnswered
    BY <1>0, <1>3, GetBeginKeeps, GetEndKeeps, GetAnsweredKeeps
  <1>4. CASE RunLocks \/ RunNext
    BY <1>0, <1>4, RunLocksKeeps, RunWakesKeeps, RunCheckedKeeps, RunAppliedKeeps,
       RunDecidesKeeps, RunStartsKeeps, RunLaunchesKeeps, ScriptStepKeeps
    DEF RunNext, RunApplies
  <1>5. CASE (\E up \in BOOLEAN : WorkerReports(up)) \/ WorkerStops \/ WorkerThrows
    BY <1>0, <1>5, ReportKeeps, WorkerStopsKeeps, WorkerThrowsKeeps
  <1>6. CASE HelperGoesOn
    BY <1>0, <1>6, ScriptStepKeeps DEF HelperGoesOn
  <1>7. CASE ProcessDies \/ PowerFails
    BY <1>0, <1>7, RestartsKeep
  <1>8. CASE UNCHANGED accessVars
    BY <1>0, <1>8, ScriptStepKeeps DEF accessVars
  <1> QED
    BY <1>0, <1>1, <1>2, <1>3, <1>4, <1>5, <1>6, <1>7, <1>8 DEF AccessNext

\* The two invariants hold of every state of the supervisor and the script.
THEOREM AccessInvariant == ASSUME ~SyncFails PROVE AccessSpec => [](NetworkInv /\ AccessInv)
  <1>1. NetworkInv /\ AccessInv /\ [AccessNext]_accessVars => NetworkInv' /\ AccessInv'
    BY AccessInvStep
  <1> QED
    BY <1>1, AccessInvInit, PTL DEF AccessSpec

\* The variables of the supervisor and of the script keep their types.
THEOREM AccessTypeCorrect == ASSUME ~SyncFails PROVE AccessSpec => []AccessTypeOK
  <1>1. AccessInv => AccessTypeOK
    BY DEF AccessInv
  <1> QED
    BY <1>1, AccessInvariant, PTL

\* The supervisor uses the script as OrdinaryNetwork allows, its deaths and
\* failures included: all that is proved of the script holds under it.
THEOREM AccessImplementsNetwork == ASSUME ~SyncFails PROVE AccessSpec => NetworkSpec
  <1>1. AccessInit => NetworkInit
    BY DEF AccessInit
  <1>2. AccessInv /\ [AccessNext]_accessVars => [NetworkNext]_networkVars
    BY AccessStepIsNetworkStep DEF AccessInv
  <1> QED
    BY <1>1, <1>2, AccessInvariant, PTL DEF AccessSpec, NetworkSpec

\* Under the supervisor, the original resolver settings are never lost.
THEOREM AccessKeepsOriginalDns == ASSUME ~SyncFails PROVE AccessSpec => []OriginalDnsKept
  <1> QED
    BY AccessImplementsNetwork, OriginalDnsAlwaysKept, PTL

\* The recovery thread never works on a network a save has replaced.
THEOREM RecoveryIsOfTheSaved == ASSUME ~SyncFails PROVE AccessSpec => []RecoversTheSaved
  <1>1. AccessInv => RecoversTheSaved
    BY DEF AccessInv, NotesSound, RecoversTheSaved
  <1> QED
    BY <1>1, AccessInvariant, PTL

\* What is reported online is a task of the configuration now saved.
THEOREM OnlineAlwaysCurrent == ASSUME ~SyncFails PROVE AccessSpec => []OnlineIsCurrent
  <1>1. AccessInv => OnlineIsCurrent
    BY DEF AccessInv
  <1> QED
    BY <1>1, AccessInvariant, PTL

\* No task runs a configuration of this process that a power failure undoes.
THEOREM AlwaysRunsWhatLasts == ASSUME ~SyncFails PROVE AccessSpec => []RunsWhatLasts
  <1>1. AccessInv => RunsWhatLasts
    BY DEF AccessInv, WorkerSound, RunsWhatLasts
  <1> QED
    BY <1>1, AccessInvariant, PTL

\* An answer that reports the network in place is about what is saved then.
THEOREM AppliedAnswersCurrent == ASSUME ~SyncFails PROVE AccessSpec => AppliedAnswerIsCurrent
  <1>1. AccessInv /\ [AccessNext]_accessVars =>
          [getCall.pc = "checking" /\ getCall'.pc = "done" /\ getCall'.applied
              => getCall.revision = saved.revision /\ Installed(saved.network)]_accessVars
    <2> SUFFICES ASSUME AccessInv, AccessNext, getCall.pc = "checking",
                        getCall'.pc = "done", getCall'.applied
                 PROVE  getCall.revision = saved.revision /\ Installed(saved.network)
      OBVIOUS
    <2>1. getCall'.pc # "done" \/ GetEnd
      <3>1. CASE \/ \E n \in AnyNetwork, e \in BOOLEAN : SetBegin(n, e)
                 \/ SetNext \/ RunLocks \/ RunNext \/ HelperGoesOn
                 \/ \E up \in BOOLEAN : WorkerReports(up)
                 \/ WorkerStops \/ WorkerThrows
        <4>1. UNCHANGED getCall
          BY <3>1 DEF SetBegin, SetNext, SetChecked, SetApplies, SetApplied, SetSaves,
             SetPublishes, RunLocks, RunNext, RunWakes, RunChecked, RunApplies, RunApplied,
             RunDecides, RunStarts, RunLaunches, HelperGoesOn, WorkerReports, WorkerStops,
             WorkerThrows
        <4> QED
          BY <4>1
      <3>2. CASE ProcessDies \/ PowerFails
        BY <3>2 DEF ProcessDies, PowerFails, Loaded, NoGet
      <3>3. CASE GetBegin \/ GetAnswered
        BY <3>3 DEF GetBegin, GetAnswered, NoGet
      <3> QED
        BY <3>1, <3>2, <3>3 DEF AccessNext
    <2>2. PICK ok \in BOOLEAN :
            Checked(getCall.network, ok) /\ getCall' = [getCall EXCEPT !.pc = "done", !.applied = ok]
      BY <2>1 DEF GetEnd
    <2>3. ok
      BY <2>2 DEF AccessInv, AccessTypeOK, GetCalls
    <2>4. Installed(getCall.network)
      BY <2>2, <2>3 DEF Checked, Untouched, Installed
    <2>5. getCall.revision = saved.revision /\ getCall.network = saved.network
      BY DEF AccessInv, SaveSound
    <2> QED
      BY <2>4, <2>5
  <1> QED
    BY <1>1, AccessInvariant, PTL DEF AccessSpec, AppliedAnswerIsCurrent

\* What is proved of the script holds under the supervisor, which only uses it as
\* its specification allows.
THEOREM AccessIsSafe == ASSUME ~SyncFails PROVE AccessSpec => []AccessSafe
  <1>1. AccessTypeOK /\ OriginalDnsKept /\ RecordTellsRoutes => AccessSafe
    BY DEF AccessSafe
  <1> QED
    BY <1>1, AccessTypeCorrect, AccessKeepsOriginalDns, AccessImplementsNetwork, RecordAlwaysTellsRoutes, PTL

-----------------------------------------------------------------------------
(* The module manager: what the invariant says. *)

SearchFrames == [mod : Modules, left : SUBSET Modules]
CallRecords ==
    [pc : {"idle", "searching", "looking", "loading", "awaiting", "undoing", "stopping", "done"},
     asked : {"none", "start", "stop"}, mod : Modules \cup {"none"},
     stack : Seq(SearchFrames), order : Seq(Modules), started : Seq(Modules),
     result : {"none", "refused", "ok", "failed", "unready"},
     before : SUBSET Modules, ready : SUBSET Modules]

ManagerTyped ==
    /\ graph \in Graphs /\ upperMode \in BOOLEAN
    /\ loaded \in Seq(Modules) /\ bootList \in Seq(Modules)
    /\ calls \in [Callers -> CallRecords]

\* The elements of s before the i-th.
Prefix(s, i) == {s[j] : j \in 1..(i - 1)}

Distinct(s) == \A i, j \in 1..Len(s) : s[i] = s[j] => i = j

\* What the modules that were listed lead to was listed before them, and may be
\* passed.
Listed(g, op, m, order) ==
    /\ \A i, j \in 1..Len(order) : order[i] = order[j] => i = j
    /\ \A i \in 1..Len(order) :
          /\ order[i] \in Reach(Leads(g, op), m)
          /\ Leads(g, op)[order[i]] \subseteq Prefix(order, i)
          /\ \A n \in Leads(g, op)[order[i]] : Passes(g, op, order[i], n)
          /\ op = "start" => order[i] \notin g.bad

\* The frame f of a search: what it has looked at was listed, but for what the
\* call of dfs inside it visits.
FrameOK(g, op, f, visited) ==
    /\ f.left \subseteq Leads(g, op)[f.mod]
    /\ Leads(g, op)[f.mod] \ f.left \subseteq visited
    /\ \A n \in Leads(g, op)[f.mod] \ f.left : Passes(g, op, f.mod, n)
    /\ op = "start" => f.mod \notin g.bad

\* The module the call inside the i-th visits.
Inside(stack, i) == IF i < Len(stack) THEN {stack[i + 1].mod} ELSE {}

\* The modules that are visited lead from one to the next.
StackOK(g, op, m, stack, order) ==
    /\ stack # <<>> /\ stack[1].mod = m
    /\ \A i, j \in 1..Len(stack) : i < j => stack[i].mod # stack[j].mod
    /\ \A i, j \in 1..Len(stack) : i <= j => stack[j].mod \in Reach(Leads(g, op), stack[i].mod)
    /\ \A i \in 1..Len(stack) :
          /\ stack[i].mod \notin ToSet(order)
          /\ FrameOK(g, op, stack[i], ToSet(order) \cup Inside(stack, i))

\* The innermost call of a search.
Innermost(g, op, m, stack, order) ==
    /\ Len(stack) \in Nat /\ Len(stack) \in 1..Len(stack) /\ 1 \in 1..Len(stack) /\ stack # <<>>
    /\ Last(stack) = stack[Len(stack)] /\ DOMAIN stack = 1..Len(stack)
    /\ \A i \in 1..Len(stack) :
          stack[i] \in SearchFrames /\ stack[i].mod \in Modules /\ stack[i].left \subseteq Modules
    /\ \A i \in 1..Len(stack) : Last(stack).mod \in Reach(Leads(g, op), stack[i].mod)
    /\ Last(stack).mod \in Modules /\ Last(stack).mod \in Reach(Leads(g, op), m)
    /\ FrameOK(g, op, Last(stack), ToSet(order))

\* When a search succeeds.
Searchable(g, op, m) == IF op = "start" THEN Startable(g, m) ELSE Stoppable(g, m)

Starts == {"looking", "loading", "awaiting"}

\* What is left of the order of a start needs only what was seen to serve, and
\* what is before it.
ReadyOrder(g, k) ==
    \A i \in 1..Len(k.order) : DependenciesOf(g, k.order[i]) \subseteq k.ready \cup Prefix(k.order, i)

\* A call of any thread, whatever the other threads do: its search is a walk of
\* the graph, and what it got past the search for is what the graph allows.
CallSound(g, k) ==
    /\ k.pc # "idle" => k.asked \in {"start", "stop"} /\ k.mod \in Modules
    /\ k.pc = "searching" =>
          /\ StackOK(g, k.asked, k.mod, k.stack, k.order)
          /\ Listed(g, k.asked, k.mod, k.order)
          /\ k.asked = "start" => k.mod \notin k.before
    /\ k.pc \in Starts \cup {"undoing"} => k.asked = "start" /\ k.mod \notin k.before
    /\ k.pc = "stopping" => k.asked = "stop"
    /\ k.pc \in Starts \cup {"stopping"} => k.order # <<>>
    /\ k.pc \in Starts => ReadyOrder(g, k)
    /\ k.pc \in Starts \cup {"undoing", "stopping"} => Searchable(g, k.asked, k.mod)
    /\ k.pc = "done" /\ (k.asked = "start" => k.mod \notin k.before) =>
          ((k.result = "refused") = ~Searchable(g, k.asked, k.mod))

\* What holds of the calls with or without overlap.
GraphInv == ManagerTyped /\ \A c \in Callers : CallSound(graph, calls[c])

\* Each module that was started needs only what ran before and what was started
\* before it.
StartedOK(g, k) ==
    /\ Distinct(k.started)
    /\ \A i \in 1..Len(k.started) :
          /\ k.started[i] \notin k.before
          /\ k.started[i] \in NeededBy(g, k.mod)
          /\ DependenciesOf(g, k.started[i]) \subseteq k.before \cup Prefix(k.started, i)

\* What runs while a start is under way.
Begun(k) ==
    k.before \cup ToSet(k.started) \cup (IF k.pc = "awaiting" THEN {Head(k.order)} ELSE {})

StartRuns(g, running, k) ==
    /\ StartedOK(g, k) /\ running = Begun(k)
    /\ k.pc = "loading" => Head(k.order) \notin running
    /\ k.pc = "awaiting" => /\ Head(k.order) \notin k.before \cup ToSet(k.started)
                            /\ DependenciesOf(g, Head(k.order)) \subseteq k.before \cup ToSet(k.started)
    /\ k.pc \in Starts =>
          /\ \A i \in 1..Len(k.order) : 
                DependenciesOf(g, k.order[i]) \subseteq running \cup Prefix(k.order, i)
          /\ NeededBy(g, k.mod) \subseteq running \cup ToSet(k.order)
          /\ ToSet(k.order) \subseteq NeededBy(g, k.mod)

StopRuns(g, running, k) ==
    /\ \A i \in 1..Len(k.order) : DependentsOf(g, k.order[i]) \cap running \subseteq Prefix(k.order, i)
    /\ k.before \ NeedersOf(g, k.mod) \subseteq running /\ running \subseteq k.before
    /\ running \cap NeedersOf(g, k.mod) \subseteq ToSet(k.order)
    /\ ToSet(k.order) \subseteq NeedersOf(g, k.mod)

\* What AsAsked says of a call that has ended.
AskedFor(g, running, k) ==
    /\ k.result = "ok" /\ k.asked = "start" => running = k.before \cup NeededBy(g, k.mod)
    /\ k.result = "ok" /\ k.asked = "stop" => running = k.before \ NeedersOf(g, k.mod)
    /\ k.result = "unready" => k.before \subseteq running /\ running \subseteq k.before \cup NeededBy(g, k.mod)
    /\ k.result \notin {"ok", "unready"} => running = k.before

\* What runs, at each place of a call that has no rival.
RunSound(g, running, k) ==
    /\ Closed(Leads(g, "start"), k.before)
    /\ k.pc = "done" => AskedFor(g, running, k)
    /\ k.pc = "searching" => running = k.before /\ k.started = <<>>
    /\ k.pc \in Starts \cup {"undoing"} => StartRuns(g, running, k)
    /\ k.pc = "stopping" => StopRuns(g, running, k)

\* Calls one at a time.
OneCaller == \A c, d \in Callers : Busy(c) /\ Busy(d) => c = d

\* What holds of the loaded modules as long as calls have not overlapped.
RunInv ==
    /\ OneCaller
    /\ Distinct(loaded)
    /\ Closed(Leads(graph, "start"), Running)
    /\ \A c \in Callers : Busy(c) => RunSound(graph, Running, calls[c])

\* One step of the call of c, to the record k: what holds of it whatever the
\* other calls do, and what holds when there is no other call, but for one that
\* ends as soon as it begins.
CallStep(c, k) ==
    /\ k \in CallRecords /\ CallSound(graph, k) /\ calls' = [calls EXCEPT ![c] = k]
    /\ graph' = graph /\ upperMode' = upperMode
    /\ loaded' \in Seq(Modules) /\ bootList' \in Seq(Modules)
RunStep(c, k) ==
    /\ \A d \in Callers : Busy(d) => d = c \/ (k.pc = "done" /\ loaded' = loaded)
    /\ Distinct(loaded') /\ Closed(Leads(graph, "start"), ToSet(loaded'))
    /\ RunSound(graph, ToSet(loaded'), k)

-----------------------------------------------------------------------------
(* Graphs and sequences. *)

\* Where a graph leads stays among the modules.
LEMMA GraphLeads ==
    ASSUME NEW g \in Graphs, NEW op
    PROVE  /\ g.deps \in [Modules -> SUBSET Modules] /\ g.bad \subseteq Modules
           /\ \A m \in Modules : Leads(g, op)[m] \subseteq Modules
           /\ \A m \in Modules : Leads(g, "start")[m] = DependenciesOf(g, m)
           /\ \A m \in Modules : op # "start" => Leads(g, op)[m] = DependentsOf(g, m)
<1>1. g \in AllGraphs
  BY ManagerAssumption
<1>2. g.deps \in [Modules -> SUBSET Modules] /\ g.bad \subseteq Modules
  BY <1>1 DEF AllGraphs
<1>3. \A m \in Modules : DependenciesOf(g, m) \subseteq Modules
  BY <1>2 DEF DependenciesOf
<1>4. \A m \in Modules : DependentsOf(g, m) \subseteq Modules
  BY DEF DependentsOf
<1> QED BY <1>2, <1>3, <1>4 DEF Leads

\* A module is reachable from itself.
LEMMA ReachSelf ==
    ASSUME NEW next, NEW m \in Modules
    PROVE  m \in Reach(next, m)
BY DEF Reach

\* What is reachable leads to what is reachable.
LEMMA ReachOn ==
    ASSUME NEW next, NEW m, NEW x \in Reach(next, m), NEW y \in next[x], y \in Modules
    PROVE  y \in Reach(next, m)
BY DEF Reach, Closed

\* A closed set has everything that is reachable from its elements.
LEMMA ReachWithin ==
    ASSUME NEW next, NEW S \in SUBSET Modules, NEW m \in S, Closed(next, S)
    PROVE  Reach(next, m) \subseteq S
BY DEF Reach

\* With more edges more is reachable.
LEMMA ReachMore ==
    ASSUME NEW next, NEW more, \A m \in Modules : next[m] \subseteq more[m], NEW m
    PROVE  Reach(next, m) \subseteq Reach(more, m)
BY DEF Reach, Closed

\* The elements of a sequence.
LEMMA ElementsIs ==
    ASSUME NEW s \in Seq(Modules)
    PROVE  /\ ToSet(s) = {s[j] : j \in 1..Len(s)} /\ ToSet(s) \subseteq Modules
           /\ Len(s) \in Nat /\ \A i \in 1..Len(s) : s[i] \in Modules /\ s[i] \in ToSet(s)
<1>1. DOMAIN s = 1..Len(s) /\ Len(s) \in Nat
  OBVIOUS
<1>2. \A i \in 1..Len(s) : s[i] \in Modules
  BY <1>1, ElementOfSeq
<1> QED BY <1>1, <1>2 DEF ToSet

\* A sequence with one more element at its end: its elements, and what comes
\* before each of them.
LEMMA AppendElements ==
    ASSUME NEW s \in Seq(Modules), NEW m \in Modules
    PROVE  LET t == Append(s, m) IN
           /\ t \in Seq(Modules) /\ Len(t) = Len(s) + 1 /\ t[Len(t)] = m /\ t # <<>>
           /\ \A i \in 1..Len(s) : i \in 1..Len(t) /\ t[i] = s[i]
           /\ \A i \in 1..Len(t) : i \in 1..Len(s) \/ i = Len(t)
           /\ ToSet(t) = ToSet(s) \cup {m}
           /\ \A i \in 1..Len(s) : Prefix(t, i) = Prefix(s, i)
           /\ Prefix(t, Len(t)) = ToSet(s)
<1> DEFINE t == Append(s, m)
<1>1. t \in Seq(Modules) /\ Len(s) \in Nat /\ Len(t) = Len(s) + 1
  BY AppendProperties, LenProperties
<1>2. t[Len(t)] = m /\ \A i \in 1..Len(s) : t[i] = s[i]
  BY <1>1, AppendProperties
<1>3. t # <<>>
  BY <1>1, EmptySeq
<1>4. /\ \A i \in 1..Len(s) : i \in 1..Len(t)
      /\ \A i \in 1..Len(t) : i \in 1..Len(s) \/ i = Len(t)
      /\ Len(t) - 1 = Len(s) /\ Len(t) \in 1..Len(t)
  BY <1>1
<1>5. ToSet(t) = {t[j] : j \in 1..Len(t)} /\ ToSet(s) = {s[j] : j \in 1..Len(s)}
  BY <1>1, ElementsIs
<1> HIDE DEF t
<1>6. ToSet(t) = ToSet(s) \cup {m}
  BY <1>2, <1>4, <1>5
<1>7. \A i \in 1..Len(s) : Prefix(t, i) = Prefix(s, i)
  <2> TAKE i \in 1..Len(s)
  <2>1. \A j \in 1..(i - 1) : j \in 1..Len(s)
    BY <1>1
  <2>2. \A j \in 1..(i - 1) : t[j] = s[j]
    BY <1>2, <2>1
  <2> QED BY <2>2 DEF Prefix
<1>8. Prefix(t, Len(t)) = ToSet(s)
  BY <1>2, <1>4, <1>5 DEF Prefix
<1> QED BY <1>1, <1>2, <1>3, <1>4, <1>6, <1>7, <1>8 DEF t

\* A sequence without its first element, likewise.
LEMMA TailElements ==
    ASSUME NEW s \in Seq(Modules), s # <<>>
    PROVE  LET t == Tail(s) IN
           /\ t \in Seq(Modules) /\ Head(s) \in Modules /\ Head(s) = s[1] /\ 1 \in 1..Len(s)
           /\ \A i \in 1..Len(t) : i + 1 \in 1..Len(s) /\ t[i] = s[i + 1]
           /\ ToSet(s) = {Head(s)} \cup ToSet(t) 
           /\ \A i \in 1..Len(t) : Prefix(s, i + 1) = {Head(s)} \cup Prefix(t, i)
           /\ Prefix(s, 1) = {}
<1> DEFINE t == Tail(s)
<1>1. Len(s) \in Nat /\ Len(s) # 0
  BY EmptySeq, LenProperties
<1>2. t \in Seq(Modules) /\ Head(s) \in Modules /\ Head(s) = s[1] /\ 1 \in 1..Len(s) /\ Len(t) = Len(s) - 1
  BY <1>1, HeadTailProperties
<1>3. \A i \in 1..Len(t) : i + 1 \in 1..Len(s) /\ t[i] = s[i + 1]
  BY <1>1, <1>2, HeadTailProperties
<1>4. ToSet(t) = {t[j] : j \in 1..Len(t)} /\ ToSet(s) = {s[j] : j \in 1..Len(s)}
  BY <1>2, ElementsIs
<1> HIDE DEF t
<1>5. \A j \in 1..Len(s) : j = 1 \/ (j - 1 \in 1..Len(t) /\ j = (j - 1) + 1)
  BY <1>1, <1>2
<1>6. \A j \in 1..Len(s) : s[j] = Head(s) \/ \E i \in 1..Len(t) : s[j] = t[i]
  BY <1>2, <1>3, <1>5
<1>7. ToSet(s) = {Head(s)} \cup ToSet(t)
  <2>1. ToSet(s) \subseteq {Head(s)} \cup ToSet(t)
    BY <1>4, <1>6
  <2>2. Head(s) \in ToSet(s) /\ ToSet(t) \subseteq ToSet(s)
    BY <1>2, <1>3, <1>4
  <2> QED BY <2>1, <2>2
<1>8. ASSUME NEW i \in 1..Len(t) PROVE Prefix(s, i + 1) = {Head(s)} \cup Prefix(t, i)
  <2>1. (i + 1) - 1 = i /\ 1 \in 1..i /\ \A j \in 1..i : j = 1 \/ (j - 1 \in 1..(i - 1) /\ j = (j - 1) + 1)
    BY <1>1, <1>2
  <2>2. \A j \in 1..(i - 1) : j + 1 \in 1..i /\ j \in 1..Len(t)
    BY <1>1, <1>2
  <2>3. Prefix(s, i + 1) = {s[j] : j \in 1..i} /\ Prefix(t, i) = {t[j] : j \in 1..(i - 1)}
    BY <2>1 DEF Prefix
  <2>4. \A j \in 1..i : s[j] = Head(s) \/ \E l \in 1..(i - 1) : s[j] = t[l]
    BY <1>2, <1>3, <2>1, <2>2
  <2>5. \A j \in 1..(i - 1) : t[j] = s[j + 1] /\ j + 1 \in 1..i
    BY <1>3, <2>2
  <2>6. Prefix(s, i + 1) \subseteq {Head(s)} \cup Prefix(t, i)
    BY <2>3, <2>4
  <2>7. Head(s) \in Prefix(s, i + 1) /\ Prefix(t, i) \subseteq Prefix(s, i + 1)
    BY <1>2, <2>1, <2>3, <2>5
  <2> QED BY <2>6, <2>7
<1>9. Prefix(s, 1) = {}
  BY DEF Prefix
<1> QED BY <1>2, <1>3, <1>7, <1>8, <1>9 DEF t

\* A sequence without its last element.
LEMMA FrontIs ==
    ASSUME NEW S, NEW s \in Seq(S), s # <<>>
    PROVE  /\ Front(s) \in Seq(S) /\ Len(s) \in Nat /\ Len(s) \in 1..Len(s) /\ Last(s) = s[Len(s)] /\ Last(s) \in S
           /\ Len(Front(s)) = Len(s) - 1
           /\ \A i \in 1..(Len(s) - 1) : Front(s)[i] = s[i]
<1>1. Len(s) \in Nat /\ Len(s) # 0 /\ Len(s) \in Int /\ Len(s) - 1 \in Int /\ 1 \in Int
  BY EmptySeq, LenProperties
<1>2. Len(s) \in 1..Len(s) /\ \A i \in 1..Len(s) : s[i] \in S
  BY <1>1, ElementOfSeq
<1>3. \A i \in 1..(Len(s) - 1) : s[i] \in S
  BY <1>1, <1>2
<1>4. /\ SubSeq(s, 1, Len(s) - 1) \in Seq(S)
      /\ Len(SubSeq(s, 1, Len(s) - 1)) = IF 1 <= Len(s) - 1 THEN (Len(s) - 1) - 1 + 1 ELSE 0
      /\ \A i \in 1..((Len(s) - 1) - 1 + 1) : SubSeq(s, 1, Len(s) - 1)[i] = s[1 + i - 1]
  BY <1>1, <1>3, SubSeqProperties
<1>5. Len(SubSeq(s, 1, Len(s) - 1)) = Len(s) - 1
  <2>1. \A n \in Nat : n # 0 => (IF 1 <= n - 1 THEN (n - 1) - 1 + 1 ELSE 0) = n - 1
    OBVIOUS
  <2>2. (IF 1 <= Len(s) - 1 THEN (Len(s) - 1) - 1 + 1 ELSE 0) = Len(s) - 1
    BY <1>1, <2>1
  <2> QED BY <1>4, <2>2
<1>6. \A i \in 1..(Len(s) - 1) : i \in 1..((Len(s) - 1) - 1 + 1) /\ 1 + i - 1 = i
  BY <1>1
<1> QED BY <1>1, <1>2, <1>4, <1>5, <1>6 DEF Front, Last

\* The last module started, and those before it.
LEMMA FrontElements ==
    ASSUME NEW s \in Seq(Modules), s # <<>>
    PROVE  LET t == Front(s) IN
           /\ t \in Seq(Modules) /\ Len(s) \in 1..Len(s) /\ Last(s) \in Modules /\ Last(s) = s[Len(s)]
           /\ Len(t) = Len(s) - 1 /\ Len(t) \in Nat
           /\ \A i \in 1..Len(t) : i \in 1..Len(s) /\ i < Len(s) /\ t[i] = s[i]
           /\ \A i \in 1..Len(s) : i \in 1..Len(t) \/ i = Len(s)
           /\ ToSet(s) = {Last(s)} \cup ToSet(t)
           /\ \A i \in 1..Len(t) : Prefix(t, i) = Prefix(s, i)
<1> DEFINE t == Front(s)
<1>1. Len(s) \in Nat /\ Len(s) # 0
  BY EmptySeq, LenProperties
<1>2. \A i \in 1..Len(s) : s[i] \in Modules
  BY ElementsIs
<1>3. Len(s) \in 1..Len(s) /\ Last(s) = s[Len(s)] /\ Last(s) \in Modules /\ Len(s) - 1 \in Nat
  BY <1>1, <1>2 DEF Last
<1>4. t \in Seq(Modules) /\ Len(t) = Len(s) - 1 /\ \A i \in 1..(Len(s) - 1) : t[i] = s[i]
  BY FrontIs
<1>5. ToSet(t) = {t[j] : j \in 1..Len(t)} /\ ToSet(s) = {s[j] : j \in 1..Len(s)}
  BY <1>4, ElementsIs
<1> HIDE DEF t
<1>6. /\ \A i \in 1..Len(t) : i \in 1..Len(s) /\ i < Len(s) /\ t[i] = s[i]
      /\ \A i \in 1..Len(s) : i \in 1..Len(t) \/ i = Len(s)
  BY <1>1, <1>4
<1>7. ToSet(s) = {Last(s)} \cup ToSet(t)
  BY <1>3, <1>5, <1>6
<1>8. ASSUME NEW i \in 1..Len(t) PROVE Prefix(t, i) = Prefix(s, i)
  <2>1. \A j \in 1..(i - 1) : j \in 1..Len(t)
    BY <1>1, <1>4
  <2> QED BY <1>6, <2>1 DEF Prefix
<1> QED BY <1>3, <1>4, <1>6, <1>7, <1>8 DEF t

-----------------------------------------------------------------------------
(* The search. *)

\* The innermost call of a search.
LEMMA StackIs ==
    ASSUME NEW g \in Graphs, NEW op, NEW m, NEW stack \in Seq(SearchFrames), NEW order,
           StackOK(g, op, m, stack, order)
    PROVE  Innermost(g, op, m, stack, order)
<1>1. stack # <<>>
  BY DEF StackOK
<1>2. Len(stack) \in Nat /\ Len(stack) # 0 /\ DOMAIN stack = 1..Len(stack)
  BY <1>1, EmptySeq, LenProperties
<1>3. Len(stack) \in 1..Len(stack) /\ 1 \in 1..Len(stack) /\ Inside(stack, Len(stack)) = {}
      /\ \A i \in 1..Len(stack) : i <= Len(stack)
  BY <1>2 DEF Inside
<1>4. Last(stack) = stack[Len(stack)]
  BY DEF Last
<1>5. \A i \in 1..Len(stack) : /\ stack[i] \in SearchFrames /\ stack[i].mod \in Modules
                               /\ stack[i].left \subseteq Modules
  <2>1. \A i \in 1..Len(stack) : stack[i] \in SearchFrames
    BY <1>2, ElementOfSeq
  <2>2. \A f \in SearchFrames : f.mod \in Modules /\ f.left \subseteq Modules
    BY DEF SearchFrames
  <2> QED BY <2>1, <2>2
<1>6. \A i \in 1..Len(stack) : Last(stack).mod \in Reach(Leads(g, op), stack[i].mod)
  BY <1>3, <1>4 DEF StackOK
<1>7. FrameOK(g, op, Last(stack), ToSet(order))
  BY <1>3, <1>4 DEF StackOK
<1> QED BY <1>1, <1>2, <1>3, <1>4, <1>5, <1>6, <1>7 DEF StackOK, Innermost

\* A search is given up for a reason.
LEMMA RefusedIsRight ==
    ASSUME NEW g \in Graphs, NEW op \in {"start", "stop"}, NEW m \in Modules,
           NEW stack \in Seq(SearchFrames), NEW order, StackOK(g, op, m, stack, order),
           NEW n \in Last(stack).left, n \in Visiting(stack) \/ ~Passes(g, op, Last(stack).mod, n)
    PROVE  ~Searchable(g, op, m)
<1> DEFINE top == Last(stack).mod
           next == Leads(g, op)
<1>0. Innermost(g, op, m, stack, order)
  BY StackIs
<1>1. top \in Modules /\ top \in Reach(next, m) /\ FrameOK(g, op, Last(stack), ToSet(order))
  BY <1>0 DEF Innermost
<1>2. n \in next[top] /\ n \in Modules
  BY <1>1, GraphLeads DEF FrameOK
<1>3. op = "start" => /\ next[top] \subseteq g.deps[top] /\ \A x \in Modules : next[x] \subseteq g.deps[x]
  BY <1>1, GraphLeads DEF DependenciesOf
<1>4. CASE n \in Visiting(stack)
  <2>1. PICK i \in 1..Len(stack) : n = stack[i].mod
    BY <1>0, <1>4 DEF Visiting, Innermost
  <2>2. top \in Reach(next, n)
    BY <1>0, <2>1 DEF Innermost
  <2>3. CASE op = "start"
    <3>1. top \in Reach(g.deps, n)
      BY <1>3, <2>2, <2>3, ReachMore
    <3>2. Cyclic(g.deps, NeededBy(g, m))
      BY <1>1, <1>2, <1>3, <2>3, <3>1 DEF Cyclic, NeededBy
    <3> QED BY <2>3, <3>2 DEF Searchable, Startable
  <2>4. CASE op = "stop"
    <3>1. Cyclic(Leads(g, "stop"), NeedersOf(g, m))
      BY <1>1, <1>2, <2>2, <2>4 DEF Cyclic, NeedersOf
    <3> QED BY <2>4, <3>1 DEF Searchable, Stoppable
  <2> QED BY <2>3, <2>4
<1>5. CASE ~Passes(g, op, top, n)
  <2>1. op = "start" /\ ~Usable(g, top, n)
    BY <1>5 DEF Passes
  <2>2. top \in NeededBy(g, m) /\ n \in g.deps[top]
    BY <1>1, <1>2, <1>3, <2>1 DEF NeededBy
  <2> QED BY <2>1, <2>2 DEF Searchable, Startable
<1> QED BY <1>4, <1>5

\* The list of a search that has come to its end.
Complete(g, op, m, order) == Listed(g, op, m, order) /\ m \in ToSet(order)

\* It has everything that is reachable,
LEMMA CompleteHasAll ==
    ASSUME NEW g \in Graphs, NEW op, NEW m \in Modules, NEW order \in Seq(Modules),
           Complete(g, op, m, order)
    PROVE  ToSet(order) = Reach(Leads(g, op), m)
<1>1. ToSet(order) = {order[j] : j \in 1..Len(order)} /\ ToSet(order) \subseteq Modules
  BY ElementsIs
<1>2. ToSet(order) \subseteq Reach(Leads(g, op), m)
  BY <1>1 DEF Complete, Listed
<1>3. \A i \in 1..Len(order) : Prefix(order, i) \subseteq ToSet(order)
  <2> TAKE i \in 1..Len(order)
  <2>1. \A j \in 1..(i - 1) : j \in 1..Len(order)
    BY ElementsIs
  <2> QED BY <1>1, <2>1 DEF Prefix
<1>4. Closed(Leads(g, op), ToSet(order))
  BY <1>1, <1>3 DEF Complete, Listed, Closed
<1>5. Reach(Leads(g, op), m) \subseteq ToSet(order)
  BY <1>1, <1>4, ReachWithin DEF Complete
<1> QED BY <1>2, <1>5

\* A complete list is in the right order: no module on it is reachable from what
\* it leads to.
LEMMA CompleteHasNoCycle ==
    ASSUME NEW g \in Graphs, NEW op, NEW m \in Modules, NEW order \in Seq(Modules),
           Complete(g, op, m, order), NEW next, 
           \A x \in ToSet(order) : next[x] = Leads(g, op)[x]
    PROVE  ~Cyclic(next, ToSet(order))
<1> SUFFICES ASSUME NEW x \in ToSet(order), NEW y \in next[x], x \in Reach(next, y)
             PROVE  FALSE
  BY DEF Cyclic
<1>1. ToSet(order) = {order[j] : j \in 1..Len(order)} /\ ToSet(order) \subseteq Modules /\ Len(order) \in Nat
  BY ElementsIs
<1>2. PICK i \in 1..Len(order) : x = order[i]
  BY <1>1
<1>3. y \in Prefix(order, i)
  BY <1>2 DEF Complete, Listed
<1>4. PICK j \in 1..(i - 1) : y = order[j]
  BY <1>3 DEF Prefix
<1> DEFINE S == Prefix(order, j + 1)
<1>5. S = {order[l] : l \in 1..j} /\ j \in 1..Len(order) /\ j \in 1..j /\ \A l \in 1..j : l \in 1..Len(order)
  BY <1>1 DEF Prefix
<1>6. y \in S /\ S \in SUBSET Modules /\ S \subseteq ToSet(order)
  BY <1>1, <1>4, <1>5
<1>7. Closed(next, S)
  <2> SUFFICES ASSUME NEW l \in 1..j PROVE next[order[l]] \subseteq S
    BY <1>5 DEF Closed
  <2>1. l \in 1..Len(order) /\ order[l] \in ToSet(order) /\ \A o \in 1..(l - 1) : o \in 1..j
    BY <1>1, <1>5
  <2>2. next[order[l]] \subseteq Prefix(order, l)
    BY <2>1 DEF Complete, Listed
  <2>3. Prefix(order, l) \subseteq S
    BY <1>5, <2>1 DEF Prefix
  <2> QED BY <2>2, <2>3
<1>8. x \in S
  BY <1>6, <1>7, ReachWithin
<1>9. PICK l \in 1..j : x = order[l]
  BY <1>5, <1>8
<1>10. l = i
  BY <1>2, <1>5, <1>9 DEF Complete, Listed
<1> QED BY <1>1, <1>4, <1>9, <1>10

\* Hence what was searched without being given up can be started or stopped.
LEMMA CompleteIsRight ==
    ASSUME NEW g \in Graphs, NEW op \in {"start", "stop"}, NEW m \in Modules, NEW order \in Seq(Modules),
           Complete(g, op, m, order)
    PROVE  Searchable(g, op, m)
<1>1. ToSet(order) = Reach(Leads(g, op), m)
  BY CompleteHasAll
<1>2. CASE op = "start"
  <2>1. ToSet(order) = NeededBy(g, m) /\ ToSet(order) \subseteq Modules
    BY <1>1, <1>2, ElementsIs DEF NeededBy
  <2>2. \A x \in ToSet(order) : \E i \in 1..Len(order) : x = order[i]
    BY ElementsIs
  <2>3. \A x \in ToSet(order) : x \notin g.bad /\ \A n \in Leads(g, op)[x] : Passes(g, op, x, n)
    <3> SUFFICES ASSUME NEW x \in ToSet(order)
                 PROVE  x \notin g.bad /\ \A n \in Leads(g, op)[x] : Passes(g, op, x, n)
      OBVIOUS
    <3>1. PICK i \in 1..Len(order) : x = order[i]
      BY <2>2
    <3>2. order[i] \notin g.bad /\ \A n \in Leads(g, op)[order[i]] : Passes(g, op, order[i], n)
      BY <1>2 DEF Complete, Listed
    <3> QED BY <3>1, <3>2
  <2>4. \A x \in ToSet(order) : g.deps[x] = Leads(g, op)[x]
    BY <1>2, <2>1, <2>3, GraphLeads DEF DependenciesOf
  <2>5. ~Cyclic(g.deps, ToSet(order))
    BY <2>4, CompleteHasNoCycle
  <2>6. \A n \in ToSet(order) : \A d \in g.deps[n] : Usable(g, n, d)
    BY <1>2, <2>3, <2>4 DEF Passes
  <2> QED BY <1>2, <2>1, <2>3, <2>5, <2>6 DEF Searchable, Startable
<1>3. CASE op = "stop"
  <2>1. ToSet(order) = NeedersOf(g, m)
    BY <1>1, <1>3 DEF NeedersOf
  <2> QED BY <1>3, <2>1, CompleteHasNoCycle DEF Searchable, Stoppable
<1> QED BY <1>2, <1>3

\* The search begins with the module it is asked for.
LEMMA SearchBegins ==
    ASSUME NEW g \in Graphs, NEW op \in {"start", "stop"}, NEW m \in Modules,
           op = "start" => m \notin g.bad
    PROVE  LET stack == <<Frame(Leads(g, op), m)>> IN
           /\ stack \in Seq(SearchFrames) /\ stack # <<>>
           /\ StackOK(g, op, m, stack, <<>>) /\ Listed(g, op, m, <<>>)
<1> DEFINE f == Frame(Leads(g, op), m)
           stack == <<f>>
<1>1. f.mod = m /\ f.left = Leads(g, op)[m] /\ f \in SearchFrames
  BY GraphLeads DEF Frame, SearchFrames
<1> HIDE DEF f
<1>2. stack \in Seq(SearchFrames) /\ stack # <<>> /\ Len(stack) = 1 /\ stack[1] = f
  BY <1>1
<1>3. ToSet(<<>>) = {} /\ Len(<<>>) = 0
  BY DEF ToSet
<1>4. \A i \in 1..Len(stack) : i = 1
  BY <1>2
<1>5. m \in Reach(Leads(g, op), m)
  BY ReachSelf
<1> HIDE DEF stack
<1>6. FrameOK(g, op, f, {})
  BY <1>1 DEF FrameOK
<1>7. ASSUME NEW i \in 1..Len(stack)
      PROVE  FrameOK(g, op, stack[i], ToSet(<<>>) \cup Inside(stack, i))
  <2>1. Inside(stack, i) = {} /\ stack[i] = f
    BY <1>2, <1>4 DEF Inside
  <2> QED BY <1>3, <1>6, <2>1
<1>8. \A i, j \in 1..Len(stack) : i = j /\ stack[i].mod = m /\ ~(i < j)
  BY <1>1, <1>2, <1>4
<1>9. StackOK(g, op, m, stack, <<>>)
  <2>1. stack # <<>> /\ stack[1].mod = m /\ \A i \in 1..Len(stack) : stack[i].mod = m
    BY <1>1, <1>2, <1>4
  <2>2. \A i \in 1..Len(stack) : stack[i].mod \notin ToSet(<<>>)
    BY <1>3
  <2>3. /\ \A i, j \in 1..Len(stack) : i < j => stack[i].mod # stack[j].mod
        /\ \A i, j \in 1..Len(stack) : i <= j => stack[j].mod \in Reach(Leads(g, op), stack[i].mod)
    BY <1>5, <1>8, <2>1
  <2> QED BY <1>7, <2>1, <2>2, <2>3, SMTT(20) DEF StackOK
<1>10. Listed(g, op, m, <<>>)
  BY <1>3 DEF Listed
<1> QED BY <1>2, <1>9, <1>10 DEF stack, f

\* The stack of calls, and the same once the innermost has looked at n.
LeftBehind(stack, n, after) ==
    /\ after \in Seq(SearchFrames) /\ Len(after) = Len(stack) /\ after # <<>>
    /\ \A i \in 1..Len(stack) : i # Len(stack) => after[i] = stack[i]
    /\ \A i \in 1..Len(stack) : after[i].mod = stack[i].mod
    /\ after[Len(stack)].left = Last(stack).left \ {n}

\* What the innermost call looked at is no longer left to it.
LEMMA PassedIs ==
    ASSUME NEW stack \in Seq(SearchFrames), stack # <<>>, NEW n
    PROVE  LeftBehind(stack, n, Passed(stack, n))
<1> DEFINE after == Passed(stack, n)
           f == [stack[Len(stack)] EXCEPT !.left = @ \ {n}]
<1>1. Len(stack) \in Nat /\ DOMAIN stack = 1..Len(stack) /\ Len(stack) # 0
  BY EmptySeq, LenProperties
<1>2. Len(stack) \in 1..Len(stack) /\ \A i \in 1..Len(stack) : stack[i] \in SearchFrames
  BY <1>1, ElementOfSeq
<1>3. f \in SearchFrames /\ f.mod = stack[Len(stack)].mod /\ f.left = stack[Len(stack)].left \ {n}
  BY <1>2 DEF SearchFrames
<1>4. after = [stack EXCEPT ![Len(stack)] = f]
  BY DEF Passed
<1> HIDE DEF f, after
<1>5. after \in Seq(SearchFrames) /\ Len(after) = Len(stack) /\ DOMAIN after = DOMAIN stack
  BY <1>1, <1>2, <1>3, <1>4, ExceptSeq
<1>6. /\ \A i \in 1..Len(stack) : i # Len(stack) => after[i] = stack[i]
      /\ after[Len(stack)] = f
  <2>1. \A i \in DOMAIN stack : i # Len(stack) => after[i] = stack[i]
    BY <1>4, Zenon
  <2>2. after[Len(stack)] = f
    BY <1>1, <1>2, <1>4, Zenon
  <2>3. DOMAIN stack = 1..Len(stack)
    BY <1>1
  <2> HIDE DEF after
  <2> QED BY ONLY <2>1, <2>2, <2>3, Zenon
<1>7. after # <<>>
  BY <1>1, <1>5, EmptySeq
<1>8. \A i \in 1..Len(stack) : after[i].mod = stack[i].mod
  BY <1>3, <1>6
<1>9. after[Len(stack)].left = Last(stack).left \ {n}
  BY <1>3, <1>6 DEF Last
<1>10. LeftBehind(stack, n, after)
  BY ONLY <1>5, <1>6, <1>7, <1>8, <1>9, Zenon DEF LeftBehind
<1> QED BY <1>10 DEF after

\* The search passes a module that it has listed before.
LEMMA SearchPasses ==
    ASSUME NEW g \in Graphs, NEW op \in {"start", "stop"}, NEW m \in Modules,
           NEW stack \in Seq(SearchFrames), NEW order \in Seq(Modules), StackOK(g, op, m, stack, order),
           NEW n \in Last(stack).left, Passes(g, op, Last(stack).mod, n), n \in ToSet(order)
    PROVE  StackOK(g, op, m, Passed(stack, n), order)
<1> DEFINE after == Passed(stack, n)
           l == Len(stack)
<1>0. Innermost(g, op, m, stack, order)
  BY StackIs
<1>1. stack # <<>> /\ l \in Nat /\ l \in 1..l /\ 1 \in 1..l /\ Last(stack) = stack[l]
  BY <1>0 DEF Innermost
<1>2. /\ after \in Seq(SearchFrames) /\ Len(after) = l /\ after # <<>>
      /\ \A i \in 1..l : i # l => after[i] = stack[i]
      /\ \A i \in 1..l : after[i].mod = stack[i].mod
      /\ after[l].left = stack[l].left \ {n}
  <2>1. LeftBehind(stack, n, after)
    BY <1>1, PassedIs
  <2> QED BY <1>1, <2>1 DEF LeftBehind
<1> HIDE DEF after
<1>3. FrameOK(g, op, stack[l], ToSet(order))
  BY <1>0, <1>1 DEF Innermost
<1>4. FrameOK(g, op, after[l], ToSet(order))
  BY <1>1, <1>2, <1>3 DEF FrameOK
<1>5. ASSUME NEW i \in 1..l
      PROVE  FrameOK(g, op, after[i], ToSet(order) \cup Inside(after, i))
  <2>1. CASE i = l
    <3>1. Inside(after, i) = {}
      BY <1>1, <1>2, <2>1 DEF Inside
    <3> QED BY <1>1, <1>4, <2>1, <3>1
  <2>2. CASE i # l
    <3>1. i < l /\ i + 1 \in 1..l
      BY <1>1, <2>2
    <3>2. FrameOK(g, op, stack[i], ToSet(order) \cup Inside(stack, i))
      BY DEF StackOK
    <3>3. Inside(after, i) = Inside(stack, i)
      BY <1>2, <3>1 DEF Inside
    <3> QED BY <1>2, <2>2, <3>2, <3>3
  <2> QED BY <2>1, <2>2
<1>6. StackOK(g, op, m, after, order)
  <2>1. after[1].mod = m /\ \A i \in 1..l : after[i].mod \notin ToSet(order)
    BY <1>1, <1>2 DEF StackOK
  <2>2. \A i, j \in 1..l : i < j => after[i].mod # after[j].mod
    BY <1>2 DEF StackOK
  <2>3. \A i, j \in 1..l : i <= j => after[j].mod \in Reach(Leads(g, op), after[i].mod)
    BY <1>2 DEF StackOK
  <2> QED BY <1>2, <1>5, <2>1, <2>2, <2>3 DEF StackOK
<1> QED BY <1>6 DEF after

\* The search visits a module it has not seen yet.
LEMMA SearchDescends ==
    ASSUME NEW g \in Graphs, NEW op \in {"start", "stop"}, NEW m \in Modules,
           NEW stack \in Seq(SearchFrames), NEW order \in Seq(Modules), StackOK(g, op, m, stack, order),
           NEW n \in Last(stack).left, Passes(g, op, Last(stack).mod, n), n \notin ToSet(order),
           n \notin Visiting(stack)
    PROVE  LET after == Append(Passed(stack, n), Frame(Leads(g, op), n)) IN
           after \in Seq(SearchFrames) /\ StackOK(g, op, m, after, order)
<1> DEFINE passed == Passed(stack, n)
           f == Frame(Leads(g, op), n)
           after == Append(passed, f)
           l == Len(stack)
<1>0. Innermost(g, op, m, stack, order)
  BY StackIs
<1>1. /\ stack # <<>> /\ l \in Nat /\ l \in 1..l /\ 1 \in 1..l /\ Last(stack) = stack[l]
      /\ \A i \in 1..l : stack[i].mod \in Modules /\ stack[l].mod \in Reach(Leads(g, op), stack[i].mod)
      /\ \A i \in 1..l : stack[i].left \subseteq Modules
      /\ FrameOK(g, op, stack[l], ToSet(order))
  BY <1>0 DEF Innermost
<1>2. /\ passed \in Seq(SearchFrames) /\ Len(passed) = l 
      /\ \A i \in 1..l : i # l => passed[i] = stack[i]
      /\ \A i \in 1..l : passed[i].mod = stack[i].mod
      /\ passed[l].left = stack[l].left \ {n}
  <2>1. LeftBehind(stack, n, passed)
    BY <1>1, PassedIs
  <2> QED BY <1>1, <2>1 DEF LeftBehind
<1>3. n \in Modules /\ n \in Leads(g, op)[stack[l].mod]
  BY <1>1 DEF FrameOK
<1>4. f.mod = n /\ f.left = Leads(g, op)[n] /\ f \in SearchFrames
  BY <1>3, GraphLeads DEF Frame, SearchFrames
<1>5. \A i \in 1..l : n # stack[i].mod /\ n \in Reach(Leads(g, op), stack[i].mod)
  <2>1. \A i \in 1..l : n # stack[i].mod
    BY <1>0 DEF Visiting, Innermost, l
  <2>2. \A i \in 1..l : n \in Reach(Leads(g, op), stack[i].mod)
    BY <1>1, <1>3, ReachOn
  <2> QED BY <2>1, <2>2
<1>6. op = "start" => n \notin g.bad
  BY DEF Passes, Usable
<1> HIDE DEF passed, f
<1>7. /\ after \in Seq(SearchFrames) /\ Len(after) = l + 1 /\ after # <<>> /\ after[l + 1] = f
      /\ \A i \in 1..l : after[i] = passed[i]
  <2>1. passed \in Seq(SearchFrames) /\ f \in SearchFrames /\ Len(passed) = l
    BY <1>2, <1>4
  <2>2. /\ Append(passed, f) \in Seq(SearchFrames) /\ Append(passed, f) # <<>>
        /\ Len(Append(passed, f)) = Len(passed) + 1 /\ Append(passed, f)[Len(passed) + 1] = f
        /\ \A i \in 1..Len(passed) : Append(passed, f)[i] = passed[i]
    BY ONLY <2>1, AppendProperties
  <2> QED BY <2>1, <2>2
<1> HIDE DEF after
<1>8. \A i \in 1..Len(after) : i \in 1..l \/ i = l + 1
  BY <1>1, <1>7
<1>9. FrameOK(g, op, f, ToSet(order))
  BY <1>4, <1>6 DEF FrameOK
<1>10. FrameOK(g, op, passed[l], ToSet(order) \cup {n})
  BY <1>1, <1>2 DEF FrameOK
<1>11. ASSUME NEW i \in 1..Len(after)
       PROVE  FrameOK(g, op, after[i], ToSet(order) \cup Inside(after, i))
  <2>1. CASE i = l + 1
    <3>1. Inside(after, i) = {}
      BY <1>1, <1>7, <2>1 DEF Inside
    <3> QED BY <1>7, <1>9, <2>1, <3>1
  <2>2. CASE i = l
    <3>1. Inside(after, i) = {n}
      BY <1>1, <1>4, <1>7, <2>2 DEF Inside
    <3> QED BY <1>1, <1>7, <1>10, <2>2, <3>1
  <2>3. CASE i # l /\ i # l + 1
    <3>1. i < l /\ i \in 1..l /\ i + 1 \in 1..l /\ i < Len(after)
      BY <1>1, <1>7, <2>3
    <3>2. FrameOK(g, op, stack[i], ToSet(order) \cup Inside(stack, i))
      BY <3>1 DEF StackOK
    <3>3. Inside(after, i) = Inside(stack, i)
      BY <1>2, <1>7, <3>1 DEF Inside
    <3> QED BY <1>2, <1>7, <2>3, <3>1, <3>2, <3>3
  <2> QED BY <2>1, <2>2, <2>3
<1>12. \A i \in 1..l : after[i].mod = stack[i].mod
  BY <1>2, <1>7
<1>13. after[l + 1].mod = n
  BY <1>4, <1>7
<1>14. \A i, j \in 1..Len(after) : i < j => after[i].mod # after[j].mod
  BY <1>1, <1>5, <1>8, <1>12, <1>13 DEF StackOK
<1>15. \A i, j \in 1..Len(after) : i <= j => after[j].mod \in Reach(Leads(g, op), after[i].mod)
  <2>1. n \in Reach(Leads(g, op), n)
    BY <1>3, ReachSelf
  <2>2. \A i, j \in 1..l : i <= j => stack[j].mod \in Reach(Leads(g, op), stack[i].mod)
    BY DEF StackOK
  <2>3. ASSUME NEW i \in 1..Len(after), NEW j \in 1..Len(after), i <= j
        PROVE  after[j].mod \in Reach(Leads(g, op), after[i].mod)
    <3>1. CASE j = l + 1 /\ i = l + 1
      BY <1>13, <2>1, <3>1
    <3>2. CASE j = l + 1 /\ i \in 1..l
      BY <1>5, <1>12, <1>13, <3>2
    <3>3. CASE j \in 1..l
      <4>1. i \in 1..l
        BY <1>1, <1>8, <2>3, <3>3
      <4> QED BY <1>12, <2>2, <2>3, <3>3, <4>1
    <3> QED BY <1>8, <3>1, <3>2, <3>3
  <2> QED BY <2>3
<1>16. after[1].mod = m /\ \A i \in 1..Len(after) : after[i].mod \notin ToSet(order)
  BY <1>1, <1>8, <1>12, <1>13 DEF StackOK
<1> QED BY <1>7, <1>11, <1>14, <1>15, <1>16 DEF StackOK, after, passed, f

\* The search after a module was listed: goes on, or has come to its end.
Shorter(g, op, m, stack, front, after) ==
    /\ front \in Seq(SearchFrames) /\ after \in Seq(Modules) /\ after # <<>>
    /\ Listed(g, op, m, after)
    /\ Len(stack) > 1 => StackOK(g, op, m, front, after)
    /\ ~(Len(stack) > 1) => Complete(g, op, m, after)

\* The search lists a module when it has looked at all it leads to.
LEMMA SearchLists ==
    ASSUME NEW g \in Graphs, NEW op \in {"start", "stop"}, NEW m \in Modules,
           NEW stack \in Seq(SearchFrames), NEW order \in Seq(Modules), StackOK(g, op, m, stack, order),
           Listed(g, op, m, order), Last(stack).left = {}
    PROVE  Shorter(g, op, m, stack, Front(stack), Append(order, Last(stack).mod))
<1> DEFINE top == Last(stack).mod
           after == Append(order, top)
           front == Front(stack)
           l == Len(stack)
<1>1. /\ stack # <<>> /\ l \in Nat /\ l \in 1..l /\ 1 \in 1..l /\ Last(stack) = stack[l]
      /\ top \in Modules /\ top \in Reach(Leads(g, op), m)
      /\ FrameOK(g, op, stack[l], ToSet(order)) /\ top = stack[l].mod
  <2>1. Innermost(g, op, m, stack, order)
    BY StackIs
  <2> QED BY <2>1 DEF Innermost
<1>2. /\ after \in Seq(Modules) /\ Len(after) = Len(order) + 1 /\ after[Len(after)] = top /\ after # <<>>
      /\ \A i \in 1..Len(order) : i \in 1..Len(after) /\ after[i] = order[i]
      /\ \A i \in 1..Len(after) : i \in 1..Len(order) \/ i = Len(after)
      /\ ToSet(after) = ToSet(order) \cup {top}
      /\ \A i \in 1..Len(order) : Prefix(after, i) = Prefix(order, i)
      /\ Prefix(after, Len(after)) = ToSet(order)
  BY <1>1, AppendElements
<1>3. /\ front \in Seq(SearchFrames) /\ Len(front) = l - 1 /\ \A i \in 1..(l - 1) : front[i] = stack[i]
  BY <1>1, FrontIs
<1>4. /\ Leads(g, op)[top] \subseteq ToSet(order)
      /\ \A n \in Leads(g, op)[top] : Passes(g, op, top, n)
      /\ op = "start" => top \notin g.bad
      /\ top \notin ToSet(order)
  BY <1>1 DEF FrameOK, StackOK
<1>5. \A i \in 1..Len(order) : order[i] # top
  BY <1>4, ElementsIs
<1> HIDE DEF after, front, top
<1>6. Listed(g, op, m, after)
  <2>1. \A i, j \in 1..Len(after) : after[i] = after[j] => i = j
    BY <1>2, <1>5 DEF Listed
  <2>2. ASSUME NEW i \in 1..Len(after)
        PROVE  /\ after[i] \in Reach(Leads(g, op), m)
               /\ Leads(g, op)[after[i]] \subseteq Prefix(after, i)
               /\ \A n \in Leads(g, op)[after[i]] : Passes(g, op, after[i], n)
               /\ op = "start" => after[i] \notin g.bad
    <3>1. CASE i = Len(after)
      BY <1>1, <1>2, <1>4, <3>1
    <3>2. CASE i \in 1..Len(order)
      BY <1>2, <3>2 DEF Listed
    <3> QED BY <1>2, <3>1, <3>2
  <2> QED BY <2>1, <2>2 DEF Listed
<1>7. ASSUME l > 1 PROVE StackOK(g, op, m, front, after)
  <2>1. \A i \in 1..Len(front) : i \in 1..l /\ i < l /\ front[i] = stack[i]
    BY <1>1, <1>3
  <2>2. front # <<>> /\ 1 \in 1..Len(front)
    BY <1>1, <1>3, <1>7, EmptySeq
  <2>3. ASSUME NEW i \in 1..Len(front)
        PROVE  FrameOK(g, op, front[i], ToSet(after) \cup Inside(front, i))
    <3>1. FrameOK(g, op, stack[i], ToSet(order) \cup Inside(stack, i))
      BY <2>1 DEF StackOK
    <3>2. Inside(stack, i) \subseteq Inside(front, i) \cup {top}
      <4>1. CASE i < Len(front)
        <5>1. i + 1 \in 1..Len(front)
          BY <1>1, <1>3, <4>1
        <5> QED BY <2>1, <4>1, <5>1 DEF Inside
      <4>2. CASE ~(i < Len(front))
        <5>1. i + 1 = l
          BY <1>1, <1>3, <4>2
        <5> QED BY <1>1, <5>1 DEF Inside
      <4> QED BY <4>1, <4>2
    <3> QED BY <1>2, <2>1, <3>1, <3>2 DEF FrameOK
  <2>4. \A i \in 1..Len(front) : front[i].mod \notin ToSet(after)
    <3> TAKE i \in 1..Len(front)
    <3>1. stack[i].mod # stack[l].mod /\ stack[i].mod \notin ToSet(order)
      BY <1>1, <2>1 DEF StackOK
    <3> QED BY <1>1, <1>2, <2>1, <3>1
  <2>5. front[1].mod = m
    BY <2>1, <2>2 DEF StackOK
  <2>6. \A i, j \in 1..Len(front) : i < j => front[i].mod # front[j].mod
    BY <2>1 DEF StackOK
  <2>7. \A i, j \in 1..Len(front) : i <= j => front[j].mod \in Reach(Leads(g, op), front[i].mod)
    BY <2>1 DEF StackOK
  <2> QED BY <2>2, <2>3, <2>4, <2>5, <2>6, <2>7 DEF StackOK
<1>8. ASSUME ~(l > 1) PROVE Complete(g, op, m, after)
  <2>1. l = 1
    <3>1. \A n \in Nat : n \in 1..n /\ ~(n > 1) => n = 1
      OBVIOUS
    <3> QED BY <1>1, <1>8, <3>1
  <2>2. top = m
    BY <1>1, <2>1 DEF StackOK
  <2> QED BY <1>2, <1>6, <2>2 DEF Complete
<1> QED BY <1>2, <1>3, <1>6, <1>7, <1>8 DEF after, front, top, Shorter

-----------------------------------------------------------------------------
(* The list of what is loaded. *)

\* A nonempty set of indices has a first one.
LEMMA FirstIndex ==
    ASSUME NEW T, T \subseteq Nat, T # {}
    PROVE  \E x \in T : \A y \in T : x <= y
<1>1. PICK x \in T : \A y \in T : ~(<<y, x>> \in OpToRel(<, Nat))
  BY NatLessThanWellFounded, WFMin
<1>2. ASSUME NEW y \in T PROVE x <= y
  <2>1. x \in Nat /\ y \in Nat
    OBVIOUS
  <2>2. ~(y < x)
    BY <1>1, <2>1 DEF OpToRel
  <2> QED BY <2>1, <2>2
<1> QED BY <1>2

\* What is loaded twice only if it was before, when a module is loaded.
LEMMA LoadsOne ==
    ASSUME NEW s \in Seq(Modules), NEW m \in Modules
    PROVE  /\ Append(s, m) \in Seq(Modules) /\ ToSet(Append(s, m)) = ToSet(s) \cup {m}
           /\ Distinct(s) /\ m \notin ToSet(s) => Distinct(Append(s, m))
<1> DEFINE t == Append(s, m)
<1>1. /\ t \in Seq(Modules) /\ Len(t) = Len(s) + 1 /\ t[Len(t)] = m
      /\ \A i \in 1..Len(s) : i \in 1..Len(t) /\ t[i] = s[i]
      /\ \A i \in 1..Len(t) : i \in 1..Len(s) \/ i = Len(t)
      /\ ToSet(t) = ToSet(s) \cup {m}
  BY AppendElements
<1>2. \A i \in 1..Len(s) : s[i] \in ToSet(s)
  BY ElementsIs
<1> HIDE DEF t
<1>3. ASSUME Distinct(s), m \notin ToSet(s) PROVE Distinct(t)
  BY <1>1, <1>2, <1>3 DEF Distinct
<1> QED BY <1>1, <1>3 DEF t

\* A module that runs has a first entry in the list.
LEMMA FirstEntry ==
    ASSUME NEW s \in Seq(Modules), NEW m \in ToSet(s)
    PROVE  \E j \in DOMAIN s : s[j] = m /\ \A k \in 1..(j - 1) : s[k] # m
<1> DEFINE T == {j \in 1..Len(s) : s[j] = m}
<1>1. Len(s) \in Nat /\ DOMAIN s = 1..Len(s) /\ \E j \in 1..Len(s) : s[j] = m
  BY ElementsIs
<1>2. PICK j \in T : \A k \in T : j <= k
  <2>1. T \subseteq Nat /\ T # {}
    BY <1>1
  <2> HIDE DEF T
  <2> QED BY <2>1, FirstIndex
<1>3. ASSUME NEW k \in 1..(j - 1) PROVE s[k] # m
  <2>1. k \in 1..Len(s) /\ ~(j <= k)
    BY <1>1
  <2> QED BY <1>2, <2>1
<1> QED BY <1>1, <1>3

\* The list without its i-th entry.
LEMMA RemoveAtIs ==
    ASSUME NEW s \in Seq(Modules), NEW i \in DOMAIN s
    PROVE  LET t == RemoveAt(s, i) IN
           /\ t \in Seq(Modules) /\ Len(t) = Len(s) - 1
           /\ \A j \in 1..Len(t) : t[j] = IF j < i THEN s[j] ELSE s[j + 1]
<1> DEFINE a == SubSeq(s, 1, i - 1)
           b == SubSeq(s, i + 1, Len(s))
           n == Len(s)
           t == RemoveAt(s, i)
<1>1. n \in Nat /\ n \in Int /\ i \in 1..n /\ i \in Int /\ i - 1 \in Int /\ i + 1 \in Int /\ 1 \in Int
      /\ \A j \in 1..n : s[j] \in Modules
  BY ElementsIs
<1>2. /\ \A j \in 1..(i - 1) : s[j] \in Modules
      /\ \A j \in (i + 1)..n : s[j] \in Modules
  BY <1>1
<1>3. /\ a \in Seq(Modules) /\ Len(a) = IF 1 <= i - 1 THEN (i - 1) - 1 + 1 ELSE 0
      /\ \A j \in 1..((i - 1) - 1 + 1) : a[j] = s[1 + j - 1]
  BY <1>1, <1>2, SubSeqProperties
<1>4. /\ b \in Seq(Modules) /\ Len(b) = IF i + 1 <= n THEN n - (i + 1) + 1 ELSE 0
      /\ \A j \in 1..(n - (i + 1) + 1) : b[j] = s[(i + 1) + j - 1]
  BY <1>1, <1>2, SubSeqProperties, SMTT(20)
<1>5. t = a \o b
  BY DEF RemoveAt
<1> HIDE DEF a, b, t, n
<1>6. Len(a) = i - 1 /\ Len(b) = n - i
  <2>1. Len(a) = i - 1
    BY <1>1, <1>3
  <2>2. Len(b) = n - i
    BY <1>1, <1>4
  <2> QED BY <2>1, <2>2
<1>7. /\ t \in Seq(Modules) /\ Len(t) = n - 1
      /\ \A j \in 1..(n - 1) : t[j] = IF j <= i - 1 THEN a[j] ELSE b[j - (i - 1)]
  <2>1. /\ t \in Seq(Modules) /\ Len(t) = Len(a) + Len(b)
        /\ \A j \in 1..(Len(a) + Len(b)) : t[j] = IF j <= Len(a) THEN a[j] ELSE b[j - Len(a)]
    <3>1. a \in Seq(Modules) /\ b \in Seq(Modules)
      BY <1>3, <1>4
    <3>2. /\ a \o b \in Seq(Modules) /\ Len(a \o b) = Len(a) + Len(b)
          /\ \A j \in 1..(Len(a) + Len(b)) : (a \o b)[j] = IF j <= Len(a) THEN a[j] ELSE b[j - Len(a)]
      BY ONLY <3>1, ConcatProperties
    <3> QED BY <1>5, <3>2
  <2>2. Len(a) + Len(b) = n - 1
    BY <1>1, <1>6
  <2> QED BY <1>6, <2>1, <2>2
<1>8. ASSUME NEW j \in 1..(n - 1) PROVE t[j] = IF j < i THEN s[j] ELSE s[j + 1]
  <2>1. CASE j < i
    <3>1. j <= i - 1 /\ j \in 1..((i - 1) - 1 + 1) /\ 1 + j - 1 = j
      BY <1>1, <2>1
    <3> QED BY <1>3, <1>7, <2>1, <3>1
  <2>2. CASE ~(j < i)
    <3>1. ~(j <= i - 1) /\ j - (i - 1) \in 1..(n - (i + 1) + 1) /\ (i + 1) + (j - (i - 1)) - 1 = j + 1
      BY SMTT(30), <1>1, <2>2
    <3>2. b[j - (i - 1)] = s[j + 1]
      BY <1>4, <3>1
    <3> QED BY <1>7, <2>2, <3>1, <3>2
  <2> QED BY <2>1, <2>2
<1> QED BY <1>7, <1>8 DEF t, n

\* Unloading takes one entry of the module away, its only one when nothing is
\* loaded twice.
LEMMA UnloadsOne ==
    ASSUME NEW m, loaded \in Seq(Modules)
    PROVE  /\ WithoutModule(m) \in Seq(Modules)
           /\ Distinct(loaded) => /\ Distinct(WithoutModule(m))
                                  /\ ToSet(WithoutModule(m)) = ToSet(loaded) \ {m}
<1> DEFINE First(j) == loaded[j] = m /\ \A k \in 1..(j - 1) : loaded[k] # m
           i == CHOOSE j \in DOMAIN loaded : First(j)
           t == RemoveAt(loaded, i)
           n == Len(loaded)
<1>1. CASE m \notin ToSet(loaded)
  <2>1. WithoutModule(m) = loaded
    BY <1>1 DEF WithoutModule, Running
  <2> QED BY <1>1, <2>1
<1>2. CASE m \in ToSet(loaded)
  <2>1. WithoutModule(m) = t
    BY <1>2 DEF WithoutModule, Running
  <2>2. i \in DOMAIN loaded /\ loaded[i] = m
    <3>1. \E j \in DOMAIN loaded : First(j)
      BY <1>2, FirstEntry
    <3> HIDE DEF First
    <3>2. i \in DOMAIN loaded /\ First(i)
      BY <3>1
    <3> QED BY <3>2 DEF First
  <2> HIDE DEF i
  <2>3. /\ t \in Seq(Modules) /\ Len(t) = n - 1
        /\ \A j \in 1..Len(t) : t[j] = IF j < i THEN loaded[j] ELSE loaded[j + 1]
    BY <2>2, RemoveAtIs
  <2>4. /\ n \in Nat /\ i \in 1..n /\ ToSet(loaded) = {loaded[j] : j \in 1..n}
        /\ ToSet(t) = {t[j] : j \in 1..Len(t)}
    BY <2>2, <2>3, ElementsIs
  <2> HIDE DEF t
  <2> DEFINE At2(j) == IF j < i THEN j ELSE j + 1
             Back(k) == IF k < i THEN k ELSE k - 1
  <2>5. ASSUME NEW j \in 1..Len(t) PROVE At2(j) \in 1..n /\ At2(j) # i /\ t[j] = loaded[At2(j)]
    BY <2>3, <2>4
  <2>6. ASSUME NEW k \in 1..n, k # i PROVE Back(k) \in 1..Len(t) /\ At2(Back(k)) = k
    BY <2>3, <2>4, <2>6
  <2>7. ASSUME NEW j \in 1..Len(t), NEW k \in 1..Len(t), At2(j) = At2(k) PROVE j = k
    BY <2>4, <2>7
  <2> HIDE DEF At2, Back, n
  <2>8. ASSUME Distinct(loaded)
        PROVE  Distinct(t) /\ ToSet(t) = ToSet(loaded) \ {m}
    <3>1. \A j, k \in 1..n : loaded[j] = loaded[k] => j = k
      BY <2>8 DEF Distinct, n
    <3>2. ASSUME NEW j \in 1..Len(t), NEW k \in 1..Len(t), t[j] = t[k] PROVE j = k
      BY <2>5, <2>7, <3>1, <3>2
    <3>3. ASSUME NEW x \in ToSet(t) PROVE x \in ToSet(loaded) /\ x # m
      <4>1. PICK j \in 1..Len(t) : x = t[j]
        BY <2>4
      <4> QED BY <2>2, <2>4, <2>5, <3>1, <4>1
    <3>4. ASSUME NEW x \in ToSet(loaded), x # m PROVE x \in ToSet(t)
      <4>1. PICK k \in 1..n : x = loaded[k]
        BY <2>4
      <4>2. k # i
        BY <2>2, <3>4, <4>1
      <4>3. Back(k) \in 1..Len(t) /\ t[Back(k)] = loaded[k]
        BY <2>5, <2>6, <4>2
      <4> QED BY <2>4, <4>1, <4>3
    <3> QED BY <3>2, <3>3, <3>4 DEF Distinct
  <2> QED BY <2>1, <2>3, <2>8
<1> QED BY <1>1, <1>2

-----------------------------------------------------------------------------
(* The steps of a call. *)

\* The fields of a call.
LEMMA CallTypes ==
    ASSUME NEW k \in CallRecords
    PROVE  /\ k.pc \in {"idle", "searching", "looking", "loading", "awaiting", "undoing", "stopping", "done"}
           /\ k.asked \in {"none", "start", "stop"} /\ k.mod \in Modules \cup {"none"}
           /\ k.stack \in Seq(SearchFrames) /\ k.order \in Seq(Modules) /\ k.started \in Seq(Modules)
           /\ k.result \in {"none", "refused", "ok", "failed", "unready"}
           /\ k.before \subseteq Modules /\ k.ready \subseteq Modules
BY DEF CallRecords

\* What the invariant says of a call.
LEMMA OfCall ==
    ASSUME GraphInv, NEW c \in Callers
    PROVE  /\ calls[c] \in CallRecords /\ CallSound(graph, calls[c]) /\ graph \in Graphs
           /\ loaded \in Seq(Modules) /\ bootList \in Seq(Modules) /\ Running \subseteq Modules
           /\ calls \in [Callers -> CallRecords] /\ Running = ToSet(loaded)
           /\ Busy(c) => calls[c].mod \in Modules /\ calls[c].asked \in {"start", "stop"}
<1>1. calls[c] \in CallRecords /\ CallSound(graph, calls[c]) /\ graph \in Graphs
      /\ loaded \in Seq(Modules) /\ bootList \in Seq(Modules) /\ calls \in [Callers -> CallRecords]
  BY DEF GraphInv, ManagerTyped
<1>2. Running \subseteq Modules /\ Running = ToSet(loaded)
  BY <1>1, ElementsIs DEF Running
<1> QED BY <1>1, <1>2 DEF Busy, CallSound

\* A step of one call keeps what holds of all of them,
LEMMA CallStepKeeps ==
    ASSUME GraphInv, NEW c \in Callers, NEW k, CallStep(c, k)
    PROVE  GraphInv'
<1>1. calls \in [Callers -> CallRecords] /\ \A d \in Callers : CallSound(graph, calls[d])
  BY DEF GraphInv, ManagerTyped
<1>2. k \in CallRecords /\ CallSound(graph, k) /\ calls' = [calls EXCEPT ![c] = k] /\ graph' = graph
      /\ upperMode' = upperMode /\ loaded' \in Seq(Modules) /\ bootList' \in Seq(Modules)
  BY DEF CallStep
<1>3. calls' \in [Callers -> CallRecords] /\ \A d \in Callers : calls'[d] = IF d = c THEN k ELSE calls[d]
  BY <1>1, <1>2
<1>4. \A d \in Callers : CallSound(graph, calls'[d])
  BY <1>1, <1>2, <1>3
<1>5. ManagerTyped'
  BY <1>2, <1>3 DEF GraphInv, ManagerTyped
<1> QED BY <1>2, <1>4, <1>5 DEF GraphInv

\* and what holds when there is only one.
LEMMA RunStepKeeps ==
    ASSUME GraphInv, RunInv, NEW c \in Callers, NEW k, CallStep(c, k), RunStep(c, k)
    PROVE  RunInv'
<1>1. calls \in [Callers -> CallRecords]
  BY DEF GraphInv, ManagerTyped
<1>2. k \in CallRecords /\ calls' = [calls EXCEPT ![c] = k] /\ graph' = graph
  BY DEF CallStep
<1>3. \A d \in Callers : calls'[d] = IF d = c THEN k ELSE calls[d]
  BY <1>1, <1>2
<1>4. \A d \in Callers : Busy(d)' => d = c \/ (Busy(d) /\ ~Busy(c)' /\ loaded' = loaded)
  BY <1>3 DEF Busy, RunStep
<1>5. Running' = ToSet(loaded') /\ Running = ToSet(loaded)
  BY DEF Running
<1>6. OneCaller'
  BY <1>4 DEF OneCaller, RunInv
<1>7. Distinct(loaded)' /\ Closed(Leads(graph, "start"), Running)'
  BY <1>2, <1>5 DEF RunStep
<1>8. ASSUME NEW d \in Callers, Busy(d)' PROVE RunSound(graph, Running, calls[d])'
  <2>1. CASE d = c
    <3>1. calls'[d] = k
      BY <1>3, <2>1
    <3> QED BY <1>2, <1>5, <3>1 DEF RunStep
  <2>2. CASE d # c
    <3>1. calls'[d] = calls[d] /\ Busy(d) /\ Running' = Running
      BY <1>3, <1>4, <1>5, <1>8, <2>2
    <3> QED BY <1>2, <3>1 DEF RunInv
  <2> QED BY <2>1, <2>2
<1> QED BY <1>6, <1>7, <1>8 DEF RunInv

\* The call when it begins, and when it has ended.
LEMMA CalledIs ==
    ASSUME GraphInv, NEW c \in Callers, NEW op \in {"start", "stop"}, NEW m \in Modules
    PROVE  LET k == Called(c, op, m) IN
           /\ k \in CallRecords /\ k.pc = "searching" /\ k.asked = op /\ k.mod = m
           /\ k.stack = <<Frame(Leads(graph, op), m)>> /\ k.order = <<>> /\ k.started = <<>>
           /\ k.result = "none" /\ k.before = Running /\ k.ready = {}
<1> DEFINE f == Frame(Leads(graph, op), m)
           k == Called(c, op, m)
<1>1. graph \in Graphs /\ Running \subseteq Modules
  BY OfCall
<1>2. f.mod = m /\ f.left = Leads(graph, op)[m] /\ f \in SearchFrames
  BY <1>1, GraphLeads DEF Frame, SearchFrames
<1> HIDE DEF f
<1>3. <<f>> \in Seq(SearchFrames) /\ <<>> \in Seq(Modules)
  BY <1>2
<1>4. k = [NoCall EXCEPT !.pc = "searching", !.asked = op, !.mod = m, !.before = Running, !.stack = <<f>>]
  BY DEF Called, f
<1>5. /\ k.pc = "searching" /\ k.asked = op /\ k.mod = m /\ k.stack = <<f>> /\ k.order = <<>>
      /\ k.started = <<>> /\ k.result = "none" /\ k.before = Running /\ k.ready = {}
  BY <1>4 DEF NoCall
<1>6. k \in CallRecords
  BY <1>1, <1>3, <1>4 DEF NoCall, CallRecords
<1> QED BY <1>5, <1>6 DEF f

\* A call that has ended keeps what it was asked, and forgets its search.
LEMMA EndedIs ==
    ASSUME NEW k \in CallRecords, NEW result \in {"refused", "ok", "failed", "unready"}
    PROVE  LET e == Ended(k, result) IN
           /\ e \in CallRecords /\ e.pc = "done" /\ e.result = result
           /\ e.asked = k.asked /\ e.mod = k.mod /\ e.before = k.before
<1>1. <<>> \in Seq(SearchFrames) /\ <<>> \in Seq(Modules)
  OBVIOUS
<1> QED BY <1>1 DEF Ended, CallRecords

\* A call that has ended is sound when it was refused for a reason, and only
\* for one.
LEMMA EndedSound ==
    ASSUME NEW g, NEW k \in CallRecords, NEW result \in {"refused", "ok", "failed", "unready"},
           k.asked \in {"start", "stop"}, k.mod \in Modules,
           (k.asked = "start" => k.mod \notin k.before) =>
               ((result = "refused") = ~Searchable(g, k.asked, k.mod))
    PROVE  Ended(k, result) \in CallRecords /\ CallSound(g, Ended(k, result))
BY EndedIs DEF CallSound, Starts

\* A call begins.
LEMMA CallBegins ==
    ASSUME GraphInv, NEW c \in Callers, NEW op \in {"start", "stop"}, NEW m \in Modules,
           op = "start" => m \notin graph.bad /\ m \notin Running
    PROVE  /\ CallSound(graph, Called(c, op, m))
           /\ Closed(Leads(graph, "start"), Running) => RunSound(graph, Running, Called(c, op, m))
<1> DEFINE k == Called(c, op, m)
           stack == <<Frame(Leads(graph, op), m)>>
<1>1. /\ k.pc = "searching" /\ k.asked = op /\ k.mod = m /\ k.stack = stack /\ k.order = <<>>
      /\ k.started = <<>> /\ k.before = Running
  BY CalledIs
<1>2. StackOK(graph, op, m, stack, <<>>) /\ Listed(graph, op, m, <<>>)
  BY OfCall, SearchBegins
<1> HIDE DEF k, stack
<1>3. CallSound(graph, k)
  BY <1>1, <1>2 DEF CallSound, Starts
<1>4. Closed(Leads(graph, "start"), Running) => RunSound(graph, Running, k)
  BY <1>1 DEF RunSound, Starts
<1> QED BY <1>3, <1>4 DEF k

\* A call that goes on once it has begun began alone, when no two calls are
\* under way then.
LEMMA BeginsAlone ==
    ASSUME calls \in [Callers -> CallRecords], OneCaller', NEW c \in Callers, NEW k,
           calls' = [calls EXCEPT ![c] = k], k.pc = "searching"
    PROVE  \A d \in Callers : Busy(d) => d = c
BY DEF OneCaller, Busy

\* What a start comes to at once.
LEMMA StartSteps ==
    ASSUME GraphInv, NEW c \in Callers, NEW m \in Modules, MayCall(c), StartCall(c, m),
           UNCHANGED <<graph, upperMode, loaded>>, bootList' \in Seq(Modules)
    PROVE  \E k : CallStep(c, k) /\ (OneCaller' /\ RunInv => RunStep(c, k))
<1> DEFINE b == Called(c, "start", m)
           k == IF m \in graph.bad THEN Ended(b, "refused") ELSE IF m \in Running THEN Ended(b, "ok") ELSE b
<1>1. /\ graph \in Graphs /\ loaded \in Seq(Modules) /\ Running \subseteq Modules /\ Running = ToSet(loaded)
      /\ calls' = [calls EXCEPT ![c] = k]
  BY OfCall DEF StartCall
<1>2. /\ b \in CallRecords /\ b.asked = "start" /\ b.mod = m /\ b.before = Running
  BY CalledIs
<1>3. m \in NeededBy(graph, m)
  BY ReachSelf DEF NeededBy
<1> HIDE DEF b
<1>4. /\ k \in CallRecords /\ CallSound(graph, k)
      /\ Closed(Leads(graph, "start"), Running) => RunSound(graph, Running, k)
  <2>1. CASE m \in graph.bad
    <3>1. ~Searchable(graph, "start", m)
      BY <1>3, <2>1 DEF Searchable, Startable
    <3>2. k = Ended(b, "refused")
      BY <2>1
    <3>3. k \in CallRecords /\ CallSound(graph, k)
      BY <1>2, <3>1, <3>2, EndedSound
    <3>4. k.pc = "done" /\ k.result = "refused" /\ k.before = Running
      BY <1>2, <3>2, EndedIs
    <3> QED BY <3>3, <3>4 DEF RunSound, AskedFor, Starts
  <2>2. CASE m \notin graph.bad /\ m \in Running
    <3>1. k = Ended(b, "ok")
      BY <2>2
    <3>2. k \in CallRecords /\ CallSound(graph, k)
      BY <1>2, <2>2, <3>1, EndedSound
    <3>3. k.pc = "done" /\ k.result = "ok" /\ k.before = Running /\ k.asked = "start" /\ k.mod = m
      BY <1>2, <3>1, EndedIs
    <3>4. ASSUME Closed(Leads(graph, "start"), Running) PROVE RunSound(graph, Running, k)
      <4>1. NeededBy(graph, m) \subseteq Running
        BY <1>1, <2>2, <3>4, ReachWithin DEF NeededBy
      <4> QED BY <3>3, <3>4, <4>1 DEF RunSound, AskedFor, Starts
    <3> QED BY <3>2, <3>4
  <2>3. CASE m \notin graph.bad /\ m \notin Running
    <3>1. k = b
      BY <2>3
    <3> QED BY <1>2, <2>3, <3>1, CallBegins DEF b
  <2> QED BY <2>1, <2>2, <2>3
<1> HIDE DEF k
<1>5. CallStep(c, k)
  BY <1>1, <1>4 DEF CallStep
<1>6. ASSUME OneCaller', RunInv PROVE RunStep(c, k)
  <2>1. k.pc = "searching" \/ k.pc = "done"
    BY <1>2, CalledIs, EndedIs DEF k, b
  <2>2. \A d \in Callers : Busy(d) => d = c \/ k.pc = "done"
    BY <1>1, <1>6, <2>1, OfCall, BeginsAlone
  <2> QED BY <1>1, <1>4, <1>6, <2>2 DEF RunStep, RunInv
<1> QED BY <1>5, <1>6

\* A stop begins.
LEMMA StopSteps ==
    ASSUME GraphInv, NEW c \in Callers, NEW m \in Modules, StopModule(c, m)
    PROVE  \E k : CallStep(c, k) /\ (OneCaller' /\ RunInv => RunStep(c, k))
<1> DEFINE k == Called(c, "stop", m)
<1>1. /\ graph \in Graphs /\ loaded \in Seq(Modules) /\ bootList \in Seq(Modules) /\ Running = ToSet(loaded)
      /\ calls' = [calls EXCEPT ![c] = k] /\ UNCHANGED <<graph, upperMode, loaded, bootList>> /\ MayCall(c)
  BY OfCall DEF StopModule
<1>2. k \in CallRecords /\ CallSound(graph, k)
      /\ (Closed(Leads(graph, "start"), Running) => RunSound(graph, Running, k))
  BY CalledIs, CallBegins
<1> HIDE DEF k
<1>3. CallStep(c, k)
  BY <1>1, <1>2 DEF CallStep
<1>4. ASSUME OneCaller', RunInv PROVE RunStep(c, k)
  <2>1. k.pc = "searching"
    BY CalledIs DEF k
  <2>2. \A d \in Callers : Busy(d) => d = c
    BY <1>1, <1>4, <2>1, OfCall, BeginsAlone
  <2> QED BY <1>1, <1>2, <1>4, <2>2 DEF RunStep, RunInv
<1> QED BY <1>3, <1>4

\* The only call there is.
LEMMA OnlyCall ==
    ASSUME GraphInv, RunInv, NEW c \in Callers, Busy(c)
    PROVE  /\ \A d \in Callers : Busy(d) => d = c
           /\ Distinct(loaded) /\ Closed(Leads(graph, "start"), ToSet(loaded))
           /\ RunSound(graph, ToSet(loaded), calls[c])
BY DEF RunInv, OneCaller, Running

\* A step of a search that leaves what is loaded alone.
LEMMA QuietStep ==
    ASSUME GraphInv, NEW c \in Callers, Busy(c), NEW k \in CallRecords, CallSound(graph, k),
           calls' = [calls EXCEPT ![c] = k], UNCHANGED <<graph, upperMode, loaded, bootList>>,
           RunSound(graph, ToSet(loaded), calls[c]) => RunSound(graph, ToSet(loaded), k)
    PROVE  CallStep(c, k) /\ (OneCaller' /\ RunInv => RunStep(c, k))
<1>1. CallStep(c, k)
  BY OfCall DEF CallStep
<1>2. ASSUME OneCaller', RunInv PROVE RunStep(c, k)
  BY <1>2, OnlyCall DEF RunStep
<1> QED BY <1>1, <1>2

\* A search is given up.
LEMMA RefuseSteps ==
    ASSUME GraphInv, NEW c \in Callers, Refuse(c)
    PROVE  \E k : CallStep(c, k) /\ (OneCaller' /\ RunInv => RunStep(c, k))
<1> DEFINE b == calls[c]
           k == Ended(b, "refused")
<1>1. b.pc = "searching" /\ Busy(c) /\ calls' = [calls EXCEPT ![c] = k]
      /\ UNCHANGED <<graph, upperMode, loaded, bootList>>
      /\ \E n \in Last(b.stack).left : Unsearchable(b, n)
  BY DEF Refuse, At, Busy, Returned
<1>2. graph \in Graphs /\ b \in CallRecords /\ CallSound(graph, b) /\ b.mod \in Modules
      /\ b.asked \in {"start", "stop"}
  BY <1>1, OfCall
<1> HIDE DEF b
<1>3. b.stack \in Seq(SearchFrames) /\ StackOK(graph, b.asked, b.mod, b.stack, b.order)
  BY <1>1, <1>2, CallTypes DEF CallSound
<1>4. ~Searchable(graph, b.asked, b.mod)
  BY <1>1, <1>2, <1>3, RefusedIsRight DEF Unsearchable
<1>5. k \in CallRecords /\ CallSound(graph, k)
  BY <1>2, <1>4, EndedSound
<1>6. k.pc = "done" /\ k.result = "refused" /\ k.before = b.before
  BY <1>2, EndedIs
<1> HIDE DEF k
<1>7. RunSound(graph, ToSet(loaded), b) => RunSound(graph, ToSet(loaded), k)
  BY <1>1, <1>6 DEF RunSound, AskedFor, Starts
<1>8. CallStep(c, k) /\ (OneCaller' /\ RunInv => RunStep(c, k))
  BY <1>1, <1>5, <1>7, QuietStep DEF b
<1> QED BY <1>8

\* A search looks at the next module.
LEMMA DescendSteps ==
    ASSUME GraphInv, NEW c \in Callers, Descend(c)
    PROVE  \E k : CallStep(c, k) /\ (OneCaller' /\ RunInv => RunStep(c, k))
<1> DEFINE b == calls[c]
<1>1. PICK n \in Last(b.stack).left :
        /\ ~Unsearchable(b, n)
        /\ calls' = [calls EXCEPT ![c].stack =
                IF n \in ToSet(b.order) THEN Passed(b.stack, n)
                ELSE Append(Passed(b.stack, n), Frame(Leads(graph, b.asked), n))]
  BY DEF Descend
<1> DEFINE stack == IF n \in ToSet(b.order) THEN Passed(b.stack, n)
                    ELSE Append(Passed(b.stack, n), Frame(Leads(graph, b.asked), n))
           k == [b EXCEPT !.stack = stack]
<1>2. b.pc = "searching" /\ Busy(c) /\ UNCHANGED <<graph, upperMode, loaded, bootList>>
      /\ calls' = [calls EXCEPT ![c] = k]
  BY <1>1 DEF Descend, At, Busy
<1>3. graph \in Graphs /\ b \in CallRecords /\ CallSound(graph, b) /\ b.mod \in Modules
      /\ b.asked \in {"start", "stop"}
  BY <1>2, OfCall
<1> HIDE DEF b
<1>4. /\ b.stack \in Seq(SearchFrames) /\ StackOK(graph, b.asked, b.mod, b.stack, b.order)
      /\ b.order \in Seq(Modules) /\ Listed(graph, b.asked, b.mod, b.order)
      /\ (b.asked = "start" => b.mod \notin b.before)
  BY <1>2, <1>3, CallTypes DEF CallSound
<1>5. Passes(graph, b.asked, Last(b.stack).mod, n) /\ n \notin Visiting(b.stack)
  BY <1>1 DEF Unsearchable
<1>6. stack \in Seq(SearchFrames) /\ StackOK(graph, b.asked, b.mod, stack, b.order)
  <2>1. CASE n \in ToSet(b.order)
    <3>1. b.stack # <<>>
      BY <1>4 DEF StackOK
    <3>2. Passed(b.stack, n) \in Seq(SearchFrames)
      <4>1. LeftBehind(b.stack, n, Passed(b.stack, n))
        BY <1>4, <3>1, PassedIs
      <4> QED BY <4>1 DEF LeftBehind
    <3> QED BY <1>3, <1>4, <1>5, <2>1, <3>2, SearchPasses
  <2>2. CASE n \notin ToSet(b.order)
    BY <1>3, <1>4, <1>5, <2>2, SearchDescends
  <2> QED BY <2>1, <2>2
<1> HIDE DEF stack
<1>7. /\ k \in CallRecords /\ k.pc = "searching" /\ k.asked = b.asked /\ k.mod = b.mod
      /\ k.stack = stack /\ k.order = b.order /\ k.started = b.started /\ k.before = b.before
  BY <1>2, <1>3, <1>6 DEF CallRecords
<1> HIDE DEF k
<1>8. CallSound(graph, k)
  BY <1>3, <1>4, <1>6, <1>7 DEF CallSound, Starts
<1>9. RunSound(graph, ToSet(loaded), b) => RunSound(graph, ToSet(loaded), k)
  BY <1>2, <1>7 DEF RunSound, Starts
<1>10. CallStep(c, k) /\ (OneCaller' /\ RunInv => RunStep(c, k))
  BY <1>2, <1>7, <1>8, <1>9, QuietStep DEF b
<1> QED BY <1>10

\* What holds of a call when its search is over.
LEMMA SearchIsOver ==
    ASSUME NEW g \in Graphs, NEW k \in CallRecords, k.asked \in {"start", "stop"}, k.mod \in Modules,
           k.asked = "start" => k.mod \notin k.before, Complete(g, k.asked, k.mod, k.order),
           k.pc = IF k.asked = "start" THEN "looking" ELSE "stopping"
    PROVE  /\ CallSound(g, k)
           /\ Closed(Leads(g, "start"), k.before) /\ k.started = <<>> => RunSound(g, k.before, k)
<1>1. k.order \in Seq(Modules) /\ k.before \subseteq Modules
  BY CallTypes
<1>2. Searchable(g, k.asked, k.mod)
  BY <1>1, CompleteIsRight
<1>3. ToSet(k.order) = Reach(Leads(g, k.asked), k.mod)
  BY <1>1, CompleteHasAll
<1>4. k.order # <<>>
  BY DEF Complete, ToSet
<1>5. /\ \A i \in 1..Len(k.order) : k.order[i] \in Modules
      /\ \A i \in 1..Len(k.order) : Leads(g, k.asked)[k.order[i]] \subseteq Prefix(k.order, i)
  BY <1>1, ElementsIs DEF Complete, Listed
<1>6. CASE k.asked = "start"
  <2>1. \A i \in 1..Len(k.order) : DependenciesOf(g, k.order[i]) \subseteq Prefix(k.order, i)
    BY <1>5, <1>6, GraphLeads
  <2>2. ReadyOrder(g, k)
    BY <2>1 DEF ReadyOrder
  <2>3. CallSound(g, k)
    BY <1>2, <1>4, <1>6, <2>2 DEF CallSound, Starts
  <2>4. ToSet(k.order) = NeededBy(g, k.mod)
    BY <1>3, <1>6 DEF NeededBy
  <2>5. ASSUME k.started = <<>> PROVE StartRuns(g, k.before, k)
    <3>1. Len(k.started) = 0 /\ ToSet(k.started) = {}
      BY <2>5 DEF ToSet
    <3>2. StartedOK(g, k)
      BY <3>1 DEF StartedOK, Distinct
    <3> QED BY <1>6, <2>1, <2>4, <3>1, <3>2 DEF StartRuns, Begun
  <2> QED BY <1>6, <2>3, <2>5 DEF RunSound, Starts
<1>7. CASE k.asked = "stop"
  <2>1. \A i \in 1..Len(k.order) : DependentsOf(g, k.order[i]) \subseteq Prefix(k.order, i)
    BY <1>5, <1>7, GraphLeads
  <2>2. CallSound(g, k)
    BY <1>2, <1>4, <1>7 DEF CallSound, Starts
  <2>3. ToSet(k.order) = NeedersOf(g, k.mod)
    BY <1>3, <1>7 DEF NeedersOf
  <2>4. StopRuns(g, k.before, k)
    BY <2>1, <2>3 DEF StopRuns
  <2> QED BY <1>7, <2>2, <2>4 DEF RunSound, Starts
<1> QED BY <1>6, <1>7

\* A search lists a module.
LEMMA ListSteps ==
    ASSUME GraphInv, NEW c \in Callers, List(c)
    PROVE  \E k : CallStep(c, k) /\ (OneCaller' /\ RunInv => RunStep(c, k))
<1> DEFINE b == calls[c]
           front == Front(b.stack)
           order == Append(b.order, Last(b.stack).mod)
           listed == [b EXCEPT !.stack = front, !.order = order]
           over == [listed EXCEPT !.pc = IF b.asked = "start" THEN "looking" ELSE "stopping"]
           k == IF Len(b.stack) > 1 THEN listed ELSE over
<1>1. b.pc = "searching" /\ Busy(c) /\ UNCHANGED <<graph, upperMode, loaded, bootList>>
      /\ Last(b.stack).left = {} /\ calls' = [calls EXCEPT ![c] = k]
  <2>1. b.pc = "searching" /\ Busy(c) /\ UNCHANGED <<graph, upperMode, loaded, bootList>>
        /\ Last(b.stack).left = {}
    BY DEF List, At, Busy
  <2>2. k = IF Len(b.stack) > 1 THEN listed
            ELSE [listed EXCEPT !.pc = IF b.asked = "start" THEN "looking" ELSE "stopping"]
    OBVIOUS
  <2>3. calls' = [calls EXCEPT ![c] = k]
    BY DEF List
  <2> QED BY <2>1, <2>3
<1>2. graph \in Graphs /\ b \in CallRecords /\ CallSound(graph, b) /\ b.mod \in Modules
      /\ b.asked \in {"start", "stop"}
  BY <1>1, OfCall
<1> HIDE DEF b
<1>3. /\ b.stack \in Seq(SearchFrames) /\ StackOK(graph, b.asked, b.mod, b.stack, b.order)
      /\ b.order \in Seq(Modules) /\ Listed(graph, b.asked, b.mod, b.order)
      /\ (b.asked = "start" => b.mod \notin b.before)
  BY <1>1, <1>2, CallTypes DEF CallSound
<1>4. /\ front \in Seq(SearchFrames) /\ order \in Seq(Modules) /\ order # <<>>
      /\ Listed(graph, b.asked, b.mod, order)
      /\ Len(b.stack) > 1 => StackOK(graph, b.asked, b.mod, front, order)
      /\ ~(Len(b.stack) > 1) => Complete(graph, b.asked, b.mod, order)
  <2>1. Shorter(graph, b.asked, b.mod, b.stack, front, order)
    BY <1>1, <1>2, <1>3, SearchLists
  <2> QED BY <2>1 DEF Shorter
<1> HIDE DEF front, order
<1>5. /\ listed \in CallRecords /\ listed.pc = "searching" /\ listed.asked = b.asked /\ listed.mod = b.mod
      /\ listed.stack = front /\ listed.order = order /\ listed.started = b.started
      /\ listed.before = b.before
  BY <1>1, <1>2, <1>4 DEF CallRecords
<1> HIDE DEF listed
<1>6. /\ over \in CallRecords /\ over.asked = b.asked /\ over.mod = b.mod
      /\ over.pc = IF b.asked = "start" THEN "looking" ELSE "stopping"
      /\ over.order = order /\ over.started = b.started /\ over.before = b.before
  BY <1>5 DEF CallRecords
<1> HIDE DEF over
<1>7. k \in CallRecords /\ CallSound(graph, k)
      /\ (RunSound(graph, ToSet(loaded), b) => RunSound(graph, ToSet(loaded), k))
  <2>1. CASE Len(b.stack) > 1
    <3>1. k = listed
      BY <2>1
    <3>2. CallSound(graph, k)
      BY <1>2, <1>3, <1>4, <1>5, <2>1, <3>1 DEF CallSound, Starts
    <3>3. RunSound(graph, ToSet(loaded), b) => RunSound(graph, ToSet(loaded), k)
      BY <1>1, <1>5, <3>1 DEF RunSound, Starts
    <3> QED BY <1>5, <3>1, <3>2, <3>3
  <2>2. CASE ~(Len(b.stack) > 1)
    <3>1. k = over
      BY <2>2
    <3>2. CallSound(graph, k) /\
          (Closed(Leads(graph, "start"), k.before) /\ k.started = <<>> => RunSound(graph, k.before, k))
      BY <1>2, <1>3, <1>4, <1>6, <2>2, <3>1, SearchIsOver
    <3>3. RunSound(graph, ToSet(loaded), b) =>
             /\ Closed(Leads(graph, "start"), b.before) /\ b.started = <<>> /\ ToSet(loaded) = b.before
      BY <1>1 DEF RunSound
    <3> QED BY <1>6, <3>1, <3>2, <3>3
  <2> QED BY <2>1, <2>2
<1> HIDE DEF k
<1>8. CallStep(c, k) /\ (OneCaller' /\ RunInv => RunStep(c, k))
  BY <1>1, <1>7, QuietStep DEF b
<1> QED BY <1>8

-----------------------------------------------------------------------------
(* Going through the order of a start. *)

\* Where a call is when it has done with the first module of its order.
AdvancedTo(k) ==
    [k EXCEPT !.order = Tail(k.order), !.pc = IF Tail(k.order) = <<>> THEN "done" ELSE "looking",
              !.result = IF Tail(k.order) = <<>> THEN "ok" ELSE "none"]

\* A call that goes on to the next module changes its order, its place and its
\* result only.
LEMMA AdvancedIs ==
    ASSUME NEW k \in CallRecords, k.order # <<>>
    PROVE  LET t == AdvancedTo(k) IN
           /\ t \in CallRecords /\ t.order = Tail(k.order) /\ t.started = k.started
           /\ t.asked = k.asked /\ t.mod = k.mod /\ t.before = k.before /\ t.ready = k.ready
           /\ t.pc = IF Tail(k.order) = <<>> THEN "done" ELSE "looking"
           /\ t.result = IF Tail(k.order) = <<>> THEN "ok" ELSE "none"
<1> DEFINE rest == Tail(k.order)
           pc == IF rest = <<>> THEN "done" ELSE "looking"
           result == IF rest = <<>> THEN "ok" ELSE "none"
<1>1. rest \in Seq(Modules)
  BY CallTypes, TailElements
<1>2. pc \in {"done", "looking"} /\ result \in {"ok", "none"}
  OBVIOUS
<1>3. AdvancedTo(k) = [k EXCEPT !.order = rest, !.pc = pc, !.result = result]
  BY DEF AdvancedTo
<1> HIDE DEF rest, pc, result
<1>4. LET t == AdvancedTo(k) IN
      /\ t \in CallRecords /\ t.order = rest /\ t.started = k.started
      /\ t.asked = k.asked /\ t.mod = k.mod /\ t.before = k.before /\ t.ready = k.ready
      /\ t.pc = pc /\ t.result = result
  BY <1>1, <1>2, <1>3 DEF CallRecords
<1> QED BY <1>4 DEF rest, pc, result

\* The rest of the order needs no more than the whole of it, once the first
\* module is there or when nothing after it needs it.
LEMMA RestNeeds ==
    ASSUME NEW g, NEW order \in Seq(Modules), order # <<>>, NEW there,
           \A i \in 1..Len(order) : DependenciesOf(g, order[i]) \subseteq there \cup Prefix(order, i),
           \A n \in ToSet(Tail(order)) : Head(order) \in DependenciesOf(g, n) => Head(order) \in there
    PROVE  LET t == Tail(order) IN
           \A i \in 1..Len(t) : DependenciesOf(g, t[i]) \subseteq there \cup Prefix(t, i)
<1> DEFINE t == Tail(order)
<1>1. /\ t \in Seq(Modules)
      /\ \A i \in 1..Len(t) : i + 1 \in 1..Len(order) /\ t[i] = order[i + 1]
      /\ \A i \in 1..Len(t) : Prefix(order, i + 1) = {Head(order)} \cup Prefix(t, i)
  BY TailElements
<1>2. \A i \in 1..Len(t) : t[i] \in ToSet(t)
  BY <1>1, ElementsIs
<1>3. \A n \in ToSet(t) : Head(order) \in DependenciesOf(g, n) => Head(order) \in there
  OBVIOUS
<1> HIDE DEF t
<1>4. ASSUME NEW i \in 1..Len(t) PROVE DependenciesOf(g, t[i]) \subseteq there \cup Prefix(t, i)
  <2>1. DependenciesOf(g, t[i]) \subseteq there \cup ({Head(order)} \cup Prefix(t, i))
    BY <1>1
  <2>2. Head(order) \in DependenciesOf(g, t[i]) => Head(order) \in there
    BY <1>2, <1>3
  <2> QED BY <2>1, <2>2
<1> QED BY <1>4 DEF t

\* A call that goes on to the rest of its order stays sound,
LEMMA AdvanceSound ==
    ASSUME NEW g, NEW k \in CallRecords, k.order # <<>>, k.asked = "start", k.mod \in Modules,
           k.mod \notin k.before, Searchable(g, "start", k.mod), ReadyOrder(g, k),
           \A n \in ToSet(Tail(k.order)) :
               Head(k.order) \in DependenciesOf(g, n) => Head(k.order) \in k.ready
    PROVE  AdvancedTo(k) \in CallRecords /\ CallSound(g, AdvancedTo(k))
<1> DEFINE t == AdvancedTo(k)
<1>1. /\ t \in CallRecords /\ t.order = Tail(k.order)
      /\ t.asked = k.asked /\ t.mod = k.mod /\ t.before = k.before /\ t.ready = k.ready
      /\ t.pc = IF Tail(k.order) = <<>> THEN "done" ELSE "looking"
      /\ t.result = IF Tail(k.order) = <<>> THEN "ok" ELSE "none"
  BY AdvancedIs
<1> HIDE DEF t
<1>2. ReadyOrder(g, t)
  <2>1. k.order \in Seq(Modules)
    BY CallTypes
  <2>2. \A i \in 1..Len(Tail(k.order)) :
           DependenciesOf(g, Tail(k.order)[i]) \subseteq k.ready \cup Prefix(Tail(k.order), i)
    BY <2>1, RestNeeds DEF ReadyOrder
  <2> QED BY <1>1, <2>2 DEF ReadyOrder
<1>3. CallSound(g, t)
  BY <1>1, <1>2 DEF CallSound, Starts
<1> QED BY <1>1, <1>3 DEF t

\* The first module of the order runs, and the rest of the start lies ahead.
FirstRuns(g, running, k) ==
    /\ k.order # <<>> /\ k.asked = "start"
    /\ Closed(Leads(g, "start"), k.before) /\ StartedOK(g, k)
    /\ running = k.before \cup ToSet(k.started)
    /\ Head(k.order) \in running /\ NeededBy(g, k.mod) \subseteq running \cup ToSet(k.order)
    /\ ToSet(k.order) \subseteq NeededBy(g, k.mod)
    /\ \A i \in 1..Len(k.order) : DependenciesOf(g, k.order[i]) \subseteq running \cup Prefix(k.order, i)

\* When a start goes on to the next module, what runs stays sound.
LEMMA AdvanceRuns ==
    ASSUME NEW g, NEW running, NEW k \in CallRecords, FirstRuns(g, running, k)
    PROVE  RunSound(g, running, AdvancedTo(k))
<1> DEFINE t == AdvancedTo(k)
           rest == Tail(k.order)
<1>0. /\ k.order # <<>> /\ k.asked = "start"
      /\ Closed(Leads(g, "start"), k.before) /\ StartedOK(g, k)
      /\ running = k.before \cup ToSet(k.started)
      /\ Head(k.order) \in running /\ NeededBy(g, k.mod) \subseteq running \cup ToSet(k.order)
      /\ ToSet(k.order) \subseteq NeededBy(g, k.mod)
      /\ \A i \in 1..Len(k.order) : DependenciesOf(g, k.order[i]) \subseteq running \cup Prefix(k.order, i)
  BY DEF FirstRuns
<1>1. /\ t \in CallRecords /\ t.order = rest /\ t.started = k.started
      /\ t.asked = k.asked /\ t.mod = k.mod /\ t.before = k.before
      /\ t.pc = IF rest = <<>> THEN "done" ELSE "looking"
      /\ t.result = IF rest = <<>> THEN "ok" ELSE "none"
  BY <1>0, AdvancedIs
<1>2. k.order \in Seq(Modules) /\ k.started \in Seq(Modules)
  BY CallTypes
<1>3. ToSet(k.order) = {Head(k.order)} \cup ToSet(rest)
  BY <1>0, <1>2, TailElements
<1>4. \A i \in 1..Len(rest) : DependenciesOf(g, rest[i]) \subseteq running \cup Prefix(rest, i)
  BY <1>0, <1>2, RestNeeds
<1>5. ToSet(k.started) \subseteq NeededBy(g, k.mod)
  <2>1. \A i \in 1..Len(k.started) : k.started[i] \in NeededBy(g, k.mod)
    BY <1>0 DEF StartedOK
  <2> QED BY <1>2, <2>1, ElementsIs
<1>6. StartedOK(g, t)
  BY <1>0, <1>1 DEF StartedOK
<1>7. rest = <<>> => ToSet(rest) = {}
  BY DEF ToSet
<1> HIDE DEF t, rest
<1>8. CASE rest = <<>>
  <2>1. running = k.before \cup NeededBy(g, k.mod)
    BY <1>0, <1>3, <1>5, <1>7, <1>8
  <2> QED BY <1>0, <1>1, <1>8, <2>1 DEF RunSound, AskedFor, Starts, t
<1>9. CASE rest # <<>>
  <2>1. StartRuns(g, running, t)
    BY <1>0, <1>1, <1>3, <1>4, <1>6, <1>9 DEF StartRuns, Begun
  <2> QED BY <1>0, <1>1, <1>9, <2>1 DEF RunSound, Starts, t
<1> QED BY <1>8, <1>9

\* The call t is k with one more module started.
HasStarted(t, k, h) ==
    t.started = Append(k.started, h) /\ t.before = k.before /\ t.mod = k.mod

\* All that h needs runs, and h does not.
MayStart(g, k, h) ==
    /\ k \in CallRecords /\ StartedOK(g, k) /\ h \in NeededBy(g, k.mod) /\ h \in Modules
    /\ h \notin k.before /\ h \notin ToSet(k.started)
    /\ DependenciesOf(g, h) \subseteq k.before \cup ToSet(k.started)

\* A module is started after all it needs.
LEMMA StartsOneMore ==
    ASSUME NEW g, NEW k, NEW h, MayStart(g, k, h), NEW t, HasStarted(t, k, h)
    PROVE  StartedOK(g, t) /\ ToSet(t.started) = ToSet(k.started) \cup {h}
<1> DEFINE a == Append(k.started, h)
<1>0. /\ k \in CallRecords /\ StartedOK(g, k) /\ h \in NeededBy(g, k.mod) /\ h \in Modules
      /\ h \notin k.before /\ h \notin ToSet(k.started)
      /\ DependenciesOf(g, h) \subseteq k.before \cup ToSet(k.started)
  BY DEF MayStart
<1>1. k.started \in Seq(Modules)
  BY <1>0, CallTypes
<1>2. /\ a \in Seq(Modules) /\ a[Len(a)] = h /\ Prefix(a, Len(a)) = ToSet(k.started)
      /\ \A i \in 1..Len(k.started) : a[i] = k.started[i] /\ Prefix(a, i) = Prefix(k.started, i)
      /\ \A i \in 1..Len(a) : i \in 1..Len(k.started) \/ i = Len(a)
      /\ ToSet(a) = ToSet(k.started) \cup {h}
  BY <1>0, <1>1, AppendElements
<1>3. Distinct(a)
  BY <1>0, <1>1, LoadsOne DEF StartedOK
<1> HIDE DEF a
<1>4. ASSUME NEW i \in 1..Len(a)
      PROVE  /\ a[i] \notin k.before /\ a[i] \in NeededBy(g, k.mod)
             /\ DependenciesOf(g, a[i]) \subseteq k.before \cup Prefix(a, i)
  <2>1. CASE i = Len(a)
    BY <1>0, <1>2, <2>1
  <2>2. CASE i \in 1..Len(k.started)
    BY <1>0, <1>2, <2>2 DEF StartedOK
  <2> QED BY <1>2, <2>1, <2>2
<1>5. t.started = a /\ t.before = k.before /\ t.mod = k.mod
  BY DEF a, HasStarted
<1> QED BY <1>2, <1>3, <1>4, <1>5 DEF StartedOK

\* What a call that goes through its order of a start knows.
LEMMA StartKnows ==
    ASSUME GraphInv, NEW c \in Callers, calls[c].pc \in Starts
    PROVE  LET k == calls[c] IN
           /\ graph \in Graphs /\ k \in CallRecords /\ CallSound(graph, k) /\ Busy(c)
           /\ loaded \in Seq(Modules) /\ bootList \in Seq(Modules)
           /\ k.order \in Seq(Modules) /\ k.order # <<>> /\ Head(k.order) \in Modules
           /\ k.started \in Seq(Modules) /\ Head(k.order) = Current(c) /\ Head(k.order) = k.order[1]
           /\ 1 \in 1..Len(k.order) /\ Prefix(k.order, 1) = {} /\ Head(k.order) \in ToSet(k.order)
           /\ k.asked = "start" /\ k.mod \in Modules /\ k.mod \notin k.before
           /\ Searchable(graph, "start", k.mod) /\ ReadyOrder(graph, k)
<1> DEFINE k == calls[c]
<1>1. graph \in Graphs /\ k \in CallRecords /\ CallSound(graph, k)
      /\ loaded \in Seq(Modules) /\ bootList \in Seq(Modules)
  BY OfCall
<1>2. Busy(c) /\ Head(k.order) = Current(c)
  BY DEF Busy, Current, Starts
<1> HIDE DEF k
<1>3. k.pc \in Starts
  BY DEF k
<1>4. k.order \in Seq(Modules) /\ k.started \in Seq(Modules)
  BY <1>1, CallTypes
<1>5. /\ k.order # <<>> /\ k.asked = "start" /\ k.mod \in Modules /\ k.mod \notin k.before
      /\ Searchable(graph, "start", k.mod) /\ ReadyOrder(graph, k)
  BY <1>1, <1>3 DEF CallSound, Starts
<1>6. /\ Head(k.order) \in Modules /\ Head(k.order) = k.order[1] /\ 1 \in 1..Len(k.order)
      /\ Prefix(k.order, 1) = {} /\ Head(k.order) \in ToSet(k.order)
  BY <1>4, <1>5, TailElements
<1> QED BY <1>1, <1>2, <1>4, <1>5, <1>6 DEF k

\* The call looks whether the module runs, and whether it serves.
LEMMA LookSteps ==
    ASSUME GraphInv, NEW c \in Callers, Look(c)
    PROVE  \E k : CallStep(c, k) /\ (OneCaller' /\ RunInv => RunStep(c, k))
<1> DEFINE b == calls[c]
           h == Head(b.order)
           running == ToSet(loaded)
<1>1. b.pc = "looking" /\ b.pc \in Starts /\ UNCHANGED <<graph, upperMode, loaded, bootList>>
  BY DEF Look, At, Starts
<1>2. /\ graph \in Graphs /\ b \in CallRecords /\ CallSound(graph, b) /\ Busy(c)
      /\ b.order \in Seq(Modules) /\ b.order # <<>> /\ h = Current(c)
      /\ b.asked = "start" /\ b.mod \in Modules /\ b.mod \notin b.before
      /\ Searchable(graph, "start", b.mod) /\ ReadyOrder(graph, b)
  BY <1>1, StartKnows
<1>3. Running = running /\ (NeededLater(c) = \E n \in ToSet(Tail(b.order)) : h \in DependenciesOf(graph, n))
  BY DEF Running, NeededLater, Current
<1>4. \/ h \notin running /\ calls' = [calls EXCEPT ![c].pc = "loading"]
      \/ h \in running /\ ~NeededLater(c) /\ calls' = Advanced(c, b)
      \/ h \in running /\ calls' = Advanced(c, [b EXCEPT !.ready = @ \cup {h}])
      \/ calls' = Returned(c, "unready")
  BY <1>2, <1>3 DEF Look
<1>5. ASSUME RunSound(graph, running, b)
      PROVE  /\ Closed(Leads(graph, "start"), b.before) /\ StartedOK(graph, b)
             /\ running = b.before \cup ToSet(b.started)
             /\ NeededBy(graph, b.mod) \subseteq running \cup ToSet(b.order)
             /\ ToSet(b.order) \subseteq NeededBy(graph, b.mod)
             /\ \A i \in 1..Len(b.order) : DependenciesOf(graph, b.order[i]) \subseteq running \cup Prefix(b.order, i)
  BY <1>1, <1>5 DEF RunSound, StartRuns, Begun, Starts
<1> HIDE DEF running
<1>6. CASE h \notin running /\ calls' = [calls EXCEPT ![c].pc = "loading"]
  <2> DEFINE k == [b EXCEPT !.pc = "loading"]
  <2>1. calls' = [calls EXCEPT ![c] = k]
    BY <1>6
  <2> HIDE DEF b
  <2>2. /\ k \in CallRecords /\ k.pc = "loading" /\ k.asked = b.asked /\ k.mod = b.mod
        /\ k.order = b.order /\ k.started = b.started /\ k.before = b.before /\ k.ready = b.ready
    BY <1>2 DEF CallRecords
  <2> HIDE DEF k, h
  <2>3. CallSound(graph, k)
    BY <1>2, <2>2 DEF CallSound, Starts, ReadyOrder
  <2>4. RunSound(graph, running, b) => RunSound(graph, running, k)
    <3> SUFFICES ASSUME RunSound(graph, running, b) PROVE RunSound(graph, running, k)
      OBVIOUS
    <3>1. StartedOK(graph, k)
      BY <1>5, <2>2 DEF StartedOK
    <3>2. StartRuns(graph, running, k)
      BY <1>5, <1>6, <2>2, <3>1 DEF StartRuns, Begun, h
    <3> QED BY <1>5, <2>2, <3>2 DEF RunSound, Starts
  <2>5. CallStep(c, k) /\ (OneCaller' /\ RunInv => RunStep(c, k))
    BY <1>1, <1>2, <2>1, <2>2, <2>3, <2>4, QuietStep DEF b, running
  <2> QED BY <2>5
<1>7. ASSUME NEW k \in CallRecords, k.order = b.order, k.started = b.started, k.asked = b.asked,
             k.mod = b.mod, k.before = b.before, b.ready \subseteq k.ready,
             \A n \in ToSet(Tail(b.order)) : h \in DependenciesOf(graph, n) => h \in k.ready,
             h \in running, calls' = Advanced(c, k)
      PROVE  \E t : CallStep(c, t) /\ (OneCaller' /\ RunInv => RunStep(c, t))
  <2> DEFINE t == AdvancedTo(k)
  <2>1. calls' = [calls EXCEPT ![c] = t]
    BY <1>7 DEF Advanced, AdvancedTo
  <2> HIDE DEF b, h
  <2>2. ReadyOrder(graph, k)
    BY <1>2, <1>7 DEF ReadyOrder
  <2>3. t \in CallRecords /\ CallSound(graph, t)
    BY <1>2, <1>7, <2>2, AdvanceSound DEF h
  <2>4. RunSound(graph, running, b) => RunSound(graph, running, t)
    <3> SUFFICES ASSUME RunSound(graph, running, b) PROVE RunSound(graph, running, t)
      OBVIOUS
    <3>1. StartedOK(graph, k)
      BY <1>5, <1>7 DEF StartedOK
    <3>2. FirstRuns(graph, running, k)
      BY <1>2, <1>5, <1>7, <3>1 DEF FirstRuns, h
    <3> QED BY <1>7, <3>2, AdvanceRuns
  <2> HIDE DEF t
  <2>5. CallStep(c, t) /\ (OneCaller' /\ RunInv => RunStep(c, t))
    BY <1>1, <1>2, <2>1, <2>3, <2>4, QuietStep DEF b, running
  <2> QED BY <2>5
<1>8. CASE h \in running /\ ~NeededLater(c) /\ calls' = Advanced(c, b)
  BY <1>2, <1>3, <1>7, <1>8
<1>9. CASE h \in running /\ calls' = Advanced(c, [b EXCEPT !.ready = @ \cup {h}])
  <2> DEFINE k == [b EXCEPT !.ready = @ \cup {h}]
  <2>1. h \in Modules
    BY <1>1, StartKnows
  <2> HIDE DEF b, h
  <2>2. /\ k \in CallRecords /\ k.order = b.order /\ k.started = b.started /\ k.asked = b.asked
        /\ k.mod = b.mod /\ k.before = b.before /\ k.ready = b.ready \cup {h}
    BY <1>2, <2>1 DEF CallRecords
  <2>3. calls' = Advanced(c, k)
    BY <1>9
  <2> HIDE DEF k
  <2> QED BY <1>7, <1>9, <2>2, <2>3
<1>10. CASE calls' = Returned(c, "unready")
  <2> DEFINE k == Ended(b, "unready")
  <2>1. calls' = [calls EXCEPT ![c] = k]
    BY <1>10 DEF Returned
  <2> HIDE DEF b, h
  <2>2. k \in CallRecords /\ CallSound(graph, k)
    BY <1>2, EndedSound
  <2>3. k.pc = "done" /\ k.result = "unready" /\ k.before = b.before /\ k.mod = b.mod
    BY <1>2, EndedIs
  <2> HIDE DEF k
  <2>4. RunSound(graph, running, b) => RunSound(graph, running, k)
    <3> SUFFICES ASSUME RunSound(graph, running, b) PROVE RunSound(graph, running, k)
      OBVIOUS
    <3>1. ToSet(b.started) \subseteq NeededBy(graph, b.mod)
      <4>1. b.started \in Seq(Modules) /\ \A i \in 1..Len(b.started) : b.started[i] \in NeededBy(graph, b.mod)
        BY <1>2, <1>5, CallTypes DEF StartedOK
      <4> QED BY <4>1, ElementsIs
    <3> QED BY <1>5, <2>3, <3>1 DEF RunSound, AskedFor, Starts
  <2>5. CallStep(c, k) /\ (OneCaller' /\ RunInv => RunStep(c, k))
    BY <1>1, <1>2, <2>1, <2>2, <2>3, <2>4, QuietStep DEF b, running
  <2> QED BY <2>5
<1> QED BY <1>4, <1>6, <1>8, <1>9, <1>10

\* A step of the only call that changes what is loaded.
LEMMA LoudStep ==
    ASSUME GraphInv, NEW c \in Callers, Busy(c), NEW k \in CallRecords, CallSound(graph, k),
           calls' = [calls EXCEPT ![c] = k], UNCHANGED <<graph, upperMode, bootList>>,
           loaded' \in Seq(Modules),
           /\ Distinct(loaded) /\ Closed(Leads(graph, "start"), ToSet(loaded))
           /\ RunSound(graph, ToSet(loaded), calls[c])
           => /\ Distinct(loaded') /\ Closed(Leads(graph, "start"), ToSet(loaded'))
              /\ RunSound(graph, ToSet(loaded'), k)
    PROVE  CallStep(c, k) /\ (OneCaller' /\ RunInv => RunStep(c, k))
<1>1. CallStep(c, k)
  BY OfCall DEF CallStep
<1>2. ASSUME OneCaller', RunInv PROVE RunStep(c, k)
  BY <1>2, OnlyCall DEF RunStep
<1> QED BY <1>1, <1>2

\* What runs while a call goes through its order of a start.
LEMMA StartHas ==
    ASSUME NEW g, NEW running, NEW k, k.pc \in Starts, RunSound(g, running, k)
    PROVE  /\ Closed(Leads(g, "start"), k.before) /\ StartedOK(g, k) /\ running = Begun(k)
           /\ NeededBy(g, k.mod) \subseteq running \cup ToSet(k.order)
           /\ ToSet(k.order) \subseteq NeededBy(g, k.mod)
           /\ \A i \in 1..Len(k.order) : DependenciesOf(g, k.order[i]) \subseteq running \cup Prefix(k.order, i)
           /\ k.pc = "loading" => Head(k.order) \notin running
           /\ k.pc = "awaiting" =>
                 /\ Head(k.order) \notin k.before \cup ToSet(k.started)
                 /\ DependenciesOf(g, Head(k.order)) \subseteq k.before \cup ToSet(k.started)
BY DEF RunSound, StartRuns

\* The module is loaded, or the call begins to undo.
LEMMA LoadSteps ==
    ASSUME GraphInv, NEW c \in Callers, Load(c)
    PROVE  \E k : CallStep(c, k) /\ (OneCaller' /\ RunInv => RunStep(c, k))
<1> DEFINE b == calls[c]
           h == Head(b.order)
           running == ToSet(loaded)
<1>1. b.pc = "loading" /\ b.pc \in Starts /\ UNCHANGED <<graph, upperMode, bootList>>
  BY DEF Load, At, Starts
<1>2. /\ graph \in Graphs /\ b \in CallRecords /\ CallSound(graph, b) /\ Busy(c)
      /\ b.order \in Seq(Modules) /\ b.order # <<>> /\ h = Current(c) /\ h \in Modules
      /\ h = b.order[1] /\ 1 \in 1..Len(b.order) /\ Prefix(b.order, 1) = {} /\ h \in ToSet(b.order)
      /\ b.asked = "start" /\ b.mod \in Modules /\ b.mod \notin b.before
      /\ Searchable(graph, "start", b.mod) /\ ReadyOrder(graph, b) /\ loaded \in Seq(Modules)
      /\ b.started \in Seq(Modules)
  BY <1>1, StartKnows
<1>3. NeededLater(c) = \E n \in ToSet(Tail(b.order)) : h \in DependenciesOf(graph, n)
  BY DEF NeededLater, Current
<1>4. \/ loaded' = Append(loaded, h) /\ NeededLater(c) /\ calls' = [calls EXCEPT ![c].pc = "awaiting"]
      \/ /\ loaded' = Append(loaded, h) /\ ~NeededLater(c)
         /\ calls' = Advanced(c, [b EXCEPT !.started = Append(@, h)])
      \/ calls' = [calls EXCEPT ![c].pc = "undoing"] /\ loaded' = loaded
  BY <1>2 DEF Load
<1>5. ASSUME RunSound(graph, running, b)
      PROVE  /\ Closed(Leads(graph, "start"), b.before) /\ StartedOK(graph, b)
             /\ running = b.before \cup ToSet(b.started) /\ h \notin running
             /\ NeededBy(graph, b.mod) \subseteq running \cup ToSet(b.order)
             /\ ToSet(b.order) \subseteq NeededBy(graph, b.mod) /\ h \in NeededBy(graph, b.mod)
             /\ DependenciesOf(graph, h) \subseteq running
             /\ \A i \in 1..Len(b.order) : DependenciesOf(graph, b.order[i]) \subseteq running \cup Prefix(b.order, i)
  <2> HIDE DEF b, running
  <2>1. /\ Closed(Leads(graph, "start"), b.before) /\ StartedOK(graph, b) /\ running = Begun(b)
        /\ NeededBy(graph, b.mod) \subseteq running \cup ToSet(b.order)
        /\ ToSet(b.order) \subseteq NeededBy(graph, b.mod) /\ h \notin running
        /\ \A i \in 1..Len(b.order) : DependenciesOf(graph, b.order[i]) \subseteq running \cup Prefix(b.order, i)
    BY <1>1, <1>5, StartHas
  <2>2. running = b.before \cup ToSet(b.started)
    BY <1>1, <2>1 DEF Begun
  <2>3. DependenciesOf(graph, h) \subseteq running
    BY <1>2, <2>1
  <2> QED BY <1>2, <2>1, <2>2, <2>3
<1>6. ASSUME loaded' = Append(loaded, h)
      PROVE  /\ loaded' \in Seq(Modules) /\ ToSet(loaded') = running \cup {h}
             /\ RunSound(graph, running, b) /\ Distinct(loaded) => Distinct(loaded')
             /\ RunSound(graph, running, b) /\ Closed(Leads(graph, "start"), running)
                   => Closed(Leads(graph, "start"), ToSet(loaded'))
  <2>1. /\ loaded' \in Seq(Modules) /\ ToSet(loaded') = running \cup {h}
        /\ Distinct(loaded) /\ h \notin running => Distinct(loaded')
    BY <1>2, <1>6, LoadsOne
  <2>2. Leads(graph, "start")[h] = DependenciesOf(graph, h)
    BY <1>2, GraphLeads
  <2> HIDE DEF running, b, h
  <2> QED BY <1>5, <2>1, <2>2 DEF Closed
<1> HIDE DEF running
<1>7. CASE loaded' = Append(loaded, h) /\ NeededLater(c) /\ calls' = [calls EXCEPT ![c].pc = "awaiting"]
  <2> DEFINE k == [b EXCEPT !.pc = "awaiting"]
  <2>1. calls' = [calls EXCEPT ![c] = k]
    BY <1>7
  <2> HIDE DEF b
  <2>2. /\ k \in CallRecords /\ k.pc = "awaiting" /\ k.asked = b.asked /\ k.mod = b.mod
        /\ k.order = b.order /\ k.started = b.started /\ k.before = b.before /\ k.ready = b.ready
    BY <1>2 DEF CallRecords
  <2> HIDE DEF k, h
  <2>3. CallSound(graph, k)
    BY <1>2, <2>2 DEF CallSound, Starts, ReadyOrder
  <2>4. RunSound(graph, running, b) => RunSound(graph, running \cup {h}, k)
    <3> SUFFICES ASSUME RunSound(graph, running, b) PROVE RunSound(graph, running \cup {h}, k)
      OBVIOUS
    <3>1. StartedOK(graph, k)
      BY <1>5, <2>2 DEF StartedOK
    <3>2. running \cup {h} = Begun(k)
      BY <1>5, <2>2 DEF Begun, h
    <3>3. StartRuns(graph, running \cup {h}, k)
      BY <1>5, <2>2, <3>1, <3>2 DEF StartRuns, h
    <3> QED BY <1>5, <2>2, <3>3 DEF RunSound, Starts
  <2>5. CallStep(c, k) /\ (OneCaller' /\ RunInv => RunStep(c, k))
    BY <1>1, <1>2, <1>6, <1>7, <2>1, <2>2, <2>3, <2>4, LoudStep DEF b, running
  <2> QED BY <2>5
<1>8. CASE /\ loaded' = Append(loaded, h) /\ ~NeededLater(c)
           /\ calls' = Advanced(c, [b EXCEPT !.started = Append(@, h)])
  <2> DEFINE k == [b EXCEPT !.started = Append(@, h)]
             t == AdvancedTo(k)
  <2>1. calls' = [calls EXCEPT ![c] = t]
    BY <1>8 DEF Advanced, AdvancedTo
  <2> HIDE DEF b, h, t
  <2>2. Append(b.started, h) \in Seq(Modules)
    BY <1>2, AppendElements
  <2>3. /\ k \in CallRecords /\ k.order = b.order /\ k.started = Append(b.started, h) /\ k.asked = b.asked
        /\ k.mod = b.mod /\ k.before = b.before /\ k.ready = b.ready
    BY <1>2, <2>2 DEF CallRecords
  <2> HIDE DEF k
  <2>4. ReadyOrder(graph, k)
    BY <1>2, <2>3 DEF ReadyOrder
  <2>5. t \in CallRecords /\ CallSound(graph, t)
    BY <1>2, <1>3, <1>8, <2>3, <2>4, AdvanceSound DEF h, t
  <2>6. RunSound(graph, running, b) => RunSound(graph, running \cup {h}, t)
    <3> SUFFICES ASSUME RunSound(graph, running, b) PROVE RunSound(graph, running \cup {h}, t)
      OBVIOUS
    <3>1. h \notin b.before /\ h \notin ToSet(b.started)
          /\ DependenciesOf(graph, h) \subseteq b.before \cup ToSet(b.started)
      BY <1>5
    <3>2. StartedOK(graph, k) /\ ToSet(k.started) = ToSet(b.started) \cup {h}
      <4>1. MayStart(graph, b, h)
        BY <1>2, <1>5, <3>1 DEF MayStart
      <4>2. HasStarted(k, b, h)
        BY <2>3 DEF HasStarted
      <4> QED BY <4>1, <4>2, StartsOneMore
    <3>3. running \cup {h} = k.before \cup ToSet(k.started)
      BY <1>5, <2>3, <3>2
    <3>4. \A i \in 1..Len(k.order) :
             DependenciesOf(graph, k.order[i]) \subseteq (running \cup {h}) \cup Prefix(k.order, i)
      BY <1>5, <2>3
    <3>5. FirstRuns(graph, running \cup {h}, k)
      BY <1>2, <1>5, <2>3, <3>2, <3>3, <3>4, SMTT(20) DEF FirstRuns
    <3> QED BY <2>3, <3>5, AdvanceRuns DEF t
  <2>7. CallStep(c, t) /\ (OneCaller' /\ RunInv => RunStep(c, t))
    BY <1>1, <1>2, <1>6, <1>8, <2>1, <2>5, <2>6, LoudStep DEF b, running
  <2> QED BY <2>7
<1>9. CASE calls' = [calls EXCEPT ![c].pc = "undoing"] /\ loaded' = loaded
  <2> DEFINE k == [b EXCEPT !.pc = "undoing"]
  <2>1. calls' = [calls EXCEPT ![c] = k]
    BY <1>9, SMTT(20)
  <2> HIDE DEF b
  <2>2. /\ k \in CallRecords /\ k.pc = "undoing" /\ k.asked = b.asked /\ k.mod = b.mod
        /\ k.order = b.order /\ k.started = b.started /\ k.before = b.before
    BY <1>2 DEF CallRecords
  <2> HIDE DEF k, h
  <2>3. CallSound(graph, k)
    BY <1>2, <2>2 DEF CallSound, Starts
  <2>4. RunSound(graph, running, b) => RunSound(graph, running, k)
    <3> SUFFICES ASSUME RunSound(graph, running, b) PROVE RunSound(graph, running, k)
      OBVIOUS
    <3>1. StartedOK(graph, k) /\ running = Begun(k)
      BY <1>5, <2>2 DEF StartedOK, Begun
    <3>2. StartRuns(graph, running, k)
      BY <2>2, <3>1 DEF StartRuns, Starts
    <3> QED BY <1>5, <2>2, <3>2 DEF RunSound, Starts
  <2>5. CallStep(c, k) /\ (OneCaller' /\ RunInv => RunStep(c, k))
    BY <1>1, <1>2, <1>9, <2>1, <2>2, <2>3, <2>4, QuietStep DEF b, running
  <2> QED BY <2>5
<1> QED BY <1>4, <1>7, <1>8, <1>9

\* The module that was loaded serves, or is to be unloaded with the others.
LEMMA AwaitSteps ==
    ASSUME GraphInv, NEW c \in Callers, Await(c)
    PROVE  \E k : CallStep(c, k) /\ (OneCaller' /\ RunInv => RunStep(c, k))
<1> DEFINE b == calls[c]
           h == Head(b.order)
           running == ToSet(loaded)
           served == [b EXCEPT !.started = Append(@, h), !.ready = @ \cup {h}]
           undone == [b EXCEPT !.pc = "undoing", !.started = Append(@, h)]
<1>1. b.pc = "awaiting" /\ b.pc \in Starts /\ UNCHANGED <<graph, upperMode, loaded, bootList>>
  BY DEF Await, At, Starts
<1>2. /\ graph \in Graphs /\ b \in CallRecords /\ CallSound(graph, b) /\ Busy(c)
      /\ b.order \in Seq(Modules) /\ b.order # <<>> /\ h = Current(c) /\ h \in Modules
      /\ h \in ToSet(b.order)
      /\ b.asked = "start" /\ b.mod \in Modules /\ b.mod \notin b.before
      /\ Searchable(graph, "start", b.mod) /\ ReadyOrder(graph, b) /\ b.started \in Seq(Modules)
  BY <1>1, StartKnows
<1>3. calls' = Advanced(c, served) \/ calls' = [calls EXCEPT ![c] = undone]
  BY <1>2 DEF Await
<1>4. ASSUME RunSound(graph, running, b)
      PROVE  /\ Closed(Leads(graph, "start"), b.before) /\ MayStart(graph, b, h)
             /\ running = b.before \cup ToSet(b.started) \cup {h}
             /\ NeededBy(graph, b.mod) \subseteq running \cup ToSet(b.order)
             /\ ToSet(b.order) \subseteq NeededBy(graph, b.mod)
             /\ \A i \in 1..Len(b.order) : DependenciesOf(graph, b.order[i]) \subseteq running \cup Prefix(b.order, i)
  <2> HIDE DEF b, running
  <2>1. /\ Closed(Leads(graph, "start"), b.before) /\ StartedOK(graph, b) /\ running = Begun(b)
        /\ NeededBy(graph, b.mod) \subseteq running \cup ToSet(b.order)
        /\ ToSet(b.order) \subseteq NeededBy(graph, b.mod)
        /\ h \notin b.before \cup ToSet(b.started)
        /\ DependenciesOf(graph, h) \subseteq b.before \cup ToSet(b.started)
        /\ \A i \in 1..Len(b.order) : DependenciesOf(graph, b.order[i]) \subseteq running \cup Prefix(b.order, i)
    BY <1>1, <1>4, StartHas
  <2>2. running = b.before \cup ToSet(b.started) \cup {h}
    BY <1>1, <2>1 DEF Begun
  <2>3. MayStart(graph, b, h)
    BY <1>2, <2>1 DEF MayStart
  <2> QED BY <2>1, <2>2, <2>3
<1> HIDE DEF running, b
<1>5. Append(b.started, h) \in Seq(Modules)
  BY <1>2, AppendElements
<1> HIDE DEF h
<1>6. /\ served \in CallRecords /\ served.order = b.order /\ served.started = Append(b.started, h)
      /\ served.asked = b.asked /\ served.mod = b.mod /\ served.before = b.before
      /\ served.ready = b.ready \cup {h}
  BY <1>2, <1>5 DEF CallRecords
<1>7. /\ undone \in CallRecords /\ undone.pc = "undoing" /\ undone.started = Append(b.started, h)
      /\ undone.asked = b.asked /\ undone.mod = b.mod /\ undone.before = b.before
  BY <1>2, <1>5 DEF CallRecords
<1> HIDE DEF served, undone
<1>8. CASE calls' = Advanced(c, served)
  <2> DEFINE t == AdvancedTo(served)
  <2>1. calls' = [calls EXCEPT ![c] = t]
    BY <1>8 DEF Advanced, AdvancedTo
  <2> HIDE DEF t
  <2>2. ReadyOrder(graph, served)
    BY <1>2, <1>6 DEF ReadyOrder
  <2>3. t \in CallRecords /\ CallSound(graph, t)
    BY <1>2, <1>6, <2>2, AdvanceSound DEF h, t
  <2>4. RunSound(graph, running, b) => RunSound(graph, running, t)
    <3> SUFFICES ASSUME RunSound(graph, running, b) PROVE RunSound(graph, running, t)
      OBVIOUS
    <3>1. StartedOK(graph, served) /\ ToSet(served.started) = ToSet(b.started) \cup {h}
      <4>1. HasStarted(served, b, h)
        BY <1>6 DEF HasStarted
      <4> QED BY <1>4, <4>1, StartsOneMore
    <3>2. running = served.before \cup ToSet(served.started) /\ h \in running
      BY <1>4, <1>6, <3>1
    <3>3. FirstRuns(graph, running, served)
      BY <1>2, <1>4, <1>6, <3>1, <3>2 DEF FirstRuns, h
    <3> QED BY <1>6, <3>3, AdvanceRuns DEF t
  <2>5. CallStep(c, t) /\ (OneCaller' /\ RunInv => RunStep(c, t))
    BY <1>1, <1>2, <2>1, <2>3, <2>4, QuietStep DEF b, running
  <2> QED BY <2>5
<1>9. CASE calls' = [calls EXCEPT ![c] = undone]
  <2>1. CallSound(graph, undone)
    BY <1>2, <1>7 DEF CallSound, Starts
  <2>2. RunSound(graph, running, b) => RunSound(graph, running, undone)
    <3> SUFFICES ASSUME RunSound(graph, running, b) PROVE RunSound(graph, running, undone)
      OBVIOUS
    <3>1. StartedOK(graph, undone) /\ ToSet(undone.started) = ToSet(b.started) \cup {h}
      <4>1. HasStarted(undone, b, h)
        BY <1>7 DEF HasStarted
      <4> QED BY <1>4, <4>1, StartsOneMore
    <3>2. running = Begun(undone)
      BY <1>4, <1>7, <3>1 DEF Begun
    <3>3. StartRuns(graph, running, undone)
      BY <1>7, <3>1, <3>2 DEF StartRuns, Starts
    <3> QED BY <1>4, <1>7, <3>3 DEF RunSound, Starts
  <2>3. CallStep(c, undone) /\ (OneCaller' /\ RunInv => RunStep(c, undone))
    BY <1>1, <1>2, <1>7, <1>9, <2>1, <2>2, QuietStep DEF b, running
  <2> QED BY <2>3
<1> QED BY <1>3, <1>8, <1>9

\* What was started is unloaded, the last one first.
LEMMA UndoSteps ==
    ASSUME GraphInv, NEW c \in Callers, Undo(c)
    PROVE  \E k : CallStep(c, k) /\ (OneCaller' /\ RunInv => RunStep(c, k))
<1> DEFINE b == calls[c]
           running == ToSet(loaded)
<1>1. b.pc = "undoing" /\ Busy(c) /\ UNCHANGED <<graph, upperMode, bootList>>
  BY DEF Undo, At, Busy
<1>2. /\ graph \in Graphs /\ b \in CallRecords /\ CallSound(graph, b) /\ loaded \in Seq(Modules)
      /\ b.mod \in Modules
  BY <1>1, OfCall
<1>3. \/ b.started = <<>> /\ calls' = Returned(c, "failed") /\ loaded' = loaded
      \/ /\ b.started # <<>> /\ loaded' = WithoutModule(Last(b.started))
         /\ calls' = [calls EXCEPT ![c].started = Front(@)]
  BY DEF Undo
<1> HIDE DEF b
<1>4. b.asked = "start" /\ b.mod \notin b.before /\ Searchable(graph, b.asked, b.mod)
      /\ b.started \in Seq(Modules)
  BY <1>1, <1>2, CallTypes DEF CallSound, Starts
<1>5. ASSUME RunSound(graph, running, b)
      PROVE  /\ Closed(Leads(graph, "start"), b.before) /\ StartedOK(graph, b)
             /\ running = b.before \cup ToSet(b.started)
  BY <1>1, <1>5 DEF RunSound, StartRuns, Begun, Starts
<1> HIDE DEF running
<1>6. CASE b.started = <<>> /\ calls' = Returned(c, "failed") /\ loaded' = loaded
  <2> DEFINE k == Ended(b, "failed")
  <2>1. calls' = [calls EXCEPT ![c] = k]
    BY <1>6 DEF Returned, b
  <2>2. k \in CallRecords /\ CallSound(graph, k)
    BY <1>2, <1>4, EndedSound
  <2>3. k.pc = "done" /\ k.result = "failed" /\ k.before = b.before
    BY <1>2, EndedIs
  <2> HIDE DEF k
  <2>4. ToSet(b.started) = {}
    BY <1>6 DEF ToSet
  <2>5. RunSound(graph, running, b) => RunSound(graph, running, k)
    BY <1>5, <2>3, <2>4 DEF RunSound, AskedFor, Starts
  <2>6. CallStep(c, k) /\ (OneCaller' /\ RunInv => RunStep(c, k))
    BY <1>1, <1>6, <2>1, <2>2, <2>5, QuietStep DEF b, running
  <2> QED BY <2>6
<1>7. CASE /\ b.started # <<>> /\ loaded' = WithoutModule(Last(b.started))
           /\ calls' = [calls EXCEPT ![c].started = Front(@)]
  <2> DEFINE l == Last(b.started)
             front == Front(b.started)
             k == [b EXCEPT !.started = front]
  <2>1. calls' = [calls EXCEPT ![c] = k]
    BY <1>7 DEF b
  <2>2. /\ front \in Seq(Modules) /\ l \in Modules /\ l = b.started[Len(b.started)]
        /\ Len(b.started) \in 1..Len(b.started)
        /\ \A i \in 1..Len(front) : i \in 1..Len(b.started) /\ i < Len(b.started) /\ front[i] = b.started[i]
        /\ ToSet(b.started) = {l} \cup ToSet(front)
        /\ \A i \in 1..Len(front) : Prefix(front, i) = Prefix(b.started, i)
    BY <1>4, <1>7, FrontElements
  <2>3. loaded' \in Seq(Modules) /\ (Distinct(loaded) => Distinct(loaded') /\ ToSet(loaded') = running \ {l})
    BY <1>2, <1>7, UnloadsOne DEF running
  <2> HIDE DEF l, front
  <2>4. /\ k \in CallRecords /\ k.pc = "undoing" /\ k.started = front
        /\ k.asked = b.asked /\ k.mod = b.mod /\ k.before = b.before
    BY <1>1, <1>2, <2>2 DEF CallRecords
  <2> HIDE DEF k
  <2>5. CallSound(graph, k)
    BY <1>2, <1>4, <2>4 DEF CallSound, Starts
  <2>6. ASSUME RunSound(graph, running, b)
        PROVE  RunSound(graph, running \ {l}, k) /\ Closed(Leads(graph, "start"), running \ {l})
    <3>1. StartedOK(graph, k)
      <4>1. Distinct(front)
        BY <1>5, <2>2, <2>6 DEF StartedOK, Distinct
      <4>2. \A i \in 1..Len(front) :
               /\ front[i] \notin b.before /\ front[i] \in NeededBy(graph, b.mod)
               /\ DependenciesOf(graph, front[i]) \subseteq b.before \cup Prefix(front, i)
        BY <1>5, <2>2, <2>6 DEF StartedOK
      <4> QED BY <2>4, <4>1, <4>2 DEF StartedOK
    <3>2. l \notin b.before /\ l \notin ToSet(front)
      <4>1. \A i \in 1..Len(front) : front[i] # l
        BY <1>5, <2>2, <2>6 DEF StartedOK, Distinct
      <4>2. ToSet(front) = {front[i] : i \in 1..Len(front)}
        BY <2>2, ElementsIs
      <4> QED BY <1>5, <2>2, <2>6, <4>1, <4>2 DEF StartedOK
    <3>3. running \ {l} = b.before \cup ToSet(front)
      BY <1>5, <2>2, <2>6, <3>2
    <3>4. running \ {l} = Begun(k)
      BY <2>4, <3>3 DEF Begun
    <3>5. StartRuns(graph, running \ {l}, k)
      BY <2>4, <3>1, <3>4 DEF StartRuns, Starts
    <3>6. Closed(Leads(graph, "start"), running \ {l})
      <4> SUFFICES ASSUME NEW x \in running \ {l} PROVE Leads(graph, "start")[x] \subseteq running \ {l}
        BY DEF Closed
      <4>1. CASE x \in b.before
        BY <1>5, <2>6, <3>3, <4>1 DEF Closed
      <4>2. CASE x \in ToSet(front)
        <5>1. PICK i \in 1..Len(front) : x = front[i]
          BY <2>2, <4>2, ElementsIs
        <5>2. DependenciesOf(graph, x) \subseteq b.before \cup Prefix(front, i)
          BY <2>4, <3>1, <5>1 DEF StartedOK
        <5>3. Prefix(front, i) \subseteq ToSet(front)
          <6>1. \A j \in 1..(i - 1) : j \in 1..Len(front)
            BY <2>2, ElementsIs
          <6> QED BY <2>2, <6>1, ElementsIs DEF Prefix
        <5>4. Leads(graph, "start")[x] = DependenciesOf(graph, x)
          BY <1>2, <2>2, <4>2, ElementsIs, GraphLeads
        <5> QED BY <3>3, <5>2, <5>3, <5>4
      <4> QED BY <3>3, <4>1, <4>2
    <3> QED BY <1>5, <2>4, <2>6, <3>5, <3>6 DEF RunSound, Starts
  <2>7. CallStep(c, k) /\ (OneCaller' /\ RunInv => RunStep(c, k))
    BY <1>1, <2>1, <2>3, <2>4, <2>5, <2>6, LoudStep DEF b, running
  <2> QED BY <2>7
<1> QED BY <1>3, <1>6, <1>7

\* A stop unloads the next module of its order.
LEMMA StopNextSteps ==
    ASSUME GraphInv, NEW c \in Callers, StopNext(c)
    PROVE  \E k : CallStep(c, k) /\ (OneCaller' /\ RunInv => RunStep(c, k))
<1> DEFINE b == calls[c]
           running == ToSet(loaded)
           h == Head(b.order)
           rest == Tail(b.order)
           pc == IF rest = <<>> THEN "done" ELSE "stopping"
           result == IF rest = <<>> THEN "ok" ELSE "none"
           k == [b EXCEPT !.order = rest, !.pc = pc, !.result = result]
<1>1. b.pc = "stopping" /\ Busy(c) /\ UNCHANGED <<graph, upperMode, bootList>>
      /\ calls' = [calls EXCEPT ![c] = k] /\ loaded' = WithoutModule(h)
  BY DEF StopNext, At, Busy, Current
<1>2. /\ graph \in Graphs /\ b \in CallRecords /\ CallSound(graph, b) /\ loaded \in Seq(Modules)
      /\ b.mod \in Modules /\ Running \subseteq Modules /\ Running = running
  BY <1>1, OfCall
<1> HIDE DEF b
<1>3. b.asked = "stop" /\ Searchable(graph, b.asked, b.mod) /\ b.order \in Seq(Modules) /\ b.order # <<>>
  BY <1>1, <1>2, CallTypes DEF CallSound, Starts
<1>4. /\ rest \in Seq(Modules) /\ h \in Modules /\ h = b.order[1] /\ 1 \in 1..Len(b.order)
      /\ \A i \in 1..Len(rest) : i + 1 \in 1..Len(b.order) /\ rest[i] = b.order[i + 1]
      /\ ToSet(b.order) = {h} \cup ToSet(rest)
      /\ \A i \in 1..Len(rest) : Prefix(b.order, i + 1) = {h} \cup Prefix(rest, i)
      /\ Prefix(b.order, 1) = {}
  BY <1>3, TailElements
<1>5. loaded' \in Seq(Modules) /\ (Distinct(loaded) => Distinct(loaded') /\ ToSet(loaded') = running \ {h})
  BY <1>1, <1>2, UnloadsOne
<1>6. pc \in {"done", "stopping"} /\ result \in {"ok", "none"} /\ (rest = <<>> => ToSet(rest) = {})
  BY DEF ToSet
<1>7. /\ pc = IF rest = <<>> THEN "done" ELSE "stopping"
      /\ result = IF rest = <<>> THEN "ok" ELSE "none"
  OBVIOUS
<1> HIDE DEF rest, h, running, pc, result
<1>8. /\ k \in CallRecords /\ k.pc = pc /\ k.result = result /\ k.order = rest
      /\ k.asked = b.asked /\ k.mod = b.mod /\ k.before = b.before
  BY <1>2, <1>4, <1>6 DEF CallRecords
<1> HIDE DEF k
<1>9. CallSound(graph, k)
  BY <1>2, <1>3, <1>7, <1>8 DEF CallSound, Starts
<1>10. ASSUME RunSound(graph, running, b), Closed(Leads(graph, "start"), running)
       PROVE  RunSound(graph, running \ {h}, k) /\ Closed(Leads(graph, "start"), running \ {h})
  <2>1. StopRuns(graph, running, b) /\ Closed(Leads(graph, "start"), b.before)
    BY <1>1, <1>10 DEF RunSound
  <2>2. DependentsOf(graph, h) \cap running = {}
    BY <1>4, <2>1 DEF StopRuns
  <2>3. h \in NeedersOf(graph, b.mod)
    BY <1>4, <2>1 DEF StopRuns
  <2>4. Closed(Leads(graph, "start"), running \ {h})
    <3> SUFFICES ASSUME NEW x \in running \ {h} PROVE Leads(graph, "start")[x] \subseteq running \ {h}
      BY DEF Closed
    <3>1. Leads(graph, "start")[x] \subseteq running /\ x \in Modules
      BY <1>2, <1>10 DEF Closed
    <3>2. Leads(graph, "start")[x] = DependenciesOf(graph, x)
      BY <1>2, <3>1, GraphLeads
    <3>3. h \notin DependenciesOf(graph, x)
      BY <2>2, <3>1 DEF DependentsOf
    <3> QED BY <3>1, <3>2, <3>3
  <2>5. \A i \in 1..Len(rest) : DependentsOf(graph, rest[i]) \cap (running \ {h}) \subseteq Prefix(rest, i)
    <3> TAKE i \in 1..Len(rest)
    <3>1. DependentsOf(graph, b.order[i + 1]) \cap running \subseteq Prefix(b.order, i + 1)
      BY <1>4, <2>1 DEF StopRuns
    <3> QED BY <1>4, <3>1
  <2>6. /\ b.before \ NeedersOf(graph, b.mod) \subseteq running \ {h} /\ running \ {h} \subseteq b.before
        /\ (running \ {h}) \cap NeedersOf(graph, b.mod) \subseteq ToSet(rest)
        /\ ToSet(rest) \subseteq NeedersOf(graph, b.mod)
    BY <1>4, <2>1, <2>3 DEF StopRuns
  <2>7. StopRuns(graph, running \ {h}, k)
    BY <1>8, <2>5, <2>6 DEF StopRuns
  <2>8. CASE rest = <<>>
    <3>1. running \ {h} = b.before \ NeedersOf(graph, b.mod)
      BY <1>6, <2>6, <2>8
    <3> QED BY <1>3, <1>7, <1>8, <2>1, <2>4, <2>8, <3>1 DEF RunSound, AskedFor, Starts
  <2>9. CASE rest # <<>>
    BY <1>3, <1>7, <1>8, <2>1, <2>4, <2>7, <2>9 DEF RunSound, Starts
  <2> QED BY <2>8, <2>9
<1>11. CallStep(c, k) /\ (OneCaller' /\ RunInv => RunStep(c, k))
  BY <1>1, <1>5, <1>8, <1>9, <1>10, LoudStep DEF b, running
<1> QED BY <1>11

-----------------------------------------------------------------------------
(* Every step, and what follows. *)

\* The boot thread starts the next module of its list, or passes it over.
LEMMA BootSteps ==
    ASSUME GraphInv, BootStart
    PROVE  \/ UNCHANGED <<graph, upperMode, loaded, calls>> /\ bootList' \in Seq(Modules)
           \/ \E k : CallStep(Boot, k) /\ (OneCaller' /\ RunInv => RunStep(Boot, k))
<1>1. /\ Boot \in Callers /\ bootList \in Seq(Modules) /\ bootList # <<>> /\ MayCall(Boot)
      /\ bootList' = Tail(bootList) /\ UNCHANGED <<graph, upperMode, loaded>>
  BY OfCall, ManagerAssumption DEF BootStart
<1>2. Head(bootList) \in Modules /\ bootList' \in Seq(Modules)
  BY <1>1, TailElements
<1>3. calls' = calls \/ StartCall(Boot, Head(bootList))
  BY DEF BootStart
<1> QED BY <1>1, <1>2, <1>3, StartSteps

\* Every step is the step of one call, or only one of the boot list.
LEMMA EveryStep ==
    ASSUME GraphInv, ManagerNext
    PROVE  \/ UNCHANGED <<graph, upperMode, loaded, calls>> /\ bootList' \in Seq(Modules)
           \/ \E c \in Callers : \E k : CallStep(c, k) /\ (OneCaller' /\ RunInv => RunStep(c, k))
<1>1. CASE BootStart
  BY <1>1, BootSteps, ManagerAssumption
<1>2. ASSUME NEW c \in Callers, NEW m \in Modules, StartModule(c, m)
      PROVE  \E k : CallStep(c, k) /\ (OneCaller' /\ RunInv => RunStep(c, k))
  <2>1. bootList' \in Seq(Modules)
    BY <1>2, OfCall DEF StartModule
  <2> QED BY <1>2, <2>1, StartSteps DEF StartModule
<1>3. ASSUME NEW c \in Callers, NEW m \in Modules, StopModule(c, m)
      PROVE  \E k : CallStep(c, k) /\ (OneCaller' /\ RunInv => RunStep(c, k))
  BY <1>3, StopSteps
<1>4. ASSUME NEW c \in Callers, Refuse(c) \/ Descend(c) \/ List(c)
      PROVE  \E k : CallStep(c, k) /\ (OneCaller' /\ RunInv => RunStep(c, k))
  BY <1>4, RefuseSteps, DescendSteps, ListSteps
<1>5. ASSUME NEW c \in Callers, Look(c) \/ Load(c) \/ Await(c) \/ Undo(c) \/ StopNext(c)
      PROVE  \E k : CallStep(c, k) /\ (OneCaller' /\ RunInv => RunStep(c, k))
  BY <1>5, LookSteps, LoadSteps, AwaitSteps, UndoSteps, StopNextSteps
<1> QED BY <1>1, <1>2, <1>3, <1>4, <1>5 DEF ManagerNext

\* Nothing is called at first.
LEMMA ManagerInitInv ==
    ASSUME ManagerInit
    PROVE  GraphInv /\ RunInv
<1>1. /\ graph \in Graphs /\ upperMode \in BOOLEAN /\ loaded = <<>> /\ bootList \in Seq(Modules)
      /\ calls = [c \in Callers |-> NoCall]
  BY ManagerAssumption DEF ManagerInit
<1>2. NoCall \in CallRecords /\ NoCall.pc = "idle"
  BY DEF NoCall, CallRecords
<1>3. <<>> \in Seq(Modules) /\ Len(<<>>) = 0 /\ ToSet(<<>>) = {}
  BY DEF ToSet
<1>4. GraphInv
  <2>1. \A c \in Callers : calls[c] \in CallRecords /\ calls[c].pc = "idle"
    BY <1>1, <1>2
  <2>2. \A c \in Callers : CallSound(graph, calls[c])
    BY <2>1 DEF CallSound, Starts
  <2>3. ManagerTyped
    BY <1>1, <1>2, <1>3 DEF ManagerTyped
  <2> QED BY <2>2, <2>3 DEF GraphInv
<1>5. RunInv
  <2>1. \A c \in Callers : ~Busy(c)
    BY <1>1, <1>2 DEF Busy
  <2>2. Distinct(loaded) /\ Closed(Leads(graph, "start"), Running)
    BY <1>1, <1>3 DEF Distinct, Closed, Running
  <2> QED BY <2>1, <2>2 DEF RunInv, OneCaller
<1> QED BY <1>4, <1>5

\* Every step keeps what holds of each call, and what holds of the modules that
\* run unless it makes two calls overlap.
LEMMA ManagerStepInv ==
    ASSUME GraphInv, [ManagerNext]_managerVars
    PROVE  GraphInv' /\ (RunInv /\ OneCaller' => RunInv')
<1>1. ASSUME UNCHANGED <<graph, upperMode, loaded, calls>>, bootList' \in Seq(Modules)
      PROVE  GraphInv' /\ (RunInv => RunInv')
  <2>1. GraphInv'
    BY <1>1 DEF GraphInv, ManagerTyped
  <2>2. RunInv => RunInv'
    BY <1>1 DEF RunInv, OneCaller, Busy, Running
  <2> QED BY <2>1, <2>2
<1>2. CASE UNCHANGED managerVars
  <2>1. bootList \in Seq(Modules)
    BY DEF GraphInv, ManagerTyped
  <2> QED BY <1>1, <1>2, <2>1 DEF managerVars
<1>3. ASSUME NEW c \in Callers, NEW k, CallStep(c, k), OneCaller' /\ RunInv => RunStep(c, k)
      PROVE  GraphInv' /\ (RunInv /\ OneCaller' => RunInv')
  <2>1. GraphInv'
    BY <1>3, CallStepKeeps
  <2>2. RunInv /\ OneCaller' => RunInv'
    BY <1>3, RunStepKeeps
  <2> QED BY <2>1, <2>2
<1>4. CASE ManagerNext
  BY <1>1, <1>3, <1>4, EveryStep
<1> QED BY <1>2, <1>4

\* What holds of each call holds throughout, however calls overlap.
THEOREM ManagerInvariant == ManagerSpec => []GraphInv
<1>1. ManagerInit => GraphInv
  BY ManagerInitInv
<1>2. GraphInv /\ [ManagerNext]_managerVars => GraphInv'
  BY ManagerStepInv
<1> QED BY <1>1, <1>2, PTL DEF ManagerSpec

\* What holds of the modules that run holds for as long as no two calls have
\* been under way at once.
THEOREM RunningInvariant == ManagerSpec /\ []OneCaller => []RunInv
<1>1. ManagerInit => RunInv
  BY ManagerInitInv
<1>2. GraphInv /\ RunInv /\ OneCaller' /\ [ManagerNext]_managerVars => RunInv'
  BY ManagerStepInv
<1> QED BY <1>1, <1>2, ManagerInvariant, PTL DEF ManagerSpec

\* When a call waits for the one under way to end, no two ever are: what the run
\* of ModuleManager.cfg assumes makes all of what follows apply to it.
LEMMA WithoutOverlap ==
    ASSUME ~Overlap
    PROVE  ManagerSpec => []OneCaller
<1>1. ManagerInit => OneCaller
  BY ManagerInitInv DEF RunInv
<1>2. GraphInv /\ OneCaller /\ [ManagerNext]_managerVars => OneCaller'
  <2> SUFFICES ASSUME GraphInv, OneCaller, [ManagerNext]_managerVars PROVE OneCaller'
    OBVIOUS
  <2>1. calls \in [Callers -> CallRecords]
    BY DEF GraphInv, ManagerTyped
  <2>2. CASE calls' = calls
    BY <2>2 DEF OneCaller, Busy
  <2>3. ASSUME NEW c \in Callers, NEW k, calls' = [calls EXCEPT ![c] = k],
               \A d \in Callers : Busy(d) => d = c
        PROVE  OneCaller'
    BY <2>1, <2>3 DEF OneCaller, Busy
  <2>4. ASSUME ManagerNext, calls' # calls
        PROVE  \E c \in Callers : (Busy(c) \/ MayCall(c)) /\ \E k : calls' = [calls EXCEPT ![c] = k]
    <3>1. CASE BootStart
      BY <2>4, <3>1, ManagerAssumption DEF BootStart, StartCall
    <3>2. ASSUME NEW c \in Callers, NEW m \in Modules, StartModule(c, m) \/ StopModule(c, m)
          PROVE  MayCall(c) /\ \E k : calls' = [calls EXCEPT ![c] = k]
      BY <3>2 DEF StartModule, StopModule, StartCall
    <3>3. ASSUME NEW c \in Callers, NEW k, CallStep(c, k) PROVE calls' = [calls EXCEPT ![c] = k]
      BY <3>3 DEF CallStep
    <3>4. ASSUME NEW c \in Callers, Refuse(c) \/ Descend(c) \/ List(c)
          PROVE  Busy(c) /\ \E k : calls' = [calls EXCEPT ![c] = k]
      <4>1. Busy(c)
        BY <3>4 DEF Refuse, Descend, List, At, Busy
      <4> QED BY <3>3, <3>4, <4>1, RefuseSteps, DescendSteps, ListSteps
    <3>5. ASSUME NEW c \in Callers, Look(c) \/ Load(c) \/ Await(c) \/ Undo(c) \/ StopNext(c)
          PROVE  Busy(c) /\ \E k : calls' = [calls EXCEPT ![c] = k]
      <4>1. Busy(c)
        BY <3>5 DEF Look, Load, Await, Undo, StopNext, At, Busy
      <4> QED BY <3>3, <3>5, <4>1, LookSteps, LoadSteps, AwaitSteps, UndoSteps, StopNextSteps
    <3> QED BY <2>4, <3>1, <3>2, <3>4, <3>5 DEF ManagerNext
  <2>5. ASSUME NEW c \in Callers, Busy(c) \/ MayCall(c) PROVE \A d \in Callers : Busy(d) => d = c
    BY <2>5 DEF OneCaller, MayCall
  <2> QED BY <2>2, <2>3, <2>4, <2>5 DEF managerVars
<1> QED BY <1>1, <1>2, ManagerInvariant, PTL DEF ManagerSpec

\* A call is refused exactly when the graph gives a reason for it, whatever the
\* other calls do: RefusedWithReason.
THEOREM RefusedForReason == ManagerSpec => [](ManagerTypeOK /\ RefusedWithReason)
<1>1. GraphInv => ManagerTypeOK /\ RefusedWithReason
  <2> SUFFICES ASSUME GraphInv PROVE ManagerTypeOK /\ RefusedWithReason
    OBVIOUS
  <2>1. GraphInv /\ ManagerTyped
    BY DEF GraphInv
  <2>2. ManagerTypeOK
    <3> SUFFICES ASSUME NEW c \in Callers
                 PROVE  /\ calls[c].pc \in {"idle", "searching", "looking", "loading", "awaiting",
                                            "undoing", "stopping", "done"}
                        /\ calls[c].stack \in Seq([mod : Modules, left : SUBSET Modules])
                        /\ calls[c].pc = "searching" => calls[c].stack # <<>>
                        /\ calls[c].order \in Seq(Modules) /\ calls[c].started \in Seq(Modules)
                        /\ calls[c].pc \in {"looking", "loading", "awaiting", "stopping"} => calls[c].order # <<>>
      BY <2>1 DEF ManagerTypeOK, ManagerTyped
    <3> DEFINE k == calls[c]
    <3>1. k \in CallRecords /\ CallSound(graph, k)
      BY <2>1, OfCall
    <3> HIDE DEF k
    <3>2. /\ k.pc \in {"idle", "searching", "looking", "loading", "awaiting", "undoing", "stopping", "done"}
          /\ k.stack \in Seq([mod : Modules, left : SUBSET Modules])
          /\ k.order \in Seq(Modules) /\ k.started \in Seq(Modules)
      BY <3>1, CallTypes DEF SearchFrames
    <3>3. k.pc = "searching" => k.stack # <<>>
      BY <3>1 DEF CallSound, StackOK
    <3>4. k.pc \in {"looking", "loading", "awaiting", "stopping"} => k.order # <<>>
      BY <3>1 DEF CallSound, Starts
    <3> QED BY <3>2, <3>3, <3>4 DEF k
  <2>3. RefusedWithReason
    <3> SUFFICES ASSUME NEW c \in Callers, calls[c].pc = "done"
                 PROVE  /\ calls[c].asked = "start" /\ calls[c].mod \notin calls[c].before =>
                              (calls[c].result = "refused") = ~Startable(graph, calls[c].mod)
                        /\ calls[c].asked = "stop" =>
                              (calls[c].result = "refused") = ~Stoppable(graph, calls[c].mod)
      BY DEF RefusedWithReason
    <3> DEFINE k == calls[c]
    <3>1. CallSound(graph, k) /\ k.pc = "done"
      BY <2>1, OfCall
    <3> HIDE DEF k
    <3>2. /\ k.asked = "start" /\ k.mod \notin k.before => (k.result = "refused") = ~Startable(graph, k.mod)
          /\ k.asked = "stop" => (k.result = "refused") = ~Stoppable(graph, k.mod)
      BY <3>1 DEF CallSound, Searchable
    <3> QED BY <3>2 DEF k
  <2> QED BY <2>2, <2>3
<1> QED BY <1>1, ManagerInvariant, PTL

\* As long as no two calls have been under way at once, no module runs without
\* what it depends on, none runs twice, and refusals have a reason: ManagerSafe
\* and NoDoubleStart.  Nothing in the code keeps calls apart, and Overlap may let
\* them overlap: a behaviour is safe up to the first overlap (ModuleManagerOverlap.cfg
\* shows what comes after one).
THEOREM ManagerIsSafe == ManagerSpec /\ []OneCaller => [](ManagerSafe /\ NoDoubleStart)
<1>1. GraphInv /\ RunInv => DependenciesRun /\ NoDoubleStart
  <2> SUFFICES ASSUME GraphInv, RunInv PROVE DependenciesRun /\ NoDoubleStart
    OBVIOUS
  <2>1. GraphInv /\ RunInv /\ graph \in Graphs /\ loaded \in Seq(Modules)
    BY DEF GraphInv, ManagerTyped
  <2>2. Distinct(loaded) /\ Closed(Leads(graph, "start"), Running) /\ Running \subseteq Modules
    BY <2>1, ElementsIs DEF RunInv, Running
  <2>3. DependenciesRun
    BY <2>1, <2>2, GraphLeads DEF DependenciesRun, Closed
  <2>4. DOMAIN loaded = 1..Len(loaded)
    BY <2>1
  <2>5. NoDoubleStart
    BY <2>2, <2>4 DEF NoDoubleStart, IsInjective, Distinct
  <2> QED BY <2>3, <2>5
<1>2. GraphInv /\ RunInv /\ ManagerTypeOK /\ RefusedWithReason => ManagerSafe /\ NoDoubleStart
  BY <1>1 DEF ManagerSafe
<1> QED BY <1>2, ManagerInvariant, RunningInvariant, RefusedForReason, PTL

\* A module is loaded only when its call has seen all it depends on serving,
\* whatever the other calls do: LoadedAfterReady.
THEOREM LoadsWhatIsReady == ManagerSpec => LoadedAfterReady
<1>1. GraphInv => \A c \in Callers :
          calls[c].pc = "loading" => DependenciesOf(graph, Current(c)) \subseteq calls[c].ready
  <2> SUFFICES ASSUME GraphInv, NEW c \in Callers, calls[c].pc = "loading"
               PROVE  DependenciesOf(graph, Current(c)) \subseteq calls[c].ready
    OBVIOUS
  <2>1. GraphInv /\ calls[c].pc \in Starts
    BY DEF Starts
  <2> DEFINE k == calls[c]
  <2>2. /\ ReadyOrder(graph, k) /\ Current(c) = Head(k.order) /\ Head(k.order) = k.order[1]
        /\ 1 \in 1..Len(k.order) /\ Prefix(k.order, 1) = {}
    BY <2>1, StartKnows
  <2> HIDE DEF k
  <2>3. DependenciesOf(graph, k.order[1]) \subseteq k.ready
    BY <2>2 DEF ReadyOrder
  <2> QED BY <2>2, <2>3 DEF k
<1>2. GraphInv /\ [ManagerNext]_managerVars =>
        [\A c \in Callers : calls[c].pc = "loading" /\ Len(loaded') > Len(loaded)
              => DependenciesOf(graph, Current(c)) \subseteq calls[c].ready]_managerVars
  BY <1>1
<1> QED BY <1>2, ManagerInvariant, PTL DEF ManagerSpec, LoadedAfterReady

\* What a call leaves running is what it was asked for, for as long as no two
\* calls have been under way at once: OutcomeAsAsked.
THEOREM OutcomesAreAsked == ManagerSpec /\ []OneCaller => OutcomeAsAsked
<1>1. GraphInv /\ RunInv /\ OneCaller' /\ [ManagerNext]_managerVars =>
        [\A c \in Callers : calls'[c] # calls[c] /\ calls'[c].pc = "done"
              => AsAsked(calls[c])']_managerVars
  <2> SUFFICES ASSUME GraphInv, RunInv, OneCaller', ManagerNext,
                      NEW c \in Callers, calls'[c] # calls[c], calls'[c].pc = "done"
               PROVE  AsAsked(calls[c])'
    OBVIOUS
  <2>1. GraphInv /\ RunInv /\ calls \in [Callers -> CallRecords]
    BY DEF GraphInv, ManagerTyped
  <2>2. PICK d \in Callers : \E k : CallStep(d, k) /\ RunStep(d, k)
    BY <2>1, EveryStep
  <2>3. PICK k : CallStep(d, k) /\ RunStep(d, k)
    BY <2>2
  <2>4. calls' = [calls EXCEPT ![d] = k] /\ graph' = graph /\ CallSound(graph, k)
        /\ RunSound(graph, ToSet(loaded'), k)
    BY <2>3 DEF CallStep, RunStep
  <2>5. d = c /\ calls'[c] = k /\ k.pc = "done"
    BY <2>1, <2>4
  <2> DEFINE running == ToSet(loaded')
  <2>6. AskedFor(graph, running, k) /\ k.asked \in {"start", "stop"}
    BY <2>4, <2>5 DEF RunSound, CallSound
  <2> HIDE DEF running
  <2>7. CASE k.result = "ok"
    BY <2>4, <2>5, <2>6, <2>7 DEF AsAsked, AskedFor, Running, running
  <2>8. CASE k.result = "unready"
    BY <2>4, <2>5, <2>6, <2>8 DEF AsAsked, AskedFor, Running, running
  <2>9. CASE k.result \notin {"ok", "unready"}
    BY <2>4, <2>5, <2>6, <2>9 DEF AsAsked, AskedFor, Running, running
  <2> QED BY <2>7, <2>8, <2>9
<1> QED BY <1>1, ManagerInvariant, RunningInvariant, PTL DEF ManagerSpec, OutcomeAsAsked

=============================================================================
