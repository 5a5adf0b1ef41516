--------------------------- MODULE ClusterBackup ---------------------------
(* The nightly backup job of src/templates/backup/cluster-backup.yaml: its    *)
(* bash script step by step, the CronJob that starts it (concurrencyPolicy    *)
(* Forbid, backoffLimit, activeDeadlineSeconds) and the two places it writes, *)
(* the volume mounted at /backup and the Elasticsearch snapshot repository.   *)
(*                                                                            *)
(* The unit of time is the day: the job starts just after midnight and its    *)
(* deadline of four hours ends the same day. A backup is named by its         *)
(* TIMESTAMP, here the day and the attempt. All the central services are      *)
(* enabled. Months are of equal length; the script counts 31 days for each.   *)
EXTENDS Integers

CONSTANTS
  RetentionDays,            \* clusterBackup.retentionDays
  MonthlyRetentionMonths,   \* clusterBackup.monthlyRetentionMonths
  MonthLength,              \* days of a month
  CountedLength,            \* days the script counts for a month (31)
  Tries,                    \* backoffLimit + 1
  RetryNights,              \* bound: the nights on which an attempt may be retried
  StuckDaily, StuckMonthly, \* bound: the nights on which a removal of either may fail
  Horizon                   \* bound: days

ASSUME BackupAssumption ==
  /\ RetentionDays \in Nat /\ MonthlyRetentionMonths \in Nat
  /\ MonthLength \in Nat \ {0} /\ CountedLength \in Nat
  /\ MonthLength <= CountedLength
  /\ Tries \in Nat \ {0}
  /\ Horizon \in Nat

Month(d) == d \div MonthLength
Months == 0 .. Month(Horizon)
Backups == (1 .. Horizon) \X (1 .. Tries)
NoBackup == <<0, 0>>
DayOf(b) == b[1]

Parts == {"cluster", "mongodb", "grafana"}
SnapshotStates == {"none", "PARTIAL", "SUCCESS"}
Steps == {"idle", "prune", "prune_monthly", "mkdir", "cluster", "es_nightly", "es_monthly", "es_prune",
          "mongodb", "grafana", "promote", "copy", "exit"}

VARIABLES
  day,            \* today
  pc,             \* the line of the script the job is at
  current,        \* TIMESTAMP of the running attempt
  failed,         \* the script's FAILED
  daily,          \* directories /backup/<TIMESTAMP>
  parts,          \* the files completely written in each of them, and not removed
  mtime,          \* the day each of them was last modified itself; 0 if there is none
  monthly,        \* /backup/monthly/<month>: the backup copied, NoBackup if none
  copied,         \* the parts copied into it by a copy that was completed
  monthlyMtime,   \* the day it was last modified; cp -a sets that of the backup
  nightlySnap,    \* snapshots nightly-<TIMESTAMP>
  monthlySnap,    \* snapshots monthly-<month>
  succeeded,      \* history: attempts that exited with 0, forgotten once expired
  esSucceeded,    \* history: attempts whose Elasticsearch part succeeded, forgotten
                  \* on a later attempt unless a monthly copy of theirs is kept
  cut,            \* history: months whose copy, or its removal, was interrupted
  tried           \* history: the day a removal of the directory last left some of it

nights == <<daily, parts, mtime>>
copies == <<monthly, copied, monthlyMtime>>
disk == <<nights, copies>>
snapshots == <<nightlySnap, monthlySnap>>
history == <<succeeded, esSucceeded, cut, tried>>
vars == <<day, pc, current, failed, disk, snapshots, history>>

ThisMonth == Month(day)

TypeOK ==
  /\ day \in 0 .. Horizon
  /\ pc \in Steps
  /\ current \in Backups \cup {NoBackup}
  /\ pc # "idle" => current \in Backups /\ DayOf(current) = day
  /\ failed \in BOOLEAN
  /\ daily \subseteq Backups
  /\ parts \in [Backups -> SUBSET Parts]
  /\ mtime \in [Backups -> 0 .. Horizon]
  /\ monthly \in [Months -> Backups \cup {NoBackup}]
  /\ copied \in [Months -> SUBSET Parts]
  /\ monthlyMtime \in [Months -> 0 .. Horizon]
  /\ nightlySnap \in [Backups -> SnapshotStates]
  /\ monthlySnap \in [Months -> SnapshotStates]
  /\ succeeded \subseteq Backups
  /\ esSucceeded \subseteq Backups
  /\ cut \subseteq Months
  /\ tried \in [Backups -> 0 .. Horizon]

Init ==
  /\ day = 0
  /\ pc = "idle"
  /\ current = NoBackup
  /\ failed = FALSE
  /\ daily = {}
  /\ parts = [b \in Backups |-> {}]
  /\ mtime = [b \in Backups |-> 0]
  /\ monthly = [m \in Months |-> NoBackup]
  /\ copied = [m \in Months |-> {}]
  /\ monthlyMtime = [m \in Months |-> 0]
  /\ nightlySnap = [b \in Backups |-> "none"]
  /\ monthlySnap = [m \in Months |-> "none"]
  /\ succeeded = {} /\ esSucceeded = {} /\ cut = {}
  /\ tried = [b \in Backups |-> 0]

----------------------------------------------------------------------------
(* The CronJob. *)

Begin(b) ==
  /\ pc' = "prune"
  /\ current' = b
  /\ failed' = FALSE

StartJob ==
  /\ pc = "idle" /\ day < Horizon
  /\ day' = day + 1
  /\ Begin(<<day + 1, 1>>)
  /\ UNCHANGED <<disk, snapshots, history>>

(* The CronJob is suspended, or its start is missed.                          *)
SkipNight ==
  /\ pc = "idle" /\ day < Horizon
  /\ day' = day + 1
  /\ UNCHANGED <<pc, current, failed, disk, snapshots, history>>

NoJob ==
  /\ pc' = "idle"
  /\ current' = NoBackup
  /\ failed' = FALSE

(* The attempt ends without success: the Job starts another pod while         *)
(* backoffLimit allows it and the deadline has not passed.                    *)
AttemptOver ==
  \/ /\ current[2] < Tries /\ day \in RetryNights
     /\ Begin(<<day, current[2] + 1>>)
  \/ NoJob

(* A command fails under set -e, the pod is killed, or the deadline passes.   *)
Abort ==
  /\ pc # "idle"
  /\ AttemptOver
  /\ cut' = IF pc = "copy" THEN cut \cup {ThisMonth} ELSE cut
  /\ UNCHANGED <<day, disk, snapshots, succeeded, esSucceeded, tried>>

----------------------------------------------------------------------------
(* The script. *)

Goto(step) == pc' = step /\ UNCHANGED <<day, current>>

(* find -mtime +n takes what was modified more than n whole days ago; a       *)
(* directory modified later in the day than now is younger by one.            *)
Age(modified, rounded) == (day - modified) - rounded

(* Mutants: one month fewer is kept;                                          *)
(* nothing is pruned until the last night's backup has succeeded.             *)
MonthlyExpiredEarly(m, rounded) ==
  Age(monthlyMtime[m], rounded) > (MonthlyRetentionMonths - 1) * CountedLength
DailyExpiredAfterSuccess(b, rounded) ==
  Age(mtime[b], rounded) > RetentionDays /\ \E c \in succeeded : DayOf(c) = day - 1

DailyExpired(b, rounded) == Age(mtime[b], rounded) > RetentionDays
MonthlyExpired(m, rounded) == Age(monthlyMtime[m], rounded) > MonthlyRetentionMonths * CountedLength

(* -exec rm -rf {} \; for each directory found. An rm that fails, or is       *)
(* killed, leaves some of its directory, of which nothing counts any more;    *)
(* what is left is as old as before or was modified just now.                 *)
RemoveDaily(found) ==
  \E left \in SUBSET found, fresh \in SUBSET found :
    /\ fresh \subseteq left /\ (left # {} => day \in StuckDaily)
    /\ daily' = (daily \ found) \cup left
    /\ parts' = [b \in Backups |-> IF b \in found THEN {} ELSE parts[b]]
    /\ mtime' = [b \in Backups |->
         IF b \in fresh THEN day ELSE IF b \in found \ left THEN 0 ELSE mtime[b]]
    /\ tried' = [b \in Backups |->
         IF b \in left THEN day ELSE IF b \in found THEN 0 ELSE tried[b]]

RemoveMonthly(found) ==
  \E left \in SUBSET found, fresh \in SUBSET found :
    /\ fresh \subseteq left /\ (left # {} => day \in StuckMonthly)
    /\ monthly' = [m \in Months |-> IF m \in found \ left THEN NoBackup ELSE monthly[m]]
    /\ copied' = [m \in Months |-> IF m \in found THEN {} ELSE copied[m]]
    /\ monthlyMtime' = [m \in Months |->
         IF m \in fresh THEN day ELSE IF m \in found \ left THEN 0 ELSE monthlyMtime[m]]
    /\ cut' = cut \cup left
    /\ esSucceeded' = {b \in esSucceeded : \E m \in Months \ cut' : monthly'[m] = b}

DailyOlder(rounded) == {b \in daily : DailyExpired(b, rounded)}
MonthlyOlder(rounded) == {m \in Months : monthly[m] # NoBackup /\ MonthlyExpired(m, rounded)}

(* Of backups that no retention covers any more the history is forgotten.     *)
StillToBeKept(b) ==
  day - DayOf(b) <= RetentionDays \/ ThisMonth < Month(DayOf(b)) + MonthlyRetentionMonths

(* The exit status of rm is ignored, the script goes on.                      *)
Prune ==
  /\ pc = "prune"
  /\ Goto("prune_monthly")
  /\ \E found \in SUBSET DailyOlder(0) : DailyOlder(1) \subseteq found /\ RemoveDaily(found)
  /\ UNCHANGED <<failed, copies, snapshots, succeeded, esSucceeded, cut>>

PruneMonthly ==
  /\ pc = "prune_monthly"
  /\ Goto("mkdir")
  /\ \E found \in SUBSET MonthlyOlder(0) : MonthlyOlder(1) \subseteq found /\ RemoveMonthly(found)
  /\ succeeded' = {b \in succeeded : StillToBeKept(b)}
  /\ UNCHANGED <<failed, nights, snapshots, tried>>

(* The pod is killed while it prunes: what was found so far is removed or     *)
(* left as above, the rest is not touched.                                    *)
PruneKilled ==
  /\ pc = "prune"
  /\ AttemptOver
  /\ \E found \in SUBSET DailyOlder(0) : RemoveDaily(found)
  /\ UNCHANGED <<day, copies, snapshots, succeeded, esSucceeded, cut>>

PruneMonthlyKilled ==
  /\ pc = "prune_monthly"
  /\ AttemptOver
  /\ \E found \in SUBSET MonthlyOlder(0) : RemoveMonthly(found)
  /\ UNCHANGED <<day, nights, snapshots, succeeded, tried>>

MakeDirs ==
  /\ pc = "mkdir"
  /\ Goto("cluster")
  /\ daily' = daily \cup {current}
  /\ mtime' = [mtime EXCEPT ![current] = day]
  /\ UNCHANGED <<failed, parts, copies, snapshots, history>>

(* One redirected export: the file of this part is complete.                  *)
Export(part, step) ==
  /\ pc = part
  /\ Goto(step)
  /\ parts' = [parts EXCEPT ![current] = @ \cup {part}]
  /\ UNCHANGED <<failed, daily, mtime, copies, snapshots, history>>

BackupCluster == Export("cluster", "es_nightly")
BackupMongo == Export("mongodb", "grafana")
BackupGrafana == Export("grafana", "promote")

(* The Elasticsearch subshell: any failing step leaves it with FAILED set,    *)
(* and the script goes on. A nightly snapshot left behind incomplete is never *)
(* read again and counts as none; a monthly one is.                           *)
EsFails ==
  /\ Goto("mongodb")
  /\ failed' = TRUE
  /\ UNCHANGED <<disk, history>>

EsNightly ==
  /\ pc = "es_nightly"
  /\ Goto("es_monthly")
  /\ nightlySnap' = [nightlySnap EXCEPT ![current] = "SUCCESS"]
  /\ UNCHANGED <<failed, disk, monthlySnap, history>>

EsNightlyFails ==
  /\ pc = "es_nightly"
  /\ UNCHANGED snapshots
  /\ EsFails

(* The monthly snapshot is taken unless the GET says there is one, of         *)
(* whatever state.                                                            *)
EsMonthlyThere ==
  /\ pc = "es_monthly"
  /\ monthlySnap[ThisMonth] # "none"
  /\ Goto("es_prune")
  /\ UNCHANGED <<failed, disk, snapshots, history>>

EsMonthlyTaken ==
  /\ pc = "es_monthly"
  /\ monthlySnap[ThisMonth] = "none"
  /\ Goto("es_prune")
  /\ monthlySnap' = [monthlySnap EXCEPT ![ThisMonth] = "SUCCESS"]
  /\ UNCHANGED <<failed, disk, nightlySnap, history>>

(* The snapshot is refused (there is one, but the GET failed) or incomplete.  *)
EsMonthlyFails ==
  /\ pc = "es_monthly"
  /\ \/ UNCHANGED monthlySnap
     \/ /\ monthlySnap[ThisMonth] = "none"
        /\ monthlySnap' = [monthlySnap EXCEPT ![ThisMonth] = "PARTIAL"]
  /\ UNCHANGED nightlySnap
  /\ EsFails

MonthlySnapExpired(m) == m + MonthlyRetentionMonths < ThisMonth

(* Mutant: the cutoff day itself is pruned too.                               *)
NightlySnapExpiredEarly(b) == day - DayOf(b) >= RetentionDays

NightlySnapExpired(b) == day - DayOf(b) > RetentionDays

(* Deleting the expired snapshots in bs and ms, all of them or some.          *)
DeleteSnapshots(bs, ms) ==
  /\ nightlySnap' = [b \in Backups |-> IF b \in bs THEN "none" ELSE nightlySnap[b]]
  /\ monthlySnap' = [m \in Months |-> IF m \in ms THEN "none" ELSE monthlySnap[m]]

OldNightly == {b \in Backups : nightlySnap[b] # "none" /\ NightlySnapExpired(b)}
OldMonthly == {m \in Months : monthlySnap[m] # "none" /\ MonthlySnapExpired(m)}

(* The listing that the loop runs over is a command substitution: where it    *)
(* fails there is nothing to delete, and nobody notices.                      *)
EsPrune ==
  /\ pc = "es_prune"
  /\ Goto("mongodb")
  /\ DeleteSnapshots(OldNightly, OldMonthly) \/ UNCHANGED snapshots
  /\ esSucceeded' = esSucceeded \cup {current}
  /\ UNCHANGED <<failed, disk, succeeded, cut, tried>>

(* A DELETE fails.                                                            *)
EsPruneFails ==
  /\ pc = "es_prune"
  /\ \E bs \in SUBSET OldNightly, ms \in SUBSET OldMonthly :
       /\ <<bs, ms>> # <<OldNightly, OldMonthly>>
       /\ DeleteSnapshots(bs, ms)
  /\ EsFails

(* Mutant: a backup is promoted although Elasticsearch has failed.            *)
PromoteAnyway ==
  /\ pc = "promote"
  /\ monthly[ThisMonth] = NoBackup
  /\ Goto("copy")
  /\ monthly' = [monthly EXCEPT ![ThisMonth] = current]
  /\ monthlyMtime' = [monthlyMtime EXCEPT ![ThisMonth] = day]
  /\ UNCHANGED <<failed, nights, copied, snapshots, history>>

Promote ==
  /\ pc = "promote"
  /\ ~failed
  /\ monthly[ThisMonth] = NoBackup
  /\ Goto("copy")
  /\ monthly' = [monthly EXCEPT ![ThisMonth] = current]
  /\ monthlyMtime' = [monthlyMtime EXCEPT ![ThisMonth] = day]
  /\ UNCHANGED <<failed, nights, copied, snapshots, history>>

NoPromotion ==
  /\ pc = "promote"
  /\ failed \/ monthly[ThisMonth] # NoBackup
  /\ Goto("exit")
  /\ UNCHANGED <<failed, disk, snapshots, history>>

(* cp -a has come to its end; of a copy that is cut short nothing counts. The *)
(* backup's own time, which it sets at last, is of this day, too.             *)
CopyDone ==
  /\ pc = "copy"
  /\ Goto("exit")
  /\ copied' = [copied EXCEPT ![ThisMonth] = parts[current]]
  /\ UNCHANGED <<failed, nights, monthly, monthlyMtime, snapshots, history>>

ExitSuccess ==
  /\ pc = "exit" /\ ~failed
  /\ NoJob
  /\ succeeded' = succeeded \cup {current}
  /\ UNCHANGED <<day, disk, snapshots, esSucceeded, cut, tried>>

ExitFailed ==
  /\ pc = "exit" /\ failed
  /\ AttemptOver
  /\ UNCHANGED <<day, disk, snapshots, history>>

----------------------------------------------------------------------------
Elasticsearch ==
  \/ EsNightly \/ EsNightlyFails
  \/ EsMonthlyThere \/ EsMonthlyTaken \/ EsMonthlyFails
  \/ EsPrune \/ EsPruneFails

Next ==
  \/ StartJob \/ SkipNight \/ Abort
  \/ Prune \/ PruneMonthly \/ PruneKilled \/ PruneMonthlyKilled \/ MakeDirs
  \/ BackupCluster \/ Elasticsearch \/ BackupMongo \/ BackupGrafana
  \/ Promote \/ NoPromotion \/ CopyDone
  \/ ExitSuccess \/ ExitFailed

Spec == Init /\ [][Next]_vars

----------------------------------------------------------------------------
(* Properties.                                                                *)

(* A backup whose job succeeded can be restored for RetentionDays: its        *)
(* directory is there with every part, and so is its snapshot, whatever the   *)
(* following nights do (pruning at 119 and 191-199, failures, kills).         *)
SuccessIsKept ==
  \A b \in succeeded :
    day - DayOf(b) <= RetentionDays =>
      b \in daily /\ parts[b] = Parts /\ nightlySnap[b] = "SUCCESS"

(* A monthly copy is a whole backup, taken by an attempt of that month in     *)
(* which Elasticsearch succeeded too (221-225), unless the job was killed     *)
(* while copying it or its removal, when it is due, fails half way.           *)
MonthlyIsAWholeBackup ==
  \A m \in Months :
    monthly[m] # NoBackup /\ m \notin cut /\ ~(pc = "copy" /\ m = ThisMonth) =>
      /\ copied[m] = Parts
      /\ monthly[m] \in esSucceeded
      /\ Month(DayOf(monthly[m])) = m

(* A month in which some night succeeded has a monthly copy until             *)
(* MonthlyRetentionMonths later, although the script counts days (122) where  *)
(* the values count months.                                                   *)
SuccessfulMonthIsKept ==
  \A b \in succeeded :
    ThisMonth < Month(DayOf(b)) + MonthlyRetentionMonths =>
      monthly[Month(DayOf(b))] # NoBackup /\ monthlySnap[Month(DayOf(b))] # "none"

(* "retention still applies on nights where a later step fails" (116-117):    *)
(* once a job has passed its first step, no directory is there for longer     *)
(* than the retention (and the day that -mtime rounds away) after it was made *)
(* or after its removal was last tried in vain, however the previous nights   *)
(* ended. That the removal may fail, unnoticed, and that what is left then    *)
(* passes for a new directory, is the script's: -exec ignores it (119).       *)
RetentionApplies ==
  pc \notin {"idle", "prune"} => \A b \in daily :
    \/ day - DayOf(b) <= RetentionDays + 1
    \/ tried[b] # 0 /\ day - tried[b] <= RetentionDays + 1

(* Lines 218-220: "the first complete backup of each month is kept as that    *)
(* month's monthly copy (not tied to the 1st, so one failed night doesn't     *)
(* skip a month)": a month with a complete backup has a whole copy.           *)
MonthlyCopyIsWhole ==
  \A b \in succeeded :
    ThisMonth = Month(DayOf(b)) => copied[ThisMonth] = Parts
=============================================================================
