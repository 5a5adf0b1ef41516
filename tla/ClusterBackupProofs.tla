------------------------ MODULE ClusterBackupProofs ------------------------
(* Proofs about ClusterBackup, for every retention, number of tries and       *)
(* horizon. ScriptInv says what the running attempt has done by the line it   *)
(* is at; FreshInv that its name is later than every successful backup's, so  *)
(* that nothing it does to its own files can harm one of theirs.              *)
EXTENDS ClusterBackup, TLAPS

AfterEs == {"mongodb", "grafana", "promote", "copy", "exit"}

ScriptInv ==
  /\ pc \notin {"idle", "prune", "prune_monthly", "mkdir"} => current \in daily
  /\ pc \in {"es_nightly", "es_monthly", "es_prune"} \cup AfterEs => "cluster" \in parts[current]
  /\ pc \in AfterEs \ {"mongodb"} => "mongodb" \in parts[current]
  /\ pc \in {"promote", "copy", "exit"} => parts[current] = Parts
  /\ pc \in {"es_monthly", "es_prune"} => nightlySnap[current] = "SUCCESS"
  /\ pc \in AfterEs /\ ~failed => nightlySnap[current] = "SUCCESS" /\ current \in esSucceeded
  /\ pc = "copy" => ~failed /\ monthly[ThisMonth] = current
  /\ pc = "es_prune" \/ (pc \in AfterEs /\ ~failed) => monthlySnap[ThisMonth] # "none"
  /\ pc = "exit" /\ ~failed => monthly[ThisMonth] # NoBackup

MonthInv ==
  \A m \in Months :
    monthly[m] # NoBackup => monthly[m] \in Backups /\ Month(DayOf(monthly[m])) = m

(* A directory is as old as its backup, or as the last removal tried in vain. *)
AgeInv ==
  /\ \A b \in daily :
       /\ mtime[b] >= DayOf(b)
       /\ mtime[b] = DayOf(b) \/ (tried[b] # 0 /\ mtime[b] <= tried[b])
  /\ \A m \in Months : monthly[m] # NoBackup => monthlyMtime[m] >= DayOf(monthly[m])

FreshInv ==
  \A b \in succeeded :
    \/ DayOf(b) < day
    \/ DayOf(b) = day /\ (pc = "idle" \/ b[2] < current[2])

IInv ==
  /\ TypeOK /\ ScriptInv /\ FreshInv /\ AgeInv
  /\ SuccessIsKept /\ MonthlyIsAWholeBackup /\ RetentionApplies
  /\ MonthInv /\ SuccessfulMonthIsKept

(* Days up to the horizon fall in the months up to the horizon's.             *)
LEMMA MonthOfDay == \A d \in 0 .. Horizon : Month(d) \in Months
<1> SUFFICES ASSUME NEW d \in 0 .. Horizon PROVE Month(d) \in Months
  OBVIOUS
<1>1. d \in Nat /\ Horizon \in Nat /\ MonthLength \in Nat \ {0} /\ d <= Horizon
  BY BackupAssumption
<1>2. Month(d) \in Nat /\ Month(Horizon) \in Nat
  BY <1>1 DEF Month
<1>3. /\ MonthLength * Month(d) <= d
      /\ Horizon < MonthLength * (Month(Horizon) + 1)
  BY <1>1 DEF Month
<1>4. Month(d) <= Month(Horizon)
  <2>1. SUFFICES ASSUME Month(Horizon) + 1 <= Month(d) PROVE FALSE
    BY <1>2
  <2>2. MonthLength * (Month(Horizon) + 1) <= MonthLength * Month(d)
    BY <1>1, <1>2, <2>1
  <2> QED
    BY <1>1, <1>2, <1>3, <2>2
<1> QED
  BY <1>2, <1>4 DEF Months

LEMMA MonthsAreNatural ==
  /\ \A d \in 0 .. Horizon : Month(d) \in Nat
  /\ \A m \in Months : m \in Nat
<1>1. Horizon \in Nat /\ MonthLength \in Nat \ {0}
  BY BackupAssumption
<1>2. \A d \in Nat : Month(d) \in Nat
  BY <1>1 DEF Month
<1> QED BY <1>1, <1>2 DEF Months

(* The attempt that follows is of the same day and named later.               *)
LEMMA NextAttempt ==
  ASSUME TypeOK, pc # "idle", AttemptOver
  PROVE  /\ pc' \in {"prune", "idle"}
         /\ current' \in Backups \cup {NoBackup} /\ failed' \in BOOLEAN
         /\ pc' = "prune" =>
              current' \in Backups /\ DayOf(current') = day /\ current'[2] = current[2] + 1
<1> USE BackupAssumption
<1>1. /\ current \in Backups /\ DayOf(current) = day
      /\ current[1] = day /\ current[1] \in 1 .. Horizon /\ current[2] \in 1 .. Tries
  BY DEF TypeOK, Backups, DayOf
<1>2. CASE current[2] < Tries /\ Begin(<<day, current[2] + 1>>)
  <2>1. current[2] + 1 \in 1 .. Tries
    BY <1>1, <1>2
  <2>2. <<day, current[2] + 1>> \in Backups
    BY <1>1, <2>1 DEF Backups
  <2> QED
    BY <1>2, <2>2 DEF Begin, DayOf
<1>3. CASE NoJob
  BY <1>3 DEF NoJob
<1> QED
  BY <1>2, <1>3 DEF AttemptOver

(* The directories found are beyond the retention; the others are untouched.  *)
LEMMA DailyRemoved ==
  ASSUME TypeOK, AgeInv, day \in 1 .. Horizon, NEW found \in SUBSET DailyOlder(0), RemoveDaily(found)
  PROVE  /\ daily' \subseteq daily
         /\ parts' \in [Backups -> SUBSET Parts]
         /\ mtime' \in [Backups -> 0 .. Horizon] /\ tried' \in [Backups -> 0 .. Horizon]
         /\ \A b \in found : b \in daily /\ day - DayOf(b) > RetentionDays /\ mtime[b] <= day
         /\ \A b \in daily \ found :
              b \in daily' /\ parts'[b] = parts[b] /\ mtime'[b] = mtime[b] /\ tried'[b] = tried[b]
         /\ \A b \in daily' \cap found :
              tried'[b] = day /\ (mtime'[b] = mtime[b] \/ mtime'[b] = day)
<1>1. PICK left \in SUBSET found, fresh \in SUBSET found :
        /\ fresh \subseteq left
        /\ daily' = (daily \ found) \cup left
        /\ parts' = [b \in Backups |-> IF b \in found THEN {} ELSE parts[b]]
        /\ mtime' = [b \in Backups |->
             IF b \in fresh THEN day ELSE IF b \in found \ left THEN 0 ELSE mtime[b]]
        /\ tried' = [b \in Backups |->
             IF b \in left THEN day ELSE IF b \in found THEN 0 ELSE tried[b]]
  BY DEF RemoveDaily
<1>2. found \subseteq daily /\ daily \subseteq Backups
  BY DEF DailyOlder, TypeOK
<1>3. ASSUME NEW b \in found PROVE day - DayOf(b) > RetentionDays /\ mtime[b] <= day
  <2>1. /\ mtime[b] \in Int /\ DayOf(b) \in Int /\ day \in Int /\ RetentionDays \in Int
        /\ mtime[b] >= DayOf(b) /\ RetentionDays >= 0
    BY <1>2, BackupAssumption DEF TypeOK, AgeInv, Backups, DayOf
  <2>2. (day - mtime[b]) - 0 > RetentionDays
    BY DEF DailyOlder, DailyExpired, Age
  <2> QED BY <2>1, <2>2
<1>4. day \in 0 .. Horizon /\ 0 \in 0 .. Horizon
  BY BackupAssumption
<1>5. /\ parts' \in [Backups -> SUBSET Parts]
      /\ mtime' \in [Backups -> 0 .. Horizon] /\ tried' \in [Backups -> 0 .. Horizon]
  BY <1>1, <1>4 DEF TypeOK
<1> QED
  BY <1>1, <1>2, <1>3, <1>5

(* Those not found are within it, up to the day that is rounded away.         *)
LEMMA DailyPruned ==
  ASSUME TypeOK, AgeInv, Prune
  PROVE  \A b \in daily' :
           \/ day - DayOf(b) <= RetentionDays + 1
           \/ tried'[b] # 0 /\ day - tried'[b] <= RetentionDays + 1
<1>1. day \in 1 .. Horizon
  BY DEF Prune, TypeOK, Backups, DayOf
<1>2. PICK found \in SUBSET DailyOlder(0) : DailyOlder(1) \subseteq found /\ RemoveDaily(found)
  BY DEF Prune
<1>3. /\ daily' \subseteq daily
      /\ \A b \in daily \ found : mtime'[b] = mtime[b] /\ tried'[b] = tried[b]
      /\ \A b \in daily' \cap found : tried'[b] = day
  BY <1>1, <1>2, DailyRemoved
<1> SUFFICES ASSUME NEW b \in daily'
             PROVE  \/ day - DayOf(b) <= RetentionDays + 1
                    \/ tried'[b] # 0 /\ day - tried'[b] <= RetentionDays + 1
  OBVIOUS
<1>4. b \in daily /\ b \in Backups /\ RetentionDays \in Nat
  BY <1>3, BackupAssumption DEF TypeOK
<1>5. CASE b \in found
  BY <1>1, <1>3, <1>4, <1>5
<1>6. CASE b \notin found
  <2>1. tried'[b] = tried[b] /\ ~DailyExpired(b, 1)
    BY <1>2, <1>3, <1>4, <1>6 DEF DailyOlder
  <2>2. ~((day - mtime[b]) - 1 > RetentionDays)
    BY <2>1 DEF DailyExpired, Age
  <2>3. mtime[b] \in Int /\ DayOf(b) \in Int /\ day \in Int /\ tried[b] \in Int
    BY <1>4 DEF TypeOK, Backups, DayOf
  <2>4. mtime[b] = DayOf(b) \/ (tried[b] # 0 /\ mtime[b] <= tried[b])
    BY <1>4 DEF AgeInv
  <2> QED BY <1>4, <2>1, <2>2, <2>3, <2>4
<1> QED BY <1>5, <1>6

(* A backup older than k counted months is of a month k or more before.       *)
LEMMA MonthsApart ==
  ASSUME NEW d \in Nat, NEW e \in Nat, NEW k \in Nat, e - d >= k * CountedLength
  PROVE  Month(e) >= Month(d) + k
<1>1. /\ MonthLength \in Nat \ {0} /\ CountedLength \in Nat /\ MonthLength <= CountedLength
  BY BackupAssumption
<1>2. Month(d) \in Nat /\ Month(e) \in Nat
  BY <1>1 DEF Month
<1>3. /\ MonthLength * Month(d) <= d
      /\ e < MonthLength * (Month(e) + 1)
  BY <1>1 DEF Month
<1>4. k * MonthLength <= k * CountedLength
  BY <1>1
<1>5. MonthLength * (Month(d) + k) = MonthLength * Month(d) + k * MonthLength
  BY <1>1, <1>2
<1>6. /\ k * MonthLength \in Int /\ k * CountedLength \in Int /\ MonthLength * Month(d) \in Int
      /\ MonthLength * (Month(d) + k) \in Int /\ MonthLength * (Month(e) + 1) \in Int
  BY <1>1, <1>2
<1>7. MonthLength * (Month(d) + k) < MonthLength * (Month(e) + 1)
  BY <1>3, <1>4, <1>5, <1>6
<1>8. SUFFICES ASSUME Month(e) + 1 <= Month(d) + k PROVE FALSE
  BY <1>2
<1>9. MonthLength * (Month(e) + 1) <= MonthLength * (Month(d) + k)
  BY <1>1, <1>2, <1>8
<1> QED
  BY <1>6, <1>7, <1>9

(* A monthly copy is pruned only MonthlyRetentionMonths after its month; what *)
(* is not touched is as it was.                                               *)
LEMMA MonthlyRemoved ==
  ASSUME TypeOK, MonthInv, AgeInv, NEW found \in SUBSET MonthlyOlder(0), RemoveMonthly(found)
  PROVE  /\ copied' \in [Months -> SUBSET Parts] /\ monthlyMtime' \in [Months -> 0 .. Horizon]
         /\ monthly' \in [Months -> Backups \cup {NoBackup}]
         /\ cut \subseteq cut' /\ cut' \subseteq Months
         /\ esSucceeded' = {b \in esSucceeded : \E m \in Months \ cut' : monthly'[m] = b}
         /\ \A m \in Months :
              /\ monthly'[m] # NoBackup =>
                   /\ monthly'[m] = monthly[m]
                   /\ monthlyMtime'[m] >= monthlyMtime[m]
              /\ monthly'[m] # NoBackup /\ m \notin cut' => copied'[m] = copied[m]
              /\ monthly[m] # NoBackup /\ monthly'[m] = NoBackup =>
                   ThisMonth >= m + MonthlyRetentionMonths
<1>1. PICK left \in SUBSET found, fresh \in SUBSET found :
        /\ fresh \subseteq left
        /\ monthly' = [m \in Months |-> IF m \in found \ left THEN NoBackup ELSE monthly[m]]
        /\ copied' = [m \in Months |-> IF m \in found THEN {} ELSE copied[m]]
        /\ monthlyMtime' = [m \in Months |->
             IF m \in fresh THEN day ELSE IF m \in found \ left THEN 0 ELSE monthlyMtime[m]]
        /\ cut' = cut \cup left
        /\ esSucceeded' = {b \in esSucceeded : \E m \in Months \ cut' : monthly'[m] = b}
  BY DEF RemoveMonthly
<1>2. found \subseteq Months /\ \A m \in found : monthly[m] # NoBackup /\ MonthlyExpired(m, 0)
  BY DEF MonthlyOlder
<1>3. ASSUME NEW m \in found PROVE ThisMonth >= m + MonthlyRetentionMonths /\ monthlyMtime[m] <= day
  <2>1. /\ DayOf(monthly[m]) \in Nat /\ day \in Nat /\ monthlyMtime[m] \in Nat
        /\ MonthlyRetentionMonths \in Nat /\ CountedLength \in Nat
        /\ Month(DayOf(monthly[m])) = m /\ monthlyMtime[m] >= DayOf(monthly[m])
    BY <1>2, BackupAssumption DEF TypeOK, MonthInv, AgeInv, Backups, DayOf
  <2>2. (day - monthlyMtime[m]) - 0 > MonthlyRetentionMonths * CountedLength
    BY <1>2 DEF MonthlyExpired, Age
  <2>3. MonthlyRetentionMonths * CountedLength \in Nat
    BY <2>1
  <2>4. day - DayOf(monthly[m]) >= MonthlyRetentionMonths * CountedLength
    BY <2>1, <2>2, <2>3
  <2>5. ThisMonth >= m + MonthlyRetentionMonths
    BY <2>1, <2>4, MonthsApart DEF ThisMonth
  <2> QED
    BY <2>1, <2>2, <2>3, <2>5
<1>4. day \in 0 .. Horizon /\ 0 \in 0 .. Horizon
  BY BackupAssumption DEF TypeOK
<1>5. /\ copied' \in [Months -> SUBSET Parts] /\ monthlyMtime' \in [Months -> 0 .. Horizon]
      /\ monthly' \in [Months -> Backups \cup {NoBackup}]
      /\ cut \subseteq cut' /\ cut' \subseteq Months
  BY <1>1, <1>2, <1>4 DEF TypeOK
<1>6. \A m \in Months : monthlyMtime[m] \in Int /\ day \in Int
  BY DEF TypeOK
<1> QED
  BY <1>1, <1>2, <1>3, <1>5, <1>6

(* What the four pruning steps do, with the kills.                            *)
LEMMA DailyStep ==
  ASSUME TypeOK, AgeInv, Prune \/ PruneKilled
  PROVE  /\ pc = "prune" /\ day \in 1 .. Horizon
         /\ \E found \in SUBSET DailyOlder(0) : RemoveDaily(found)
         /\ UNCHANGED <<day, copies, snapshots, succeeded, esSucceeded, cut>>
         /\ \/ pc' = "prune_monthly" /\ UNCHANGED <<current, failed>>
            \/ AttemptOver
  BY DEF Prune, PruneKilled, Goto, TypeOK, Backups, DayOf

LEMMA MonthlyStep ==
  ASSUME TypeOK, AgeInv, PruneMonthly \/ PruneMonthlyKilled
  PROVE  /\ pc = "prune_monthly"
         /\ \E found \in SUBSET MonthlyOlder(0) : RemoveMonthly(found)
         /\ UNCHANGED <<day, nights, snapshots, tried>> /\ succeeded' \subseteq succeeded
         /\ \/ pc' = "mkdir" /\ UNCHANGED <<current, failed>>
            \/ AttemptOver
  BY DEF PruneMonthly, PruneMonthlyKilled, Goto, StillToBeKept

(* Every step keeps the types.                                                *)
LEMMA TypeStep == IInv /\ [Next]_vars => TypeOK'
<1> SUFFICES ASSUME IInv, [Next]_vars PROVE TypeOK'
  OBVIOUS
<1> USE BackupAssumption, MonthOfDay DEF IInv, TypeOK, Backups, Parts, SnapshotStates, Steps, DayOf, ThisMonth, NoBackup
<1>1. CASE StartJob
  <2>1. day + 1 \in 1 .. Horizon /\ 1 \in 1 .. Tries
    BY <1>1 DEF StartJob
  <2>2. <<day + 1, 1>> \in Backups /\ DayOf(<<day + 1, 1>>) = day + 1
    BY <2>1
  <2>3. day' = day + 1 /\ pc' = "prune" /\ current' = <<day + 1, 1>> /\ failed' = FALSE
    BY <1>1 DEF StartJob, Begin
  <2>4. day' \in 0 .. Horizon
    BY <2>1, <2>3
  <2>5. UNCHANGED <<daily, parts, mtime, monthly, copied, monthlyMtime, nightlySnap, monthlySnap,
                    succeeded, esSucceeded, cut, tried>>
    BY <1>1 DEF StartJob, disk, nights, copies, snapshots, history
  <2> HIDE DEF Backups, DayOf
  <2> QED
    BY <2>2, <2>3, <2>4, <2>5
<1>2. CASE SkipNight
  BY <1>2 DEF SkipNight, disk, nights, copies, snapshots, history
<1>3. CASE Abort
  <2>1. day' = day /\ pc # "idle" /\ AttemptOver
    BY <1>3 DEF Abort
  <2>2. /\ pc' \in {"prune", "idle"}
        /\ current' \in Backups \cup {NoBackup} /\ failed' \in BOOLEAN
        /\ pc' = "prune" =>
             current' \in Backups /\ DayOf(current') = day /\ current'[2] = current[2] + 1
    BY <2>1, NextAttempt
  <2> HIDE DEF Backups, DayOf
  <2> QED
    BY <1>3, <2>1, <2>2 DEF Abort, disk, nights, copies, snapshots, history
<1>4. CASE Prune \/ PruneKilled
  <2>1. /\ day \in 1 .. Horizon /\ pc = "prune"
        /\ UNCHANGED <<day, copies, snapshots, succeeded, esSucceeded, cut>>
        /\ (pc' = "prune_monthly" /\ UNCHANGED <<current, failed>>) \/ AttemptOver
    BY <1>4, DailyStep
  <2>2. PICK found \in SUBSET DailyOlder(0) : RemoveDaily(found)
    BY <1>4, DailyStep
  <2>3. /\ daily' \subseteq daily /\ parts' \in [Backups -> SUBSET Parts]
        /\ mtime' \in [Backups -> 0 .. Horizon] /\ tried' \in [Backups -> 0 .. Horizon]
    BY <2>1, <2>2, DailyRemoved
  <2>4. /\ pc' \in {"prune", "prune_monthly", "idle"}
        /\ current' \in Backups \cup {NoBackup} /\ failed' \in BOOLEAN
        /\ pc' # "idle" => current' \in Backups /\ DayOf(current') = day
    BY <2>1, NextAttempt
  <2> HIDE DEF Backups, DayOf
  <2> QED
    BY <2>1, <2>3, <2>4 DEF copies, snapshots
<1>5. CASE MakeDirs
  BY <1>5 DEF MakeDirs, Goto, disk, nights, copies, snapshots, history
<1>6. CASE BackupCluster
  BY <1>6 DEF BackupCluster, Export, Goto, disk, nights, copies, snapshots, history
<1>7. CASE EsNightly
  BY <1>7 DEF EsNightly, Goto, disk, nights, copies, snapshots, history
<1>8. CASE EsNightlyFails
  BY <1>8 DEF EsNightlyFails, EsFails, Goto, disk, nights, copies, snapshots, history
<1>9. CASE EsMonthlyThere
  BY <1>9 DEF EsMonthlyThere, Goto, disk, nights, copies, snapshots, history
<1>10. CASE EsMonthlyTaken
  BY <1>10 DEF EsMonthlyTaken, Goto, disk, nights, copies, snapshots, history
<1>11. CASE EsMonthlyFails
  BY <1>11 DEF EsMonthlyFails, EsFails, Goto, disk, nights, copies, snapshots, history
<1>12. CASE EsPrune
  BY <1>12 DEF EsPrune, DeleteSnapshots, snapshots, OldNightly, OldMonthly, NightlySnapExpired, Goto, disk, nights, copies, snapshots, history
<1>13. CASE EsPruneFails
  BY <1>13 DEF EsPruneFails, EsFails, DeleteSnapshots, OldNightly, OldMonthly, NightlySnapExpired, Goto, disk, nights, copies, snapshots, history
<1>14. CASE BackupMongo
  BY <1>14 DEF BackupMongo, Export, Goto, disk, nights, copies, snapshots, history
<1>15. CASE BackupGrafana
  BY <1>15 DEF BackupGrafana, Export, Goto, disk, nights, copies, snapshots, history
<1>16. CASE Promote
  BY <1>16 DEF Promote, Goto, disk, nights, copies, snapshots, history
<1>17. CASE NoPromotion
  BY <1>17 DEF NoPromotion, Goto, disk, nights, copies, snapshots, history
<1>18. CASE CopyDone
  BY <1>18 DEF CopyDone, Goto, disk, nights, copies, snapshots, history
<1>19. CASE ExitSuccess
  BY <1>19 DEF ExitSuccess, NoJob, disk, nights, copies, snapshots, history
<1>20. CASE ExitFailed
  <2>1. day' = day /\ pc # "idle" /\ AttemptOver
    BY <1>20 DEF ExitFailed
  <2>2. /\ pc' \in {"prune", "idle"}
        /\ current' \in Backups \cup {NoBackup} /\ failed' \in BOOLEAN
        /\ pc' = "prune" =>
             current' \in Backups /\ DayOf(current') = day /\ current'[2] = current[2] + 1
    BY <2>1, NextAttempt
  <2> HIDE DEF Backups, DayOf
  <2> QED
    BY <1>20, <2>1, <2>2 DEF ExitFailed, disk, nights, copies, snapshots, history
<1>21. CASE UNCHANGED vars
  BY <1>21 DEF vars, disk, nights, copies, snapshots, history
<1>22. CASE PruneMonthly \/ PruneMonthlyKilled
  <2>1. /\ pc = "prune_monthly" /\ UNCHANGED <<day, nights, snapshots, tried>> /\ succeeded' \subseteq succeeded
        /\ (pc' = "mkdir" /\ UNCHANGED <<current, failed>>) \/ AttemptOver
    BY <1>22, MonthlyStep
  <2>2. PICK found \in SUBSET MonthlyOlder(0) : RemoveMonthly(found)
    BY <1>22, MonthlyStep
  <2>3. /\ copied' \in [Months -> SUBSET Parts] /\ monthlyMtime' \in [Months -> 0 .. Horizon]
        /\ monthly' \in [Months -> Backups \cup {NoBackup}]
        /\ cut' \subseteq Months /\ esSucceeded' \subseteq esSucceeded
    BY <2>2, MonthlyRemoved
  <2>4. /\ pc' \in {"prune", "mkdir", "idle"}
        /\ current' \in Backups \cup {NoBackup} /\ failed' \in BOOLEAN
        /\ pc' # "idle" => current' \in Backups /\ DayOf(current') = day
    BY <2>1, NextAttempt
  <2> HIDE DEF Backups, DayOf, Months
  <2> QED
    BY <2>1, <2>3, <2>4 DEF nights, snapshots
<1> QED
  BY <1>1, <1>2, <1>3, <1>4, <1>5, <1>6, <1>7, <1>8, <1>9, <1>10, <1>11, <1>12, <1>13, <1>14, <1>15, <1>16, <1>17, <1>18, <1>19, <1>20, <1>21, <1>22 DEF Next, Elasticsearch

(* Every line of the script leaves behind what ScriptInv says of the next.    *)
LEMMA ScriptStep == IInv /\ TypeOK' /\ [Next]_vars => ScriptInv'
<1> SUFFICES ASSUME IInv, TypeOK', [Next]_vars PROVE ScriptInv'
  OBVIOUS
<1> USE BackupAssumption, MonthOfDay DEF IInv, TypeOK, ScriptInv, AfterEs, Parts, ThisMonth, DayOf
<1>1. CASE StartJob
  BY <1>1 DEF StartJob, Begin, disk, nights, copies, snapshots, history
<1>2. CASE SkipNight
  BY <1>2 DEF SkipNight, disk, nights, copies, snapshots, history
<1>3. CASE Abort
  BY <1>3 DEF Abort, AttemptOver, Begin, NoJob, disk, nights, copies, snapshots, history
<1>4. CASE Prune \/ PruneKilled
  <2>1. pc' \in {"prune_monthly", "prune", "idle"}
    BY <1>4, DailyStep DEF AttemptOver, Begin, NoJob
  <2> QED BY <2>1
<1>5. CASE MakeDirs
  BY <1>5 DEF MakeDirs, Goto, disk, nights, copies, snapshots, history
<1>6. CASE BackupCluster
  BY <1>6 DEF BackupCluster, Export, Goto, disk, nights, copies, snapshots, history
<1>7. CASE EsNightly
  BY <1>7 DEF EsNightly, Goto, disk, nights, copies, snapshots, history
<1>8. CASE EsNightlyFails
  BY <1>8 DEF EsNightlyFails, EsFails, Goto, disk, nights, copies, snapshots, history
<1>9. CASE EsMonthlyThere
  BY <1>9 DEF EsMonthlyThere, Goto, disk, nights, copies, snapshots, history
<1>10. CASE EsMonthlyTaken
  BY <1>10 DEF EsMonthlyTaken, Goto, disk, nights, copies, snapshots, history
<1>11. CASE EsMonthlyFails
  BY <1>11 DEF EsMonthlyFails, EsFails, Goto, disk, nights, copies, snapshots, history
<1>12. CASE EsPrune
  <2>1. /\ UNCHANGED <<day, current, failed, daily, parts, monthly, copied>>
        /\ pc = "es_prune" /\ pc' = "mongodb" /\ esSucceeded' = esSucceeded \cup {current}
    BY <1>12 DEF EsPrune, Goto, disk, nights, copies
  <2>2. ThisMonth \in Months /\ ThisMonth \in Nat /\ MonthlyRetentionMonths \in Nat
    BY MonthOfDay, MonthsAreNatural, BackupAssumption
  <2>3. monthlySnap'[ThisMonth] = monthlySnap[ThisMonth]
    BY <1>12, <2>2 DEF EsPrune, DeleteSnapshots, snapshots, OldMonthly, MonthlySnapExpired
  <2>4. nightlySnap'[current] = nightlySnap[current]
    BY <1>12, <2>1, BackupAssumption DEF EsPrune, DeleteSnapshots, snapshots, OldNightly, NightlySnapExpired
  <2> QED
    BY <2>1, <2>3, <2>4
<1>13. CASE EsPruneFails
  BY <1>13 DEF EsPruneFails, EsFails, DeleteSnapshots, OldNightly, OldMonthly, NightlySnapExpired, Goto, disk, nights, copies, snapshots, history
<1>14. CASE BackupMongo
  BY <1>14 DEF BackupMongo, Export, Goto, disk, nights, copies, snapshots, history
<1>15. CASE BackupGrafana
  BY <1>15 DEF BackupGrafana, Export, Goto, disk, nights, copies, snapshots, history
<1>16. CASE Promote
  BY <1>16 DEF Promote, Goto, disk, nights, copies, snapshots, history
<1>17. CASE NoPromotion
  BY <1>17 DEF NoPromotion, Goto, disk, nights, copies, snapshots, history
<1>18. CASE CopyDone
  <2>1. current # NoBackup
    BY <1>18 DEF CopyDone, Backups, NoBackup
  <2> QED
    BY <1>18, <2>1 DEF CopyDone, Goto, disk, nights, copies, snapshots, history
<1>19. CASE ExitSuccess
  BY <1>19 DEF ExitSuccess, NoJob, disk, nights, copies, snapshots, history
<1>20. CASE ExitFailed
  BY <1>20 DEF ExitFailed, AttemptOver, Begin, NoJob, disk, nights, copies, snapshots, history
<1>21. CASE UNCHANGED vars
  BY <1>21 DEF vars, disk, nights, copies, snapshots, history
<1>22. CASE PruneMonthly \/ PruneMonthlyKilled
  <2>1. pc' \in {"mkdir", "prune", "idle"}
    BY <1>22, MonthlyStep DEF AttemptOver, Begin, NoJob
  <2> QED BY <2>1
<1> QED
  BY <1>1, <1>2, <1>3, <1>4, <1>5, <1>6, <1>7, <1>8, <1>9, <1>10, <1>11, <1>12, <1>13, <1>14, <1>15, <1>16, <1>17, <1>18, <1>19, <1>20, <1>21, <1>22 DEF Next, Elasticsearch

(* A new attempt is named later than all before.                              *)
LEMMA FreshStep == IInv /\ TypeOK' /\ [Next]_vars => FreshInv'
<1> SUFFICES ASSUME IInv, TypeOK', [Next]_vars PROVE FreshInv'
  OBVIOUS
<1> USE BackupAssumption DEF IInv, TypeOK, FreshInv, DayOf, Backups
<1>1. CASE StartJob
  BY <1>1 DEF StartJob, Begin, disk, nights, copies, snapshots, history
<1>2. CASE SkipNight
  BY <1>2 DEF SkipNight, disk, nights, copies, snapshots, history
<1>3. CASE Abort
  <2>1. day' = day /\ pc # "idle" /\ AttemptOver /\ succeeded' = succeeded
    BY <1>3 DEF Abort, history
  <2>2. /\ pc' \in {"prune", "idle"}
        /\ pc' = "prune" => current'[2] = current[2] + 1
    BY <2>1, NextAttempt
  <2>3. current[2] \in Nat /\ \A b \in succeeded : b[2] \in Nat
    BY <2>1
  <2> QED
    BY <2>1, <2>2, <2>3
<1>4. CASE Prune \/ PruneKilled
  <2>1. /\ day' = day /\ pc = "prune" /\ succeeded' = succeeded
        /\ (pc' = "prune_monthly" /\ UNCHANGED <<current, failed>>) \/ AttemptOver
    BY <1>4, DailyStep
  <2>2. /\ pc' \in {"prune", "prune_monthly", "idle"}
        /\ pc' = "prune_monthly" => current' = current
        /\ pc' = "prune" => current'[2] = current[2] + 1
    BY <2>1, NextAttempt
  <2>3. current[2] \in Nat /\ \A b \in succeeded : b[2] \in Nat
    BY <2>1
  <2> QED
    BY <2>1, <2>2, <2>3
<1>5. CASE MakeDirs
  BY <1>5 DEF MakeDirs, Goto, disk, nights, copies, snapshots, history
<1>6. CASE BackupCluster
  BY <1>6 DEF BackupCluster, Export, Goto, disk, nights, copies, snapshots, history
<1>7. CASE EsNightly
  BY <1>7 DEF EsNightly, Goto, disk, nights, copies, snapshots, history
<1>8. CASE EsNightlyFails
  BY <1>8 DEF EsNightlyFails, EsFails, Goto, disk, nights, copies, snapshots, history
<1>9. CASE EsMonthlyThere
  BY <1>9 DEF EsMonthlyThere, Goto, disk, nights, copies, snapshots, history
<1>10. CASE EsMonthlyTaken
  BY <1>10 DEF EsMonthlyTaken, Goto, disk, nights, copies, snapshots, history
<1>11. CASE EsMonthlyFails
  BY <1>11 DEF EsMonthlyFails, EsFails, Goto, disk, nights, copies, snapshots, history
<1>12. CASE EsPrune
  BY <1>12 DEF EsPrune, DeleteSnapshots, snapshots, OldNightly, OldMonthly, NightlySnapExpired, Goto, disk, nights, copies, snapshots, history
<1>13. CASE EsPruneFails
  BY <1>13 DEF EsPruneFails, EsFails, DeleteSnapshots, OldNightly, OldMonthly, NightlySnapExpired, Goto, disk, nights, copies, snapshots, history
<1>14. CASE BackupMongo
  BY <1>14 DEF BackupMongo, Export, Goto, disk, nights, copies, snapshots, history
<1>15. CASE BackupGrafana
  BY <1>15 DEF BackupGrafana, Export, Goto, disk, nights, copies, snapshots, history
<1>16. CASE Promote
  BY <1>16 DEF Promote, Goto, disk, nights, copies, snapshots, history
<1>17. CASE NoPromotion
  BY <1>17 DEF NoPromotion, Goto, disk, nights, copies, snapshots, history
<1>18. CASE CopyDone
  BY <1>18 DEF CopyDone, Goto, disk, nights, copies, snapshots, history
<1>19. CASE ExitSuccess
  BY <1>19 DEF ExitSuccess, NoJob, disk, nights, copies, snapshots, history
<1>20. CASE ExitFailed
  <2>1. day' = day /\ pc # "idle" /\ AttemptOver /\ succeeded' = succeeded
    BY <1>20 DEF ExitFailed, history
  <2>2. /\ pc' \in {"prune", "idle"}
        /\ pc' = "prune" => current'[2] = current[2] + 1
    BY <2>1, NextAttempt
  <2>3. current[2] \in Nat /\ \A b \in succeeded : b[2] \in Nat
    BY <2>1
  <2> QED
    BY <2>1, <2>2, <2>3
<1>21. CASE UNCHANGED vars
  BY <1>21 DEF vars, disk, nights, copies, snapshots, history
<1>22. CASE PruneMonthly \/ PruneMonthlyKilled
  <2>1. /\ day' = day /\ pc = "prune_monthly" /\ succeeded' \subseteq succeeded
        /\ (pc' = "mkdir" /\ UNCHANGED <<current, failed>>) \/ AttemptOver
    BY <1>22, MonthlyStep
  <2>2. /\ pc' \in {"prune", "mkdir", "idle"}
        /\ pc' = "mkdir" => current' = current
        /\ pc' = "prune" => current'[2] = current[2] + 1
    BY <2>1, NextAttempt
  <2>3. current[2] \in Nat /\ \A b \in succeeded : b[2] \in Nat
    BY <2>1
  <2> QED
    BY <2>1, <2>2, <2>3
<1> QED
  BY <1>1, <1>2, <1>3, <1>4, <1>5, <1>6, <1>7, <1>8, <1>9, <1>10, <1>11, <1>12, <1>13, <1>14, <1>15, <1>16, <1>17, <1>18, <1>19, <1>20, <1>21, <1>22 DEF Next, Elasticsearch

(* No step harms a successful backup that is to be kept.                      *)
LEMMA KeptStep == IInv /\ TypeOK' /\ [Next]_vars => SuccessIsKept'
<1> SUFFICES ASSUME IInv, TypeOK', [Next]_vars PROVE SuccessIsKept'
  OBVIOUS
<1> USE BackupAssumption DEF IInv, TypeOK, FreshInv, ScriptInv, AfterEs, SuccessIsKept, DayOf, Backups, SnapshotStates
<1>1. CASE StartJob
  BY <1>1 DEF StartJob, Begin, disk, nights, copies, snapshots, history
<1>2. CASE SkipNight
  BY <1>2 DEF SkipNight, disk, nights, copies, snapshots, history
<1>3. CASE Abort
  BY <1>3 DEF Abort, AttemptOver, Begin, NoJob, disk, nights, copies, snapshots, history
<1>4. CASE Prune \/ PruneKilled
  <2>1. day \in 1 .. Horizon /\ UNCHANGED <<day, nightlySnap, succeeded>>
    BY <1>4, DailyStep DEF snapshots
  <2>2. PICK found \in SUBSET DailyOlder(0) : RemoveDaily(found)
    BY <1>4, DailyStep
  <2>3. /\ \A b \in found : day - DayOf(b) > RetentionDays
        /\ \A b \in daily \ found : b \in daily' /\ parts'[b] = parts[b]
    BY <2>1, <2>2, DailyRemoved
  <2>4. ASSUME NEW b \in succeeded, day - DayOf(b) <= RetentionDays
        PROVE  b \in daily' /\ parts'[b] = Parts /\ nightlySnap'[b] = "SUCCESS"
    <3>1. b \in daily /\ parts[b] = Parts /\ nightlySnap[b] = "SUCCESS"
      BY <2>4
    <3>2. b \notin found
      BY <2>1, <2>3, <2>4
    <3> QED BY <2>1, <2>3, <3>1, <3>2
  <2> QED
    BY <2>1, <2>4
<1>5. CASE MakeDirs
  BY <1>5 DEF MakeDirs, Goto, disk, nights, copies, snapshots, history
<1>6. CASE BackupCluster
  BY <1>6 DEF BackupCluster, Export, Goto, disk, nights, copies, snapshots, history
<1>7. CASE EsNightly
  BY <1>7 DEF EsNightly, Goto, disk, nights, copies, snapshots, history
<1>8. CASE EsNightlyFails
  BY <1>8 DEF EsNightlyFails, EsFails, Goto, disk, nights, copies, snapshots, history
<1>9. CASE EsMonthlyThere
  BY <1>9 DEF EsMonthlyThere, Goto, disk, nights, copies, snapshots, history
<1>10. CASE EsMonthlyTaken
  BY <1>10 DEF EsMonthlyTaken, Goto, disk, nights, copies, snapshots, history
<1>11. CASE EsMonthlyFails
  BY <1>11 DEF EsMonthlyFails, EsFails, Goto, disk, nights, copies, snapshots, history
<1>12. CASE EsPrune
  BY <1>12 DEF EsPrune, DeleteSnapshots, snapshots, OldNightly, OldMonthly, NightlySnapExpired, Goto, disk, nights, copies, snapshots, history
<1>13. CASE EsPruneFails
  BY <1>13 DEF EsPruneFails, EsFails, DeleteSnapshots, OldNightly, OldMonthly, NightlySnapExpired, Goto, disk, nights, copies, snapshots, history
<1>14. CASE BackupMongo
  BY <1>14 DEF BackupMongo, Export, Goto, disk, nights, copies, snapshots, history
<1>15. CASE BackupGrafana
  BY <1>15 DEF BackupGrafana, Export, Goto, disk, nights, copies, snapshots, history
<1>16. CASE Promote
  BY <1>16 DEF Promote, Goto, disk, nights, copies, snapshots, history
<1>17. CASE NoPromotion
  BY <1>17 DEF NoPromotion, Goto, disk, nights, copies, snapshots, history
<1>18. CASE CopyDone
  BY <1>18 DEF CopyDone, Goto, disk, nights, copies, snapshots, history
<1>19. CASE ExitSuccess
  BY <1>19 DEF ExitSuccess, NoJob, disk, nights, copies, snapshots, history
<1>20. CASE ExitFailed
  BY <1>20 DEF ExitFailed, AttemptOver, Begin, NoJob, disk, nights, copies, snapshots, history
<1>21. CASE UNCHANGED vars
  BY <1>21 DEF vars, disk, nights, copies, snapshots, history
<1>22. CASE PruneMonthly \/ PruneMonthlyKilled
  <2>1. UNCHANGED <<day, nights, snapshots>> /\ succeeded' \subseteq succeeded
    BY <1>22, MonthlyStep
  <2> QED
    BY <2>1 DEF nights, snapshots
<1> QED
  BY <1>1, <1>2, <1>3, <1>4, <1>5, <1>6, <1>7, <1>8, <1>9, <1>10, <1>11, <1>12, <1>13, <1>14, <1>15, <1>16, <1>17, <1>18, <1>19, <1>20, <1>21, <1>22 DEF Next, Elasticsearch

(* No step makes a partial copy pass for a whole one.                         *)
LEMMA WholeStep == IInv /\ TypeOK' /\ [Next]_vars => MonthlyIsAWholeBackup'
<1> SUFFICES ASSUME IInv, TypeOK', [Next]_vars PROVE MonthlyIsAWholeBackup'
  OBVIOUS
<1> USE MonthOfDay DEF IInv, TypeOK, ScriptInv, AfterEs, MonthlyIsAWholeBackup, ThisMonth
<1>1. CASE StartJob
  BY <1>1 DEF StartJob, Begin, disk, nights, copies, snapshots, history
<1>2. CASE SkipNight
  BY <1>2 DEF SkipNight, disk, nights, copies, snapshots, history
<1>3. CASE Abort
  BY <1>3 DEF Abort, AttemptOver, Begin, NoJob, disk, nights, copies, snapshots, history
<1>4. CASE Prune \/ PruneKilled
  <2>1. pc' # "copy" /\ pc # "copy" /\ UNCHANGED <<day, copies, esSucceeded, cut>>
    BY <1>4, DailyStep DEF AttemptOver, Begin, NoJob
  <2> QED
    BY <2>1 DEF copies
<1>5. CASE MakeDirs
  BY <1>5 DEF MakeDirs, Goto, disk, nights, copies, snapshots, history
<1>6. CASE BackupCluster
  BY <1>6 DEF BackupCluster, Export, Goto, disk, nights, copies, snapshots, history
<1>7. CASE EsNightly
  BY <1>7 DEF EsNightly, Goto, disk, nights, copies, snapshots, history
<1>8. CASE EsNightlyFails
  BY <1>8 DEF EsNightlyFails, EsFails, Goto, disk, nights, copies, snapshots, history
<1>9. CASE EsMonthlyThere
  BY <1>9 DEF EsMonthlyThere, Goto, disk, nights, copies, snapshots, history
<1>10. CASE EsMonthlyTaken
  BY <1>10 DEF EsMonthlyTaken, Goto, disk, nights, copies, snapshots, history
<1>11. CASE EsMonthlyFails
  BY <1>11 DEF EsMonthlyFails, EsFails, Goto, disk, nights, copies, snapshots, history
<1>12. CASE EsPrune
  BY <1>12 DEF EsPrune, DeleteSnapshots, snapshots, OldNightly, OldMonthly, NightlySnapExpired, Goto, disk, nights, copies, snapshots, history
<1>13. CASE EsPruneFails
  BY <1>13 DEF EsPruneFails, EsFails, DeleteSnapshots, OldNightly, OldMonthly, NightlySnapExpired, Goto, disk, nights, copies, snapshots, history
<1>14. CASE BackupMongo
  BY <1>14 DEF BackupMongo, Export, Goto, disk, nights, copies, snapshots, history
<1>15. CASE BackupGrafana
  BY <1>15 DEF BackupGrafana, Export, Goto, disk, nights, copies, snapshots, history
<1>16. CASE Promote
  BY <1>16 DEF Promote, Goto, disk, nights, copies, snapshots, history
<1>17. CASE NoPromotion
  BY <1>17 DEF NoPromotion, Goto, disk, nights, copies, snapshots, history
<1>18. CASE CopyDone
  BY <1>18 DEF CopyDone, Goto, disk, nights, copies, snapshots, history
<1>19. CASE ExitSuccess
  BY <1>19 DEF ExitSuccess, NoJob, disk, nights, copies, snapshots, history
<1>20. CASE ExitFailed
  BY <1>20 DEF ExitFailed, AttemptOver, Begin, NoJob, disk, nights, copies, snapshots, history
<1>21. CASE UNCHANGED vars
  BY <1>21 DEF vars, disk, nights, copies, snapshots, history
<1>22. CASE PruneMonthly \/ PruneMonthlyKilled
  <2>1. pc # "copy" /\ day' = day
    BY <1>22, MonthlyStep
  <2>2. PICK found \in SUBSET MonthlyOlder(0) : RemoveMonthly(found)
    BY <1>22, MonthlyStep
  <2>3. /\ cut \subseteq cut'
        /\ esSucceeded' = {b \in esSucceeded : \E m \in Months \ cut' : monthly'[m] = b}
        /\ \A m \in Months :
             /\ monthly'[m] # NoBackup => monthly'[m] = monthly[m]
             /\ monthly'[m] # NoBackup /\ m \notin cut' => copied'[m] = copied[m]
    BY <2>2, MonthlyRemoved
  <2>4. ASSUME NEW m \in Months, monthly'[m] # NoBackup, m \notin cut'
        PROVE  copied'[m] = Parts /\ monthly'[m] \in esSucceeded' /\ Month(DayOf(monthly'[m])) = m
    <3>1. monthly'[m] = monthly[m] /\ copied'[m] = copied[m] /\ m \notin cut /\ monthly[m] # NoBackup
      BY <2>3, <2>4
    <3>2. copied[m] = Parts /\ monthly[m] \in esSucceeded /\ Month(DayOf(monthly[m])) = m
      BY <2>1, <3>1
    <3> QED BY <2>3, <2>4, <3>1, <3>2
  <2> QED
    BY <2>4
<1> QED
  BY <1>1, <1>2, <1>3, <1>4, <1>5, <1>6, <1>7, <1>8, <1>9, <1>10, <1>11, <1>12, <1>13, <1>14, <1>15, <1>16, <1>17, <1>18, <1>19, <1>20, <1>21, <1>22 DEF Next, Elasticsearch

(* Directories beyond the retention are gone after pruning.                   *)
LEMMA RetentionStep == IInv /\ TypeOK' /\ [Next]_vars => RetentionApplies'
<1> SUFFICES ASSUME IInv, TypeOK', [Next]_vars PROVE RetentionApplies'
  OBVIOUS
<1> USE BackupAssumption DEF IInv, TypeOK, RetentionApplies, DayOf, Backups
<1>1. CASE StartJob
  BY <1>1 DEF StartJob, Begin, disk, nights, copies, snapshots, history
<1>2. CASE SkipNight
  BY <1>2 DEF SkipNight, disk, nights, copies, snapshots, history
<1>3. CASE Abort
  BY <1>3 DEF Abort, AttemptOver, Begin, NoJob, disk, nights, copies, snapshots, history
<1>4. CASE Prune \/ PruneKilled
  <2>1. day' = day
    BY <1>4, DailyStep
  <2>2. CASE Prune
    BY <2>1, <2>2, DailyPruned
  <2>3. CASE PruneKilled
    BY <2>3 DEF PruneKilled, AttemptOver, Begin, NoJob
  <2> QED
    BY <1>4, <2>2, <2>3
<1>5. CASE MakeDirs
  BY <1>5 DEF MakeDirs, Goto, disk, nights, copies, snapshots, history
<1>6. CASE BackupCluster
  BY <1>6 DEF BackupCluster, Export, Goto, disk, nights, copies, snapshots, history
<1>7. CASE EsNightly
  BY <1>7 DEF EsNightly, Goto, disk, nights, copies, snapshots, history
<1>8. CASE EsNightlyFails
  BY <1>8 DEF EsNightlyFails, EsFails, Goto, disk, nights, copies, snapshots, history
<1>9. CASE EsMonthlyThere
  BY <1>9 DEF EsMonthlyThere, Goto, disk, nights, copies, snapshots, history
<1>10. CASE EsMonthlyTaken
  BY <1>10 DEF EsMonthlyTaken, Goto, disk, nights, copies, snapshots, history
<1>11. CASE EsMonthlyFails
  BY <1>11 DEF EsMonthlyFails, EsFails, Goto, disk, nights, copies, snapshots, history
<1>12. CASE EsPrune
  BY <1>12 DEF EsPrune, DeleteSnapshots, snapshots, OldNightly, OldMonthly, NightlySnapExpired, Goto, disk, nights, copies, snapshots, history
<1>13. CASE EsPruneFails
  BY <1>13 DEF EsPruneFails, EsFails, DeleteSnapshots, OldNightly, OldMonthly, NightlySnapExpired, Goto, disk, nights, copies, snapshots, history
<1>14. CASE BackupMongo
  BY <1>14 DEF BackupMongo, Export, Goto, disk, nights, copies, snapshots, history
<1>15. CASE BackupGrafana
  BY <1>15 DEF BackupGrafana, Export, Goto, disk, nights, copies, snapshots, history
<1>16. CASE Promote
  BY <1>16 DEF Promote, Goto, disk, nights, copies, snapshots, history
<1>17. CASE NoPromotion
  BY <1>17 DEF NoPromotion, Goto, disk, nights, copies, snapshots, history
<1>18. CASE CopyDone
  BY <1>18 DEF CopyDone, Goto, disk, nights, copies, snapshots, history
<1>19. CASE ExitSuccess
  BY <1>19 DEF ExitSuccess, NoJob, disk, nights, copies, snapshots, history
<1>20. CASE ExitFailed
  BY <1>20 DEF ExitFailed, AttemptOver, Begin, NoJob, disk, nights, copies, snapshots, history
<1>21. CASE UNCHANGED vars
  BY <1>21 DEF vars, disk, nights, copies, snapshots, history
<1>22. CASE PruneMonthly \/ PruneMonthlyKilled
  <2>1. UNCHANGED <<day, nights, tried>> /\ pc = "prune_monthly"
    BY <1>22, MonthlyStep
  <2> QED
    BY <2>1 DEF nights
<1> QED
  BY <1>1, <1>2, <1>3, <1>4, <1>5, <1>6, <1>7, <1>8, <1>9, <1>10, <1>11, <1>12, <1>13, <1>14, <1>15, <1>16, <1>17, <1>18, <1>19, <1>20, <1>21, <1>22 DEF Next, Elasticsearch

(* A monthly directory is named after the month of its backup.                *)
LEMMA MonthStep == IInv /\ TypeOK' /\ [Next]_vars => MonthInv'
<1> SUFFICES ASSUME IInv, TypeOK', [Next]_vars PROVE MonthInv'
  OBVIOUS
<1> USE MonthOfDay DEF IInv, TypeOK, MonthInv, ThisMonth
<1>1. CASE StartJob
  BY <1>1 DEF StartJob, Begin, disk, nights, copies, snapshots, history
<1>2. CASE SkipNight
  BY <1>2 DEF SkipNight, disk, nights, copies, snapshots, history
<1>3. CASE Abort
  BY <1>3 DEF Abort, AttemptOver, Begin, NoJob, disk, nights, copies, snapshots, history
<1>4. CASE Prune \/ PruneKilled
  BY <1>4, DailyStep DEF copies
<1>5. CASE MakeDirs
  BY <1>5 DEF MakeDirs, Goto, disk, nights, copies, snapshots, history
<1>6. CASE BackupCluster
  BY <1>6 DEF BackupCluster, Export, Goto, disk, nights, copies, snapshots, history
<1>7. CASE EsNightly
  BY <1>7 DEF EsNightly, Goto, disk, nights, copies, snapshots, history
<1>8. CASE EsNightlyFails
  BY <1>8 DEF EsNightlyFails, EsFails, Goto, disk, nights, copies, snapshots, history
<1>9. CASE EsMonthlyThere
  BY <1>9 DEF EsMonthlyThere, Goto, disk, nights, copies, snapshots, history
<1>10. CASE EsMonthlyTaken
  BY <1>10 DEF EsMonthlyTaken, Goto, disk, nights, copies, snapshots, history
<1>11. CASE EsMonthlyFails
  BY <1>11 DEF EsMonthlyFails, EsFails, Goto, disk, nights, copies, snapshots, history
<1>12. CASE EsPrune
  BY <1>12 DEF EsPrune, DeleteSnapshots, snapshots, OldNightly, OldMonthly, NightlySnapExpired, Goto, disk, nights, copies, snapshots, history
<1>13. CASE EsPruneFails
  BY <1>13 DEF EsPruneFails, EsFails, DeleteSnapshots, OldNightly, OldMonthly, NightlySnapExpired, Goto, disk, nights, copies, snapshots, history
<1>14. CASE BackupMongo
  BY <1>14 DEF BackupMongo, Export, Goto, disk, nights, copies, snapshots, history
<1>15. CASE BackupGrafana
  BY <1>15 DEF BackupGrafana, Export, Goto, disk, nights, copies, snapshots, history
<1>16. CASE Promote
  BY <1>16 DEF Promote, Goto, disk, nights, copies, snapshots, history
<1>17. CASE NoPromotion
  BY <1>17 DEF NoPromotion, Goto, disk, nights, copies, snapshots, history
<1>18. CASE CopyDone
  BY <1>18 DEF CopyDone, Goto, disk, nights, copies, snapshots, history
<1>19. CASE ExitSuccess
  BY <1>19 DEF ExitSuccess, NoJob, disk, nights, copies, snapshots, history
<1>20. CASE ExitFailed
  BY <1>20 DEF ExitFailed, AttemptOver, Begin, NoJob, disk, nights, copies, snapshots, history
<1>21. CASE UNCHANGED vars
  BY <1>21 DEF vars, disk, nights, copies, snapshots, history
<1>22. CASE PruneMonthly \/ PruneMonthlyKilled
  <2>1. \A m \in Months : monthly'[m] # NoBackup => monthly'[m] = monthly[m]
    BY <1>22, MonthlyStep, MonthlyRemoved
  <2> QED
    BY <2>1
<1> QED
  BY <1>1, <1>2, <1>3, <1>4, <1>5, <1>6, <1>7, <1>8, <1>9, <1>10, <1>11, <1>12, <1>13, <1>14, <1>15, <1>16, <1>17, <1>18, <1>19, <1>20, <1>21, <1>22 DEF Next, Elasticsearch

(* Time of modification: of the backup's day, unless a removal failed.        *)
LEMMA AgeStep == IInv /\ TypeOK' /\ [Next]_vars => AgeInv'
<1> SUFFICES ASSUME IInv, TypeOK', [Next]_vars PROVE AgeInv'
  OBVIOUS
<1> USE MonthOfDay DEF IInv, TypeOK, AgeInv, ThisMonth
<1>1. CASE StartJob
  BY <1>1 DEF StartJob, Begin, disk, nights, copies, snapshots, history
<1>2. CASE SkipNight
  BY <1>2 DEF SkipNight, disk, nights, copies, snapshots, history
<1>3. CASE Abort
  BY <1>3 DEF Abort, AttemptOver, Begin, NoJob, disk, nights, copies, snapshots, history
<1>4. CASE Prune \/ PruneKilled
  <2>1. day \in 1 .. Horizon /\ UNCHANGED <<day, copies>>
    BY <1>4, DailyStep
  <2>2. PICK found \in SUBSET DailyOlder(0) : RemoveDaily(found)
    BY <1>4, DailyStep
  <2>3. /\ daily' \subseteq daily
        /\ \A b \in found : b \in daily /\ day - DayOf(b) > RetentionDays /\ mtime[b] <= day
        /\ \A b \in daily \ found : mtime'[b] = mtime[b] /\ tried'[b] = tried[b]
        /\ \A b \in daily' \cap found :
             tried'[b] = day /\ (mtime'[b] = mtime[b] \/ mtime'[b] = day)
    BY <2>1, <2>2, DailyRemoved
  <2>4. ASSUME NEW b \in daily'
        PROVE  /\ mtime'[b] >= DayOf(b)
               /\ mtime'[b] = DayOf(b) \/ (tried'[b] # 0 /\ mtime'[b] <= tried'[b])
    <3>1. b \in daily /\ mtime[b] \in Int /\ tried[b] \in Int /\ DayOf(b) \in Int /\ day \in Nat \ {0}
      BY <2>1, <2>3 DEF Backups, DayOf
    <3>2. /\ mtime[b] >= DayOf(b)
          /\ mtime[b] = DayOf(b) \/ (tried[b] # 0 /\ mtime[b] <= tried[b])
      BY <3>1
    <3>4. CASE b \in found
      <4>1. day - DayOf(b) > RetentionDays /\ RetentionDays \in Nat /\ mtime[b] <= day
        BY <2>3, <3>4, BackupAssumption
      <4>2. tried'[b] = day /\ (mtime'[b] = mtime[b] \/ mtime'[b] = day)
        BY <2>3, <3>4
      <4> QED BY <3>1, <3>2, <4>1, <4>2
    <3>5. CASE b \notin found
      BY <2>3, <3>1, <3>2, <3>5
    <3> QED BY <3>4, <3>5
  <2> QED
    BY <2>1, <2>4 DEF copies
<1>5. CASE MakeDirs
  BY <1>5 DEF MakeDirs, Goto, disk, nights, copies, snapshots, history
<1>6. CASE BackupCluster
  BY <1>6 DEF BackupCluster, Export, Goto, disk, nights, copies, snapshots, history
<1>7. CASE EsNightly
  BY <1>7 DEF EsNightly, Goto, disk, nights, copies, snapshots, history
<1>8. CASE EsNightlyFails
  BY <1>8 DEF EsNightlyFails, EsFails, Goto, disk, nights, copies, snapshots, history
<1>9. CASE EsMonthlyThere
  BY <1>9 DEF EsMonthlyThere, Goto, disk, nights, copies, snapshots, history
<1>10. CASE EsMonthlyTaken
  BY <1>10 DEF EsMonthlyTaken, Goto, disk, nights, copies, snapshots, history
<1>11. CASE EsMonthlyFails
  BY <1>11 DEF EsMonthlyFails, EsFails, Goto, disk, nights, copies, snapshots, history
<1>12. CASE EsPrune
  BY <1>12 DEF EsPrune, DeleteSnapshots, snapshots, OldNightly, OldMonthly, NightlySnapExpired, Goto, disk, nights, copies, snapshots, history
<1>13. CASE EsPruneFails
  BY <1>13 DEF EsPruneFails, EsFails, DeleteSnapshots, OldNightly, OldMonthly, NightlySnapExpired, Goto, disk, nights, copies, snapshots, history
<1>14. CASE BackupMongo
  BY <1>14 DEF BackupMongo, Export, Goto, disk, nights, copies, snapshots, history
<1>15. CASE BackupGrafana
  BY <1>15 DEF BackupGrafana, Export, Goto, disk, nights, copies, snapshots, history
<1>16. CASE Promote
  BY <1>16 DEF Promote, Goto, disk, nights, copies, snapshots, history
<1>17. CASE NoPromotion
  BY <1>17 DEF NoPromotion, Goto, disk, nights, copies, snapshots, history
<1>18. CASE CopyDone
  BY <1>18 DEF CopyDone, Goto, disk, nights, copies, snapshots, history
<1>19. CASE ExitSuccess
  BY <1>19 DEF ExitSuccess, NoJob, disk, nights, copies, snapshots, history
<1>20. CASE ExitFailed
  BY <1>20 DEF ExitFailed, AttemptOver, Begin, NoJob, disk, nights, copies, snapshots, history
<1>21. CASE UNCHANGED vars
  BY <1>21 DEF vars, disk, nights, copies, snapshots, history
<1>22. CASE PruneMonthly \/ PruneMonthlyKilled
  <2>1. UNCHANGED <<day, nights, tried>>
    BY <1>22, MonthlyStep
  <2>2. \A m \in Months : monthly'[m] # NoBackup =>
          /\ monthly'[m] = monthly[m]
          /\ monthlyMtime'[m] >= monthlyMtime[m]
    BY <1>22, MonthlyStep, MonthlyRemoved
  <2>3. ASSUME NEW m \in Months, monthly'[m] # NoBackup
        PROVE  monthlyMtime'[m] >= DayOf(monthly'[m])
    <3>1. monthly[m] \in Backups /\ monthly'[m] = monthly[m]
      BY <2>2, <2>3
    <3>2. DayOf(monthly[m]) \in Int
      BY <3>1 DEF Backups, DayOf
    <3> QED BY <2>2, <2>3, <3>1, <3>2
  <2> QED
    BY <2>1, <2>3 DEF nights
<1> QED
  BY <1>1, <1>2, <1>3, <1>4, <1>5, <1>6, <1>7, <1>8, <1>9, <1>10, <1>11, <1>12, <1>13, <1>14, <1>15, <1>16, <1>17, <1>18, <1>19, <1>20, <1>21, <1>22 DEF Next, Elasticsearch

(* No step takes away the copy of a successful month before its time.         *)
LEMMA MonthKeptStep == IInv /\ TypeOK' /\ [Next]_vars => SuccessfulMonthIsKept'
<1> SUFFICES ASSUME IInv, TypeOK', [Next]_vars PROVE SuccessfulMonthIsKept'
  OBVIOUS
<1> USE DEF IInv, TypeOK, ScriptInv, AfterEs, SuccessfulMonthIsKept, ThisMonth, DayOf, Backups
<1>1. CASE StartJob
  <2>1. UNCHANGED <<monthly, monthlySnap, succeeded>> /\ day' = day + 1
    BY <1>1 DEF StartJob, Begin, disk, nights, copies, snapshots, history
  <2>2. day \in Nat /\ day + 1 \in 0 .. Horizon
    BY <2>1
  <2>3. Month(day) \in Nat /\ Month(day + 1) \in Nat
    BY <2>2, MonthsAreNatural
  <2>5. Month(day) <= Month(day + 1)
    <3>1. (day + 1) - day >= 0 * CountedLength /\ 0 \in Nat
      BY <2>2, BackupAssumption
    <3>2. Month(day + 1) >= Month(day) + 0
      BY <2>2, <3>1, MonthsApart
    <3> QED BY <2>3, <3>2
  <2>4. ASSUME NEW b \in succeeded PROVE Month(DayOf(b)) \in Nat /\ MonthlyRetentionMonths \in Nat
    BY BackupAssumption, MonthOfDay, MonthsAreNatural DEF Backups, DayOf
  <2> HIDE DEF DayOf, Backups
  <2> QED
    BY <2>1, <2>3, <2>4, <2>5
<1>2. CASE SkipNight
  <2>1. UNCHANGED <<monthly, monthlySnap, succeeded>> /\ day' = day + 1
    BY <1>2 DEF SkipNight, Begin, disk, nights, copies, snapshots, history
  <2>2. day \in Nat /\ day + 1 \in 0 .. Horizon
    BY <2>1
  <2>3. Month(day) \in Nat /\ Month(day + 1) \in Nat
    BY <2>2, MonthsAreNatural
  <2>5. Month(day) <= Month(day + 1)
    <3>1. (day + 1) - day >= 0 * CountedLength /\ 0 \in Nat
      BY <2>2, BackupAssumption
    <3>2. Month(day + 1) >= Month(day) + 0
      BY <2>2, <3>1, MonthsApart
    <3> QED BY <2>3, <3>2
  <2>4. ASSUME NEW b \in succeeded PROVE Month(DayOf(b)) \in Nat /\ MonthlyRetentionMonths \in Nat
    BY BackupAssumption, MonthOfDay, MonthsAreNatural DEF Backups, DayOf
  <2> HIDE DEF DayOf, Backups
  <2> QED
    BY <2>1, <2>3, <2>4, <2>5
<1>3. CASE Abort
  BY <1>3 DEF Abort, AttemptOver, Begin, NoJob, disk, nights, copies, snapshots, history
<1>4. CASE Prune \/ PruneKilled
  <2>1. UNCHANGED <<day, copies, snapshots, succeeded>>
    BY <1>4, DailyStep
  <2> QED
    BY <2>1 DEF copies, snapshots
<1>5. CASE MakeDirs
  BY <1>5 DEF MakeDirs, Goto, disk, nights, copies, snapshots, history
<1>6. CASE BackupCluster
  BY <1>6 DEF BackupCluster, Export, Goto, disk, nights, copies, snapshots, history
<1>7. CASE EsNightly
  BY <1>7 DEF EsNightly, Goto, disk, nights, copies, snapshots, history
<1>8. CASE EsNightlyFails
  BY <1>8 DEF EsNightlyFails, EsFails, Goto, disk, nights, copies, snapshots, history
<1>9. CASE EsMonthlyThere
  BY <1>9 DEF EsMonthlyThere, Goto, disk, nights, copies, snapshots, history
<1>10. CASE EsMonthlyTaken
  <2>1. UNCHANGED <<day, monthly, succeeded>>
    BY <1>10 DEF EsMonthlyTaken, Goto, disk, nights, copies, history
  <2>2. \A m \in Months : monthlySnap[m] # "none" => monthlySnap'[m] # "none"
    BY <1>10, MonthOfDay DEF EsMonthlyTaken
  <2>3. \A b \in succeeded : Month(DayOf(b)) \in Months
    BY MonthOfDay DEF Backups, DayOf
  <2> HIDE DEF DayOf, Backups
  <2> QED
    BY <2>1, <2>2, <2>3
<1>11. CASE EsMonthlyFails
  <2>1. UNCHANGED <<day, monthly, succeeded>>
    BY <1>11 DEF EsMonthlyFails, EsFails, Goto, disk, nights, copies, history
  <2>2. \A m \in Months : monthlySnap[m] # "none" => monthlySnap'[m] # "none"
    BY <1>11, MonthOfDay DEF EsMonthlyFails
  <2>3. \A b \in succeeded : Month(DayOf(b)) \in Months
    BY MonthOfDay DEF Backups, DayOf
  <2> HIDE DEF DayOf, Backups
  <2> QED
    BY <2>1, <2>2, <2>3
<1>12. CASE EsPrune
  <2>1. UNCHANGED <<day, monthly, succeeded>>
    BY <1>12 DEF EsPrune, Goto, disk, nights, copies, history
  <2>2. \A m \in Months : monthlySnap[m] # "none" /\ monthlySnap'[m] = "none" =>
          m + MonthlyRetentionMonths < ThisMonth
    BY <1>12 DEF EsPrune, DeleteSnapshots, snapshots, OldMonthly, MonthlySnapExpired
  <2>3. ThisMonth \in Nat /\ MonthlyRetentionMonths \in Nat /\ \A m \in Months : m \in Nat
    BY BackupAssumption, MonthOfDay, MonthsAreNatural
  <2>4. \A b \in succeeded : Month(DayOf(b)) \in Months
    BY MonthOfDay DEF Backups, DayOf
  <2> HIDE DEF DayOf, Backups
  <2> QED
    BY <2>1, <2>2, <2>3, <2>4
<1>13. CASE EsPruneFails
  <2>1. UNCHANGED <<day, monthly, succeeded>>
    BY <1>13 DEF EsPruneFails, EsFails, Goto, disk, nights, copies, history
  <2>2. \A m \in Months : monthlySnap[m] # "none" /\ monthlySnap'[m] = "none" =>
          m + MonthlyRetentionMonths < ThisMonth
    BY <1>13 DEF EsPruneFails, DeleteSnapshots, OldMonthly, MonthlySnapExpired
  <2>3. ThisMonth \in Nat /\ MonthlyRetentionMonths \in Nat /\ \A m \in Months : m \in Nat
    BY BackupAssumption, MonthOfDay, MonthsAreNatural
  <2>4. \A b \in succeeded : Month(DayOf(b)) \in Months
    BY MonthOfDay DEF Backups, DayOf
  <2> HIDE DEF DayOf, Backups
  <2> QED
    BY <2>1, <2>2, <2>3, <2>4
<1>14. CASE BackupMongo
  BY <1>14 DEF BackupMongo, Export, Goto, disk, nights, copies, snapshots, history
<1>15. CASE BackupGrafana
  BY <1>15 DEF BackupGrafana, Export, Goto, disk, nights, copies, snapshots, history
<1>16. CASE Promote
  BY <1>16 DEF Promote, Goto, disk, nights, copies, snapshots, history
<1>17. CASE NoPromotion
  BY <1>17 DEF NoPromotion, Goto, disk, nights, copies, snapshots, history
<1>18. CASE CopyDone
  BY <1>18 DEF CopyDone, Goto, disk, nights, copies, snapshots, history
<1>19. CASE ExitSuccess
  BY <1>19 DEF ExitSuccess, NoJob, disk, nights, copies, snapshots, history
<1>20. CASE ExitFailed
  BY <1>20 DEF ExitFailed, AttemptOver, Begin, NoJob, disk, nights, copies, snapshots, history
<1>21. CASE UNCHANGED vars
  BY <1>21 DEF vars, disk, nights, copies, snapshots, history
<1>22. CASE PruneMonthly \/ PruneMonthlyKilled
  <2>1. \A m \in Months :
          monthly[m] # NoBackup /\ monthly'[m] = NoBackup => ThisMonth >= m + MonthlyRetentionMonths
    BY <1>22, MonthlyStep, MonthlyRemoved
  <2>2. UNCHANGED <<day, monthlySnap>> /\ succeeded' \subseteq succeeded
    BY <1>22, MonthlyStep DEF snapshots
  <2>3. ThisMonth \in Nat /\ MonthlyRetentionMonths \in Nat /\ \A m \in Months : m \in Nat
    BY BackupAssumption, MonthOfDay, MonthsAreNatural
  <2>4. \A b \in succeeded : Month(DayOf(b)) \in Months
    BY MonthOfDay DEF Backups, DayOf
  <2> HIDE DEF DayOf, Backups
  <2> QED
    BY <2>1, <2>2, <2>3, <2>4
<1> QED
  BY <1>1, <1>2, <1>3, <1>4, <1>5, <1>6, <1>7, <1>8, <1>9, <1>10, <1>11, <1>12, <1>13, <1>14, <1>15, <1>16, <1>17, <1>18, <1>19, <1>20, <1>21, <1>22 DEF Next, Elasticsearch

(* The invariant holds initially and is kept by every step.                   *)
LEMMA Inductive == Spec => []IInv
<1>1. Init => IInv
  <2> SUFFICES ASSUME Init PROVE IInv
    OBVIOUS
  <2>1. TypeOK
    <3>1. 0 \in 0 .. Horizon
      BY BackupAssumption
    <3> QED
      BY <3>1 DEF Init, TypeOK, Steps, SnapshotStates
  <2>2. ScriptInv /\ FreshInv /\ AgeInv /\ SuccessIsKept /\ MonthlyIsAWholeBackup /\ RetentionApplies
      /\ MonthInv /\ SuccessfulMonthIsKept
    BY DEF Init, MonthInv, AgeInv, SuccessfulMonthIsKept, ScriptInv, AfterEs, FreshInv, SuccessIsKept, MonthlyIsAWholeBackup, RetentionApplies
  <2> QED
    BY <2>1, <2>2 DEF IInv
<1>2. IInv /\ [Next]_vars => IInv'
  BY TypeStep, ScriptStep, FreshStep, AgeStep, KeptStep, WholeStep, RetentionStep,
     MonthStep, MonthKeptStep DEF IInv
<1> QED
  BY <1>1, <1>2, PTL DEF Spec

(* The type invariant of the job.                                             *)
THEOREM TypeCorrect == Spec => []TypeOK
<1>1. IInv => TypeOK
  BY DEF IInv
<1> QED
  BY <1>1, Inductive, PTL

(* A backup whose job succeeded keeps all its parts and its snapshot until    *)
(* the retention has passed, whatever the later nights do.                    *)
THEOREM SuccessfulBackupsAreKept == Spec => []SuccessIsKept
<1>1. IInv => SuccessIsKept
  BY DEF IInv
<1> QED
  BY <1>1, Inductive, PTL

(* A monthly copy that was not cut short is whole and comes from a night of   *)
(* its month in which Elasticsearch succeeded too.                            *)
THEOREM MonthlyCopiesAreWhole == Spec => []MonthlyIsAWholeBackup
<1>1. IInv => MonthlyIsAWholeBackup
  BY DEF IInv
<1> QED
  BY <1>1, Inductive, PTL

(* A month with a successful night keeps its copy and its snapshot until      *)
(* MonthlyRetentionMonths later, for every real length of a month that is     *)
(* not longer than the counted one.                                           *)
THEOREM SuccessfulMonthsAreKept == Spec => []SuccessfulMonthIsKept
<1>1. IInv => SuccessfulMonthIsKept
  BY DEF IInv
<1> QED
  BY <1>1, Inductive, PTL

(* After pruning no directory is there for longer than the retention since it *)
(* was made, or since its removal was last tried in vain: what a failed rm    *)
(* leaves is at worst as young as that night, and is found again.             *)
THEOREM OldBackupsGo == Spec => []RetentionApplies
<1>1. IInv => RetentionApplies
  BY DEF IInv
<1> QED
  BY <1>1, Inductive, PTL
==============================================================================
