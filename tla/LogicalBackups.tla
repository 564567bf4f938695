---------------------------- MODULE LogicalBackups ----------------------------
(***************************************************************************)
(* Logical backups and their restores                                      *)
(* (backend/internal/modules/backups/internal/logical, restore, configsave).*)
(* A start inserts a row and hands it to a goroutine, which dumps, writes  *)
(* a sidecar and publishes both files and the row in one transaction.      *)
(* Users cancel, delete, restore and move backups meanwhile; the scheduler *)
(* starts and retries; the process stops, dies and recovers.               *)
(*                                                                         *)
(* What the model abstracts:                                               *)
(*  - the file store is its promise (FileFate): a file is written with a   *)
(*    receipt that may still be lost, kept, or nothing but the store's     *)
(*    concern (never written, owed a deletion, removed): "loose";          *)
(*  - a transaction is one step, or two where another party can come       *)
(*    between the rows it locks and what it does with them; one removal    *)
(*    runs at a time (removals of the same rows wait for each other);      *)
(*  - every id is used once; the order of ids in "history" is created_at;  *)
(*  - access checks, audit events, notifications, sizes and encryption     *)
(*    fields are left out;                                                 *)
(***************************************************************************)
EXTENDS Naturals, Sequences, FiniteSets

CONSTANTS
    Databases, Storages,
    Enabled,             \* databases whose config enables scheduled backups
    Backups,             \* ids of logical backups
    Restores,            \* ids of restores
    None,
    MaxFailedTriesCount, \* of every backup config; 0 for one without IsRetryIfFailed
    MaxSlots,            \* bound: slots of the schedules
    MaxDisturbances      \* bound: errors, lost receipts, time limits, cancels, stops, crashes

ASSUME EnabledAssumption == Enabled \subseteq Databases
ASSUME BoundsAssumption == MaxFailedTriesCount \in Nat /\ MaxSlots \in Nat
                             /\ MaxDisturbances \in Nat
ASSUME NoneAssumption ==
    None \notin {"manual", "schedule", "retry", "removal"} \cup Storages \cup Backups

VARIABLES
    app,          \* the process: up, stopping, down, or between its recovery steps
    dbs,          \* databases that exist
    config,       \* [Databases -> the storage the backup config names, or None]
    lock,         \* [Databases -> who holds the row lock of the database, or None]
    seen,         \* [Databases -> the storage the lock holder's start has read]
    slot,         \* slots of the schedules that have passed
    due,          \* [Databases -> why the running scheduler pass starts a backup]
    history,      \* backups in the order of their insertion
    status,       \* [Backups -> status of the row, or unused, or removed]
    of,           \* [Backups -> database]
    dest,         \* [Backups -> storage]
    startedBy,    \* [Backups -> manual, schedule or retry]
    madeIn,       \* [Backups -> slot at the time of the insert, for created_at]
    files,        \* [Backups -> [data, sidecar -> what the file store holds]]
    run,          \* [Backups -> where the goroutine of the backup is]
    cause,        \* [Backups -> cause of the ended run context, or None]
    registered,   \* the cancellation registry
    cancelling,   \* backups a cancel request found running and has yet to cancel
    removal,      \* the removal transaction, or None
    rstatus,      \* [Restores -> status of the row, or unused, checked, ...]
    rof,          \* [Restores -> backup]
    rrun,         \* [Restores -> where the goroutine of the restore is]
    rcancelled,   \* restores whose run context a cancel or a stop ended
    disturbances

configVars  == <<dbs, config, lock, seen>>
schedVars   == <<slot, due>>
factVars    == <<history, of, dest, startedBy, madeIn>>
rowVars     == <<status, factVars>>
runVars     == <<run, cause, registered, cancelling>>
restoreVars == <<rstatus, rof, rrun, rcancelled>>
vars == <<app, configVars, schedVars, rowVars, files, runVars, removal, restoreVars,
          disturbances>>

Parts == {"data", "sidecar"}
Terminal == {"COMPLETED", "FAILED", "CANCELED"}
HasRow(b) == status[b] \in Terminal \cup {"IN_PROGRESS"}
RowsOf(d) == {b \in Backups : HasRow(b) /\ of[b] = d}
Running(b) == run[b] \notin {"none", "ended"}

\* A restore whose insert has not committed holds a key share lock on its backup.
Inserting(r) == rstatus[r] = "inserting"
IsRestoreRunningForBackups(B) == \E r \in Restores : rof[r] \in B /\ rstatus[r] = "IN_PROGRESS"

\* Rows the removal transaction has locked FOR UPDATE.
Locked(b) == removal # None /\ b \in removal.ids

Disturbed == /\ disturbances < MaxDisturbances
             /\ disturbances' = disturbances + 1
Calm == UNCHANGED disturbances

Init ==
    /\ app = "up"
    /\ dbs = Databases
    /\ config \in [Databases -> Storages \cup {None}]
    /\ lock = [d \in Databases |-> None]
    /\ seen = [d \in Databases |-> None]
    /\ slot = 0 /\ due = [d \in Databases |-> None]
    /\ history = <<>>
    /\ status = [b \in Backups |-> "unused"]
    /\ of = [b \in Backups |-> None]
    /\ dest = [b \in Backups |-> None]
    /\ startedBy = [b \in Backups |-> None]
    /\ madeIn = [b \in Backups |-> 0]
    /\ files = [b \in Backups |-> [p \in Parts |-> "loose"]]
    /\ run = [b \in Backups |-> "none"]
    /\ cause = [b \in Backups |-> None]
    /\ registered = {} /\ cancelling = {}
    /\ removal = None
    /\ rstatus = [r \in Restores |-> "unused"]
    /\ rof = [r \in Restores |-> None]
    /\ rrun = [r \in Restores |-> "none"] /\ rcancelled = {}
    /\ disturbances = 0

-----------------------------------------------------------------------------
(* The scheduler decides what to start from one read of the newest backups. *)

\* The i-th largest number of a set: of places in the history, the i-th newest.
Largest(S, i) == CHOOSE r \in S : Cardinality({t \in S : t >= r}) = i

\* The rows of a database, newest first.
Newest(d) ==
    LET rows == {n \in DOMAIN history : history[n] \in RowsOf(d)}
    IN  [i \in 1 .. Cardinality(rows) |-> history[Largest(rows, i)]]

\* Mutant of IsRetryDue: one failure too many is retried.
IsRetryDueOnceMore(newest) ==
    /\ status[newest[1]] = "FAILED"
    /\ Cardinality({n \in 1 .. Len(newest) :
                       n <= MaxFailedTriesCount /\ status[newest[n]] = "FAILED"})
          <= MaxFailedTriesCount

\* isRetryDue: the last backup failed, and fewer of the newest backups than allowed.
IsRetryDue(newest) ==
    /\ status[newest[1]] = "FAILED"
    /\ Cardinality({n \in 1 .. Len(newest) :
                       n <= MaxFailedTriesCount /\ status[newest[n]] = "FAILED"})
          < MaxFailedTriesCount

\* getDueBackups for one database: why a backup is due, if it is.
DueReason(d) ==
    LET newest == Newest(d)
        isIdle == newest = <<>> \/ status[newest[1]] # "IN_PROGRESS"
        isScheduleDue == newest = <<>> \/ madeIn[newest[1]] < slot
    IN  IF d \notin dbs \cap Enabled \/ config[d] = None \/ ~isIdle THEN None
        ELSE IF isScheduleDue THEN "schedule"
        ELSE IF IsRetryDue(newest) THEN "retry" ELSE None

\* runSchedulerPass, up to the first start: passes do not overlap.
RunSchedulerPass ==
    /\ app = "up"
    /\ \A d \in Databases : due[d] = None /\ lock[d] \notin {"schedule", "retry"}
    /\ due' = [d \in Databases |-> DueReason(d)]
    /\ due' # due
    /\ UNCHANGED <<app, configVars, slot, rowVars, files, runVars, removal, restoreVars>>
    /\ Calm

\* startScheduledBackup no longer finds the database, and the pass goes on.
SkipStart(d) ==
    /\ due[d] # None /\ d \notin dbs
    /\ due' = [due EXCEPT ![d] = None]
    /\ UNCHANGED <<app, configVars, slot, rowVars, files, runVars, removal, restoreVars>>
    /\ Calm

\* The clock passes a slot.  (Weekly and monthly slots that lapse unused are left out.)
SlotComes ==
    /\ slot < MaxSlots
    /\ slot' = slot + 1
    /\ UNCHANGED <<app, configVars, due, rowVars, files, runVars, removal, restoreVars>>
    /\ Calm

-----------------------------------------------------------------------------
(* startBackup: one transaction under the row lock of the database.          *)

\* LockAndGetLogicalBackupConfig.
LockForStart(d, by) ==
    /\ app \in {"up", "stopping"} /\ lock[d] = None /\ d \in dbs
    /\ by = "manual" \/ due[d] = by
    /\ due' = IF by = "manual" THEN due ELSE [due EXCEPT ![d] = None]
    /\ lock' = [lock EXCEPT ![d] = by]
    /\ seen' = [seen EXCEPT ![d] = config[d]]
    /\ UNCHANGED <<app, dbs, config, slot, rowVars, files, runVars, removal, restoreVars>>
    /\ Calm

\* Mutants of MayInsert: without the unique index, and without the storage check.
MayInsertSecond(d) == seen[d] # None
MayInsertAnywhere(d) == \A b \in RowsOf(d) : status[b] # "IN_PROGRESS"

\* The partial unique index allows one running backup of a database.
MayInsert(d) == seen[d] # None /\ \A b \in RowsOf(d) : status[b] # "IN_PROGRESS"

\* The insert commits.  When the commit's answer is lost, startBackup returns the error
\* before launchRun: nobody works for the row, and a restart fails it.
InsertBackup(d, b) ==
    /\ lock[d] \in {"manual", "schedule", "retry"}
    /\ status[b] = "unused" /\ MayInsert(d)
    /\ status' = [status EXCEPT ![b] = "IN_PROGRESS"]
    /\ of' = [of EXCEPT ![b] = d]
    /\ dest' = [dest EXCEPT ![b] = seen[d]]
    /\ startedBy' = [startedBy EXCEPT ![b] = lock[d]]
    /\ history' = Append(history, b)
    /\ madeIn' = [madeIn EXCEPT ![b] = slot]
    /\ \/ run' = [run EXCEPT ![b] = "launched"] /\ Calm
       \/ UNCHANGED run /\ Disturbed
    /\ lock' = [lock EXCEPT ![d] = None]
    /\ seen' = [seen EXCEPT ![d] = None]
    /\ UNCHANGED <<app, dbs, config, schedVars, files, cause, registered, cancelling,
                   removal, restoreVars>>

\* No storage, a running backup, or an error rolls the transaction back.  (A start with
\* no id left in the model ends here too.)
RefuseStart(d) ==
    /\ lock[d] \in {"manual", "schedule", "retry"}
    /\ IF MayInsert(d) /\ \E b \in Backups : status[b] = "unused" THEN Disturbed ELSE Calm
    /\ lock' = [lock EXCEPT ![d] = None]
    /\ seen' = [seen EXCEPT ![d] = None]
    /\ UNCHANGED <<app, dbs, config, schedVars, rowVars, files, runVars, removal, restoreVars>>

\* launchRun: the run context derives from the application's, then the cancel
\* function is registered and the goroutine starts.
LaunchRun(b) ==
    /\ run[b] = "launched"
    /\ run' = [run EXCEPT ![b] = "dumping"]
    /\ cause' = [cause EXCEPT ![b] = IF app = "stopping" THEN "shutdown" ELSE None]
    /\ registered' = registered \cup {b}
    /\ UNCHANGED <<app, configVars, schedVars, rowVars, files, cancelling, removal,
                   restoreVars>>
    /\ Calm

-----------------------------------------------------------------------------
(* runBackup.                                                                *)

\* The end of the goroutine: the deferred Unregister and release.
EndRun(b) == /\ run' = [run EXCEPT ![b] = "ended"]
             /\ registered' = registered \ {b}
             /\ cause' = [cause EXCEPT ![b] = None]

\* pipeline.RunBackup returns a receipt.  It may do so although the context just ended.
DumpSucceeds(b) ==
    /\ run[b] = "dumping"
    /\ run' = [run EXCEPT ![b] = "dumped"]
    /\ files' = [files EXCEPT ![b]["data"] = "written"]
    /\ UNCHANGED <<app, configVars, schedVars, rowVars, cause, registered, cancelling,
                   removal, restoreVars>>
    /\ Calm

\* The config cannot be read, or the dump or its write fails.  DescribeBackupInterruption:
\* an ended run context decides what the error was.
DumpFails(b) ==
    /\ run[b] = "dumping"
    /\ \/ /\ cause[b] # None
          /\ run' = [run EXCEPT ![b] = IF cause[b] = "cancel" THEN "canceling" ELSE "failing"]
          /\ Calm
       \/ /\ run' = [run EXCEPT ![b] = "failing"]
          /\ Disturbed
    /\ UNCHANGED <<app, configVars, schedVars, rowVars, files, cause, registered, cancelling, removal, restoreVars>>

\* writeMetadataFile runs on a context that the run's end does not touch.
WriteMetadataFile(b) ==
    /\ run[b] = "dumped"
    /\ \/ /\ files' = [files EXCEPT ![b]["sidecar"] = "written"]
          /\ run' = [run EXCEPT ![b] = "publishing"]
          /\ Calm
       \/ /\ run' = [run EXCEPT ![b] = "failing"]
          /\ UNCHANGED files
          /\ Disturbed
    /\ UNCHANGED <<app, configVars, schedVars, rowVars, cause, registered, cancelling,
                   removal, restoreVars>>

\* The publication transaction spends both receipts and completes a running row.
MayPublish(b) ==
    /\ \A p \in Parts : files[b][p] = "written"
    /\ status[b] = "IN_PROGRESS" /\ of[b] \in dbs

PublishBackup(b) ==
    /\ run[b] = "publishing" /\ ~Locked(b) /\ MayPublish(b)
    /\ status' = [status EXCEPT ![b] = "COMPLETED"]
    /\ files' = [files EXCEPT ![b] = [p \in Parts |-> "kept"]]
    /\ \/ EndRun(b) /\ Calm
       \/ \* the commit's answer is lost: the run takes it for a failure
          /\ run' = [run EXCEPT ![b] = "failing"]
          /\ UNCHANGED <<registered, cause>>
          /\ Disturbed
    /\ UNCHANGED <<app, configVars, schedVars, factVars, cancelling,
                   removal, restoreVars>>

RefusePublication(b) ==
    /\ run[b] = "publishing" /\ ~Locked(b)
    /\ IF MayPublish(b) THEN Disturbed ELSE Calm
    /\ run' = [run EXCEPT ![b] = "failing"]
    /\ UNCHANGED <<app, configVars, schedVars, rowVars, files, cause, registered, cancelling, removal, restoreVars>>

\* RequestFileDeletions of the backups in B.
Discard(B) == [b \in Backups |-> IF b \in B THEN [p \in Parts |-> "loose"] ELSE files[b]]

\* Receipts that nobody holds any more: the store removes their files in its own time.
DropReceipts(B) ==
    [b \in Backups |-> [p \in Parts |->
        IF b \in B /\ files[b][p] = "written" THEN "loose" ELSE files[b][p]]]

\* Mutants of EndBackupAndDiscardFiles: the files go although the row was not running,
\* and the row is updated whatever its status.
DiscardAlways(b, final) ==
    /\ status' = [status EXCEPT ![b] = IF @ = "IN_PROGRESS" THEN final ELSE @]
    /\ files' = Discard({b})

EndBackupAlways(b, final) ==
    /\ status' = [status EXCEPT ![b] = IF HasRow(b) THEN final ELSE @]
    /\ files' = Discard({b})

\* endBackupAndDiscardFiles: a row that is no longer running keeps state and files.
EndBackupAndDiscardFiles(b, final) ==
    IF status[b] = "IN_PROGRESS"
    THEN /\ status' = [status EXCEPT ![b] = final]
         /\ files' = Discard({b})
    ELSE UNCHANGED <<status, files>>

\* failBackup and cancelBackup.  An error of the transaction is only logged.
EndFailedRun(b) ==
    /\ run[b] \in {"failing", "canceling"} /\ ~Locked(b)
    /\ EndRun(b)
    /\ \/ /\ EndBackupAndDiscardFiles(b, IF run[b] = "failing" THEN "FAILED" ELSE "CANCELED")
          /\ Calm
       \/ /\ UNCHANGED status
          /\ files' = DropReceipts({b})
          /\ Disturbed
    /\ UNCHANGED <<app, configVars, schedVars, factVars, cancelling,
                   removal, restoreVars>>

\* The time limit of the run.
ReachTimeLimit(b) ==
    /\ Running(b) /\ run[b] # "launched" /\ cause[b] = None
    /\ cause' = [cause EXCEPT ![b] = "timeout"]
    /\ UNCHANGED <<app, configVars, schedVars, rowVars, files, run, registered, cancelling, removal, restoreVars>>
    /\ Disturbed

-----------------------------------------------------------------------------
(* CancelBackup: a read and an audit transaction, then the registry.         *)

RequestCancel(b) ==
    /\ app \in {"up", "stopping"} /\ status[b] = "IN_PROGRESS" /\ b \notin cancelling
    /\ cancelling' = cancelling \cup {b}
    /\ UNCHANGED <<app, configVars, schedVars, rowVars, files, run, cause, registered,
                   removal, restoreVars>>
    /\ Disturbed

Cancel(b) ==
    /\ b \in cancelling
    /\ cancelling' = cancelling \ {b}
    /\ registered' = registered \ {b}
    /\ cause' = IF b \in registered /\ cause[b] = None
                THEN [cause EXCEPT ![b] = "cancel"] ELSE cause
    /\ UNCHANGED <<app, configVars, schedVars, rowVars, files, run, removal, restoreVars>>
    /\ Calm

-----------------------------------------------------------------------------
(* Removals: rows are locked, looked at, and go with their files.            *)

\* DeleteBackup and removeExpiredBackup lock one row.
LockBackup(b) ==
    /\ app = "up" /\ removal = None /\ HasRow(b)
    /\ \A r \in Restores : Inserting(r) => rof[r] # b
    /\ removal' = [kind |-> "backup", db |-> of[b], ids |-> {b}, target |-> None]
    /\ UNCHANGED <<app, configVars, schedVars, rowVars, files, runVars, restoreVars>>
    /\ Calm

\* Mutant of LockDatabaseBackups: the storage set after a cleared one keeps the history.
LockUnlessCleared(d, kind, target) ==
    /\ app = "up" /\ removal = None /\ d \in dbs /\ lock[d] = None
    /\ kind = "storage" => target # config[d]
    /\ lock' = [lock EXCEPT ![d] = "removal"]
    /\ removal' = [kind |-> kind, db |-> d, target |-> target,
                   ids |-> IF kind = "storage" /\ config[d] = None THEN {} ELSE RowsOf(d)]
    /\ UNCHANGED <<app, dbs, config, seen, schedVars, rowVars, files, runVars, restoreVars>>
    /\ Calm

\* OnDatabaseDeleting, and a config save that names another storage: both hold the
\* lock of the database and then lock all its backups.
LockDatabaseBackups(d, kind, target) ==
    /\ app = "up" /\ removal = None /\ d \in dbs /\ lock[d] = None
    /\ kind = "storage" => target # config[d]
    /\ \A r \in Restores : Inserting(r) => rof[r] \notin RowsOf(d)
    /\ lock' = [lock EXCEPT ![d] = "removal"]
    /\ removal' = [kind |-> kind, db |-> d, ids |-> RowsOf(d), target |-> target]
    /\ UNCHANGED <<app, dbs, config, seen, schedVars, rowVars, files, runVars, restoreVars>>
    /\ Calm

\* Mutant of MayRemove: restores are not asked.
MayRemoveUnderRestore == \A b \in removal.ids : status[b] # "IN_PROGRESS"

\* A running backup or a restore that reads one refuses the removal.
MayRemove ==
    /\ \A b \in removal.ids : status[b] # "IN_PROGRESS"
    /\ ~IsRestoreRunningForBackups(IF removal.kind = "backup" THEN removal.ids
                                   ELSE {b \in Backups : of[b] = removal.db})

ReleaseRemoval ==
    /\ removal' = None
    /\ lock' = IF removal.kind = "backup" THEN lock ELSE [lock EXCEPT ![removal.db] = None]

\* deleteBackupsWithFiles: the rows, their restores and their files in one commit.
Remove ==
    /\ removal # None /\ MayRemove
    /\ status' = [b \in Backups |-> IF b \in removal.ids THEN "removed" ELSE status[b]]
    /\ files' = Discard(removal.ids)
    /\ rstatus' = [r \in Restores |-> IF rof[r] \in removal.ids /\ ~Inserting(r)
                                         /\ rstatus[r] \notin {"checked", "refused"}
                                      THEN "removed" ELSE rstatus[r]]
    /\ config' = IF removal.kind = "storage"
                 THEN [config EXCEPT ![removal.db] = removal.target] ELSE config
    /\ dbs' = IF removal.kind = "database" THEN dbs \ {removal.db} ELSE dbs
    /\ ReleaseRemoval
    /\ UNCHANGED <<app, seen, schedVars, factVars, runVars, rof, rrun,
                   rcancelled>>
    /\ Calm

RefuseRemoval ==
    /\ removal # None
    /\ IF MayRemove THEN Disturbed ELSE Calm
    /\ ReleaseRemoval
    /\ UNCHANGED <<app, dbs, config, seen, schedVars, rowVars, files, runVars, restoreVars>>

\* A save without a storage keeps the history.
ClearStorage(d) ==
    /\ app = "up" /\ d \in dbs /\ lock[d] = None /\ config[d] # None
    /\ config' = [config EXCEPT ![d] = None]
    /\ UNCHANGED <<app, dbs, lock, seen, schedVars, rowVars, files, runVars, removal, restoreVars>>
    /\ Calm

-----------------------------------------------------------------------------
(* Restores.                                                                 *)

\* StartRestore finds a completed backup, then opens the target.
CheckRestore(r, b) ==
    /\ app \in {"up", "stopping"} /\ rstatus[r] = "unused" /\ status[b] = "COMPLETED"
    /\ rstatus' = [rstatus EXCEPT ![r] = "checked"]
    /\ rof' = [rof EXCEPT ![r] = b]
    /\ UNCHANGED <<app, configVars, schedVars, rowVars, files, runVars, removal, rrun, rcancelled>>
    /\ Calm

\* The insert waits for a removal of its backup, takes the key share lock of the
\* reference and passes the partial unique index.
InsertRestore(r) ==
    /\ rstatus[r] = "checked" /\ HasRow(rof[r]) /\ ~Locked(rof[r])
    /\ \A q \in Restores : (Inserting(q) \/ rstatus[q] = "IN_PROGRESS") => of[rof[q]] # of[rof[r]]
    /\ rstatus' = [rstatus EXCEPT ![r] = "inserting"]
    /\ UNCHANGED <<app, configVars, schedVars, rowVars, files, runVars, removal, rof, rrun,
                   rcancelled>>
    /\ Calm

\* A commit whose answer is lost leaves a row that no goroutine works for.
CommitRestore(r) ==
    /\ Inserting(r)
    /\ rstatus' = [rstatus EXCEPT ![r] = "IN_PROGRESS"]
    /\ \/ /\ rrun' = [rrun EXCEPT ![r] = "running"]
          /\ rcancelled' = IF app = "stopping" THEN rcancelled \cup {r} ELSE rcancelled
          /\ Calm
       \/ UNCHANGED <<rrun, rcancelled>> /\ Disturbed
    /\ UNCHANGED <<app, configVars, schedVars, rowVars, files, runVars, removal, rof>>

\* The backup is gone, another restore runs, the target cannot be opened, or the
\* transaction rolls back.
RefuseRestore(r) ==
    /\ rstatus[r] \in {"checked", "inserting"}
    /\ rstatus' = [rstatus EXCEPT ![r] = "refused"]
    /\ UNCHANGED <<app, configVars, schedVars, rowVars, files, runVars, removal, rof, rrun,
                   rcancelled>>
    /\ Calm

CancelRestore(r) ==
    /\ rstatus[r] = "IN_PROGRESS" /\ rrun[r] = "running" /\ r \notin rcancelled
    /\ rcancelled' = rcancelled \cup {r}
    /\ UNCHANGED <<app, configVars, schedVars, rowVars, files, runVars, removal, rstatus, rof,
                   rrun>>
    /\ Calm

\* runRestore ends.  A restore whose outcome cannot be written stays in progress.
EndRestore(r) ==
    /\ rrun[r] = "running"
    /\ rrun' = [rrun EXCEPT ![r] = "ended"]
    /\ \/ /\ \E final \in {"COMPLETED"} \cup (IF r \in rcancelled THEN {"CANCELED", "FAILED"}
                                              ELSE {"FAILED"}) :
                rstatus' = [rstatus EXCEPT ![r] = IF @ = "IN_PROGRESS" THEN final ELSE @]
          /\ Calm
       \/ UNCHANGED rstatus /\ Disturbed
    /\ UNCHANGED <<app, configVars, schedVars, rowVars, files, runVars, removal, rof, rcancelled>>

-----------------------------------------------------------------------------
(* The file store, by its promise.                                           *)

\* A receipt is lost: its commit window passed, or its protection failed.
LoseReceipt(b, p) ==
    /\ files[b][p] = "written"
    /\ files' = [files EXCEPT ![b][p] = "loose"]
    /\ UNCHANGED <<app, configVars, schedVars, rowVars, runVars, removal, restoreVars>>
    /\ Disturbed

-----------------------------------------------------------------------------
(* The process.                                                              *)

\* A stop signal ends the application's context and with it every run context.
Shutdown ==
    /\ app = "up"
    /\ app' = "stopping"
    /\ cause' = [b \in Backups |-> IF Running(b) /\ run[b] # "launched" /\ cause[b] = None
                                   THEN "shutdown" ELSE cause[b]]
    /\ rcancelled' = rcancelled \cup {r \in Restores : rrun[r] = "running"}
    /\ due' = [d \in Databases |-> None]
    /\ UNCHANGED <<configVars, slot, rowVars, files, run, registered, cancelling,
                   removal, rstatus, rof, rrun>>
    /\ Disturbed

\* The process dies, or exits after a stop: memory and open transactions are gone.
Exit ==
    /\ app \in {"up", "stopping", "recovering"}
    /\ app' = "down"
    /\ IF app = "stopping" THEN Calm ELSE Disturbed
    /\ lock' = [d \in Databases |-> None] /\ seen' = [d \in Databases |-> None]
    /\ due' = [d \in Databases |-> None]
    /\ run' = [b \in Backups |-> IF Running(b) THEN "none" ELSE run[b]]
    /\ files' = DropReceipts(Backups)
    /\ cause' = [b \in Backups |-> None]
    /\ registered' = {} /\ cancelling' = {}
    /\ removal' = None
    /\ rstatus' = [r \in Restores |-> IF rstatus[r] \in {"checked", "inserting"}
                                      THEN "refused" ELSE rstatus[r]]
    /\ rrun' = [r \in Restores |-> IF rrun[r] = "running" THEN "none" ELSE rrun[r]]
    /\ rcancelled' = {}
    /\ UNCHANGED <<dbs, config, slot, rowVars, rof>>

\* Mutant of RecoverBackups: what the previous process left stays in progress.
RecoverNoBackups ==
    /\ app = "down"
    /\ app' = "recovering"
    /\ UNCHANGED <<configVars, schedVars, rowVars, files, runVars, removal, restoreVars>>
    /\ Calm

\* logical.Service.Start fails what the previous process left in progress.
RecoverBackups ==
    LET left == {b \in Backups : status[b] = "IN_PROGRESS"} IN
    /\ app = "down"
    /\ app' = "recovering"
    /\ status' = [b \in Backups |-> IF b \in left THEN "FAILED" ELSE status[b]]
    /\ files' = Discard(left)
    /\ UNCHANGED <<configVars, schedVars, factVars, runVars, removal,
                   restoreVars>>
    /\ Calm

\* restore.Service.Start does the same for restores, then requests are served.
RecoverRestores ==
    /\ app = "recovering"
    /\ app' = "up"
    /\ rstatus' = [r \in Restores |-> IF rstatus[r] = "IN_PROGRESS" THEN "FAILED" ELSE rstatus[r]]
    /\ UNCHANGED <<configVars, schedVars, rowVars, files, runVars, removal, rof, rrun, rcancelled>>
    /\ Calm

-----------------------------------------------------------------------------
StartStep ==
    \/ \E d \in Databases : \/ \E by \in {"manual", "schedule", "retry"} : LockForStart(d, by)
                            \/ \E b \in Backups : InsertBackup(d, b)
                            \/ RefuseStart(d) \/ SkipStart(d)

RunStep(b) ==
    \/ LaunchRun(b) \/ DumpSucceeds(b) \/ DumpFails(b) \/ WriteMetadataFile(b)
    \/ PublishBackup(b) \/ RefusePublication(b) \/ EndFailedRun(b)

RemovalStep == Remove \/ RefuseRemoval

RestoreStep(r) == InsertRestore(r) \/ CommitRestore(r) \/ RefuseRestore(r) \/ EndRestore(r)

Next ==
    \/ RunSchedulerPass \/ SlotComes \/ \E d \in Databases : ClearStorage(d)
    \/ StartStep
    \/ \E b \in Backups : \/ RunStep(b) \/ ReachTimeLimit(b)
                          \/ RequestCancel(b) \/ Cancel(b) \/ LockBackup(b)
    \/ \E d \in Databases : \/ LockDatabaseBackups(d, "database", None)
                            \/ \E s \in Storages : LockDatabaseBackups(d, "storage", s)
    \/ RemovalStep
    \/ \E r \in Restores : RestoreStep(r) \/ CancelRestore(r) \/ \E b \in Backups : CheckRestore(r, b)
    \/ \E b \in Backups, p \in Parts : LoseReceipt(b, p)
    \/ Shutdown \/ Exit \/ RecoverBackups \/ RecoverRestores

\* Goroutines run, transactions end, a stopping process exits and a supervisor
\* starts it again.  Nobody has to start, cancel, delete or restore anything.  A run
\* that waits for its row gets it in its turn, however often removals lock the row.
Fairness ==
    /\ \A b \in Backups : SF_vars(RunStep(b))
    /\ WF_vars(RemovalStep)
    /\ \A r \in Restores : WF_vars(EndRestore(r))
    /\ WF_vars(app = "stopping" /\ Exit) /\ WF_vars(RecoverBackups) /\ WF_vars(RecoverRestores)

Spec == Init /\ [][Next]_vars
FairSpec == Spec /\ Fairness

-----------------------------------------------------------------------------
(* Properties.                                                               *)

Statuses == Terminal \cup {"unused", "IN_PROGRESS", "removed"}
RunPcs == {"none", "launched", "dumping", "dumped", "publishing", "failing", "canceling", "ended"}

\* Every variable stays in its type, and a row names its database and a storage.
TypeOK ==
    /\ app \in {"up", "stopping", "down", "recovering"}
    /\ dbs \subseteq Databases /\ slot \in 0 .. MaxSlots
    /\ config \in [Databases -> Storages \cup {None}]
    /\ seen \in [Databases -> Storages \cup {None}]
    /\ lock \in [Databases -> {"manual", "schedule", "retry", "removal", None}]
    /\ due \in [Databases -> {"schedule", "retry", None}]
    /\ history \in Seq(Backups)
    /\ status \in [Backups -> Statuses]
    /\ of \in [Backups -> Databases \cup {None}]
    /\ dest \in [Backups -> Storages \cup {None}]
    /\ \A b \in Backups : HasRow(b) => of[b] \in Databases /\ dest[b] \in Storages
    /\ files \in [Backups -> [Parts -> {"loose", "written", "kept"}]]
    /\ run \in [Backups -> RunPcs]
    /\ cause \in [Backups -> {"cancel", "shutdown", "timeout", None}]
    /\ removal = None \/ removal.ids \subseteq Backups
    /\ rof \in [Restores -> Backups \cup {None}]
    /\ rrun \in [Restores -> {"none", "running", "ended"}]
    /\ disturbances \in 0 .. MaxDisturbances

\* A completed backup has both its files, however its run ended: a lost commit
\* answer, a late failure, a restart or a concurrent removal never discards them;
\* and a file the store keeps belongs to a completed backup, so nothing leaks.
CompletedIffKept ==
    \A b \in Backups, p \in Parts : files[b][p] = "kept" <=> status[b] = "COMPLETED"

\* The backup a running restore reads keeps its row and its files until the restore
\* ends: a deletion, retention, a storage change or a database deletion that comes
\* between the check of the backup and the insert of the restore never takes it.
RestoreSourceStays ==
    \A r \in Restores : rrun[r] = "running"
        => rstatus[r] = "IN_PROGRESS" /\ status[rof[r]] = "COMPLETED"

\* No two goroutines of one database dump or publish at the same time, and no
\* goroutine works for a row another party has ended.
RunOwnsItsRow ==
    /\ \A a, b \in Backups : Running(a) /\ Running(b) /\ of[a] = of[b]
          /\ status[a] = "IN_PROGRESS" /\ status[b] = "IN_PROGRESS" => a = b
    /\ \A b \in Backups : run[b] \in {"launched", "dumping", "dumped", "publishing"}
          => status[b] = "IN_PROGRESS" /\ of[b] \in dbs

\* All backups of a database lie in the storage its config names, if it names one:
\* a start and a storage change never pass each other.
HistoryInConfiguredStorage ==
    \A d \in dbs : config[d] # None => \A b \in RowsOf(d) : dest[b] = config[d]

\* The places in the history of the failures in a row of a database, the last of
\* which may still run.  Neither a backup that ended well nor a removed one is in it.
Streak(d) ==
    LET tries == {n \in DOMAIN history : of[history[n]] = d}
    IN  {n \in tries : \A m \in tries :
            m >= n => status[history[m]] \in {"FAILED", "IN_PROGRESS"}}

\* Up to place k there are fewer failures than allowed, and after it, up to place n,
\* users' backups only.
FewFailuresBefore(d, k, n) ==
    /\ Cardinality({m \in Streak(d) : m <= k}) < MaxFailedTriesCount
    /\ \A m \in Streak(d) : k < m /\ m < n => startedBy[history[m]] = "manual"

\* Retries stop: a retry follows fewer than MaxFailedTriesCount failures in a row,
\* not counting what users started after the scheduler pass that decided it, and
\* whatever is removed, restarted or rescheduled in between.
RetriesBounded ==
    \A d \in dbs : \A n \in Streak(d) :
        startedBy[history[n]] = "retry" => \E k \in 0 .. n - 1 : FewFailuresBefore(d, k, n)

\* Every backup and every restore that got its goroutine ends, unless its own terminal
\* transaction failed: a canceled, failed, stopped or killed run does not stay in
\* progress, and a restore does not protect its backup from removal for ever.  A row that
\* never got one, because the answer of its insert was lost, or that its goroutine left
\* in progress, blocks its database until the process ends; the next one ends it.
StartedWorkEnds ==
    /\ \A b \in Backups :
         /\ (status[b] = "IN_PROGRESS" /\ run[b] # "none")
              ~> (status[b] # "IN_PROGRESS" \/ run[b] = "ended")
         /\ (status[b] = "IN_PROGRESS" /\ app = "down") ~> (status[b] # "IN_PROGRESS")
    /\ \A r \in Restores :
         /\ (rstatus[r] = "IN_PROGRESS" /\ rrun[r] # "none")
              ~> (rstatus[r] # "IN_PROGRESS" \/ rrun[r] = "ended")
         /\ (rstatus[r] = "IN_PROGRESS" /\ app = "down") ~> (rstatus[r] # "IN_PROGRESS")
\* The backups implement what they promise their users.
Fate == INSTANCE BackupFate WITH
            catalog <- [d \in Databases |-> RowsOf(d)],
            outcome <- status,
            kept <- [b \in Backups |-> {p \in Parts : files[b][p] = "kept"}],
            reading <- [r \in Restores |-> IF rrun[r] = "running" THEN {rof[r]} ELSE {}]

\* Every step, seen through rows, kept files and running restores, is a step of
\* BackupFate: whatever starts, cancels, commits with a lost answer, removals, moves,
\* deletions of databases, restores, stops and crashes come between each other, backups
\* complete and go whole, outcomes last, and no backup goes while it is read.
KeepsBackupPromise == Fate!Spec

===============================================================================
