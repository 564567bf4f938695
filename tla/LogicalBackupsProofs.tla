------------------------ MODULE LogicalBackupsProofs ------------------------
(* Proofs about LogicalBackups, for every set of databases, storages, backups *)
(* and restores, every retry limit and any number of slots and disturbances.  *)
EXTENDS LogicalBackups, FiniteSetTheorems, TLAPS

-----------------------------------------------------------------------------
(* The inductive invariant.                                                  *)

Starts == {"manual", "schedule", "retry"}
BeforeOutcome == {"launched", "dumping", "dumped", "publishing"}
Removals == [kind : {"backup", "storage", "database"}, db : Databases,
             ids : SUBSET Backups, target : Storages \cup {None}]

\* The fields of the removal transaction and of the restore rows.
MoreTypes ==
    /\ removal # None => removal \in Removals
    /\ rstatus \in [Restores -> {"unused", "checked", "inserting", "refused", "removed",
                                 "IN_PROGRESS", "COMPLETED", "FAILED", "CANCELED"}]

\* What a start has read under the lock of its database is still the config, and
\* the database still exists.
ReadUnderLock == \A d \in Databases : lock[d] \in Starts => d \in dbs /\ seen[d] = config[d]

\* A removal of a whole history holds the database and has locked every row of it.
RemovalHoldsAll ==
    removal # None /\ removal.kind # "backup" =>
        lock[removal.db] = "removal" /\ removal.ids = RowsOf(removal.db)

\* A restore in its insert has the key share lock that a removal waits for.
KeyShare == \A r \in Restores : removal # None /\ Inserting(r) => rof[r] \notin removal.ids

\* A process that is down, or has not recovered, runs nothing.
NothingRuns ==
    app \in {"down", "recovering"} =>
        /\ removal = None
        /\ \A d \in Databases : lock[d] = None
        /\ \A b \in Backups : ~Running(b)
        /\ \A r \in Restores : rstatus[r] \notin {"checked", "inserting"} /\ rrun[r] # "running"

\* A restore that has found its backup still finds it completed, unless it was
\* removed before the restore came to its insert.
RestoreSource ==
    \A r \in Restores :
        /\ rstatus[r] = "checked" =>
             rof[r] \in Backups /\ status[rof[r]] \in {"COMPLETED", "removed"}
        /\ rstatus[r] \in {"inserting", "IN_PROGRESS"} =>
             rof[r] \in Backups /\ status[rof[r]] = "COMPLETED"

\* A restore's goroutine has a row that is in progress.
RestoreRow == \A r \in Restores : rrun[r] = "running" => rstatus[r] = "IN_PROGRESS"

\* A run that has not come to its outcome has a row in progress of a database that exists.
RunRow ==
    \A b \in Backups : run[b] \in BeforeOutcome => status[b] = "IN_PROGRESS" /\ of[b] \in dbs

\* The partial unique index: one backup of a database is in progress.
OneInProgress ==
    \A a, b \in Backups :
        status[a] = "IN_PROGRESS" /\ status[b] = "IN_PROGRESS" /\ of[a] = of[b] => a = b

IInv == /\ TypeOK /\ MoreTypes /\ ReadUnderLock /\ RemovalHoldsAll /\ KeyShare /\ NothingRuns
        /\ RestoreSource /\ RestoreRow /\ RunRow /\ OneInProgress
        /\ CompletedIffKept /\ HistoryInConfiguredStorage

-----------------------------------------------------------------------------
(* The steps keep the invariant, part by part.                               *)

\* The actions of Next, one by one.
LEMMA Actions ==
  ASSUME [Next]_vars
  PROVE  \/ RunSchedulerPass
         \/ SlotComes
         \/ \E d \in Databases : ClearStorage(d)
         \/ \E d \in Databases, by \in {"manual", "schedule", "retry"} :
              LockForStart(d, by)
         \/ \E d \in Databases, b \in Backups : InsertBackup(d, b)
         \/ \E d \in Databases : RefuseStart(d)
         \/ \E d \in Databases : SkipStart(d)
         \/ \E b \in Backups : LaunchRun(b)
         \/ \E b \in Backups : DumpSucceeds(b)
         \/ \E b \in Backups : DumpFails(b)
         \/ \E b \in Backups : WriteMetadataFile(b)
         \/ \E b \in Backups : PublishBackup(b)
         \/ \E b \in Backups : RefusePublication(b)
         \/ \E b \in Backups : EndFailedRun(b)
         \/ \E b \in Backups : ReachTimeLimit(b)
         \/ \E b \in Backups : RequestCancel(b)
         \/ \E b \in Backups : Cancel(b)
         \/ \E b \in Backups : LockBackup(b)
         \/ \E d \in Databases, kind \in {"storage", "database"}, s \in Storages \cup {None} :
              LockDatabaseBackups(d, kind, s)
         \/ Remove
         \/ RefuseRemoval
         \/ \E r \in Restores : InsertRestore(r)
         \/ \E r \in Restores : CommitRestore(r)
         \/ \E r \in Restores : RefuseRestore(r)
         \/ \E r \in Restores : EndRestore(r)
         \/ \E r \in Restores : CancelRestore(r)
         \/ \E r \in Restores, b \in Backups : CheckRestore(r, b)
         \/ \E b \in Backups, p \in Parts : LoseReceipt(b, p)
         \/ Shutdown
         \/ Exit
         \/ RecoverBackups
         \/ RecoverRestores
         \/ UNCHANGED vars
BY DEF Next, StartStep, RunStep, RemovalStep, RestoreStep

\* What a change of one file of a backup leaves.
LEMMA OneFile ==
  ASSUME TypeOK, NEW b \in Backups, NEW part \in Parts, NEW v \in {"loose", "written", "kept"},
         files' = [files EXCEPT ![b][part] = v]
  PROVE  /\ files' \in [Backups -> [Parts -> {"loose", "written", "kept"}]]
         /\ \A c \in Backups, q \in Parts :
              files'[c][q] = IF c = b /\ q = part THEN v ELSE files[c][q]
BY DEF TypeOK

\* Every step keeps the types.
LEMMA TypeStep ==
  ASSUME TypeOK, MoreTypes, [Next]_vars
  PROVE  TypeOK'
<1> USE BoundsAssumption DEF TypeOK, MoreTypes, Statuses, Terminal, RunPcs, Parts,
      Disturbed, Calm, HasRow, configVars, schedVars, factVars, rowVars, runVars,
      restoreVars
<1>1. CASE RunSchedulerPass
  <2>1. \A d \in Databases : DueReason(d) \in {"schedule", "retry", None}
    BY DEF DueReason
  <2> QED BY <1>1, <2>1 DEF RunSchedulerPass
<1>2. CASE SlotComes
  BY <1>2 DEF SlotComes
<1>3. ASSUME NEW d \in Databases, ClearStorage(d) PROVE TypeOK'
  BY <1>3 DEF ClearStorage
<1>4. ASSUME NEW d \in Databases, NEW by \in {"manual", "schedule", "retry"},
        LockForStart(d, by) PROVE TypeOK'
  BY <1>4 DEF LockForStart
<1>5. ASSUME NEW d \in Databases, NEW b \in Backups, InsertBackup(d, b) PROVE TypeOK'
  BY <1>5 DEF InsertBackup, MayInsert
<1>6. ASSUME NEW d \in Databases, RefuseStart(d) PROVE TypeOK'
  BY <1>6 DEF RefuseStart
<1>7. ASSUME NEW d \in Databases, SkipStart(d) PROVE TypeOK'
  BY <1>7 DEF SkipStart
<1>8. ASSUME NEW b \in Backups, LaunchRun(b) PROVE TypeOK'
  BY <1>8 DEF LaunchRun
<1>9. ASSUME NEW b \in Backups, DumpSucceeds(b) PROVE TypeOK'
  BY <1>9 DEF DumpSucceeds
<1>10. ASSUME NEW b \in Backups, DumpFails(b) PROVE TypeOK'
  BY <1>10 DEF DumpFails
<1>11. ASSUME NEW b \in Backups, WriteMetadataFile(b) PROVE TypeOK'
  <2>1. files' \in [Backups -> [Parts -> {"loose", "written", "kept"}]]
    <3>1. files' = [files EXCEPT ![b]["sidecar"] = "written"] \/ UNCHANGED files
      BY <1>11 DEF WriteMetadataFile
    <3> QED BY <3>1, OneFile
  <2>2. run' \in [Backups -> RunPcs] /\ disturbances' \in 0 .. MaxDisturbances
    BY <1>11 DEF WriteMetadataFile
  <2> QED BY <1>11, <2>1, <2>2 DEF WriteMetadataFile
<1>12. ASSUME NEW b \in Backups, PublishBackup(b) PROVE TypeOK'
  <2>1. status' \in [Backups -> Statuses] /\ (\A c \in Backups : HasRow(c)' => HasRow(c))
    BY <1>12 DEF PublishBackup, MayPublish
  <2>2. files' \in [Backups -> [Parts -> {"loose", "written", "kept"}]]
    BY <1>12 DEF PublishBackup
  <2>3. run' \in [Backups -> RunPcs] /\ disturbances' \in 0 .. MaxDisturbances
    BY <1>12 DEF PublishBackup, EndRun
  <2>4. cause' \in [Backups -> {"cancel", "shutdown", "timeout", None}]
    BY <1>12 DEF PublishBackup, EndRun
  <2> QED BY <1>12, <2>1, <2>2, <2>3, <2>4 DEF PublishBackup
<1>13. ASSUME NEW b \in Backups, RefusePublication(b) PROVE TypeOK'
  BY <1>13 DEF RefusePublication
<1>14. ASSUME NEW b \in Backups, EndFailedRun(b) PROVE TypeOK'
  BY <1>14 DEF EndFailedRun, EndRun, EndBackupAndDiscardFiles, Discard, DropReceipts
<1>15. ASSUME NEW b \in Backups, ReachTimeLimit(b) PROVE TypeOK'
  BY <1>15 DEF ReachTimeLimit
<1>16. ASSUME NEW b \in Backups, Cancel(b) PROVE TypeOK'
  BY <1>16 DEF Cancel
<1>17. ASSUME NEW b \in Backups, LockBackup(b) PROVE TypeOK'
  BY <1>17 DEF LockBackup
<1>18. ASSUME NEW d \in Databases, NEW kind \in {"storage", "database"}, NEW s \in
         Storages \cup {None}, LockDatabaseBackups(d, kind, s) PROVE TypeOK'
  BY <1>18 DEF LockDatabaseBackups, RowsOf
<1>19. CASE Remove
  BY <1>19 DEF Remove, ReleaseRemoval, Discard, Removals
<1>20. CASE RefuseRemoval
  BY <1>20 DEF RefuseRemoval, ReleaseRemoval, Removals
<1>21. ASSUME NEW r \in Restores, InsertRestore(r) PROVE TypeOK'
  BY <1>21 DEF InsertRestore
<1>22. ASSUME NEW r \in Restores, CommitRestore(r) PROVE TypeOK'
  BY <1>22 DEF CommitRestore
<1>23. ASSUME NEW r \in Restores, RefuseRestore(r) PROVE TypeOK'
  BY <1>23 DEF RefuseRestore
<1>24. ASSUME NEW r \in Restores, EndRestore(r) PROVE TypeOK'
  BY <1>24 DEF EndRestore
<1>25. ASSUME NEW r \in Restores, NEW b \in Backups, CheckRestore(r, b) PROVE TypeOK'
  BY <1>25 DEF CheckRestore
<1>26. ASSUME NEW b \in Backups, NEW p \in Parts, LoseReceipt(b, p) PROVE TypeOK'
  BY <1>26 DEF LoseReceipt
<1>27. CASE Shutdown
  BY <1>27 DEF Shutdown
<1>28. CASE Exit
  BY <1>28 DEF Exit, DropReceipts, Running
<1>29. CASE RecoverBackups
  BY <1>29 DEF RecoverBackups, Discard
<1>30. CASE RecoverRestores
  BY <1>30 DEF RecoverRestores
<1>31. CASE UNCHANGED <<app, dbs, config, lock, seen, slot, due, history, status, of,
         dest, files, run, cause, removal, rof, rrun, disturbances, cancelling,
         registered, rcancelled, rstatus>>
  BY <1>31
<1>32. CASE \/ \E b \in Backups : RequestCancel(b)
            \/ \E r \in Restores : CancelRestore(r)
  BY <1>32, <1>31 DEF RequestCancel, CancelRestore
<1>33. CASE UNCHANGED vars
  BY <1>33, <1>31 DEF vars
<1> QED BY <1>1, <1>2, <1>3, <1>4, <1>5, <1>6, <1>7, <1>8, <1>9, <1>10, <1>11, <1>12,
      <1>13, <1>14, <1>15, <1>16, <1>17, <1>18, <1>19, <1>20, <1>21, <1>22, <1>23,
      <1>24, <1>25, <1>26, <1>27, <1>28, <1>29, <1>30, <1>31, <1>32, <1>33, Actions

\* Every step keeps the types of the removal and of the restores.
LEMMA MoreTypesStep ==
  ASSUME TypeOK, MoreTypes, [Next]_vars
  PROVE  MoreTypes'
<1> USE DEF TypeOK, MoreTypes, Removals, configVars, schedVars, factVars, rowVars,
      runVars, restoreVars
<1>1. ASSUME NEW b \in Backups, LockBackup(b) PROVE MoreTypes'
  BY <1>1 DEF LockBackup
<1>2. ASSUME NEW d \in Databases, NEW kind \in {"storage", "database"}, NEW s \in
        Storages \cup {None}, LockDatabaseBackups(d, kind, s) PROVE MoreTypes'
  BY <1>2 DEF LockDatabaseBackups, RowsOf
<1>3. CASE Remove
  BY <1>3 DEF Remove, ReleaseRemoval
<1>4. CASE RefuseRemoval
  BY <1>4 DEF RefuseRemoval, ReleaseRemoval
<1>5. ASSUME NEW r \in Restores, InsertRestore(r) PROVE MoreTypes'
  BY <1>5 DEF InsertRestore
<1>6. ASSUME NEW r \in Restores, CommitRestore(r) PROVE MoreTypes'
  BY <1>6 DEF CommitRestore
<1>7. ASSUME NEW r \in Restores, RefuseRestore(r) PROVE MoreTypes'
  BY <1>7 DEF RefuseRestore
<1>8. ASSUME NEW r \in Restores, EndRestore(r) PROVE MoreTypes'
  BY <1>8 DEF EndRestore
<1>9. ASSUME NEW r \in Restores, NEW b \in Backups, CheckRestore(r, b) PROVE
        MoreTypes'
  BY <1>9 DEF CheckRestore
<1>10. CASE Exit
  BY <1>10 DEF Exit
<1>11. CASE RecoverRestores
  BY <1>11 DEF RecoverRestores
<1>12. CASE UNCHANGED <<removal, rstatus>>
  BY <1>12
<1>13. CASE \/ RunSchedulerPass \/ SlotComes \/ Shutdown \/ RecoverBackups
            \/ \E d \in Databases : ClearStorage(d) \/ RefuseStart(d) \/ SkipStart(d)
            \/ \E d \in Databases, by \in {"manual", "schedule", "retry"} : 
                 LockForStart(d, by)
            \/ \E d \in Databases, b \in Backups : InsertBackup(d, b)
            \/ \E b \in Backups : LaunchRun(b) \/ DumpSucceeds(b) \/ DumpFails(b)
                 \/ WriteMetadataFile(b) \/ PublishBackup(b) \/ RefusePublication(b)
                 \/ EndFailedRun(b) \/ ReachTimeLimit(b) \/ RequestCancel(b)
                 \/ Cancel(b)
            \/ \E r \in Restores : CancelRestore(r)
            \/ \E b \in Backups, p \in Parts : LoseReceipt(b, p)
  BY <1>13, <1>12 DEF RunSchedulerPass, SlotComes, ClearStorage, LockForStart,
    InsertBackup, RefuseStart, SkipStart, LaunchRun, DumpSucceeds, DumpFails,
    WriteMetadataFile, PublishBackup, RefusePublication, EndFailedRun, ReachTimeLimit,
    RequestCancel, Cancel, CancelRestore, LoseReceipt, Shutdown, RecoverBackups
<1>14. CASE UNCHANGED vars
  BY <1>14, <1>12 DEF vars
<1> QED BY <1>1, <1>2, <1>3, <1>4, <1>5, <1>6, <1>7, <1>8, <1>9, <1>10, <1>11, <1>12,
      <1>13, <1>14, Actions

\* Neither the config nor the existence of a database changes under a start.
LEMMA ReadUnderLockStep ==
  ASSUME TypeOK, MoreTypes, ReadUnderLock, RemovalHoldsAll, [Next]_vars
  PROVE  ReadUnderLock'
<1> USE NoneAssumption DEF TypeOK, MoreTypes, ReadUnderLock, RemovalHoldsAll, Starts,
      Removals, configVars, schedVars, factVars, rowVars, runVars, restoreVars
<1>1. ASSUME NEW d \in Databases, ClearStorage(d) PROVE ReadUnderLock'
  BY <1>1 DEF ClearStorage
<1>2. ASSUME NEW d \in Databases, NEW by \in {"manual", "schedule", "retry"},
        LockForStart(d, by) PROVE ReadUnderLock'
  BY <1>2 DEF LockForStart
<1>3. ASSUME NEW d \in Databases, NEW b \in Backups, InsertBackup(d, b) PROVE
        ReadUnderLock'
  BY <1>3 DEF InsertBackup
<1>4. ASSUME NEW d \in Databases, RefuseStart(d) PROVE ReadUnderLock'
  BY <1>4 DEF RefuseStart
<1>5. ASSUME NEW d \in Databases, NEW kind \in {"storage", "database"}, NEW s \in
        Storages \cup {None}, LockDatabaseBackups(d, kind, s) PROVE ReadUnderLock'
  BY <1>5 DEF LockDatabaseBackups
<1>6. CASE Remove
  BY <1>6 DEF Remove, ReleaseRemoval
<1>7. CASE RefuseRemoval
  BY <1>7 DEF RefuseRemoval, ReleaseRemoval
<1>8. CASE Exit
  BY <1>8 DEF Exit
<1>9. CASE UNCHANGED <<lock, dbs, seen, config>>
  BY <1>9
<1>10. CASE \/ RunSchedulerPass \/ SlotComes \/ Shutdown \/ RecoverBackups
              \/ RecoverRestores
            \/ \E d \in Databases : SkipStart(d)
            \/ \E b \in Backups : LaunchRun(b) \/ DumpSucceeds(b) \/ DumpFails(b)
                 \/ WriteMetadataFile(b) \/ PublishBackup(b) \/ RefusePublication(b)
                 \/ EndFailedRun(b) \/ ReachTimeLimit(b) \/ RequestCancel(b)
                 \/ Cancel(b) \/ LockBackup(b)
            \/ \E r \in Restores : InsertRestore(r) \/ CommitRestore(r)
                 \/ RefuseRestore(r) \/ EndRestore(r) \/ CancelRestore(r)
            \/ \E r \in Restores, b \in Backups : CheckRestore(r, b)
            \/ \E b \in Backups, p \in Parts : LoseReceipt(b, p)
  BY <1>10, <1>9 DEF RunSchedulerPass, SlotComes, SkipStart, LaunchRun, DumpSucceeds,
    DumpFails, WriteMetadataFile, PublishBackup, RefusePublication, EndFailedRun,
    ReachTimeLimit, RequestCancel, Cancel, LockBackup, InsertRestore, CommitRestore,
    RefuseRestore, EndRestore, CancelRestore, CheckRestore, LoseReceipt, Shutdown,
    RecoverBackups, RecoverRestores
<1>11. CASE UNCHANGED vars
  BY <1>11, <1>9 DEF vars
<1> QED BY <1>1, <1>2, <1>3, <1>4, <1>5, <1>6, <1>7, <1>8, <1>9, <1>10, <1>11, Actions

\* No row joins or leaves a history that a removal has locked.
LEMMA RemovalHoldsAllStep ==
  ASSUME TypeOK, MoreTypes, RemovalHoldsAll, NothingRuns, [Next]_vars
  PROVE  RemovalHoldsAll'
<1> USE NoneAssumption DEF TypeOK, MoreTypes, RemovalHoldsAll, NothingRuns, Removals,
      RowsOf, HasRow, Terminal, Statuses, configVars, schedVars, factVars, rowVars,
      runVars, restoreVars
<1>1. ASSUME NEW d \in Databases, NEW by \in {"manual", "schedule", "retry"},
        LockForStart(d, by) PROVE RemovalHoldsAll'
  BY <1>1 DEF LockForStart
<1>2. ASSUME NEW d \in Databases, NEW b \in Backups, InsertBackup(d, b) PROVE
        RemovalHoldsAll'
  BY <1>2 DEF InsertBackup
<1>3. ASSUME NEW d \in Databases, RefuseStart(d) PROVE RemovalHoldsAll'
  BY <1>3 DEF RefuseStart
<1>4. ASSUME NEW b \in Backups, PublishBackup(b) PROVE RemovalHoldsAll'
  BY <1>4 DEF PublishBackup, MayPublish
<1>5. ASSUME NEW b \in Backups, EndFailedRun(b) PROVE RemovalHoldsAll'
  BY <1>5 DEF EndFailedRun, EndBackupAndDiscardFiles
<1>6. ASSUME NEW b \in Backups, LockBackup(b) PROVE RemovalHoldsAll'
  BY <1>6 DEF LockBackup
<1>7. ASSUME NEW d \in Databases, NEW kind \in {"storage", "database"}, NEW s \in
        Storages \cup {None}, LockDatabaseBackups(d, kind, s) PROVE RemovalHoldsAll'
  BY <1>7 DEF LockDatabaseBackups
<1>8. CASE Remove
  BY <1>8 DEF Remove, ReleaseRemoval
<1>9. CASE RefuseRemoval
  BY <1>9 DEF RefuseRemoval, ReleaseRemoval
<1>10. CASE Exit
  BY <1>10 DEF Exit
<1>11. CASE RecoverBackups
  BY <1>11 DEF RecoverBackups
<1>12. CASE UNCHANGED <<removal, lock, status, of>>
  BY <1>12
<1>13. CASE \/ RunSchedulerPass \/ SlotComes \/ Shutdown \/ RecoverRestores
            \/ \E d \in Databases : ClearStorage(d) \/ SkipStart(d)
            \/ \E b \in Backups : LaunchRun(b) \/ DumpSucceeds(b) \/ DumpFails(b)
                 \/ WriteMetadataFile(b) \/ RefusePublication(b) \/ ReachTimeLimit(b)
                 \/ RequestCancel(b) \/ Cancel(b)
            \/ \E r \in Restores : InsertRestore(r) \/ CommitRestore(r)
                 \/ RefuseRestore(r) \/ EndRestore(r) \/ CancelRestore(r)
            \/ \E r \in Restores, b \in Backups : CheckRestore(r, b)
            \/ \E b \in Backups, p \in Parts : LoseReceipt(b, p)
  BY <1>13, <1>12 DEF RunSchedulerPass, SlotComes, ClearStorage, SkipStart, LaunchRun,
    DumpSucceeds, DumpFails, WriteMetadataFile, RefusePublication, ReachTimeLimit,
    RequestCancel, Cancel, InsertRestore, CommitRestore, RefuseRestore, EndRestore,
    CancelRestore, CheckRestore, LoseReceipt, Shutdown, RecoverRestores
<1>14. CASE UNCHANGED vars
  BY <1>14, <1>12 DEF vars
<1> QED BY <1>1, <1>2, <1>3, <1>4, <1>5, <1>6, <1>7, <1>8, <1>9, <1>10, <1>11, <1>12,
      <1>13, <1>14, Actions

\* A removal and the insert of a restore exclude each other.
LEMMA KeyShareStep ==
  ASSUME TypeOK, MoreTypes, KeyShare, [Next]_vars
  PROVE  KeyShare'
<1> USE DEF TypeOK, MoreTypes, KeyShare, Inserting, Removals, configVars, schedVars,
      factVars, rowVars, runVars, restoreVars
<1>1. ASSUME NEW b \in Backups, LockBackup(b) PROVE KeyShare'
  BY <1>1 DEF LockBackup
<1>2. ASSUME NEW d \in Databases, NEW kind \in {"storage", "database"}, NEW s \in
        Storages \cup {None}, LockDatabaseBackups(d, kind, s) PROVE KeyShare'
  BY <1>2 DEF LockDatabaseBackups
<1>3. CASE Remove
  BY <1>3 DEF Remove, ReleaseRemoval
<1>4. CASE RefuseRemoval
  BY <1>4 DEF RefuseRemoval, ReleaseRemoval
<1>5. ASSUME NEW r \in Restores, InsertRestore(r) PROVE KeyShare'
  BY <1>5 DEF InsertRestore, Locked
<1>6. ASSUME NEW r \in Restores, CommitRestore(r) PROVE KeyShare'
  BY <1>6 DEF CommitRestore
<1>7. ASSUME NEW r \in Restores, RefuseRestore(r) PROVE KeyShare'
  BY <1>7 DEF RefuseRestore
<1>8. ASSUME NEW r \in Restores, EndRestore(r) PROVE KeyShare'
  BY <1>8 DEF EndRestore
<1>9. ASSUME NEW r \in Restores, NEW b \in Backups, CheckRestore(r, b) PROVE KeyShare'
  BY <1>9 DEF CheckRestore
<1>10. CASE Exit
  BY <1>10 DEF Exit
<1>11. CASE RecoverRestores
  BY <1>11 DEF RecoverRestores
<1>12. CASE UNCHANGED <<removal, rstatus, rof>>
  BY <1>12
<1>13. CASE \/ RunSchedulerPass \/ SlotComes \/ Shutdown \/ RecoverBackups
            \/ \E d \in Databases : ClearStorage(d) \/ RefuseStart(d) \/ SkipStart(d)
            \/ \E d \in Databases, by \in {"manual", "schedule", "retry"} : 
                 LockForStart(d, by)
            \/ \E d \in Databases, b \in Backups : InsertBackup(d, b)
            \/ \E b \in Backups : LaunchRun(b) \/ DumpSucceeds(b) \/ DumpFails(b)
                 \/ WriteMetadataFile(b) \/ PublishBackup(b) \/ RefusePublication(b)
                 \/ EndFailedRun(b) \/ ReachTimeLimit(b) \/ RequestCancel(b)
                 \/ Cancel(b)
            \/ \E r \in Restores : CancelRestore(r)
            \/ \E b \in Backups, p \in Parts : LoseReceipt(b, p)
  BY <1>13, <1>12 DEF RunSchedulerPass, SlotComes, ClearStorage, LockForStart,
    InsertBackup, RefuseStart, SkipStart, LaunchRun, DumpSucceeds, DumpFails,
    WriteMetadataFile, PublishBackup, RefusePublication, EndFailedRun, ReachTimeLimit,
    RequestCancel, Cancel, CancelRestore, LoseReceipt, Shutdown, RecoverBackups
<1>14. CASE UNCHANGED vars
  BY <1>14, <1>12 DEF vars
<1> QED BY <1>1, <1>2, <1>3, <1>4, <1>5, <1>6, <1>7, <1>8, <1>9, <1>10, <1>11, <1>12,
      <1>13, <1>14, Actions

\* A process starts work only after its recovery.
LEMMA NothingRunsStep ==
  ASSUME TypeOK, MoreTypes, NothingRuns, [Next]_vars
  PROVE  NothingRuns'
<1> USE NoneAssumption DEF TypeOK, MoreTypes, NothingRuns, Running, Inserting,
      configVars, schedVars, factVars, rowVars, runVars, restoreVars
<1>1. ASSUME NEW d \in Databases, NEW by \in {"manual", "schedule", "retry"},
        LockForStart(d, by) PROVE NothingRuns'
  BY <1>1 DEF LockForStart
<1>2. ASSUME NEW d \in Databases, NEW b \in Backups, InsertBackup(d, b) PROVE
        NothingRuns'
  BY <1>2 DEF InsertBackup
<1>3. ASSUME NEW d \in Databases, RefuseStart(d) PROVE NothingRuns'
  BY <1>3 DEF RefuseStart
<1>4. ASSUME NEW b \in Backups, LaunchRun(b) PROVE NothingRuns'
  BY <1>4 DEF LaunchRun
<1>5. ASSUME NEW b \in Backups, DumpSucceeds(b) PROVE NothingRuns'
  BY <1>5 DEF DumpSucceeds
<1>6. ASSUME NEW b \in Backups, DumpFails(b) PROVE NothingRuns'
  BY <1>6 DEF DumpFails
<1>7. ASSUME NEW b \in Backups, WriteMetadataFile(b) PROVE NothingRuns'
  BY <1>7 DEF WriteMetadataFile
<1>8. ASSUME NEW b \in Backups, PublishBackup(b) PROVE NothingRuns'
  BY <1>8 DEF PublishBackup, EndRun
<1>9. ASSUME NEW b \in Backups, RefusePublication(b) PROVE NothingRuns'
  BY <1>9 DEF RefusePublication
<1>10. ASSUME NEW b \in Backups, EndFailedRun(b) PROVE NothingRuns'
  BY <1>10 DEF EndFailedRun, EndRun
<1>11. ASSUME NEW b \in Backups, LockBackup(b) PROVE NothingRuns'
  BY <1>11 DEF LockBackup
<1>12. ASSUME NEW d \in Databases, NEW kind \in {"storage", "database"}, NEW s \in
         Storages \cup {None}, LockDatabaseBackups(d, kind, s) PROVE NothingRuns'
  BY <1>12 DEF LockDatabaseBackups
<1>13. CASE Remove
  BY <1>13 DEF Remove, ReleaseRemoval
<1>14. CASE RefuseRemoval
  BY <1>14 DEF RefuseRemoval, ReleaseRemoval
<1>15. ASSUME NEW r \in Restores, InsertRestore(r) PROVE NothingRuns'
  BY <1>15 DEF InsertRestore
<1>16. ASSUME NEW r \in Restores, CommitRestore(r) PROVE NothingRuns'
  BY <1>16 DEF CommitRestore
<1>17. ASSUME NEW r \in Restores, RefuseRestore(r) PROVE NothingRuns'
  BY <1>17 DEF RefuseRestore
<1>18. ASSUME NEW r \in Restores, EndRestore(r) PROVE NothingRuns'
  BY <1>18 DEF EndRestore
<1>19. ASSUME NEW r \in Restores, NEW b \in Backups, CheckRestore(r, b) PROVE
         NothingRuns'
  BY <1>19 DEF CheckRestore
<1>20. CASE Shutdown
  BY <1>20 DEF Shutdown
<1>21. CASE Exit
  BY <1>21 DEF Exit
<1>22. CASE RecoverBackups
  BY <1>22 DEF RecoverBackups
<1>23. CASE RecoverRestores
  BY <1>23 DEF RecoverRestores
<1>24. CASE UNCHANGED <<app, lock, run, rstatus, rrun, removal>>
  BY <1>24
<1>25. CASE \/ RunSchedulerPass \/ SlotComes
            \/ \E d \in Databases : ClearStorage(d) \/ SkipStart(d)
            \/ \E b \in Backups : ReachTimeLimit(b) \/ RequestCancel(b) \/ Cancel(b)
            \/ \E r \in Restores : CancelRestore(r)
            \/ \E b \in Backups, p \in Parts : LoseReceipt(b, p)
  BY <1>25, <1>24 DEF RunSchedulerPass, SlotComes, ClearStorage, SkipStart,
    ReachTimeLimit, RequestCancel, Cancel, CancelRestore, LoseReceipt
<1>26. CASE UNCHANGED vars
  BY <1>26, <1>24 DEF vars
<1> QED BY <1>1, <1>2, <1>3, <1>4, <1>5, <1>6, <1>7, <1>8, <1>9, <1>10, <1>11, <1>12,
      <1>13, <1>14, <1>15, <1>16, <1>17, <1>18, <1>19, <1>20, <1>21, <1>22, <1>23,
      <1>24, <1>25, <1>26, Actions

\* No step takes the backup of a restore that has come to its insert.
LEMMA RestoreSourceStep ==
  ASSUME TypeOK, MoreTypes, RestoreSource, KeyShare, RemovalHoldsAll, [Next]_vars
  PROVE  RestoreSource'
<1> USE NoneAssumption DEF TypeOK, MoreTypes, RestoreSource, KeyShare,
      RemovalHoldsAll, Inserting, HasRow, Terminal, Removals, configVars, schedVars,
      factVars, rowVars, runVars, restoreVars
<1>1. ASSUME NEW d \in Databases, NEW b \in Backups, InsertBackup(d, b) PROVE
        RestoreSource'
  BY <1>1 DEF InsertBackup
<1>2. ASSUME NEW b \in Backups, PublishBackup(b) PROVE RestoreSource'
  BY <1>2 DEF PublishBackup, MayPublish
<1>3. ASSUME NEW b \in Backups, EndFailedRun(b) PROVE RestoreSource'
  BY <1>3 DEF EndFailedRun, EndBackupAndDiscardFiles
<1>4. CASE Remove
  BY <1>4 DEF Remove, MayRemove, IsRestoreRunningForBackups, RowsOf
<1>5. ASSUME NEW r \in Restores, InsertRestore(r) PROVE RestoreSource'
  BY <1>5 DEF InsertRestore
<1>6. ASSUME NEW r \in Restores, CommitRestore(r) PROVE RestoreSource'
  BY <1>6 DEF CommitRestore
<1>7. ASSUME NEW r \in Restores, RefuseRestore(r) PROVE RestoreSource'
  BY <1>7 DEF RefuseRestore
<1>8. ASSUME NEW r \in Restores, EndRestore(r) PROVE RestoreSource'
  BY <1>8 DEF EndRestore
<1>9. ASSUME NEW r \in Restores, NEW b \in Backups, CheckRestore(r, b) PROVE
        RestoreSource'
  BY <1>9 DEF CheckRestore
<1>10. CASE Exit
  BY <1>10 DEF Exit
<1>11. CASE RecoverBackups
  BY <1>11 DEF RecoverBackups
<1>12. CASE RecoverRestores
  BY <1>12 DEF RecoverRestores
<1>13. CASE UNCHANGED <<rstatus, rof, status>>
  BY <1>13
<1>14. CASE \/ RunSchedulerPass \/ SlotComes \/ RefuseRemoval \/ Shutdown
            \/ \E d \in Databases : ClearStorage(d) \/ RefuseStart(d) \/ SkipStart(d)
            \/ \E d \in Databases, by \in {"manual", "schedule", "retry"} : 
                 LockForStart(d, by)
            \/ \E b \in Backups : LaunchRun(b) \/ DumpSucceeds(b) \/ DumpFails(b)
                 \/ WriteMetadataFile(b) \/ RefusePublication(b) \/ ReachTimeLimit(b)
                 \/ RequestCancel(b) \/ Cancel(b) \/ LockBackup(b)
            \/ \E d \in Databases, kind \in {"storage", "database"}, s \in Storages \cup {None} : 
                 LockDatabaseBackups(d, kind, s)
            \/ \E r \in Restores : CancelRestore(r)
            \/ \E b \in Backups, p \in Parts : LoseReceipt(b, p)
  BY <1>14, <1>13 DEF RunSchedulerPass, SlotComes, ClearStorage, LockForStart,
    RefuseStart, SkipStart, LaunchRun, DumpSucceeds, DumpFails, WriteMetadataFile,
    RefusePublication, ReachTimeLimit, RequestCancel, Cancel, LockBackup,
    LockDatabaseBackups, RefuseRemoval, CancelRestore, LoseReceipt, Shutdown
<1>15. CASE UNCHANGED vars
  BY <1>15, <1>13 DEF vars
<1> QED BY <1>1, <1>2, <1>3, <1>4, <1>5, <1>6, <1>7, <1>8, <1>9, <1>10, <1>11, <1>12,
      <1>13, <1>14, <1>15, Actions

\* A restore's row leaves its progress only with its goroutine.
LEMMA RestoreRowStep ==
  ASSUME TypeOK, MoreTypes, RestoreSource, RestoreRow, RemovalHoldsAll, NothingRuns, [Next]_vars
  PROVE  RestoreRow'
<1> USE DEF TypeOK, MoreTypes, RestoreSource, RestoreRow, RemovalHoldsAll,
      NothingRuns, Inserting, HasRow, Terminal, Removals, configVars, schedVars,
      factVars, rowVars, runVars, restoreVars
<1>1. CASE Remove
  BY <1>1 DEF Remove, MayRemove, IsRestoreRunningForBackups, RowsOf
<1>2. ASSUME NEW r \in Restores, InsertRestore(r) PROVE RestoreRow'
  BY <1>2 DEF InsertRestore
<1>3. ASSUME NEW r \in Restores, CommitRestore(r) PROVE RestoreRow'
  BY <1>3 DEF CommitRestore
<1>4. ASSUME NEW r \in Restores, RefuseRestore(r) PROVE RestoreRow'
  BY <1>4 DEF RefuseRestore
<1>5. ASSUME NEW r \in Restores, EndRestore(r) PROVE RestoreRow'
  BY <1>5 DEF EndRestore
<1>6. ASSUME NEW r \in Restores, NEW b \in Backups, CheckRestore(r, b) PROVE
        RestoreRow'
  BY <1>6 DEF CheckRestore
<1>7. CASE Exit
  BY <1>7 DEF Exit
<1>8. CASE RecoverRestores
  BY <1>8 DEF RecoverRestores
<1>9. CASE UNCHANGED <<rrun, rstatus>>
  BY <1>9
<1>10. CASE \/ RunSchedulerPass \/ SlotComes \/ RefuseRemoval \/ Shutdown
              \/ RecoverBackups
            \/ \E d \in Databases : ClearStorage(d) \/ RefuseStart(d) \/ SkipStart(d)
            \/ \E d \in Databases, by \in {"manual", "schedule", "retry"} : 
                 LockForStart(d, by)
            \/ \E d \in Databases, b \in Backups : InsertBackup(d, b)
            \/ \E b \in Backups : LaunchRun(b) \/ DumpSucceeds(b) \/ DumpFails(b)
                 \/ WriteMetadataFile(b) \/ PublishBackup(b) \/ RefusePublication(b)
                 \/ EndFailedRun(b) \/ ReachTimeLimit(b) \/ RequestCancel(b)
                 \/ Cancel(b) \/ LockBackup(b)
            \/ \E d \in Databases, kind \in {"storage", "database"}, s \in Storages \cup {None} : 
                 LockDatabaseBackups(d, kind, s)
            \/ \E r \in Restores : CancelRestore(r)
            \/ \E b \in Backups, p \in Parts : LoseReceipt(b, p)
  BY <1>10, <1>9 DEF RunSchedulerPass, SlotComes, ClearStorage, LockForStart,
    InsertBackup, RefuseStart, SkipStart, LaunchRun, DumpSucceeds, DumpFails,
    WriteMetadataFile, PublishBackup, RefusePublication, EndFailedRun, ReachTimeLimit,
    RequestCancel, Cancel, LockBackup, LockDatabaseBackups, RefuseRemoval,
    CancelRestore, LoseReceipt, Shutdown, RecoverBackups
<1>11. CASE UNCHANGED vars
  BY <1>11, <1>9 DEF vars
<1> QED BY <1>1, <1>2, <1>3, <1>4, <1>5, <1>6, <1>7, <1>8, <1>9, <1>10, <1>11, Actions

\* Nobody ends the row of a run before the run comes to its outcome.
LEMMA RunRowStep ==
  ASSUME TypeOK, MoreTypes, ReadUnderLock, RemovalHoldsAll, NothingRuns, RunRow, [Next]_vars
  PROVE  RunRow'
<1> USE DEF TypeOK, MoreTypes, ReadUnderLock, RemovalHoldsAll, NothingRuns, RunRow,
      BeforeOutcome, Starts, configVars, schedVars, factVars, rowVars, runVars,
      restoreVars
<1>1. ASSUME NEW d \in Databases, NEW b \in Backups, InsertBackup(d, b) PROVE RunRow'
  BY <1>1 DEF InsertBackup
<1>2. ASSUME NEW b \in Backups, LaunchRun(b) PROVE RunRow'
  BY <1>2 DEF LaunchRun
<1>3. ASSUME NEW b \in Backups, DumpSucceeds(b) PROVE RunRow'
  BY <1>3 DEF DumpSucceeds
<1>4. ASSUME NEW b \in Backups, DumpFails(b) PROVE RunRow'
  BY <1>4 DEF DumpFails
<1>5. ASSUME NEW b \in Backups, WriteMetadataFile(b) PROVE RunRow'
  BY <1>5 DEF WriteMetadataFile
<1>6. ASSUME NEW b \in Backups, PublishBackup(b) PROVE RunRow'
  BY <1>6 DEF PublishBackup, EndRun
<1>7. ASSUME NEW b \in Backups, RefusePublication(b) PROVE RunRow'
  BY <1>7 DEF RefusePublication
<1>8. ASSUME NEW b \in Backups, EndFailedRun(b) PROVE RunRow'
  BY <1>8 DEF EndFailedRun, EndRun, EndBackupAndDiscardFiles
<1>9. CASE Remove
  BY <1>9 DEF Remove, MayRemove, RowsOf, HasRow, Removals
<1>10. CASE Exit
  BY <1>10 DEF Exit, Running
<1>11. CASE RecoverBackups
  BY <1>11 DEF RecoverBackups, Running
<1>12. CASE UNCHANGED <<run, status, of, dbs>>
  BY <1>12
<1>13. CASE \/ RunSchedulerPass \/ SlotComes \/ RefuseRemoval \/ Shutdown
              \/ RecoverRestores
            \/ \E d \in Databases : ClearStorage(d) \/ RefuseStart(d) \/ SkipStart(d)
            \/ \E d \in Databases, by \in {"manual", "schedule", "retry"} : 
                 LockForStart(d, by)
            \/ \E b \in Backups : ReachTimeLimit(b) \/ RequestCancel(b) \/ Cancel(b)
                 \/ LockBackup(b)
            \/ \E d \in Databases, kind \in {"storage", "database"}, s \in Storages \cup {None} : 
                 LockDatabaseBackups(d, kind, s)
            \/ \E r \in Restores : InsertRestore(r) \/ CommitRestore(r)
                 \/ RefuseRestore(r) \/ EndRestore(r) \/ CancelRestore(r)
            \/ \E r \in Restores, b \in Backups : CheckRestore(r, b)
            \/ \E b \in Backups, p \in Parts : LoseReceipt(b, p)
  BY <1>13, <1>12 DEF RunSchedulerPass, SlotComes, ClearStorage, LockForStart,
    RefuseStart, SkipStart, ReachTimeLimit, RequestCancel, Cancel, LockBackup,
    LockDatabaseBackups, RefuseRemoval, InsertRestore, CommitRestore, RefuseRestore,
    EndRestore, CancelRestore, CheckRestore, LoseReceipt, Shutdown, RecoverRestores
<1>14. CASE UNCHANGED vars
  BY <1>14, <1>12 DEF vars
<1> QED BY <1>1, <1>2, <1>3, <1>4, <1>5, <1>6, <1>7, <1>8, <1>9, <1>10, <1>11, <1>12,
      <1>13, <1>14, Actions

\* A second backup of a database does not come into progress.
LEMMA OneInProgressStep ==
  ASSUME TypeOK, OneInProgress, [Next]_vars
  PROVE  OneInProgress'
<1> USE DEF TypeOK, OneInProgress, configVars, schedVars, factVars, rowVars, runVars,
      restoreVars
<1>1. ASSUME NEW d \in Databases, NEW b \in Backups, InsertBackup(d, b) PROVE
        OneInProgress'
  BY <1>1 DEF InsertBackup, MayInsert, RowsOf, HasRow, Terminal
<1>2. ASSUME NEW b \in Backups, PublishBackup(b) PROVE OneInProgress'
  BY <1>2 DEF PublishBackup
<1>3. ASSUME NEW b \in Backups, EndFailedRun(b) PROVE OneInProgress'
  BY <1>3 DEF EndFailedRun, EndBackupAndDiscardFiles
<1>4. CASE Remove
  BY <1>4 DEF Remove
<1>5. CASE RecoverBackups
  BY <1>5 DEF RecoverBackups
<1>6. CASE UNCHANGED <<status, of>>
  BY <1>6
<1>7. CASE \/ RunSchedulerPass \/ SlotComes \/ RefuseRemoval \/ Shutdown \/ Exit
             \/ RecoverRestores
           \/ \E d \in Databases : ClearStorage(d) \/ RefuseStart(d) \/ SkipStart(d)
           \/ \E d \in Databases, by \in {"manual", "schedule", "retry"} : 
                LockForStart(d, by)
           \/ \E b \in Backups : LaunchRun(b) \/ DumpSucceeds(b) \/ DumpFails(b)
                \/ WriteMetadataFile(b) \/ RefusePublication(b) \/ ReachTimeLimit(b)
                \/ RequestCancel(b) \/ Cancel(b) \/ LockBackup(b)
           \/ \E d \in Databases, kind \in {"storage", "database"}, s \in Storages \cup {None} : 
                LockDatabaseBackups(d, kind, s)
           \/ \E r \in Restores : InsertRestore(r) \/ CommitRestore(r)
                \/ RefuseRestore(r) \/ EndRestore(r) \/ CancelRestore(r)
           \/ \E r \in Restores, b \in Backups : CheckRestore(r, b)
           \/ \E b \in Backups, p \in Parts : LoseReceipt(b, p)
  BY <1>7, <1>6 DEF RunSchedulerPass, SlotComes, ClearStorage, LockForStart,
    RefuseStart, SkipStart, LaunchRun, DumpSucceeds, DumpFails, WriteMetadataFile,
    RefusePublication, ReachTimeLimit, RequestCancel, Cancel, LockBackup,
    LockDatabaseBackups, RefuseRemoval, InsertRestore, CommitRestore, RefuseRestore,
    EndRestore, CancelRestore, CheckRestore, LoseReceipt, Shutdown, Exit,
    RecoverRestores
<1>8. CASE UNCHANGED vars
  BY <1>8, <1>6 DEF vars
<1> QED BY <1>1, <1>2, <1>3, <1>4, <1>5, <1>6, <1>7, <1>8, Actions

\* Files are kept and given up with the status of their row.
LEMMA CompletedIffKeptStep ==
  ASSUME TypeOK, MoreTypes, RunRow, CompletedIffKept, [Next]_vars
  PROVE  CompletedIffKept'
<1> USE DEF TypeOK, MoreTypes, RunRow, CompletedIffKept, Parts, BeforeOutcome,
      configVars, schedVars, factVars, rowVars, runVars, restoreVars
<1>1. ASSUME NEW d \in Databases, NEW b \in Backups, InsertBackup(d, b) PROVE
        CompletedIffKept'
  BY <1>1 DEF InsertBackup
<1>2. ASSUME NEW b \in Backups, DumpSucceeds(b) PROVE CompletedIffKept'
  BY <1>2 DEF DumpSucceeds
<1>3. ASSUME NEW b \in Backups, WriteMetadataFile(b) PROVE CompletedIffKept'
  <2>1. UNCHANGED status /\ run[b] = "dumped"
    BY <1>3 DEF WriteMetadataFile
  <2>2. files' = [files EXCEPT ![b]["sidecar"] = "written"] \/ UNCHANGED files
    BY <1>3 DEF WriteMetadataFile
  <2>3. CASE files' = [files EXCEPT ![b]["sidecar"] = "written"]
    <3>1. \A c \in Backups, q \in Parts :
            files'[c][q] = IF c = b /\ q = "sidecar" THEN "written" ELSE files[c][q]
      BY <2>3, OneFile
    <3> HIDE DEF Parts, TypeOK
    <3> QED BY <2>1, <3>1
  <2> QED BY <2>1, <2>2, <2>3
<1>4. ASSUME NEW b \in Backups, PublishBackup(b) PROVE CompletedIffKept'
  BY <1>4 DEF PublishBackup, MayPublish
<1>5. ASSUME NEW b \in Backups, EndFailedRun(b) PROVE CompletedIffKept'
  BY <1>5 DEF EndFailedRun, EndBackupAndDiscardFiles, Discard, DropReceipts
<1>6. CASE Remove
  BY <1>6 DEF Remove, Discard
<1>7. ASSUME NEW b \in Backups, NEW p \in Parts, LoseReceipt(b, p) PROVE
        CompletedIffKept'
  BY <1>7 DEF LoseReceipt
<1>8. CASE Exit
  BY <1>8 DEF Exit, DropReceipts
<1>9. CASE RecoverBackups
  BY <1>9 DEF RecoverBackups, Discard
<1>10. CASE UNCHANGED <<files, status>>
  BY <1>10
<1>11. CASE \/ RunSchedulerPass \/ SlotComes \/ RefuseRemoval \/ Shutdown
              \/ RecoverRestores
            \/ \E d \in Databases : ClearStorage(d) \/ RefuseStart(d) \/ SkipStart(d)
            \/ \E d \in Databases, by \in {"manual", "schedule", "retry"} : 
                 LockForStart(d, by)
            \/ \E b \in Backups : LaunchRun(b) \/ DumpFails(b) \/ RefusePublication(b)
                 \/ ReachTimeLimit(b) \/ RequestCancel(b) \/ Cancel(b) \/ LockBackup(b)
            \/ \E d \in Databases, kind \in {"storage", "database"}, s \in Storages \cup {None} : 
                 LockDatabaseBackups(d, kind, s)
            \/ \E r \in Restores : InsertRestore(r) \/ CommitRestore(r)
                 \/ RefuseRestore(r) \/ EndRestore(r) \/ CancelRestore(r)
            \/ \E r \in Restores, b \in Backups : CheckRestore(r, b)
  BY <1>11, <1>10 DEF RunSchedulerPass, SlotComes, ClearStorage, LockForStart,
    RefuseStart, SkipStart, LaunchRun, DumpFails, RefusePublication, ReachTimeLimit,
    RequestCancel, Cancel, LockBackup, LockDatabaseBackups, RefuseRemoval,
    InsertRestore, CommitRestore, RefuseRestore, EndRestore, CancelRestore,
    CheckRestore, Shutdown, RecoverRestores
<1>12. CASE UNCHANGED vars
  BY <1>12, <1>10 DEF vars
<1> QED BY <1>1, <1>2, <1>3, <1>4, <1>5, <1>6, <1>7, <1>8, <1>9, <1>10, <1>11, <1>12,
      Actions

\* A start and a change of the storage do not pass each other.
LEMMA HistoryStep ==
  ASSUME TypeOK, MoreTypes, ReadUnderLock, RemovalHoldsAll, HistoryInConfiguredStorage, [Next]_vars
  PROVE  HistoryInConfiguredStorage'
<1> USE NoneAssumption DEF TypeOK, MoreTypes, ReadUnderLock, RemovalHoldsAll,
      HistoryInConfiguredStorage, RowsOf, HasRow, Terminal, Starts, Removals,
      configVars, schedVars, factVars, rowVars, runVars, restoreVars
<1>1. ASSUME NEW d \in Databases, ClearStorage(d) PROVE HistoryInConfiguredStorage'
  BY <1>1 DEF ClearStorage
<1>2. ASSUME NEW d \in Databases, NEW b \in Backups, InsertBackup(d, b) PROVE
        HistoryInConfiguredStorage'
  BY <1>2 DEF InsertBackup
<1>3. ASSUME NEW b \in Backups, PublishBackup(b) PROVE HistoryInConfiguredStorage'
  BY <1>3 DEF PublishBackup, MayPublish
<1>4. ASSUME NEW b \in Backups, EndFailedRun(b) PROVE HistoryInConfiguredStorage'
  BY <1>4 DEF EndFailedRun, EndBackupAndDiscardFiles
<1>5. CASE Remove
  BY <1>5 DEF Remove
<1>6. CASE RecoverBackups
  BY <1>6 DEF RecoverBackups
<1>7. CASE UNCHANGED <<dbs, config, status, of, dest>>
  BY <1>7
<1>8. CASE \/ RunSchedulerPass \/ SlotComes \/ RefuseRemoval \/ Shutdown \/ Exit
             \/ RecoverRestores
           \/ \E d \in Databases, by \in {"manual", "schedule", "retry"} : 
                LockForStart(d, by)
           \/ \E d \in Databases : RefuseStart(d) \/ SkipStart(d)
           \/ \E b \in Backups : LaunchRun(b) \/ DumpSucceeds(b) \/ DumpFails(b)
                \/ WriteMetadataFile(b) \/ RefusePublication(b) \/ ReachTimeLimit(b)
                \/ RequestCancel(b) \/ Cancel(b) \/ LockBackup(b)
           \/ \E d \in Databases, kind \in {"storage", "database"}, s \in Storages \cup {None} : 
                LockDatabaseBackups(d, kind, s)
           \/ \E r \in Restores : InsertRestore(r) \/ CommitRestore(r)
                \/ RefuseRestore(r) \/ EndRestore(r) \/ CancelRestore(r)
           \/ \E r \in Restores, b \in Backups : CheckRestore(r, b)
           \/ \E b \in Backups, p \in Parts : LoseReceipt(b, p)
  BY <1>8, <1>7 DEF RunSchedulerPass, SlotComes, LockForStart, RefuseStart, SkipStart,
    LaunchRun, DumpSucceeds, DumpFails, WriteMetadataFile, RefusePublication,
    ReachTimeLimit, RequestCancel, Cancel, LockBackup, LockDatabaseBackups,
    RefuseRemoval, InsertRestore, CommitRestore, RefuseRestore, EndRestore,
    CancelRestore, CheckRestore, LoseReceipt, Shutdown, Exit, RecoverRestores
<1>9. CASE UNCHANGED vars
  BY <1>9, <1>7 DEF vars
<1> QED BY <1>1, <1>2, <1>3, <1>4, <1>5, <1>6, <1>7, <1>8, <1>9, Actions

-----------------------------------------------------------------------------
(* The theorems.                                                             *)

\* The program starts with the invariant.
LEMMA InitInvariant == Init => IInv
<1> SUFFICES ASSUME Init PROVE IInv
  OBVIOUS
<1> USE BoundsAssumption, NoneAssumption DEF Init
<1>1. TypeOK /\ MoreTypes
  BY DEF TypeOK, MoreTypes, Statuses, Terminal, RunPcs, HasRow, Parts
<1>2. ReadUnderLock /\ RemovalHoldsAll /\ KeyShare /\ NothingRuns
  BY DEF ReadUnderLock, Starts, RemovalHoldsAll, KeyShare, NothingRuns
<1>3. RestoreSource /\ RestoreRow /\ RunRow /\ OneInProgress
  BY DEF RestoreSource, RestoreRow, RunRow, BeforeOutcome, OneInProgress
<1>4. CompletedIffKept /\ HistoryInConfiguredStorage
  BY DEF CompletedIffKept, HistoryInConfiguredStorage, RowsOf, HasRow, Terminal
<1> QED BY <1>1, <1>2, <1>3, <1>4 DEF IInv

\* Every step keeps it.
LEMMA StepInvariant == IInv /\ [Next]_vars => IInv'
<1> SUFFICES ASSUME IInv, [Next]_vars PROVE IInv'
  OBVIOUS
<1> USE DEF IInv
<1>1. TypeOK' /\ MoreTypes'
  BY TypeStep, MoreTypesStep
<1>2. ReadUnderLock' /\ RemovalHoldsAll' /\ KeyShare' /\ NothingRuns'
  BY ReadUnderLockStep, RemovalHoldsAllStep, KeyShareStep, NothingRunsStep
<1>3. RestoreSource' /\ RestoreRow' /\ RunRow' /\ OneInProgress'
  BY RestoreSourceStep, RestoreRowStep, RunRowStep, OneInProgressStep
<1>4. CompletedIffKept' /\ HistoryInConfiguredStorage'
  BY CompletedIffKeptStep, HistoryStep
<1> QED BY <1>1, <1>2, <1>3, <1>4

\* The invariant holds in every state the program reaches.
THEOREM Invariant == Spec => []IInv
BY InitInvariant, StepInvariant, PTL DEF Spec

\* Every variable keeps its type, and a row names its database and its storage.
THEOREM TypeCorrect == Spec => []TypeOK
<1>1. IInv => TypeOK
  BY DEF IInv
<1> QED BY <1>1, Invariant, PTL

\* A backup is completed exactly when the store keeps both its files: neither a lost
\* commit answer, a late failure, a restart nor a removal parts the two.
THEOREM CompletedIsKept == Spec => []CompletedIffKept
<1>1. IInv => CompletedIffKept
  BY DEF IInv
<1> QED BY <1>1, Invariant, PTL

\* Nothing takes the backup that a running restore reads.
THEOREM RestoreKeepsItsSource == Spec => []RestoreSourceStays
<1>1. IInv => RestoreSourceStays
  BY DEF IInv, RestoreSource, RestoreRow, RestoreSourceStays
<1> QED BY <1>1, Invariant, PTL

\* One goroutine at a time works for a database, and for a row that is its own.
THEOREM RunsOwnTheirRows == Spec => []RunOwnsItsRow
<1>1. IInv => RunOwnsItsRow
  BY DEF IInv, RunRow, BeforeOutcome, OneInProgress, RunOwnsItsRow
<1> QED BY <1>1, Invariant, PTL

\* All backups of a database lie in the storage its config names.
THEOREM OneStoragePerHistory == Spec => []HistoryInConfiguredStorage
<1>1. IInv => HistoryInConfiguredStorage
  BY DEF IInv
<1> QED BY <1>1, Invariant, PTL

\* What a step may do to the status of an ended backup.
EndedStays ==
    \A b \in Backups : (status[b] \in Terminal \cup {"removed"} /\ status'[b] # status[b])
        => status[b] # "removed" /\ status'[b] = "removed"

\* A step changes the status of an ended backup only by its removal.
LEMMA OutcomeStep ==
  ASSUME TypeOK, [Next]_vars
  PROVE  EndedStays
<1> USE DEF TypeOK, EndedStays, Terminal, Statuses, configVars, schedVars, factVars,
      rowVars, runVars, restoreVars
<1>1. ASSUME NEW d \in Databases, NEW b \in Backups, InsertBackup(d, b) PROVE EndedStays
  BY <1>1 DEF InsertBackup
<1>2. ASSUME NEW b \in Backups, PublishBackup(b) PROVE EndedStays
  BY <1>2 DEF PublishBackup, MayPublish
<1>3. ASSUME NEW b \in Backups, EndFailedRun(b) PROVE EndedStays
  BY <1>3 DEF EndFailedRun, EndBackupAndDiscardFiles
<1>4. CASE Remove
  BY <1>4 DEF Remove
<1>5. CASE RecoverBackups
  BY <1>5 DEF RecoverBackups
<1>6. CASE UNCHANGED <<status>>
  BY <1>6
<1>7. CASE \/ RunSchedulerPass \/ SlotComes \/ RefuseRemoval \/ Shutdown \/ Exit
             \/ RecoverRestores
           \/ \E d \in Databases : ClearStorage(d) \/ RefuseStart(d) \/ SkipStart(d)
           \/ \E d \in Databases, by \in {"manual", "schedule", "retry"} : 
                LockForStart(d, by)
           \/ \E b \in Backups : LaunchRun(b) \/ DumpSucceeds(b) \/ DumpFails(b)
                \/ WriteMetadataFile(b) \/ RefusePublication(b) \/ ReachTimeLimit(b)
                \/ RequestCancel(b) \/ Cancel(b) \/ LockBackup(b)
           \/ \E d \in Databases, kind \in {"storage", "database"}, s \in Storages \cup {None} : 
                LockDatabaseBackups(d, kind, s)
           \/ \E r \in Restores : InsertRestore(r) \/ CommitRestore(r)
                \/ RefuseRestore(r) \/ EndRestore(r) \/ CancelRestore(r)
           \/ \E r \in Restores, b \in Backups : CheckRestore(r, b)
           \/ \E b \in Backups, p \in Parts : LoseReceipt(b, p)
  BY <1>7, <1>6 DEF RunSchedulerPass, SlotComes, ClearStorage, LockForStart,
    RefuseStart, SkipStart, LaunchRun, DumpSucceeds, DumpFails, WriteMetadataFile,
    RefusePublication, ReachTimeLimit, RequestCancel, Cancel, LockBackup,
    LockDatabaseBackups, RefuseRemoval, InsertRestore, CommitRestore, RefuseRestore,
    EndRestore, CancelRestore, CheckRestore, LoseReceipt, Shutdown, Exit,
    RecoverRestores
<1>8. CASE UNCHANGED vars
  BY <1>8, <1>6 DEF vars
<1> QED BY <1>1, <1>2, <1>3, <1>4, <1>5, <1>6, <1>7, <1>8, Actions

\* An ended backup stays as it ended until it is removed, and a removed one stays removed.
THEOREM EndedBackupsStay == Spec => [][EndedStays]_vars
<1>1. IInv /\ [Next]_vars => [EndedStays]_vars
  BY OutcomeStep DEF IInv
<1> QED BY <1>1, Invariant, PTL DEF Spec

-----------------------------------------------------------------------------
(* Retries.  Between the pass that decides on a retry and its insert only     *)
(* users start backups, and only an insert makes a row of failures longer.    *)

\* The history names backups that were inserted.
Inserted == \A n \in DOMAIN history : status[history[n]] # "unused"

\* A backup in progress is the newest of its database.
NewestRuns ==
    \A m, n \in DOMAIN history :
        status[history[n]] = "IN_PROGRESS" /\ of[history[m]] = of[history[n]] => m <= n

\* A pass has nothing left to start for a database whose start it has begun.
OnePass == \A d \in Databases : lock[d] \in {"schedule", "retry"} => due[d] = None

\* A retry that a pass decided on is still allowed.
Decided ==
    \A d \in Databases : due[d] = "retry" \/ lock[d] = "retry" =>
        \E n \in Nat : n = Len(history) + 1 /\ \E k \in 0 .. n - 1 : FewFailuresBefore(d, k, n)

RetriesFollowFew ==
    \A d \in Databases : \A n \in Streak(d) :
        startedBy[history[n]] = "retry" => \E k \in 0 .. n - 1 : FewFailuresBefore(d, k, n)

Reasons == startedBy \in [Backups -> Starts \cup {None}]

RetryInv == Reasons /\ Inserted /\ NewestRuns /\ OnePass /\ Decided /\ RetriesFollowFew

\* Every place of a finite set of numbers is taken: the place of a number is how
\* many are as large.
LEMMA PlacesAreTaken ==
  ASSUME NEW n \in Nat, NEW S \in SUBSET (1..n)
  PROVE  /\ IsFiniteSet(S) /\ Cardinality(S) \in Nat
         /\ \A i \in 1..Cardinality(S) :
              Largest(S, i) \in S /\ Cardinality({t \in S : t >= Largest(S, i)}) = i
<1> DEFINE size == Cardinality(S)
           AsLarge(r) == {t \in S : t >= r}
           place == [r \in S |-> Cardinality(AsLarge(r))]
<1>1. IsFiniteSet(S) /\ size \in Nat
  <2>1. IsFiniteSet(1..n)
    BY FS_Interval
  <2> QED BY <2>1, FS_Subset, FS_CardinalityType
<1>2. \A r \in S : IsFiniteSet(AsLarge(r)) /\ Cardinality(AsLarge(r)) \in Nat
  BY <1>1, FS_Subset, FS_CardinalityType
<1>3. ASSUME NEW q \in S, NEW r \in S, q < r PROVE place[r] < place[q]
  <2>0. \A t \in S : t \in Nat
    OBVIOUS
  <2>1. AsLarge(r) \in SUBSET AsLarge(q) /\ q \in AsLarge(q) /\ q \notin AsLarge(r)
    <3>1. \A t \in S : t >= r => t >= q
      BY <1>3, <2>0
    <3>2. q >= q /\ ~(q >= r)
      BY <1>3, <2>0
    <3> QED BY <3>1, <3>2, Zenon
  <2>2. Cardinality(AsLarge(r)) <= Cardinality(AsLarge(q))
        /\ Cardinality(AsLarge(r)) # Cardinality(AsLarge(q))
    <3> HIDE DEF AsLarge
    <3> QED BY <1>2, <2>1, FS_Subset
  <2> HIDE DEF AsLarge
  <2> QED BY <1>2, <2>2
<1>4. ASSUME NEW r \in S PROVE place[r] \in 1..size
  <2>1. AsLarge(r) \in SUBSET S /\ r \in AsLarge(r)
    OBVIOUS
  <2>2. Cardinality(AsLarge(r)) <= size /\ Cardinality(AsLarge(r)) # 0
    <3> HIDE DEF AsLarge
    <3> QED BY <1>1, <1>2, <2>1, FS_Subset, FS_EmptySet
  <2> HIDE DEF AsLarge
  <2> QED BY <1>1, <1>2, <2>2
<1>5. \A r \in S : place[r] = Cardinality({t \in S : t >= r})
  OBVIOUS
<1> HIDE DEF place
<1>6. place \in Injection(S, 1..size)
  <2>1. place \in [S -> 1..size]
    BY <1>4 DEF place
  <2>2. ASSUME NEW q \in S, NEW r \in S, place[q] = place[r] PROVE q = r
    <3>1. q \in Nat /\ r \in Nat /\ place[q] \in Nat
      BY <1>1, <1>4
    <3> QED BY <1>3, <2>2, <3>1
  <2> QED BY <2>1, <2>2 DEF Injection, IsInjective
<1>7. IsFiniteSet(1..size) /\ Cardinality(1..size) = size
  BY <1>1, FS_Interval
<1>8. place \in Surjection(S, 1..size)
  BY <1>6, <1>7, FS_Injection
<1>9. ASSUME NEW i \in 1..size
      PROVE  Largest(S, i) \in S /\ Cardinality({t \in S : t >= Largest(S, i)}) = i
  <2>1. \E r \in S : Cardinality({t \in S : t >= r}) = i
    BY <1>5, <1>8 DEF Surjection
  <2> QED BY <2>1 DEF Largest
<1> QED BY <1>1, <1>9

\* A pass retries a database only after fewer failures in a row than allowed.
LEMMA RetryIsAllowed ==
  ASSUME TypeOK, NewestRuns, NEW d \in Databases, DueReason(d) = "retry",
         NEW k \in Nat, k = Len(history), NEW n \in Nat
  PROVE  FewFailuresBefore(d, k, n)
<1> DEFINE rows == {r \in DOMAIN history : history[r] \in RowsOf(d)}
           size == Cardinality(rows)
           streak == Streak(d)
           newest == Newest(d)
           failed == {i \in 1 .. Len(newest) :
                         i <= MaxFailedTriesCount /\ status[newest[i]] = "FAILED"}
<1>1. history \in Seq(Backups) /\ Len(history) \in Nat /\ DOMAIN history = 1 .. Len(history)
      /\ MaxFailedTriesCount \in Nat
  BY BoundsAssumption DEF TypeOK
<1>2. newest # <<>> /\ status[newest[1]] # "IN_PROGRESS" /\ Cardinality(failed) < MaxFailedTriesCount
  BY NoneAssumption DEF DueReason, IsRetryDue
<1>3. rows \in SUBSET (1 .. Len(history)) /\ streak \in SUBSET rows
  BY <1>1 DEF Streak, RowsOf, HasRow, Terminal
<1>4. /\ IsFiniteSet(rows) /\ size \in Nat
      /\ \A i \in 1 .. size :
           Largest(rows, i) \in rows /\ Cardinality({t \in rows : t >= Largest(rows, i)}) = i
  BY <1>1, <1>3, PlacesAreTaken
<1>5. newest = [i \in 1 .. size |-> history[Largest(rows, i)]] /\ Len(newest) = size
  BY <1>1, <1>4 DEF Newest
<1>6. IsFiniteSet(streak) /\ Cardinality(streak) \in Nat /\ Cardinality(streak) <= size
  BY <1>3, <1>4, FS_Subset, FS_CardinalityType
<1>7. ASSUME Cardinality(streak) >= MaxFailedTriesCount PROVE FALSE
  <2> HIDE DEF rows
  <2>1. ASSUME NEW i \in 1 .. MaxFailedTriesCount PROVE Largest(rows, i) \in streak
    <3>0. PICK x : x = Largest(rows, i)
      OBVIOUS
    <3> DEFINE above == {t \in rows : t >= x}
    <3>1. i \in 1 .. size
      BY <1>1, <1>4, <1>6, <1>7
    <3>2. x \in rows /\ x \in Nat /\ above \in SUBSET rows /\ Cardinality(above) = i
      <4>1. x \in rows /\ Cardinality(above) = i
        BY <1>4, <3>0, <3>1
      <4> QED BY <1>1, <1>3, <4>1
    <3>a. x \in above
      BY <3>2
    <3>3. ASSUME x \notin streak PROVE FALSE
      <4>1. ASSUME NEW s \in streak PROVE s \in above \ {x}
        <5>1. s \in rows /\ s \in Nat /\ x \in Nat /\ s # x
          <6> HIDE DEF streak
          <6> QED BY <1>1, <1>3, <3>2, <3>3, <4>1
        <5>2. ~(s < x)
          <6>1. of[history[x]] = d
            BY <3>2 DEF rows, RowsOf
          <6>2. ASSUME s < x PROVE x \in streak
            BY <1>1, <1>3, <3>2, <5>1, <6>1, <6>2 DEF Streak
          <6> QED BY <3>3, <6>2
        <5> QED BY <5>1, <5>2
      <4>2. IsFiniteSet(above) /\ Cardinality(above \ {x}) = i - 1
        <5>1. IsFiniteSet(above)
          BY <1>4, <3>2, FS_Subset
        <5> HIDE DEF above
        <5> QED BY <3>2, <3>a, <5>1, FS_RemoveElement
      <4>3. IsFiniteSet(above \ {x}) /\ streak \in SUBSET (above \ {x})
        <5> HIDE DEF above
        <5> QED BY <4>1, <4>2, FS_RemoveElement
      <4>4. Cardinality(streak) <= Cardinality(above \ {x})
        <5> HIDE DEF above, streak
        <5> QED BY <4>3, FS_Subset
      <4> HIDE DEF above
      <4> QED BY <1>1, <1>6, <1>7, <4>2, <4>4
    <3> QED BY <3>0, <3>3
  <2>2. ASSUME NEW i \in 1 .. MaxFailedTriesCount
        PROVE  i \in 1 .. Len(newest) /\ status[newest[i]] = "FAILED"
    <3>1. i \in 1 .. size /\ i \in 1 .. Len(newest) /\ newest[i] = history[Largest(rows, i)]
      BY <1>1, <1>4, <1>5, <1>6, <1>7
    <3>2. Largest(rows, i) \in streak /\ Largest(rows, i) \in rows
      BY <1>4, <2>1, <3>1
    <3>3. status[newest[i]] \in {"FAILED", "IN_PROGRESS"}
      BY <1>1, <1>3, <3>1, <3>2 DEF Streak
    <3>4. ASSUME status[newest[i]] = "IN_PROGRESS" PROVE FALSE
      <4> DEFINE x == Largest(rows, i)
                 first == Largest(rows, 1)
      <4>1. 1 \in 1 .. size /\ first \in rows /\ newest[1] = history[first]
            /\ Cardinality({t \in rows : t >= first}) = 1
        BY <1>1, <1>4, <1>5, <3>1
      <4>2. of[history[x]] = d /\ of[history[first]] = d /\ x \in Nat /\ first \in Nat
            /\ x \in DOMAIN history /\ first \in DOMAIN history
        BY <1>1, <1>3, <3>2, <4>1 DEF rows, RowsOf
      <4>3. first <= x
        BY <3>1, <3>4, <4>2 DEF NewestRuns
      <4>4. x = first
        <5> DEFINE top == {t \in rows : t >= first}
        <5>1. IsFiniteSet(top) /\ x \in top /\ first \in top
          BY <1>4, <3>2, <4>1, <4>2, <4>3, FS_Subset
        <5>2. Cardinality(top) = 1
          BY <4>1
        <5> HIDE DEF top
        <5>3. PICK y : top = {y}
          BY <5>1, <5>2, FS_Singleton
        <5> QED BY <5>1, <5>3
      <4> QED BY <1>2, <3>1, <3>4, <4>1, <4>4
    <3> QED BY <3>1, <3>3, <3>4
  <2>3. failed = 1 .. MaxFailedTriesCount
    <3> HIDE DEF newest
    <3>1. ASSUME NEW i \in 1 .. MaxFailedTriesCount PROVE i \in failed
      <4>1. i <= MaxFailedTriesCount
        BY <1>1
      <4> QED BY <2>2, <4>1
    <3>2. ASSUME NEW i \in failed PROVE i \in 1 .. MaxFailedTriesCount
      <4>1. i \in 1 .. size /\ i <= MaxFailedTriesCount
        BY <1>5
      <4> QED BY <1>1, <1>4, <4>1
    <3> HIDE DEF failed
    <3> QED BY <3>1, <3>2
  <2>4. Cardinality(1 .. MaxFailedTriesCount) = MaxFailedTriesCount
    BY <1>1, FS_Interval
  <2> HIDE DEF failed, newest
  <2> QED BY <1>1, <1>2, <2>3, <2>4
<1>8. {m \in streak : m <= k} = streak
  BY <1>1, <1>3
<1>9. Cardinality(streak) < MaxFailedTriesCount
  BY <1>1, <1>6, <1>7
<1>10. Cardinality({m \in streak : m <= k}) < MaxFailedTriesCount
  BY <1>8, <1>9
<1>11. \A m \in streak : ~(k < m)
  BY <1>1, <1>3
<1> QED BY <1>10, <1>11 DEF FewFailuresBefore

\* How the status of a row moves, other than by its insert.
Settles(b) ==
    \/ status'[b] = status[b]
    \/ /\ status'[b] \notin {"unused", "IN_PROGRESS"}
       /\ status'[b] = "FAILED" => status[b] = "IN_PROGRESS"

\* A step inserts a row, or at most ends and removes rows.
LEMMA RowsSettle ==
  ASSUME TypeOK, [Next]_vars,
         ~ \E d \in Databases, b \in Backups : InsertBackup(d, b)
  PROVE  UNCHANGED factVars /\ \A b \in Backups : Settles(b)
<1> USE DEF TypeOK, Settles, Terminal, Statuses, configVars, schedVars, factVars,
      rowVars, runVars, restoreVars
<1>2. ASSUME NEW b \in Backups, PublishBackup(b)
      PROVE  UNCHANGED factVars /\ \A c \in Backups : Settles(c)
  BY <1>2 DEF PublishBackup, MayPublish
<1>3. ASSUME NEW b \in Backups, EndFailedRun(b)
      PROVE  UNCHANGED factVars /\ \A c \in Backups : Settles(c)
  BY <1>3 DEF EndFailedRun, EndBackupAndDiscardFiles
<1>4. CASE Remove
  BY <1>4 DEF Remove
<1>5. CASE RecoverBackups
  BY <1>5 DEF RecoverBackups
<1>6. CASE UNCHANGED rowVars
  BY <1>6
<1>7. CASE \/ RunSchedulerPass \/ SlotComes \/ RefuseRemoval \/ Shutdown \/ Exit
             \/ RecoverRestores
           \/ \E d \in Databases : ClearStorage(d) \/ RefuseStart(d) \/ SkipStart(d)
           \/ \E d \in Databases, by \in {"manual", "schedule", "retry"} : 
                LockForStart(d, by)
           \/ \E b \in Backups : LaunchRun(b) \/ DumpSucceeds(b) \/ DumpFails(b)
                \/ WriteMetadataFile(b) \/ RefusePublication(b) \/ ReachTimeLimit(b)
                \/ RequestCancel(b) \/ Cancel(b) \/ LockBackup(b)
           \/ \E d \in Databases, kind \in {"storage", "database"}, s \in Storages \cup {None} : 
                LockDatabaseBackups(d, kind, s)
           \/ \E r \in Restores : InsertRestore(r) \/ CommitRestore(r)
                \/ RefuseRestore(r) \/ EndRestore(r) \/ CancelRestore(r)
           \/ \E r \in Restores, b \in Backups : CheckRestore(r, b)
           \/ \E b \in Backups, p \in Parts : LoseReceipt(b, p)
  <2>1. UNCHANGED rowVars
    BY <1>7 DEF RunSchedulerPass, SlotComes, ClearStorage, LockForStart,
    RefuseStart, SkipStart, LaunchRun, DumpSucceeds, DumpFails, WriteMetadataFile,
    RefusePublication, ReachTimeLimit, RequestCancel, Cancel, LockBackup,
    LockDatabaseBackups, RefuseRemoval, InsertRestore, CommitRestore, RefuseRestore,
    EndRestore, CancelRestore, CheckRestore, LoseReceipt, Shutdown, Exit,
    RecoverRestores
  <2> QED BY <2>1, <1>6
<1>8. CASE UNCHANGED vars
  BY <1>8, <1>6 DEF vars
<1> QED BY <1>2, <1>3, <1>4, <1>5, <1>6, <1>7, <1>8, Actions

\* How a step other than a pass moves what is due and who holds a database.
Starting(d) ==
    /\ due'[d] = due[d] \/ due'[d] = None
    /\ \/ lock'[d] = lock[d]
       \/ lock'[d] \notin {"schedule", "retry"}
       \/ lock'[d] = due[d] /\ due'[d] = None

\* Only a pass decides what is due.
LEMMA DueMoves ==
  ASSUME TypeOK, [Next]_vars
  PROVE  RunSchedulerPass \/ \A d \in Databases : Starting(d)
<1> USE NoneAssumption DEF TypeOK, MoreTypes, Starting, configVars, schedVars
<1>1. ASSUME NEW d \in Databases, NEW by \in {"manual", "schedule", "retry"},
             LockForStart(d, by)
      PROVE  \A e \in Databases : Starting(e)
  BY <1>1 DEF LockForStart
<1>2. ASSUME NEW d \in Databases, NEW b \in Backups, InsertBackup(d, b)
      PROVE  \A e \in Databases : Starting(e)
  BY <1>2 DEF InsertBackup
<1>3. ASSUME NEW d \in Databases, RefuseStart(d) PROVE \A e \in Databases : Starting(e)
  BY <1>3 DEF RefuseStart
<1>4. ASSUME NEW d \in Databases, SkipStart(d) PROVE \A e \in Databases : Starting(e)
  BY <1>4 DEF SkipStart
<1>5. ASSUME NEW d \in Databases, NEW kind \in {"storage", "database"},
             NEW s \in Storages \cup {None}, LockDatabaseBackups(d, kind, s)
      PROVE  \A e \in Databases : Starting(e)
  BY <1>5 DEF LockDatabaseBackups
<1>6. CASE Remove \/ RefuseRemoval
  BY <1>6 DEF Remove, RefuseRemoval, ReleaseRemoval
<1>7. CASE Exit
  BY <1>7 DEF Exit
<1>8. CASE UNCHANGED <<due, lock>>
  BY <1>8
<1>9. CASE \/ SlotComes \/ Shutdown \/ RecoverBackups \/ RecoverRestores
           \/ \E d \in Databases : ClearStorage(d)
           \/ \E b \in Backups : LaunchRun(b) \/ DumpSucceeds(b) \/ DumpFails(b)
                \/ WriteMetadataFile(b) \/ PublishBackup(b) \/ RefusePublication(b)
                \/ EndFailedRun(b) \/ ReachTimeLimit(b)
                \/ RequestCancel(b) \/ Cancel(b) \/ LockBackup(b)
           \/ \E r \in Restores : InsertRestore(r) \/ CommitRestore(r)
                \/ RefuseRestore(r) \/ EndRestore(r) \/ CancelRestore(r)
           \/ \E r \in Restores, b \in Backups : CheckRestore(r, b)
           \/ \E b \in Backups, p \in Parts : LoseReceipt(b, p)
  <2>1. CASE SlotComes \/ Shutdown \/ RecoverBackups \/ RecoverRestores
    BY <2>1, <1>8 DEF SlotComes, Shutdown, RecoverBackups, RecoverRestores
  <2>2. CASE \E d \in Databases : ClearStorage(d)
    BY <2>2, <1>8 DEF ClearStorage
  <2>3. CASE \E b \in Backups : LaunchRun(b) \/ DumpSucceeds(b) \/ DumpFails(b)
                \/ WriteMetadataFile(b) \/ PublishBackup(b) \/ RefusePublication(b)
    BY <2>3, <1>8 DEF LaunchRun, DumpSucceeds, DumpFails, WriteMetadataFile, PublishBackup,
      RefusePublication
  <2>4. CASE \E b \in Backups : EndFailedRun(b) \/ ReachTimeLimit(b)
                \/ RequestCancel(b) \/ Cancel(b) \/ LockBackup(b)
    BY <2>4, <1>8 DEF EndFailedRun, ReachTimeLimit, RequestCancel, Cancel, LockBackup
  <2>5. CASE \/ \E r \in Restores : InsertRestore(r) \/ CommitRestore(r)
                \/ RefuseRestore(r) \/ EndRestore(r) \/ CancelRestore(r)
             \/ \E r \in Restores, b \in Backups : CheckRestore(r, b)
             \/ \E b \in Backups, p \in Parts : LoseReceipt(b, p)
    BY <2>5, <1>8 DEF InsertRestore, CommitRestore, RefuseRestore, EndRestore, CancelRestore,
      CheckRestore, LoseReceipt
  <2> QED BY <1>9, <2>1, <2>2, <2>3, <2>4, <2>5
<1>10. CASE UNCHANGED vars
  BY <1>10, <1>8 DEF vars
<1> QED BY <1>1, <1>2, <1>3, <1>4, <1>5, <1>6, <1>7, <1>9, <1>10, Actions

\* A step that inserts nothing leaves rows of failures as they are, or shortens them.
LEMMA StreaksShrink ==
  ASSUME TypeOK, UNCHANGED factVars, \A b \in Backups : Settles(b), NEW d \in Databases
  PROVE  Streak(d)' \subseteq Streak(d)
<1>1. history \in Seq(Backups) /\ \A n \in DOMAIN history : history[n] \in Backups
  BY DEF TypeOK
<1>2. \A n \in DOMAIN history : status'[history[n]] \in {"FAILED", "IN_PROGRESS"}
                                => status[history[n]] \in {"FAILED", "IN_PROGRESS"}
  BY <1>1 DEF Settles
<1>3. history' = history /\ of' = of
  BY DEF factVars
<1> QED BY <1>2, <1>3 DEF Streak

\* Fewer failures are still few.
LEMMA FewStayFew ==
  ASSUME TypeOK, history' \in Seq(Backups), NEW d \in Databases,
         NEW k \in 0 .. Len(history), NEW n \in Nat, k < n, FewFailuresBefore(d, k, n),
         \A m \in Streak(d)' : m < n =>
             m \in Streak(d) /\ startedBy'[history'[m]] = startedBy[history[m]]
  PROVE  FewFailuresBefore(d, k, n)'
<1> DEFINE few == {m \in Streak(d) : m <= k}
           left == {m \in Streak(d)' : m <= k}
<1>1. /\ Len(history) \in Nat /\ Streak(d) \in SUBSET (1 .. Len(history))
      /\ \A m \in Streak(d)' : m \in Nat
      /\ MaxFailedTriesCount \in Nat
  BY BoundsAssumption DEF TypeOK, Streak
<1>2. few \in SUBSET Streak(d) /\ left \in SUBSET few
  BY <1>1
<1>3. /\ Cardinality(few) < MaxFailedTriesCount
      /\ \A m \in Streak(d) : k < m /\ m < n => startedBy[history[m]] = "manual"
  BY DEF FewFailuresBefore
<1>4. IsFiniteSet(few) /\ Cardinality(few) \in Nat
  <2>0. Len(history) \in Nat
    BY <1>1
  <2>1. IsFiniteSet(1 .. Len(history))
    BY <2>0, FS_Interval
  <2> QED BY <1>1, <1>2, <2>1, FS_Subset, FS_CardinalityType
<1>5. Cardinality(left) < MaxFailedTriesCount
  <2> HIDE DEF few, left
  <2>1. IsFiniteSet(left) /\ Cardinality(left) \in Nat /\ Cardinality(left) <= Cardinality(few)
    BY <1>2, <1>4, FS_Subset, FS_CardinalityType
  <2> QED BY <1>1, <1>3, <1>4, <2>1
<1>6. \A m \in Streak(d)' : k < m /\ m < n => startedBy'[history'[m]] = "manual"
  BY <1>3
<1> QED BY <1>5, <1>6 DEF FewFailuresBefore

\* The row a start inserts is the newest, and what it adds to a row of failures.
LEMMA InsertAppends ==
  ASSUME TypeOK, Reasons, Inserted, NEW d \in Databases, NEW b \in Backups, InsertBackup(d, b)
  PROVE  /\ Len(history') = Len(history) + 1 /\ history' \in Seq(Backups)
         /\ history'[Len(history) + 1] = b /\ of'[b] = d /\ startedBy'[b] = lock[d]
         /\ status'[b] = "IN_PROGRESS"
         /\ \A n \in DOMAIN history :
              /\ n \in DOMAIN history' /\ history'[n] = history[n] /\ history[n] \in Backups
              /\ history[n] # b
              /\ of'[history[n]] = of[history[n]] /\ status'[history[n]] = status[history[n]]
              /\ startedBy'[history[n]] = startedBy[history[n]]
<1>1. history \in Seq(Backups) /\ history' = Append(history, b) /\ status[b] = "unused"
  BY DEF TypeOK, InsertBackup
<1>2. \A n \in DOMAIN history : history[n] \in Backups /\ history[n] # b
  BY <1>1 DEF Inserted
<1>3. \A n \in DOMAIN history : n \in DOMAIN history' /\ history'[n] = history[n]
  BY <1>1
<1>4. Len(history') = Len(history) + 1 /\ history' \in Seq(Backups)
      /\ history'[Len(history) + 1] = b
  BY <1>1
<1>5. /\ of'[b] = d /\ startedBy'[b] = lock[d] /\ status'[b] = "IN_PROGRESS"
      /\ \A c \in Backups \ {b} : of'[c] = of[c] /\ status'[c] = status[c]
                                /\ startedBy'[c] = startedBy[c]
  BY DEF TypeOK, Reasons, InsertBackup
<1> QED BY <1>2, <1>3, <1>4, <1>5

\* A step that inserts nothing keeps what is known of retries.
LEMMA RestingRetries ==
  ASSUME TypeOK, TypeOK', RetryInv, [Next]_vars,
         ~ \E d \in Databases, b \in Backups : InsertBackup(d, b)
  PROVE  RetryInv'
<1>1. /\ history' = history /\ of' = of /\ startedBy' = startedBy
      /\ UNCHANGED factVars /\ \A b \in Backups : Settles(b)
  BY RowsSettle DEF factVars
<1>2. /\ history \in Seq(Backups) /\ history' \in Seq(Backups) /\ Len(history) \in Nat
      /\ \A n \in DOMAIN history : history[n] \in Backups /\ n \in Nat
  BY DEF TypeOK
<1>3. Reasons' /\ Inserted' /\ NewestRuns'
  <2>1. \A n \in DOMAIN history : Settles(history[n])
    BY <1>1, <1>2
  <2>2. Reasons'
    BY <1>1 DEF RetryInv, Reasons
  <2>3. Inserted'
    BY <1>1, <2>1 DEF RetryInv, Inserted, Settles
  <2>4. NewestRuns'
    BY <1>1, <2>1 DEF RetryInv, NewestRuns, Settles
  <2> QED BY <2>2, <2>3, <2>4
<1>4. ASSUME NEW d \in Databases, NEW k \in 0 .. Len(history), NEW n \in Nat, k < n,
             FewFailuresBefore(d, k, n)
      PROVE  FewFailuresBefore(d, k, n)'
  <2>1. Streak(d)' \subseteq Streak(d)
    BY <1>1, StreaksShrink
  <2> QED BY <1>1, <1>2, <1>4, <2>1, FewStayFew
<1>5. OnePass' /\ Decided'
  <2>1. CASE RunSchedulerPass
    <3>1. /\ lock' = lock /\ \A d \in Databases : lock[d] \notin {"schedule", "retry"}
          /\ \A d \in Databases : due'[d] = DueReason(d)
      BY <2>1 DEF RunSchedulerPass, configVars
    <3>2. OnePass'
      BY <3>1 DEF OnePass
    <3>3. ASSUME NEW d \in Databases, due'[d] = "retry" \/ lock'[d] = "retry"
          PROVE  \E n \in Nat : n = Len(history') + 1
                    /\ \E k \in 0 .. n - 1 : FewFailuresBefore(d, k, n)'
      <4>1. PICK k \in Nat : k = Len(history)
        BY <1>2
      <4>2. PICK n \in Nat : n = k + 1
        OBVIOUS
      <4>3. FewFailuresBefore(d, k, n)
        BY <3>1, <3>3, <4>1, RetryIsAllowed DEF RetryInv
      <4>4. FewFailuresBefore(d, k, n)'
        BY <1>4, <4>1, <4>2, <4>3
      <4>5. k \in 0 .. n - 1 /\ n = Len(history') + 1
        BY <1>1, <4>1, <4>2
      <4> QED BY <4>4, <4>5
    <3> QED BY <3>2, <3>3 DEF Decided
  <2>2. CASE \A d \in Databases : Starting(d)
    <3>1. OnePass'
      BY <2>2 DEF RetryInv, OnePass, Starting
    <3>2. ASSUME NEW d \in Databases, due'[d] = "retry" \/ lock'[d] = "retry"
          PROVE  \E n \in Nat : n = Len(history') + 1
                    /\ \E k \in 0 .. n - 1 : FewFailuresBefore(d, k, n)'
      <4>1. due[d] = "retry" \/ lock[d] = "retry"
        BY <2>2, <3>2, NoneAssumption DEF Starting
      <4>2. PICK n \in Nat : /\ n = Len(history) + 1
                             /\ \E k \in 0 .. n - 1 : FewFailuresBefore(d, k, n)
        BY <4>1 DEF RetryInv, Decided
      <4>3. PICK k \in 0 .. n - 1 : FewFailuresBefore(d, k, n)
        BY <4>2
      <4>4. k \in 0 .. Len(history) /\ k < n
        BY <1>2, <4>2
      <4>5. FewFailuresBefore(d, k, n)'
        BY <1>4, <4>3, <4>4
      <4> QED BY <1>1, <4>2, <4>5
    <3> QED BY <3>1, <3>2 DEF Decided
  <2> QED BY <2>1, <2>2, DueMoves
<1>6. RetriesFollowFew'
  <2>1. ASSUME NEW d \in Databases, NEW n \in Streak(d)', startedBy'[history'[n]] = "retry"
        PROVE  \E k \in 0 .. n - 1 : FewFailuresBefore(d, k, n)'
    <3>1. n \in Streak(d) /\ startedBy[history[n]] = "retry"
      BY <1>1, <2>1, StreaksShrink
    <3>2. PICK k \in 0 .. n - 1 : FewFailuresBefore(d, k, n)
      BY <3>1 DEF RetryInv, RetriesFollowFew
    <3>3. n \in 1 .. Len(history) /\ k \in 0 .. Len(history) /\ k < n
      BY <1>2, <3>1, <3>2 DEF Streak
    <3> QED BY <1>4, <3>2, <3>3
  <2> QED BY <2>1 DEF RetriesFollowFew
<1> QED BY <1>3, <1>5, <1>6 DEF RetryInv

\* An insert keeps it: a retry that is inserted was decided on, and while another
\* one is decided on it is a user's.
LEMMA InsertedRetries ==
  ASSUME TypeOK, TypeOK', RetryInv, NEW d \in Databases, NEW b \in Backups, InsertBackup(d, b)
  PROVE  RetryInv'
<1>0. PICK old \in Nat : old = Len(history)
  BY DEF TypeOK
<1>1. /\ Len(history') = old + 1 /\ history' \in Seq(Backups) /\ history \in Seq(Backups)
      /\ history'[old + 1] = b /\ of'[b] = d /\ startedBy'[b] = lock[d]
      /\ status'[b] = "IN_PROGRESS"
  BY <1>0, InsertAppends DEF RetryInv, TypeOK
<1>2. \A n \in 1 .. old :
          /\ history'[n] = history[n] /\ history[n] \in Backups
          /\ of'[history'[n]] = of[history[n]] /\ status'[history'[n]] = status[history[n]]
          /\ startedBy'[history'[n]] = startedBy[history[n]]
  <2>1. DOMAIN history = 1 .. old
    BY <1>0, <1>1
  <2> QED BY <2>1, InsertAppends DEF RetryInv
<1>3. /\ lock[d] \in Starts /\ due' = due /\ MayInsert(d)
      /\ lock' = [lock EXCEPT ![d] = None] /\ lock'[d] = None
      /\ \A e \in Databases \ {d} : lock'[e] = lock[e]
      /\ startedBy' = [startedBy EXCEPT ![b] = lock[d]]
  BY DEF TypeOK, InsertBackup, schedVars, Starts
<1>4. DOMAIN history = 1 .. old /\ DOMAIN history' = 1 .. (old + 1)
      /\ \A n \in DOMAIN history' : n \in 1 .. old \/ n = old + 1
  BY <1>0, <1>1
<1>5. Reasons' /\ Inserted' /\ OnePass'
  <2>1. Reasons'
    BY <1>3 DEF RetryInv, Reasons, Starts
  <2>2. Inserted'
    BY <1>1, <1>2, <1>4 DEF RetryInv, Inserted
  <2>3. OnePass'
    BY <1>3, NoneAssumption DEF RetryInv, OnePass
  <2> QED BY <2>1, <2>2, <2>3
<1>6. NewestRuns'
  <2>1. ASSUME NEW m \in DOMAIN history', NEW n \in DOMAIN history',
               status'[history'[n]] = "IN_PROGRESS", of'[history'[m]] = of'[history'[n]]
        PROVE  m <= n
    <3>1. CASE m \in 1 .. old /\ n \in 1 .. old
      BY <1>2, <1>4, <2>1, <3>1 DEF RetryInv, NewestRuns
    <3>2. CASE n = old + 1
      BY <1>1, <1>4, <3>2
    <3>3. CASE n \in 1 .. old /\ m = old + 1
      <4>1. of[history[n]] = d /\ status[history[n]] = "IN_PROGRESS" /\ history[n] \in Backups
        BY <1>1, <1>2, <2>1, <3>3
      <4> QED BY <1>3, <4>1 DEF MayInsert, RowsOf, HasRow
    <3> QED BY <1>4, <3>1, <3>2, <3>3
  <2> QED BY <2>1 DEF NewestRuns
<1>7. ASSUME NEW e \in Databases, NEW n \in Streak(e)', n \in 1 .. old PROVE n \in Streak(e)
  <2> DEFINE Ends(m) == status[history[m]] \in {"FAILED", "IN_PROGRESS"}
  <2>1. \A m \in 1 .. old : of'[history'[m]] = e /\ m >= n => status'[history'[m]] \in {"FAILED", "IN_PROGRESS"}
    BY <1>4, <1>7 DEF Streak
  <2>2. of'[history'[n]] = e
    BY <1>7 DEF Streak
  <2>3. \A m \in 1 .. old : of[history[m]] = e /\ m >= n => Ends(m)
    BY <1>2, <2>1
  <2>4. of[history[n]] = e
    BY <1>2, <1>7, <2>2
  <2> QED BY <1>4, <1>7, <2>3, <2>4 DEF Streak
<1>8. ASSUME NEW e \in Databases, old + 1 \in Streak(e)' PROVE e = d
  BY <1>1, <1>8 DEF Streak
<1>9. \A e \in Databases : \A n \in Streak(e)' : n \in 1 .. old \/ n = old + 1
  BY <1>4 DEF Streak
<1>10. ASSUME NEW e \in Databases, NEW k \in 0 .. old, NEW n \in 1 .. (old + 1), k < n,
              FewFailuresBefore(e, k, n)
       PROVE  FewFailuresBefore(e, k, n)'
  <2>1. \A m \in Streak(e)' : m < n =>
            m \in Streak(e) /\ startedBy'[history'[m]] = startedBy[history[m]]
    BY <1>1, <1>2, <1>7, <1>9
  <2>2. k \in 0 .. Len(history) /\ n \in Nat
    BY <1>0
  <2> QED BY <1>1, <1>10, <2>1, <2>2, FewStayFew
<1>11. ASSUME NEW e \in Databases, due[e] = "retry" \/ lock[e] = "retry", NEW n \in Nat,
              n = old + 1
       PROVE  \E k \in 0 .. n - 1 : FewFailuresBefore(e, k, n)'
  <2>1. PICK k \in 0 .. n - 1 : FewFailuresBefore(e, k, n)
    BY <1>0, <1>11 DEF RetryInv, Decided
  <2>2. k \in 0 .. old /\ k < n /\ n \in 1 .. (old + 1)
    BY <1>11
  <2> QED BY <1>10, <2>1, <2>2
<1>12. RetriesFollowFew'
  <2>1. ASSUME NEW e \in Databases, NEW n \in Streak(e)', startedBy'[history'[n]] = "retry"
        PROVE  \E k \in 0 .. n - 1 : FewFailuresBefore(e, k, n)'
    <3>1. CASE n \in 1 .. old
      <4>1. n \in Streak(e) /\ startedBy[history[n]] = "retry"
        BY <1>2, <1>7, <2>1, <3>1
      <4>2. PICK k \in 0 .. n - 1 : FewFailuresBefore(e, k, n)
        BY <4>1 DEF RetryInv, RetriesFollowFew
      <4>3. k \in 0 .. old /\ k < n /\ n \in 1 .. (old + 1)
        BY <1>1, <3>1, <4>2
      <4> QED BY <1>10, <4>2, <4>3
    <3>2. CASE n = old + 1
      <4>1. e = d /\ lock[e] = "retry"
        BY <1>1, <1>8, <2>1, <3>2
      <4> QED BY <1>11, <3>2, <4>1
    <3> QED BY <1>9, <3>1, <3>2
  <2> QED BY <2>1 DEF RetriesFollowFew
<1>13. Decided'
  <2>1. ASSUME NEW e \in Databases, due'[e] = "retry" \/ lock'[e] = "retry"
        PROVE  \E n \in Nat : n = Len(history') + 1
                  /\ \E k \in 0 .. n - 1 : FewFailuresBefore(e, k, n)'
    <3>1. due[e] = "retry" \/ lock[e] = "retry"
      BY <1>3, <2>1, NoneAssumption
    <3>2. PICK m \in Nat : m = old + 1
      OBVIOUS
    <3>3. PICK k \in 0 .. m - 1 : FewFailuresBefore(e, k, m)'
      BY <1>11, <3>1, <3>2
    <3>4. e = d => lock[d] = "manual"
      BY <1>3, <2>1, NoneAssumption DEF RetryInv, OnePass, Starts
    <3>5. m \in Streak(e)' => startedBy'[history'[m]] = "manual"
      BY <1>1, <1>8, <3>2, <3>4
    <3>6. PICK n \in Nat : n = m + 1
      OBVIOUS
    <3>7. \A j \in Streak(e)' : j < n => j < m \/ j = m
      BY <1>9, <3>2, <3>6
    <3>8. FewFailuresBefore(e, k, n)'
      BY <3>3, <3>5, <3>7 DEF FewFailuresBefore
    <3>9. k \in 0 .. n - 1 /\ n = Len(history') + 1
      BY <1>1, <3>2, <3>3, <3>6
    <3> QED BY <3>8, <3>9
  <2> QED BY <2>1 DEF Decided
<1> QED BY <1>5, <1>6, <1>12, <1>13 DEF RetryInv

\* Retries stop: a retry follows fewer than MaxFailedTriesCount failures in a row, not
\* counting what users started after the pass that decided it, for any number of
\* databases, backups and tries, whatever is removed or restarted in between.
THEOREM RetriesStop == Spec => []RetriesBounded
<1>1. Init => RetryInv
  BY NoneAssumption DEF Init, RetryInv, Reasons, Inserted, NewestRuns, OnePass, Decided,
    RetriesFollowFew, Streak
<1>2. IInv /\ RetryInv /\ [Next]_vars => RetryInv'
  <2> SUFFICES ASSUME IInv, RetryInv, [Next]_vars PROVE RetryInv'
    OBVIOUS
  <2>1. TypeOK /\ TypeOK'
    BY StepInvariant DEF IInv
  <2>2. CASE \E d \in Databases, b \in Backups : InsertBackup(d, b)
    BY <2>1, <2>2, InsertedRetries
  <2>3. CASE ~ \E d \in Databases, b \in Backups : InsertBackup(d, b)
    BY <2>1, <2>3, RestingRetries
  <2> QED BY <2>2, <2>3
<1>3. IInv /\ RetryInv => RetriesBounded
  BY DEF IInv, TypeOK, RetryInv, RetriesFollowFew, RetriesBounded
<1> QED BY <1>1, <1>2, <1>3, Invariant, PTL DEF Spec
=============================================================================
