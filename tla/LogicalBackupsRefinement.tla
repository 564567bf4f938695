----------------------- MODULE LogicalBackupsRefinement -----------------------
(* LogicalBackups implements BackupFate: seen through its rows, the files the  *)
(* store keeps and the restores that run, every step is a step of the promise  *)
(* or a stutter, for every set of databases, storages, backups and restores    *)
(* and every bound on retries, slots and disturbances.                         *)
EXTENDS LogicalBackupsProofs

-----------------------------------------------------------------------------
(* What of a state the promise sees.                                          *)

Catalog == [d \in Databases |-> RowsOf(d)]
Kept    == [b \in Backups |-> {p \in Parts : files[b][p] = "kept"}]
Reading == [r \in Restores |-> IF rrun[r] = "running" THEN {rof[r]} ELSE {}]

\* The files that the rows say are kept.
ByRows == [b \in Backups |-> IF status[b] = "COMPLETED" THEN Parts ELSE {}]

\* The state the promise sees does not move.
Stutters == UNCHANGED Fate!fateVars

\* The store keeps the files the rows say it keeps.
LEMMA KeptByRows ==
  /\ CompletedIffKept => Kept = ByRows
  /\ CompletedIffKept' => Kept' = ByRows'
<1>1. ASSUME CompletedIffKept PROVE Kept = ByRows
  <2>1. ASSUME NEW b \in Backups
        PROVE  {p \in Parts : files[b][p] = "kept"} = IF status[b] = "COMPLETED" THEN Parts ELSE {}
    BY <1>1 DEF CompletedIffKept
  <2> QED BY <2>1 DEF Kept, ByRows
<1>2. ASSUME CompletedIffKept' PROVE Kept' = ByRows'
  <2>1. ASSUME NEW b \in Backups
        PROVE  {p \in Parts : files'[b][p] = "kept"} = IF status'[b] = "COMPLETED" THEN Parts ELSE {}
    BY <1>2 DEF CompletedIffKept
  <2> QED BY <2>1 DEF Kept, ByRows
<1> QED BY <1>1, <1>2

\* Two states with the same databases, rows and running restores look the same.
LEMMA SameView ==
  ASSUME IInv, IInv', UNCHANGED <<dbs, of, status>>, Reading' = Reading
  PROVE  Stutters
<1>1. Catalog' = Catalog
  BY DEF Catalog, RowsOf, HasRow
<1>2. Kept' = Kept
  BY KeptByRows DEF IInv, ByRows
<1> QED BY <1>1, <1>2 DEF Stutters, Fate!fateVars, Catalog, Kept, Reading

-----------------------------------------------------------------------------
(* What the promise needs beyond the invariant of LogicalBackups.             *)

\* A removal has locked rows that exist, and the database they all belong to.
RowsLocked ==
    removal # None =>
        /\ \A b \in removal.ids : HasRow(b)
        /\ removal.kind # "backup" => removal.db \in dbs

\* The partial unique index of restores: one restore of a database is open.
Open(r) == Inserting(r) \/ rstatus[r] = "IN_PROGRESS"
OneRestore ==
    \A q, r \in Restores : Open(q) /\ Open(r) /\ of[rof[q]] = of[rof[r]] => q = r

\* The rows a removal has locked neither go nor change hands under it.
LEMMA RowsLockedStep ==
  ASSUME TypeOK, MoreTypes, RowsLocked, [Next]_vars
  PROVE  RowsLocked'
<1> USE NoneAssumption DEF TypeOK, MoreTypes, RowsLocked, Removals, RowsOf, HasRow, Terminal,
      Statuses, configVars, schedVars, factVars, rowVars, runVars, restoreVars
<1>1. ASSUME NEW d \in Databases, NEW b \in Backups, InsertBackup(d, b) PROVE RowsLocked'
  BY <1>1 DEF InsertBackup
<1>2. ASSUME NEW b \in Backups, PublishBackup(b) PROVE RowsLocked'
  BY <1>2 DEF PublishBackup, MayPublish
<1>3. ASSUME NEW b \in Backups, EndFailedRun(b) PROVE RowsLocked'
  BY <1>3 DEF EndFailedRun, EndBackupAndDiscardFiles
<1>4. ASSUME NEW b \in Backups, LockBackup(b) PROVE RowsLocked'
  BY <1>4 DEF LockBackup
<1>5. ASSUME NEW d \in Databases, NEW kind \in {"storage", "database"},
             NEW s \in Storages \cup {None}, LockDatabaseBackups(d, kind, s) PROVE RowsLocked'
  BY <1>5 DEF LockDatabaseBackups
<1>6. CASE Remove
  BY <1>6 DEF Remove, ReleaseRemoval
<1>7. CASE RefuseRemoval
  BY <1>7 DEF RefuseRemoval, ReleaseRemoval
<1>8. CASE Exit
  BY <1>8 DEF Exit
<1>9. CASE RecoverBackups
  BY <1>9 DEF RecoverBackups
<1>10. CASE UNCHANGED <<removal, dbs, status>>
  BY <1>10
<1>11. CASE \/ RunSchedulerPass \/ SlotComes \/ Shutdown \/ RecoverRestores
            \/ \E d \in Databases : ClearStorage(d) \/ RefuseStart(d) \/ SkipStart(d)
            \/ \E d \in Databases, by \in {"manual", "schedule", "retry"} : LockForStart(d, by)
            \/ \E b \in Backups : LaunchRun(b) \/ DumpSucceeds(b) \/ DumpFails(b)
                 \/ WriteMetadataFile(b) \/ RefusePublication(b) \/ ReachTimeLimit(b)
                 \/ RequestCancel(b) \/ Cancel(b)
            \/ \E r \in Restores : InsertRestore(r) \/ CommitRestore(r)
                 \/ RefuseRestore(r) \/ EndRestore(r) \/ CancelRestore(r)
            \/ \E r \in Restores, b \in Backups : CheckRestore(r, b)
            \/ \E b \in Backups, p \in Parts : LoseReceipt(b, p)
  BY <1>11, <1>10 DEF RunSchedulerPass, SlotComes, ClearStorage, LockForStart, RefuseStart,
    SkipStart, LaunchRun, DumpSucceeds, DumpFails, WriteMetadataFile, RefusePublication,
    ReachTimeLimit, RequestCancel, Cancel, InsertRestore, CommitRestore, RefuseRestore,
    EndRestore, CancelRestore, CheckRestore, LoseReceipt, Shutdown, RecoverRestores
<1>12. CASE UNCHANGED vars
  BY <1>12, <1>10 DEF vars
<1> QED BY <1>1, <1>2, <1>3, <1>4, <1>5, <1>6, <1>7, <1>8, <1>9, <1>10, <1>11, <1>12, Actions

\* A second restore of a database does not pass the index while one is open.
LEMMA OneRestoreStep ==
  ASSUME TypeOK, MoreTypes, RestoreSource, OneRestore, [Next]_vars
  PROVE  OneRestore'
<1> USE DEF TypeOK, MoreTypes, RestoreSource, OneRestore, Open, Inserting,
      configVars, schedVars, factVars, rowVars, runVars, restoreVars
<1>1. ASSUME NEW d \in Databases, NEW b \in Backups, InsertBackup(d, b) PROVE OneRestore'
  <2>1. UNCHANGED <<rstatus, rof>> /\ status[b] = "unused" /\ of' = [of EXCEPT ![b] = d]
    BY <1>1 DEF InsertBackup
  <2>2. \A r \in Restores : Open(r) => of'[rof[r]] = of[rof[r]]
    BY <2>1
  <2> QED BY <2>1, <2>2
<1>2. CASE Remove
  <2>1. UNCHANGED <<of, rof>> /\ \A r \in Restores : Open(r)' => Open(r)
    BY <1>2 DEF Remove
  <2> QED BY <2>1
<1>3. ASSUME NEW r \in Restores, InsertRestore(r) PROVE OneRestore'
  BY <1>3 DEF InsertRestore
<1>4. ASSUME NEW r \in Restores, CommitRestore(r) PROVE OneRestore'
  BY <1>4 DEF CommitRestore
<1>5. ASSUME NEW r \in Restores, RefuseRestore(r) PROVE OneRestore'
  BY <1>5 DEF RefuseRestore
<1>6. ASSUME NEW r \in Restores, EndRestore(r) PROVE OneRestore'
  BY <1>6 DEF EndRestore
<1>7. ASSUME NEW r \in Restores, NEW b \in Backups, CheckRestore(r, b) PROVE OneRestore'
  BY <1>7 DEF CheckRestore
<1>8. CASE Exit
  BY <1>8 DEF Exit
<1>9. CASE RecoverRestores
  BY <1>9 DEF RecoverRestores
<1>10. CASE UNCHANGED <<rstatus, rof, of>>
  BY <1>10
<1>11. CASE \/ RunSchedulerPass \/ SlotComes \/ RefuseRemoval \/ Shutdown \/ RecoverBackups
            \/ \E d \in Databases : ClearStorage(d) \/ RefuseStart(d) \/ SkipStart(d)
            \/ \E d \in Databases, by \in {"manual", "schedule", "retry"} : LockForStart(d, by)
            \/ \E b \in Backups : LaunchRun(b) \/ DumpSucceeds(b) \/ DumpFails(b)
                 \/ WriteMetadataFile(b) \/ PublishBackup(b) \/ RefusePublication(b)
                 \/ EndFailedRun(b) \/ ReachTimeLimit(b) \/ RequestCancel(b) \/ Cancel(b)
                 \/ LockBackup(b)
            \/ \E d \in Databases, kind \in {"storage", "database"}, s \in Storages \cup {None} :
                 LockDatabaseBackups(d, kind, s)
            \/ \E r \in Restores : CancelRestore(r)
            \/ \E b \in Backups, p \in Parts : LoseReceipt(b, p)
  BY <1>11, <1>10 DEF RunSchedulerPass, SlotComes, ClearStorage, LockForStart, RefuseStart,
    SkipStart, LaunchRun, DumpSucceeds, DumpFails, WriteMetadataFile, PublishBackup,
    RefusePublication, EndFailedRun, ReachTimeLimit, RequestCancel, Cancel, LockBackup,
    LockDatabaseBackups, RefuseRemoval, CancelRestore, LoseReceipt, Shutdown, RecoverBackups
<1>12. CASE UNCHANGED vars
  BY <1>12, <1>10 DEF vars
<1> QED BY <1>1, <1>2, <1>3, <1>4, <1>5, <1>6, <1>7, <1>8, <1>9, <1>10, <1>11, <1>12, Actions

\* What the program keeps between its steps.
ViewInv == IInv /\ RowsLocked /\ OneRestore

\* The initial states satisfy it.
LEMMA ViewInit == Init => ViewInv
BY InitInvariant DEF ViewInv, Init, RowsLocked, OneRestore, Open, Inserting

\* Every step keeps it.
LEMMA ViewStep == ViewInv /\ [Next]_vars => ViewInv'
<1> SUFFICES ASSUME ViewInv, [Next]_vars PROVE ViewInv'
  OBVIOUS
<1>1. IInv'
  BY StepInvariant DEF ViewInv
<1>2. RowsLocked' /\ OneRestore'
  BY RowsLockedStep, OneRestoreStep DEF ViewInv, IInv
<1> QED BY <1>1, <1>2 DEF ViewInv

-----------------------------------------------------------------------------
(* The steps that the promise sees.                                           *)

\* An insert under the lock of its database starts a backup.
LEMMA InsertStarts ==
  ASSUME ViewInv, ViewInv', NEW d \in Databases, NEW b \in Backups, InsertBackup(d, b)
  PROVE  Fate!Start(d, b)
<1>1. /\ TypeOK /\ ReadUnderLock /\ lock[d] \in Starts /\ MayInsert(d) /\ status[b] = "unused"
      /\ status' = [status EXCEPT ![b] = "IN_PROGRESS"] /\ of' = [of EXCEPT ![b] = d]
      /\ UNCHANGED <<dbs, rof, rrun>>
  BY DEF ViewInv, IInv, InsertBackup, Starts, restoreVars
<1>2. d \in dbs /\ \A c \in RowsOf(d) : status[c] # "IN_PROGRESS"
  BY <1>1 DEF ReadUnderLock, MayInsert
<1>3. \A e \in Databases, c \in Backups :
          HasRow(c)' /\ of'[c] = e <=> (HasRow(c) /\ of[c] = e) \/ (c = b /\ e = d)
  BY <1>1 DEF TypeOK, HasRow, Terminal
<1>4. \A e \in Databases : RowsOf(e)' = IF e = d THEN RowsOf(d) \cup {b} ELSE RowsOf(e)
  BY <1>3 DEF RowsOf
<1>5. Catalog' = [Catalog EXCEPT ![d] = @ \cup {b}]
  BY <1>4 DEF Catalog
<1>6. Kept' = Kept
  <2>1. ByRows' = ByRows
    BY <1>1 DEF ByRows, TypeOK
  <2> QED BY <2>1, KeptByRows DEF ViewInv, IInv
<1>7. Reading' = Reading
  BY <1>1 DEF Reading
<1> QED BY <1>1, <1>2, <1>5, <1>6, <1>7 DEF Fate!Start, Catalog, Kept, Reading

\* A publication completes a backup with all its files.
LEMMA PublicationCompletes ==
  ASSUME ViewInv, ViewInv', NEW b \in Backups, PublishBackup(b)
  PROVE  Fate!Complete(b)
<1>1. /\ TypeOK /\ status[b] = "IN_PROGRESS"
      /\ status' = [status EXCEPT ![b] = "COMPLETED"]
      /\ UNCHANGED <<dbs, of, rof, rrun>>
  BY DEF ViewInv, IInv, PublishBackup, MayPublish, factVars, restoreVars, configVars
<1>2. Catalog' = Catalog /\ Reading' = Reading
  BY <1>1 DEF Catalog, Reading, RowsOf, HasRow, Terminal, TypeOK
<1>3. Kept' = [Kept EXCEPT ![b] = Parts]
  <2>1. ByRows' = [ByRows EXCEPT ![b] = Parts]
    BY <1>1 DEF ByRows, TypeOK
  <2> QED BY <2>1, KeptByRows DEF ViewInv, IInv
<1> QED BY <1>1, <1>2, <1>3 DEF Fate!Complete, Catalog, Kept, Reading

\* Rows in progress that fail or are canceled end their backups.
LEMMA RowsEnd ==
  ASSUME ViewInv, ViewInv', NEW B \in SUBSET Backups, NEW final \in {"FAILED", "CANCELED"},
         \A b \in B : status[b] = "IN_PROGRESS",
         status' = [b \in Backups |-> IF b \in B THEN final ELSE status[b]],
         UNCHANGED <<dbs, of, rof, rrun>>
  PROVE  Fate!End(B, final)
<1>1. TypeOK
  BY DEF ViewInv, IInv
<1>2. Catalog' = Catalog /\ Reading' = Reading
  BY <1>1 DEF Catalog, Reading, RowsOf, HasRow, Terminal, TypeOK
<1>3. Kept' = Kept
  <2>1. ByRows' = ByRows
    BY <1>1 DEF ByRows, TypeOK
  <2> QED BY <2>1, KeptByRows DEF ViewInv, IInv
<1> QED BY <1>2, <1>3 DEF Fate!End, Catalog, Kept, Reading

\* The end of a failed run ends its backup, unless another party has ended it or the
\* transaction fails.
LEMMA FailedRunEnds ==
  ASSUME ViewInv, ViewInv', NEW b \in Backups, EndFailedRun(b)
  PROVE  Stutters \/ Fate!End({b}, "FAILED") \/ Fate!End({b}, "CANCELED")
<1>1. UNCHANGED <<dbs, of, rof, rrun>>
  BY DEF EndFailedRun, factVars, restoreVars, configVars
<1>2. CASE UNCHANGED status
  <2>1. Reading' = Reading
    BY <1>1 DEF Reading
  <2> QED BY <1>1, <1>2, <2>1, SameView DEF ViewInv
<1>3. ASSUME NEW final \in {"FAILED", "CANCELED"}, status[b] = "IN_PROGRESS",
             status' = [status EXCEPT ![b] = final]
      PROVE  Fate!End({b}, final)
  <2>1. status' = [c \in Backups |-> IF c \in {b} THEN final ELSE status[c]]
    BY <1>3 DEF ViewInv, IInv, TypeOK
  <2> QED BY <1>1, <1>3, <2>1, RowsEnd
<1> QED BY <1>2, <1>3 DEF EndFailedRun, EndBackupAndDiscardFiles

\* Recovery ends what the previous process left.
LEMMA RecoveryEnds ==
  ASSUME ViewInv, ViewInv', RecoverBackups
  PROVE  \E B \in SUBSET Backups : Fate!End(B, "FAILED")
<1> DEFINE left == {b \in Backups : status[b] = "IN_PROGRESS"}
<1>1. /\ status' = [b \in Backups |-> IF b \in left THEN "FAILED" ELSE status[b]]
      /\ UNCHANGED <<dbs, of, rof, rrun>>
  BY DEF RecoverBackups, factVars, restoreVars, configVars
<1>2. left \in SUBSET Backups /\ \A b \in left : status[b] = "IN_PROGRESS"
  OBVIOUS
<1> HIDE DEF left
<1>3. Fate!End(left, "FAILED")
  BY <1>1, <1>2, RowsEnd
<1> QED BY <1>2, <1>3

\* What a removal takes has ended, and no running restore reads it.
LEMMA RemovalSpares ==
  ASSUME ViewInv, Remove, NEW b \in removal.ids
  PROVE  b \in Backups /\ status[b] \in Terminal /\ \A r \in Restores : b \notin Reading[r]
<1>1. /\ TypeOK /\ MoreTypes /\ RemovalHoldsAll /\ RestoreRow /\ RowsLocked
      /\ removal # None /\ MayRemove
  BY DEF ViewInv, IInv, Remove
<1>2. b \in Backups /\ status[b] \in Terminal
  BY <1>1 DEF TypeOK, RowsLocked, HasRow, MayRemove
<1>3. ASSUME NEW r \in Restores, rrun[r] = "running", rof[r] = b PROVE FALSE
  <2>1. rstatus[r] = "IN_PROGRESS"
    BY <1>1, <1>3 DEF RestoreRow
  <2>2. CASE removal.kind = "backup"
    BY <1>1, <1>3, <2>1, <2>2 DEF MayRemove, IsRestoreRunningForBackups
  <2>3. CASE removal.kind # "backup"
    <3>1. of[b] = removal.db
      BY <1>1, <2>3 DEF RemovalHoldsAll, RowsOf
    <3> QED BY <1>1, <1>2, <1>3, <2>1, <2>3, <3>1 DEF MayRemove, IsRestoreRunningForBackups
  <2> QED BY <2>2, <2>3
<1> QED BY <1>2, <1>3 DEF Reading

\* A removal takes the rows and the kept files of its backups together, and a removal
\* of a database takes all it has.
LEMMA RemovalTakes ==
  ASSUME ViewInv, ViewInv', Remove
  PROVE  \/ \E B \in SUBSET Backups : Fate!Remove(B)
         \/ \E d \in Databases : Fate!DeleteDatabase(d)
<1>1. /\ TypeOK /\ MoreTypes /\ RemovalHoldsAll /\ RowsLocked /\ removal # None
      /\ status' = [b \in Backups |-> IF b \in removal.ids THEN "removed" ELSE status[b]]
      /\ dbs' = IF removal.kind = "database" THEN dbs \ {removal.db} ELSE dbs
      /\ UNCHANGED <<of, rof, rrun>>
  BY DEF ViewInv, IInv, Remove, factVars, restoreVars
<1>2. PICK B \in SUBSET Backups : B = removal.ids
  BY <1>1 DEF TypeOK
<1>3. \A d \in Databases : RowsOf(d)' = RowsOf(d) \ B
  BY <1>1, <1>2 DEF RowsOf, HasRow, Terminal
<1>4. Catalog' = [d \in Databases |-> Catalog[d] \ B]
  BY <1>3 DEF Catalog
<1>5. Kept' = [b \in Backups |-> IF b \in B THEN {} ELSE Kept[b]]
  <2>1. ByRows' = [b \in Backups |-> IF b \in B THEN {} ELSE ByRows[b]]
    BY <1>1, <1>2 DEF ByRows, TypeOK
  <2> QED BY <2>1, KeptByRows DEF ViewInv, IInv
<1>6. Reading' = Reading
  BY <1>1 DEF Reading
<1>7. \A b \in B : status[b] \in Fate!Ended /\ ~Fate!IsRead(b)
  <2>1. \A b \in B : status[b] \in Terminal /\ \A r \in Restores : b \notin Reading[r]
    BY <1>2, RemovalSpares
  <2> QED BY <2>1 DEF Terminal, Reading, Fate!Ended, Fate!IsRead
<1>8. Fate!Take(B)
  BY <1>1, <1>2, <1>4, <1>5, <1>6, <1>7 DEF Fate!Take, Catalog, Kept, Reading
<1>9. CASE removal.kind = "database"
  <2>1. PICK d \in Databases : d = removal.db
    BY <1>1 DEF MoreTypes, Removals
  <2>2. d \in dbs /\ RowsOf(d) = B
    BY <1>1, <1>2, <1>9, <2>1 DEF RowsLocked, RemovalHoldsAll
  <2>3. Catalog[d] = B
    BY <2>2 DEF Catalog
  <2>4. dbs' = dbs \ {d}
    BY <1>1, <1>9, <2>1
  <2>5. Fate!DeleteDatabase(d)
    BY <1>8, <2>2, <2>3, <2>4 DEF Fate!DeleteDatabase, Fate!Take, Catalog
  <2> QED BY <2>5
<1>10. CASE removal.kind # "database"
  BY <1>1, <1>8, <1>10 DEF Fate!Remove
<1> QED BY <1>9, <1>10

\* A restore that is launched begins to read a completed backup.
LEMMA AnsweredCommitReads ==
  ASSUME ViewInv, ViewInv', NEW r \in Restores, CommitRestore(r),
         rrun' = [rrun EXCEPT ![r] = "running"]
  PROVE  \E b \in Backups : Fate!Read(r, b)
<1>1. /\ TypeOK /\ MoreTypes /\ RestoreSource /\ RestoreRow /\ OneRestore /\ Inserting(r)
      /\ rrun' = [rrun EXCEPT ![r] = "running"]
      /\ UNCHANGED <<dbs, of, status, rof>>
  BY DEF ViewInv, IInv, CommitRestore, rowVars, factVars, configVars
<1>2. PICK b \in Backups : b = rof[r] /\ status[b] = "COMPLETED"
  BY <1>1 DEF RestoreSource, Inserting
<1>3. rrun[r] # "running" /\ Reading[r] = {}
  BY <1>1 DEF RestoreRow, Inserting, Reading
<1>4. Reading' = [Reading EXCEPT ![r] = {b}]
  BY <1>1, <1>2 DEF Reading, TypeOK
<1>5. Catalog' = Catalog
  BY <1>1 DEF Catalog, RowsOf, HasRow
<1>6. Kept' = Kept
  BY <1>1, KeptByRows DEF ViewInv, IInv, ByRows
<1>7. ASSUME NEW d \in Databases, b \in Catalog[d], NEW c \in Catalog[d],
             NEW q \in Restores, c \in Reading[q]
      PROVE  FALSE
  <2>1. of[b] = d /\ of[c] = d
    BY <1>7 DEF Catalog, RowsOf
  <2>2. rrun[q] = "running" /\ rof[q] = c
    BY <1>7 DEF Reading
  <2>3. Open(q) /\ Open(r)
    BY <1>1, <2>2 DEF RestoreRow, Open
  <2>4. q = r
    BY <1>1, <1>2, <2>1, <2>2, <2>3 DEF OneRestore
  <2> QED BY <1>3, <2>2, <2>4
<1>8. \A d \in Databases : b \in Catalog[d] => \A c \in Catalog[d] : ~Fate!IsRead(c)
  BY <1>7 DEF Fate!IsRead, Reading
<1>9. Fate!Read(r, b)
  BY <1>1, <1>2, <1>3, <1>4, <1>5, <1>6, <1>8 DEF Fate!Read, Catalog, Kept, Reading
<1> QED BY <1>9

\* The commit of a restore launches it, unless the answer of the commit is lost.
LEMMA CommitReads ==
  ASSUME ViewInv, ViewInv', NEW r \in Restores, CommitRestore(r)
  PROVE  Stutters \/ \E b \in Backups : Fate!Read(r, b)
<1>1. CASE UNCHANGED rrun
  <2>1. UNCHANGED <<dbs, of, status, rof>>
    BY DEF CommitRestore, rowVars, factVars, configVars
  <2> QED BY <1>1, <2>1, SameView DEF ViewInv, Reading
<1>2. CASE rrun' = [rrun EXCEPT ![r] = "running"]
  BY <1>2, AnsweredCommitReads
<1> QED BY <1>1, <1>2 DEF CommitRestore

\* Restores that no longer run read nothing.
LEMMA RestoresStop ==
  ASSUME ViewInv, ViewInv', NEW R \in SUBSET Restores,
         rrun' \in [Restores -> {"none", "running", "ended"}],
         \A r \in Restores : IF r \in R THEN rrun'[r] # "running" ELSE rrun'[r] = rrun[r],
         UNCHANGED <<dbs, of, status, rof>>
  PROVE  Fate!StopReading(R)
<1>1. Reading' = [r \in Restores |-> IF r \in R THEN {} ELSE Reading[r]]
  BY DEF Reading
<1>2. Catalog' = Catalog
  BY DEF Catalog, RowsOf, HasRow
<1>3. Kept' = Kept
  BY KeptByRows DEF ViewInv, IInv, ByRows
<1> QED BY <1>1, <1>2, <1>3 DEF Fate!StopReading, Catalog, Kept, Reading

\* The end of a restore, and the death of the process that ends all of them.
LEMMA EndStops ==
  ASSUME ViewInv, ViewInv', NEW r \in Restores, EndRestore(r)
  PROVE  Fate!StopReading({r})
<1>1. /\ TypeOK /\ rrun' = [rrun EXCEPT ![r] = "ended"]
      /\ UNCHANGED <<dbs, of, status, rof>>
  BY DEF ViewInv, IInv, EndRestore, rowVars, factVars, configVars
<1>2. rrun' \in [Restores -> {"none", "running", "ended"}]
  BY <1>1 DEF TypeOK
<1>3. \A q \in Restores : IF q \in {r} THEN rrun'[q] # "running" ELSE rrun'[q] = rrun[q]
  BY <1>1 DEF TypeOK
<1> QED BY <1>1, <1>2, <1>3, RestoresStop

LEMMA ExitStops ==
  ASSUME ViewInv, ViewInv', Exit
  PROVE  Fate!StopReading(Restores)
<1>1. /\ TypeOK
      /\ rrun' = [r \in Restores |-> IF rrun[r] = "running" THEN "none" ELSE rrun[r]]
      /\ UNCHANGED <<dbs, of, status, rof>>
  BY DEF ViewInv, IInv, Exit, rowVars, factVars
<1>2. rrun' \in [Restores -> {"none", "running", "ended"}]
  BY <1>1 DEF TypeOK
<1>3. \A q \in Restores : IF q \in Restores THEN rrun'[q] # "running" ELSE rrun'[q] = rrun[q]
  BY <1>1
<1>4. Restores \in SUBSET Restores
  OBVIOUS
<1> QED BY <1>1, <1>2, <1>3, <1>4, RestoresStop

-----------------------------------------------------------------------------
(* The steps that it does not see.                                            *)

\* The scheduler, the locks, the runs before their outcome, cancels, lost receipts and
\* the restores that are not running move no row, no kept file and no reader.
LEMMA UnseenSteps ==
  ASSUME ViewInv, ViewInv',
         \/ RunSchedulerPass \/ SlotComes \/ RefuseRemoval \/ Shutdown \/ RecoverRestores
         \/ \E d \in Databases : ClearStorage(d) \/ RefuseStart(d) \/ SkipStart(d)
         \/ \E d \in Databases, by \in {"manual", "schedule", "retry"} : LockForStart(d, by)
         \/ \E b \in Backups : LaunchRun(b) \/ DumpSucceeds(b) \/ DumpFails(b)
              \/ WriteMetadataFile(b) \/ RefusePublication(b) \/ ReachTimeLimit(b)
              \/ RequestCancel(b) \/ Cancel(b) \/ LockBackup(b)
         \/ \E d \in Databases, kind \in {"storage", "database"}, s \in Storages \cup {None} :
              LockDatabaseBackups(d, kind, s)
         \/ \E r \in Restores : InsertRestore(r) \/ RefuseRestore(r) \/ CancelRestore(r)
         \/ \E r \in Restores, b \in Backups : CheckRestore(r, b)
         \/ \E b \in Backups, p \in Parts : LoseReceipt(b, p)
         \/ UNCHANGED vars
  PROVE  Stutters
<1> USE DEF configVars, factVars, rowVars, restoreVars
<1>1. ASSUME NEW r \in Restores, NEW b \in Backups, CheckRestore(r, b)
      PROVE  UNCHANGED <<dbs, of, status>> /\ Reading' = Reading
  <2>1. rrun[r] # "running"
    BY <1>1 DEF ViewInv, IInv, RestoreRow, CheckRestore
  <2>2. UNCHANGED <<dbs, of, status, rrun>> /\ rof' = [rof EXCEPT ![r] = b]
    BY <1>1 DEF CheckRestore
  <2>3. \A q \in Restores : q # r => rof'[q] = rof[q]
    BY <2>2 DEF ViewInv, IInv, TypeOK
  <2> QED BY <2>1, <2>2, <2>3 DEF Reading
<1>2. ASSUME UNCHANGED <<dbs, of, status, rrun, rof>>
      PROVE  UNCHANGED <<dbs, of, status>> /\ Reading' = Reading
  BY <1>2 DEF Reading
<1>3. ASSUME \/ RunSchedulerPass \/ SlotComes \/ RefuseRemoval \/ Shutdown \/ RecoverRestores
             \/ \E d \in Databases : ClearStorage(d) \/ RefuseStart(d) \/ SkipStart(d)
             \/ \E d \in Databases, by \in {"manual", "schedule", "retry"} : LockForStart(d, by)
             \/ \E b \in Backups : LaunchRun(b) \/ DumpSucceeds(b) \/ DumpFails(b)
                  \/ WriteMetadataFile(b) \/ RefusePublication(b) \/ ReachTimeLimit(b)
                  \/ RequestCancel(b) \/ Cancel(b) \/ LockBackup(b)
             \/ \E d \in Databases, kind \in {"storage", "database"}, s \in Storages \cup {None} :
                  LockDatabaseBackups(d, kind, s)
             \/ \E r \in Restores : InsertRestore(r) \/ RefuseRestore(r) \/ CancelRestore(r)
             \/ \E b \in Backups, p \in Parts : LoseReceipt(b, p)
             \/ UNCHANGED vars
      PROVE  UNCHANGED <<dbs, of, status>> /\ Reading' = Reading
  <2>1. UNCHANGED <<dbs, of, status, rrun, rof>>
    BY <1>3 DEF RunSchedulerPass, SlotComes, RefuseRemoval, Shutdown, RecoverRestores,
      ClearStorage, RefuseStart, SkipStart, LockForStart, LaunchRun, DumpSucceeds, DumpFails,
      WriteMetadataFile, RefusePublication, ReachTimeLimit, RequestCancel, Cancel, LockBackup,
      LockDatabaseBackups, InsertRestore, RefuseRestore, CancelRestore, LoseReceipt, vars
  <2> QED BY <2>1, <1>2
<1>4. UNCHANGED <<dbs, of, status>> /\ Reading' = Reading
  BY <1>1, <1>2, <1>3
<1> QED BY <1>4, SameView DEF ViewInv

-----------------------------------------------------------------------------
(* The refinement.                                                            *)

\* The initial states look like those of the promise.
LEMMA InitialStatesMap == Init => Fate!Init
<1> SUFFICES ASSUME Init PROVE Fate!Init
  OBVIOUS
<1>1. Catalog = [d \in Databases |-> {}]
  BY DEF Init, Catalog, RowsOf, HasRow, Terminal
<1>2. Kept = [b \in Backups |-> {}]
  BY DEF Init, Kept
<1>3. Reading = [r \in Restores |-> {}]
  BY DEF Init, Reading
<1> QED BY <1>1, <1>2, <1>3 DEF Init, Fate!Init, Catalog, Kept, Reading

\* Every step looks like a step of the promise, or like none.
LEMMA StepsMap ==
  ASSUME ViewInv, ViewInv', [Next]_vars
  PROVE  [Fate!Next]_Fate!fateVars
<1> USE DEF Stutters, Fate!Next
<1>1. ASSUME NEW d \in Databases, NEW b \in Backups, InsertBackup(d, b)
      PROVE  [Fate!Next]_Fate!fateVars
  BY <1>1, InsertStarts
<1>2. ASSUME NEW b \in Backups, PublishBackup(b) PROVE [Fate!Next]_Fate!fateVars
  BY <1>2, PublicationCompletes
<1>3. ASSUME NEW b \in Backups, EndFailedRun(b) PROVE [Fate!Next]_Fate!fateVars
  <2>1. {b} \in SUBSET Backups
    OBVIOUS
  <2> QED BY <1>3, <2>1, FailedRunEnds
<1>4. CASE Remove
  BY <1>4, RemovalTakes
<1>5. ASSUME NEW r \in Restores, CommitRestore(r) PROVE [Fate!Next]_Fate!fateVars
  BY <1>5, CommitReads
<1>6. ASSUME NEW r \in Restores, EndRestore(r) PROVE [Fate!Next]_Fate!fateVars
  <2>1. {r} \in SUBSET Restores
    OBVIOUS
  <2> QED BY <1>6, <2>1, EndStops
<1>7. CASE Exit
  <2>1. Restores \in SUBSET Restores
    OBVIOUS
  <2> QED BY <1>7, <2>1, ExitStops
<1>8. CASE RecoverBackups
  BY <1>8, RecoveryEnds
<1> QED BY <1>1, <1>2, <1>3, <1>4, <1>5, <1>6, <1>7, <1>8, UnseenSteps, Actions

\* The logical backups and their restores keep what they promise: a backup completes
\* with all its files or keeps none, its outcome lasts until it is removed, a removal
\* takes whole ended backups that no restore reads, and a database makes one backup and
\* serves one restore at a time.
THEOREM BackupPromiseKept == Spec => KeepsBackupPromise
<1>1. Init => ViewInv /\ Fate!Init
  BY ViewInit, InitialStatesMap
<1>2. ViewInv /\ [Next]_vars => ViewInv'
  BY ViewStep
<1>3. ViewInv /\ ViewInv' /\ [Next]_vars => [Fate!Next]_Fate!fateVars
  BY StepsMap
<1> QED BY <1>1, <1>2, <1>3, PTL DEF Spec, KeepsBackupPromise, Fate!Spec
===============================================================================
