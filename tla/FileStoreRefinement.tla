-------------------------- MODULE FileStoreRefinement --------------------------
(* FileStore implements FileFate: seen through its rows, its catalog and the   *)
(* provider, every step of one process is a step of the promise or a stutter,  *)
(* for every set of files, every timing and every bound on disturbances.       *)
EXTENDS FileStoreProofs

-----------------------------------------------------------------------------
(* What of a state the promise sees.                                          *)

Owed      == {f \in Files : HasRow(f)}
Published == {f \in Files : catalog[f] = "published"}

\* The state the promise sees does not move.
Stutters == UNCHANGED Fate!fateVars

\* Two states with the same rows, catalog, storage and provider look the same.
LEMMA SameView ==
  ASSUME SameRows, UNCHANGED <<provider, catalog, storage>>
  PROVE  Stutters
BY DEF SameRows, Stutters, Fate!fateVars, StorageExists

\* Rows that are only rescheduled, and objects that change where a removal is
\* owed or was given up, are a Change of the promise.
LEMMA ChangesOwed ==
  ASSUME TypeOK', SameRows, UNCHANGED <<catalog, storage>>,
         NEW F \in SUBSET Files,
         \A f \in F : HasRow(f) \/ storage = "abandoned",
         \A f \in Files \ F : provider'[f] = provider[f]
  PROVE  Fate!Change(F)
<1>1. F \subseteq Owed \/ storage = "abandoned"
  BY DEF Owed
<1>2. provider' \in [Files -> {"absent", "partial", "complete"}]
  BY DEF TypeOK, RowTypes
<1> QED BY <1>1, <1>2 DEF Fate!Change, Owed, SameRows, StorageExists

\* What one process keeps between its steps.
ViewInv == OInv /\ AttemptInv /\ NoDeleteDuringWrite

\* The initial states satisfy it.
LEMMA ViewInit == Init => ViewInv
<1> SUFFICES ASSUME Init PROVE AttemptInv /\ NoDeleteDuringWrite
  BY OInvInit DEF ViewInv
<1> QED BY DEF Init, AttemptInv, NoDeleteDuringWrite, Uploading

\* Every step of one process keeps it.
LEMMA ViewStep == ASSUME SoleInstance PROVE ViewInv /\ [Next]_vars => ViewInv'
BY OInvStep, WriteStepSafe DEF ViewInv

-----------------------------------------------------------------------------
(* The steps that the promise sees.                                           *)

\* Registering a write owes its removal.
LEMMA InsertOwes ==
  ASSUME ViewInv, NEW f \in Files, InsertIfAbsent(f)
  PROVE  Stutters \/ Fate!Owe(f)
<1> USE DEF InsertIfAbsent, rowVars, writerVars
<1>1. CASE UNCHANGED pending
  BY <1>1, SameView DEF SameRows, HasRow
<1>2. ASSUME StorageExists,
             pending' = [pending EXCEPT ![f] =
                [id |-> wid[f], gen |-> 0, wait |-> CommitWindow, attempts |-> 0]]
      PROVE  Fate!Owe(f)
  <2>1. pending \in [Files -> Row \cup {None}] /\ wid[f] \in Nat
    BY DEF ViewInv, OInv, IInv, TypeOK, RowTypes, WriterTypes
  <2>2. [id |-> wid[f], gen |-> 0, wait |-> CommitWindow, attempts |-> 0] \in Row
    BY <2>1, TimingsAssumption DEF Row
  <2>3. HasRow(f)' /\ \A g \in Files \ {f} : HasRow(g)' <=> HasRow(g)
    BY <1>2, <2>1, <2>2, NoneAssumption DEF HasRow
  <2>4. {g \in Files : HasRow(g)}' = Owed \cup {f}
    BY <2>3 DEF Owed
  <2>5. f \notin Published
    BY DEF ViewInv, OInv, IInv, PublishedInv, Published
  <2> QED BY <1>2, <2>4, <2>5 DEF Fate!Owe, Owed, Published, StorageExists
<1> QED BY <1>1, <1>2

\* Bytes reach the provider only while their row exists, or after its
\* obligation was given up with the storage.
LEMMA UploadChanges ==
  ASSUME ViewInv, ViewInv', NEW f \in Files, LocateStorage(f) \/ SaveFile(f)
  PROVE  Fate!Change({f})
<1>1. TypeOK /\ TypeOK'
  BY DEF ViewInv, OInv, IInv
<1>2. SameRows
  BY <1>1, WriterKeepsRows
<1>3. Uploading(f)
  BY DEF LocateStorage, SaveFile, Uploading
<1>4. HasRow(f) \/ storage = "abandoned"
  BY <1>1, <1>3 DEF ViewInv, OInv, UploadInv, StorageExists, TypeOK, RowTypes
<1>5. UNCHANGED <<catalog, storage>> /\ \A g \in Files \ {f} : provider'[g] = provider[g]
  BY <1>1 DEF LocateStorage, SaveFile, TypeOK, RowTypes
<1> QED BY <1>1, <1>2, <1>4, <1>5, ChangesOwed

\* A deletion attempt reaches the provider only while its row exists.
LEMMA DeletionChanges ==
  ASSUME ViewInv, ViewInv', NEW i \in Instances, DeleteFromProvider(i)
  PROVE  Stutters \/ Fate!Change({current[i].file})
<1> USE DEF DeleteFromProvider, rowVars
<1>1. TypeOK /\ TypeOK'
  BY DEF ViewInv, OInv, IInv
<1>2. SameRows /\ UNCHANGED <<catalog, storage>>
  BY DEF SameRows, HasRow
<1>3. current[i].file \in Files
  BY <1>1 DEF TypeOK, JobTypes, Claim
<1>4. \A g \in Files \ {current[i].file} : provider'[g] = provider[g]
  BY <1>1 DEF TypeOK, RowTypes
<1>5. CASE StorageExists
  <2>1. HasRow(current[i].file)
    BY <1>5 DEF ViewInv, AttemptInv
  <2> QED BY <1>1, <1>2, <1>3, <1>4, <2>1, ChangesOwed
<1>6. CASE ~StorageExists
  <2>1. UNCHANGED provider
    BY <1>1, <1>6 DEF TypeOK, RowTypes
  <2> QED BY <1>2, <2>1, SameView
<1> QED BY <1>5, <1>6

\* A crash leaves any part of an upload behind, and the row of each.
LEMMA CrashChanges ==
  ASSUME ViewInv, ViewInv', NEW i \in Instances, Crash(i)
  PROVE  Fate!Change({f \in Files : at[f] = i /\ wpc[f] = "saving"})
<1> DEFINE F == {f \in Files : at[f] = i /\ wpc[f] = "saving"}
<1>1. TypeOK /\ TypeOK'
  BY DEF ViewInv, OInv, IInv
<1>2. SameRows /\ UNCHANGED <<catalog, storage>>
  BY DEF Crash, rowVars, SameRows, HasRow
<1>3. \A f \in F : HasRow(f) \/ storage = "abandoned"
  BY <1>1 DEF ViewInv, OInv, UploadInv, Uploading, StorageExists, TypeOK, RowTypes
<1>4. \A f \in Files \ F : provider'[f] = provider[f]
  BY <1>1 DEF Crash, TypeOK, RowTypes
<1>5. F \in SUBSET Files
  OBVIOUS
<1> HIDE DEF F
<1>6. Fate!Change(F)
  BY <1>1, <1>2, <1>3, <1>4, <1>5, ChangesOwed
<1> QED BY <1>6 DEF F

\* A transaction that confirms its writes publishes complete files, and only
\* files whose removal is still owed.
LEMMA ConfirmPublishes ==
  ASSUME ViewInv, NEW F \in SUBSET Files, ConfirmFileWrites(F)
  PROVE  Fate!Publish(F)
<1>1. pending \in [Files -> Row \cup {None}] /\ catalog \in [Files -> {"open", "published", "dropped"}]
  BY DEF ViewInv, OInv, IInv, TypeOK, RowTypes
<1>2. \A f \in F : HasRow(f) /\ provider[f] = "complete"
  BY DEF ConfirmFileWrites, ReceiptMatches, ViewInv, OInv, IInv, KeptInv
<1>3. \A f \in Files : HasRow(f)' <=> HasRow(f) /\ f \notin F
  BY DEF ConfirmFileWrites, HasRow
<1>4. \A f \in Files : catalog'[f] = "published" <=> (catalog[f] = "published" \/ f \in F)
  BY DEF ConfirmFileWrites
<1>5. UNCHANGED <<provider, storage>>
  BY DEF ConfirmFileWrites
<1>6. {f \in Files : HasRow(f)}' = Owed \ F
  BY <1>3 DEF Owed
<1>7. {f \in Files : catalog[f] = "published"}' = Published \cup F
  BY <1>4 DEF Published
<1> QED BY <1>2, <1>5, <1>6, <1>7 DEF Fate!Publish, Owed, Published, StorageExists

\* A deletion request takes files out of the catalog and owes their removal.
\* Without a storage there is neither left to change.
LEMMA RequestRetracts ==
  ASSUME ViewInv, NEW F \in SUBSET Files, RequestFileDeletions(F)
  PROVE  Stutters \/ Fate!Retract(F)
<1>1. TypeOK
  BY DEF ViewInv, OInv, IInv
<1>2. \A f \in Files : catalog'[f] = IF f \in F THEN "dropped" ELSE catalog[f]
  BY DEF RequestFileDeletions
<1>3. UNCHANGED <<provider, storage>>
  BY DEF RequestFileDeletions
<1>4. CASE StorageExists
  <2>1. \A f \in Files : HasRow(f)' <=> HasRow(f) \/ f \in F
    BY <1>1, <1>4, RequestRows DEF HasRow
  <2>2. {f \in Files : HasRow(f)}' = Owed \cup F
    BY <2>1 DEF Owed
  <2>3. {f \in Files : catalog[f] = "published"}' = Published \ F
    BY <1>2 DEF Published
  <2> QED BY <1>3, <1>4, <2>2, <2>3 DEF Fate!Retract, Owed, Published, StorageExists
<1>5. CASE ~StorageExists
  <2>1. \A f \in Files : pending'[f] = pending[f]
    BY <1>1, <1>5, RequestRows
  <2>2. \A f \in Files : catalog[f] = "dropped"
    BY <1>5 DEF ViewInv, OInv, GoneInv
  <2>3. {f \in Files : HasRow(f)}' = Owed
    BY <2>1 DEF Owed, HasRow
  <2>4. {f \in Files : catalog[f] = "published"}' = Published
    BY <1>2, <2>2 DEF Published
  <2> QED BY <1>3, <2>3, <2>4 DEF Stutters, Fate!fateVars, Owed, Published, StorageExists
<1> QED BY <1>4, <1>5

\* The row of an attempt goes away only with the confirmed removal.
LEMMA ReleaseDischarges ==
  ASSUME ViewInv, NEW i \in Instances, ReleaseDeletedFile(i)
  PROVE  Stutters \/ Fate!Discharge(current[i].file)
<1> USE DEF ReleaseDeletedFile
<1>1. TypeOK
  BY DEF ViewInv, OInv, IInv
<1>2. CASE UNCHANGED pending
  BY <1>2, SameView DEF SameRows, HasRow
<1>3. ASSUME MayAttempt(current[i]), pending' = [pending EXCEPT ![current[i].file] = None]
      PROVE  Fate!Discharge(current[i].file)
  <2>1. provider[current[i].file] = "absent"
    BY <1>3 DEF ViewInv, OInv, DeletedInv, MayAttempt
  <2>2. \A g \in Files : HasRow(g)' <=> HasRow(g) /\ g # current[i].file
    BY <1>1, <1>3 DEF HasRow, TypeOK, RowTypes
  <2>3. {g \in Files : HasRow(g)}' = Owed \ {current[i].file}
    BY <2>2 DEF Owed
  <2> QED BY <2>1, <2>3 DEF Fate!Discharge, Owed, StorageExists
<1> QED BY <1>2, <1>3

\* Deleting the storage gives up what is still owed, and nothing published.
LEMMA DeletionGivesUp ==
  ASSUME NEW b \in BOOLEAN, DeleteStorage(b)
  PROVE  Fate!GiveUp
<1> USE DEF DeleteStorage
<1>1. Published = {} /\ {f \in Files : catalog[f] = "published"}' = {}
  BY DEF Published
<1>2. {f \in Files : HasRow(f)}' = {}
  BY DEF HasRow
<1>3. Owed # {} <=> \E f \in Files : HasRow(f)
  BY DEF Owed
<1>4. /\ ~StorageExists'
      /\ (storage = "abandoned")' <=> Owed # {}
  BY <1>3 DEF StorageExists
<1> QED BY <1>1, <1>2, <1>4 DEF Fate!GiveUp, Owed, Published

-----------------------------------------------------------------------------
(* The steps that it does not see.                                            *)

\* Writers, the guard, the clock and the rest of the job move no obligation.
LEMMA UnseenSteps ==
  ASSUME ViewInv,
         \/ UNCHANGED vars \/ Tick \/ ReapSessions
         \/ \E f \in Files : \/ StartWrite(f) \/ ProtectWrite(f) \/ KeepForCommit(f)
                             \/ ReleaseWrite(f) \/ LeaveLiveWrites(f) \/ CancelWrite(f)
         \/ \E i \in Instances : \/ ClaimDue(i) \/ StartAttempt(i) \/ Reschedule(i)
                                 \/ EndPass(i) \/ LoseSession(i)
  PROVE  Stutters
<1> USE DEF rowVars
<1>0. TypeOK
  BY DEF ViewInv, OInv, IInv
<1>1. CASE UNCHANGED vars
  BY <1>1, SameView DEF vars, SameRows, HasRow
<1>2. CASE Tick
  BY <1>0, <1>2, TickKeepsRows, SameView DEF Tick
<1>3. CASE ReapSessions
  BY <1>3, SameView DEF ReapSessions, SameRows, HasRow
<1>4. ASSUME NEW f \in Files,
             \/ StartWrite(f) \/ ProtectWrite(f)
             \/ ReleaseWrite(f) \/ LeaveLiveWrites(f) \/ CancelWrite(f)
      PROVE  Stutters
  <2>1. UNCHANGED <<pending, provider, catalog, storage>>
    BY <1>4 DEF StartWrite, ProtectWrite, RefuseProtection, BreakProtection, FindProtected,
                GrantProtection, ReleaseWrite, ReleaseProtection, LoseProtection,
                LeaveLiveWrites, CancelWrite
  <2> QED BY <2>1, SameView DEF SameRows, HasRow
<1>5. ASSUME NEW f \in Files, KeepForCommit(f) PROVE Stutters
  BY <1>0, <1>5, WriterKeepsRows, SameView DEF KeepForCommit
<1>6. ASSUME NEW i \in Instances, NEW taken \in SUBSET Files, ClaimBatch(i, taken) PROVE Stutters
  <2>1. \A g \in Files : HasRow(g)' <=> HasRow(g)
    BY <1>0, <1>6, ClaimRows
  <2>2. UNCHANGED <<provider, catalog, storage>>
    BY <1>6 DEF ClaimBatch
  <2> QED BY <2>1, <2>2 DEF Stutters, Fate!fateVars, StorageExists
<1>7. ASSUME NEW i \in Instances, NEW c \in batch[i], BeginAttempt(i, c) PROVE Stutters
  BY <1>0, <1>7, AttemptKeepsRows, SameView DEF BeginAttempt
<1>8. ASSUME NEW i \in Instances, NEW c \in batch[i], SkipAttempt(i, c) PROVE Stutters
  BY <1>8, SameView DEF SkipAttempt, SameRows, HasRow
<1>9. ASSUME NEW i \in Instances, Reschedule(i) PROVE Stutters
  BY <1>0, <1>9, RescheduleKeepsRows, SameView DEF Reschedule
<1>10. ASSUME NEW i \in Instances, EndPass(i) \/ LoseSession(i) PROVE Stutters
  BY <1>10, SameView DEF EndPass, LoseSession, SameRows, HasRow
<1> QED BY <1>1, <1>2, <1>3, <1>4, <1>5, <1>6, <1>7, <1>8, <1>9, <1>10
        DEF ClaimDue, StartAttempt

-----------------------------------------------------------------------------
(* The refinement.                                                            *)

\* The initial states of the store look like those of the promise.
LEMMA InitialStatesMap == Init => Fate!Init
BY DEF Init, Fate!Init, HasRow, StorageExists

\* Every step of one process looks like a step of the promise, or like none.
LEMMA StepsMap ==
  ASSUME ViewInv, ViewInv', [Next]_vars
  PROVE  [Fate!Next]_Fate!fateVars
<1> USE DEF Stutters, Fate!Next
<1>1. ASSUME NEW f \in Files, InsertIfAbsent(f) PROVE [Fate!Next]_Fate!fateVars
  BY <1>1, InsertOwes
<1>2. ASSUME NEW f \in Files, LocateStorage(f) \/ SaveFile(f)
      PROVE  [Fate!Next]_Fate!fateVars
  <2>1. Fate!Change({f}) /\ {f} \in SUBSET Files
    BY <1>2, UploadChanges
  <2> QED BY <2>1
<1>3. ASSUME NEW F \in SUBSET Files, ConfirmFileWrites(F) PROVE [Fate!Next]_Fate!fateVars
  BY <1>3, ConfirmPublishes
<1>4. ASSUME NEW F \in SUBSET Files, RequestFileDeletions(F) PROVE [Fate!Next]_Fate!fateVars
  BY <1>4, RequestRetracts
<1>5. ASSUME NEW b \in BOOLEAN, DeleteStorage(b) PROVE [Fate!Next]_Fate!fateVars
  BY <1>5, DeletionGivesUp
<1>6. ASSUME NEW i \in Instances, DeleteFromProvider(i) PROVE [Fate!Next]_Fate!fateVars
  <2>1. {current[i].file} \in SUBSET Files
    BY <1>6 DEF DeleteFromProvider, ViewInv, OInv, IInv, TypeOK, JobTypes, Claim
  <2> QED BY <1>6, <2>1, DeletionChanges
<1>7. ASSUME NEW i \in Instances, ReleaseDeletedFile(i) PROVE [Fate!Next]_Fate!fateVars
  <2>1. current[i].file \in Files
    BY <1>7 DEF ReleaseDeletedFile, ViewInv, OInv, IInv, TypeOK, JobTypes, Claim
  <2> QED BY <1>7, <2>1, ReleaseDischarges
<1>8. ASSUME NEW i \in Instances, Crash(i) PROVE [Fate!Next]_Fate!fateVars
  <2>1. {f \in Files : at[f] = i /\ wpc[f] = "saving"} \in SUBSET Files
    OBVIOUS
  <2> QED BY <1>8, <2>1, CrashChanges
<1> QED
  BY <1>1, <1>2, <1>3, <1>4, <1>5, <1>6, <1>7, <1>8, UnseenSteps
     DEF Next, WriteStep, JobStep

\* The store of one process keeps the promise of its module: the obligation to
\* remove a file exists before its bytes do, and ends only with the publication
\* of the complete file, a confirmed removal, or the deletion of the storage.
THEOREM PromiseKept == ASSUME SoleInstance PROVE Spec => KeepsFilePromise
<1>1. Init => ViewInv /\ Fate!Init
  BY ViewInit, InitialStatesMap
<1>2. ViewInv /\ [Next]_vars => ViewInv'
  BY ViewStep
<1>3. ViewInv /\ ViewInv' /\ [Next]_vars => [Fate!Next]_Fate!fateVars
  BY StepsMap
<1> QED BY <1>1, <1>2, <1>3, PTL DEF Spec, KeepsFilePromise, Fate!Spec

===============================================================================
