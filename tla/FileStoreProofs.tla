--------------------------- MODULE FileStoreProofs ---------------------------
(* Proofs about FileStore, for every set of files and instances, every timing *)
(* and every bound on disturbances.                                           *)
EXTENDS FileStore, TLAPS

-----------------------------------------------------------------------------
(* Rows and the operators that build them.                                   *)

\* What the fields of an existing row are.
LEMMA RowFields ==
  ASSUME TypeOK
  PROVE  /\ pending \in [Files -> Row \cup {None}]
         /\ \A f \in Files : HasRow(f) =>
               /\ pending[f] \in Row
               /\ pending[f].id \in Nat /\ pending[f].gen \in Nat
               /\ pending[f].wait \in Nat /\ pending[f].attempts \in Nat
BY DEF TypeOK, RowTypes, HasRow, Row

\* Updating the schedule or the counters of a row leaves a row.
LEMMA RowUpdates ==
  ASSUME NEW r \in Row, NEW n \in Nat, NEW g \in Nat
  PROVE  /\ [r EXCEPT !.wait = n] \in Row
         /\ [r EXCEPT !.attempts = n] \in Row
         /\ [r EXCEPT !.gen = g, !.wait = n] \in Row
BY DEF Row

\* A failed write leaves rows behind.
LEMMA MakeEligibleNowType ==
  ASSUME TypeOK, NEW f \in Files
  PROVE  MakeEligibleNow(f) \subseteq [Files -> Row \cup {None}]
<1>1. ASSUME HasRow(f) PROVE [pending[f] EXCEPT !.wait = 0] \in Row
  BY <1>1, RowFields, RowUpdates
<1> QED BY <1>1, RowFields DEF MakeEligibleNow, ReceiptMatches

\* A deletion request leaves a row, or nothing when the storage is gone.
LEMMA InsertOrTakeType ==
  ASSUME TypeOK, NEW f \in Files
  PROVE  InsertOrTake(f) \in Row \cup {None}
<1>1. CASE ~StorageExists
  BY <1>1, RowFields DEF InsertOrTake
<1>2. CASE ~HasRow(f)
  BY <1>2, RowFields DEF InsertOrTake, Row, TypeOK, RowTypes
<1>3. CASE StorageExists /\ HasRow(f)
  <2>1. /\ pending[f] \in Row /\ pending[f].gen + 1 \in Nat
        /\ (IF pending[f].attempts = 0 THEN 0 ELSE pending[f].wait) \in Nat
    BY <1>3, RowFields
  <2> QED BY <1>3, <2>1, RowUpdates DEF InsertOrTake
<1> QED BY <1>1, <1>2, <1>3

-----------------------------------------------------------------------------
(* Type correctness.                                                         *)

\* Every step keeps the types.
LEMMA TypeStep == TypeOK /\ [Next]_vars => TypeOK'
<1> SUFFICES ASSUME TypeOK, [Next]_vars PROVE TypeOK'
  OBVIOUS
<1>0. RowTypes /\ WriterTypes /\ GuardTypes /\ JobTypes
  BY DEF TypeOK
<1> USE <1>0, TimingsAssumption DEF RowTypes, WriterTypes, GuardTypes, JobTypes, Calm, Disturbed,
                 rowVars, writerVars, guardVars, jobVars
<1>1. ASSUME NEW f \in Files, StartWrite(f)
      PROVE  TypeOK'
  <2>1. RowTypes'
    BY <1>1 DEF StartWrite
  <2>2. WriterTypes'
    BY <1>1 DEF StartWrite, WriterPcs
  <2>3. GuardTypes'
    BY <1>1 DEF StartWrite
  <2>4. JobTypes'
    BY <1>1 DEF StartWrite, JobPcs
  <2> QED BY <2>1, <2>2, <2>3, <2>4 DEF TypeOK
<1>2. ASSUME NEW f \in Files, RefuseProtection(f)
      PROVE  TypeOK'
  <2>1. RowTypes'
    BY <1>2 DEF RefuseProtection
  <2>2. WriterTypes'
    BY <1>2 DEF RefuseProtection, WriterPcs
  <2>3. GuardTypes'
    BY <1>2 DEF RefuseProtection
  <2>4. JobTypes'
    BY <1>2 DEF RefuseProtection, JobPcs
  <2> QED BY <2>1, <2>2, <2>3, <2>4 DEF TypeOK
<1>3. ASSUME NEW f \in Files, BreakProtection(f)
      PROVE  TypeOK'
  <2>1. RowTypes'
    BY <1>3 DEF BreakProtection, FailProtection, CloseIdleConnection
  <2>2. WriterTypes'
    BY <1>3 DEF BreakProtection, FailProtection, CloseIdleConnection, WriterPcs
  <2>3. GuardTypes'
    BY <1>3 DEF BreakProtection, FailProtection, CloseIdleConnection
  <2>4. JobTypes'
    BY <1>3 DEF BreakProtection, FailProtection, CloseIdleConnection, JobPcs
  <2> QED BY <2>1, <2>2, <2>3, <2>4 DEF TypeOK
<1>4. ASSUME NEW f \in Files, FindProtected(f)
      PROVE  TypeOK'
  <2>1. RowTypes'
    BY <1>4 DEF FindProtected, CloseIdleConnection
  <2>2. WriterTypes'
    BY <1>4 DEF FindProtected, CloseIdleConnection, WriterPcs
  <2>3. GuardTypes'
    BY <1>4 DEF FindProtected, CloseIdleConnection
  <2>4. JobTypes'
    BY <1>4 DEF FindProtected, CloseIdleConnection, JobPcs
  <2> QED BY <2>1, <2>2, <2>3, <2>4 DEF TypeOK
<1>5. ASSUME NEW f \in Files, GrantProtection(f)
      PROVE  TypeOK'
  <2>1. RowTypes'
    BY <1>5 DEF GrantProtection, CloseIdleConnection
  <2>2. WriterTypes'
    BY <1>5 DEF GrantProtection, CloseIdleConnection, WriterPcs
  <2>3. GuardTypes'
    BY <1>5 DEF GrantProtection, CloseIdleConnection
  <2>4. JobTypes'
    BY <1>5 DEF GrantProtection, CloseIdleConnection, JobPcs
  <2> QED BY <2>1, <2>2, <2>3, <2>4 DEF TypeOK
<1>6. ASSUME NEW f \in Files, InsertIfAbsent(f)
      PROVE  TypeOK'
  <2>1. RowTypes'
    BY <1>6, TimingsAssumption DEF InsertIfAbsent, HasRow, Row
  <2>2. WriterTypes'
    BY <1>6 DEF InsertIfAbsent, WriterPcs
  <2>3. GuardTypes'
    BY <1>6 DEF InsertIfAbsent
  <2>4. JobTypes'
    BY <1>6 DEF InsertIfAbsent, JobPcs
  <2> QED BY <2>1, <2>2, <2>3, <2>4 DEF TypeOK
<1>7. ASSUME NEW f \in Files, LocateStorage(f)
      PROVE  TypeOK'
  <2>1. RowTypes'
    BY <1>7, MakeEligibleNowType DEF LocateStorage
  <2>2. WriterTypes'
    BY <1>7 DEF LocateStorage, WriterPcs
  <2>3. GuardTypes'
    BY <1>7 DEF LocateStorage
  <2>4. JobTypes'
    BY <1>7 DEF LocateStorage, JobPcs
  <2> QED BY <2>1, <2>2, <2>3, <2>4 DEF TypeOK
<1>8. ASSUME NEW f \in Files, SaveFile(f)
      PROVE  TypeOK'
  <2>1. RowTypes'
    BY <1>8, MakeEligibleNowType DEF SaveFile
  <2>2. WriterTypes'
    BY <1>8 DEF SaveFile, WriterPcs
  <2>3. GuardTypes'
    BY <1>8 DEF SaveFile
  <2>4. JobTypes'
    BY <1>8 DEF SaveFile, JobPcs
  <2> QED BY <2>1, <2>2, <2>3, <2>4 DEF TypeOK
<1>9. ASSUME NEW f \in Files, KeepForCommit(f)
      PROVE  TypeOK'
  <2>1. RowTypes'
    <3>1. ASSUME HasRow(f) PROVE [pending[f] EXCEPT !.wait = CommitWindow] \in Row
      BY <3>1, RowFields, RowUpdates
    <3>2. pending' \in [Files -> Row \cup {None}]
      BY <1>9, <3>1 DEF KeepForCommit, ReceiptMatches
    <3> QED BY <1>9, <3>2 DEF KeepForCommit
  <2>2. WriterTypes'
    BY <1>9 DEF KeepForCommit, WriterPcs
  <2>3. GuardTypes'
    BY <1>9 DEF KeepForCommit
  <2>4. JobTypes'
    BY <1>9 DEF KeepForCommit, JobPcs
  <2> QED BY <2>1, <2>2, <2>3, <2>4 DEF TypeOK
<1>10. ASSUME NEW f \in Files, ReleaseProtection(f)
      PROVE  TypeOK'
  <2>1. RowTypes'
    BY <1>10 DEF ReleaseProtection, CloseIdleConnection
  <2>2. WriterTypes'
    BY <1>10 DEF ReleaseProtection, CloseIdleConnection, WriterPcs
  <2>3. GuardTypes'
    BY <1>10 DEF ReleaseProtection, CloseIdleConnection
  <2>4. JobTypes'
    BY <1>10 DEF ReleaseProtection, CloseIdleConnection, JobPcs
  <2> QED BY <2>1, <2>2, <2>3, <2>4 DEF TypeOK
<1>11. ASSUME NEW f \in Files, LoseProtection(f)
      PROVE  TypeOK'
  <2>1. RowTypes'
    BY <1>11 DEF LoseProtection, FailProtection, CloseIdleConnection
  <2>2. WriterTypes'
    BY <1>11 DEF LoseProtection, FailProtection, CloseIdleConnection, WriterPcs
  <2>3. GuardTypes'
    BY <1>11 DEF LoseProtection, FailProtection, CloseIdleConnection
  <2>4. JobTypes'
    BY <1>11 DEF LoseProtection, FailProtection, CloseIdleConnection, JobPcs
  <2> QED BY <2>1, <2>2, <2>3, <2>4 DEF TypeOK
<1>12. ASSUME NEW f \in Files, LeaveLiveWrites(f)
      PROVE  TypeOK'
  <2>1. RowTypes'
    BY <1>12 DEF LeaveLiveWrites
  <2>2. WriterTypes'
    BY <1>12 DEF LeaveLiveWrites, WriterPcs
  <2>3. GuardTypes'
    BY <1>12 DEF LeaveLiveWrites
  <2>4. JobTypes'
    BY <1>12 DEF LeaveLiveWrites, JobPcs
  <2> QED BY <2>1, <2>2, <2>3, <2>4 DEF TypeOK
<1>13. ASSUME NEW f \in Files, CancelWrite(f)
      PROVE  TypeOK'
  <2>1. RowTypes'
    BY <1>13 DEF CancelWrite
  <2>2. WriterTypes'
    BY <1>13 DEF CancelWrite, WriterPcs
  <2>3. GuardTypes'
    BY <1>13 DEF CancelWrite
  <2>4. JobTypes'
    BY <1>13 DEF CancelWrite, JobPcs
  <2> QED BY <2>1, <2>2, <2>3, <2>4 DEF TypeOK
<1>14. ASSUME NEW F \in SUBSET Files, ConfirmFileWrites(F)
      PROVE  TypeOK'
  <2>1. RowTypes'
    BY <1>14 DEF ConfirmFileWrites
  <2>2. WriterTypes'
    BY <1>14 DEF ConfirmFileWrites, WriterPcs
  <2>3. GuardTypes'
    BY <1>14 DEF ConfirmFileWrites
  <2>4. JobTypes'
    BY <1>14 DEF ConfirmFileWrites, JobPcs
  <2> QED BY <2>1, <2>2, <2>3, <2>4 DEF TypeOK
<1>15. ASSUME NEW F \in SUBSET Files, RequestFileDeletions(F)
      PROVE  TypeOK'
  <2>1. RowTypes'
    BY <1>15, InsertOrTakeType DEF RequestFileDeletions
  <2>2. WriterTypes'
    BY <1>15 DEF RequestFileDeletions, WriterPcs
  <2>3. GuardTypes'
    BY <1>15 DEF RequestFileDeletions
  <2>4. JobTypes'
    BY <1>15 DEF RequestFileDeletions, JobPcs
  <2> QED BY <2>1, <2>2, <2>3, <2>4 DEF TypeOK
<1>16. ASSUME NEW b \in BOOLEAN, DeleteStorage(b)
      PROVE  TypeOK'
  <2>1. RowTypes'
    BY <1>16 DEF DeleteStorage
  <2>2. WriterTypes'
    BY <1>16 DEF DeleteStorage, WriterPcs
  <2>3. GuardTypes'
    BY <1>16 DEF DeleteStorage
  <2>4. JobTypes'
    BY <1>16 DEF DeleteStorage, JobPcs
  <2> QED BY <2>1, <2>2, <2>3, <2>4 DEF TypeOK
<1>17. ASSUME NEW i \in Instances, NEW taken \in SUBSET Files, ClaimBatch(i, taken)
      PROVE  TypeOK'
  <2>1. RowTypes'
    <3>1. ASSUME NEW f \in taken
          PROVE  [pending[f] EXCEPT !.gen = @ + 1, !.wait = AttemptLease] \in Row
      <4>1. HasRow(f)
        BY <1>17 DEF ClaimBatch, Claimable
      <4>2. pending[f] \in Row /\ pending[f].gen + 1 \in Nat /\ AttemptLease \in Nat
        BY <4>1, RowFields
      <4> QED BY <4>2, RowUpdates
    <3> QED BY <1>17, <3>1 DEF ClaimBatch
  <2>2. WriterTypes'
    BY <1>17 DEF ClaimBatch, WriterPcs
  <2>3. GuardTypes'
    BY <1>17 DEF ClaimBatch
  <2>4. JobTypes'
    <3>1. ASSUME NEW f \in taken
          PROVE  [file |-> f, id |-> pending[f].id, gen |-> pending[f].gen + 1] \in Claim
      <4>1. HasRow(f)
        BY <1>17 DEF ClaimBatch, Claimable
      <4>2. pending[f].id \in Nat /\ pending[f].gen + 1 \in Nat
        BY <4>1, RowFields
      <4> QED BY <4>2 DEF Claim
    <3>2. batch' \in [Instances -> SUBSET Claim]
      <4> DEFINE claims == {[file |-> f, id |-> pending[f].id, gen |-> pending[f].gen + 1] :
                               f \in taken}
      <4>1. claims \in SUBSET Claim
        BY <3>1
      <4>2. batch' = [batch EXCEPT ![i] = claims]
        BY <1>17 DEF ClaimBatch
      <4> HIDE DEF claims
      <4> QED BY <4>1, <4>2
    <3> QED BY <1>17, <3>2 DEF ClaimBatch, JobPcs
  <2> QED BY <2>1, <2>2, <2>3, <2>4 DEF TypeOK
<1>18. ASSUME NEW i \in Instances, NEW c \in batch[i], BeginAttempt(i, c)
      PROVE  TypeOK'
  <2>1. RowTypes'
    <3>1. /\ c.file \in Files /\ pending[c.file] \in Row
          /\ pending[c.file].attempts + 1 \in Nat
      BY <1>18, RowFields DEF BeginAttempt, MayAttempt, IsCurrentClaim, Claim
    <3>2. [pending[c.file] EXCEPT !.attempts = @ + 1] \in Row
      BY <3>1, RowUpdates
    <3> QED BY <1>18, <3>2 DEF BeginAttempt
  <2>2. WriterTypes'
    BY <1>18 DEF BeginAttempt, WriterPcs
  <2>3. GuardTypes'
    BY <1>18 DEF BeginAttempt
  <2>4. JobTypes'
    BY <1>18 DEF BeginAttempt, JobPcs
  <2> QED BY <2>1, <2>2, <2>3, <2>4 DEF TypeOK
<1>19. ASSUME NEW i \in Instances, NEW c \in batch[i], SkipAttempt(i, c)
      PROVE  TypeOK'
  <2>1. RowTypes'
    BY <1>19 DEF SkipAttempt
  <2>2. WriterTypes'
    BY <1>19 DEF SkipAttempt, WriterPcs
  <2>3. GuardTypes'
    BY <1>19 DEF SkipAttempt
  <2>4. JobTypes'
    BY <1>19 DEF SkipAttempt, JobPcs
  <2> QED BY <2>1, <2>2, <2>3, <2>4 DEF TypeOK
<1>20. ASSUME NEW i \in Instances, DeleteFromProvider(i)
      PROVE  TypeOK'
  <2>1. RowTypes'
    BY <1>20 DEF DeleteFromProvider
  <2>2. WriterTypes'
    BY <1>20 DEF DeleteFromProvider, WriterPcs
  <2>3. GuardTypes'
    BY <1>20 DEF DeleteFromProvider
  <2>4. JobTypes'
    BY <1>20 DEF DeleteFromProvider, JobPcs
  <2> QED BY <2>1, <2>2, <2>3, <2>4 DEF TypeOK
<1>21. ASSUME NEW i \in Instances, ReleaseDeletedFile(i)
      PROVE  TypeOK'
  <2>1. RowTypes'
    BY <1>21 DEF ReleaseDeletedFile
  <2>2. WriterTypes'
    BY <1>21 DEF ReleaseDeletedFile, WriterPcs
  <2>3. GuardTypes'
    BY <1>21 DEF ReleaseDeletedFile
  <2>4. JobTypes'
    BY <1>21 DEF ReleaseDeletedFile, JobPcs
  <2> QED BY <2>1, <2>2, <2>3, <2>4 DEF TypeOK
<1>22. ASSUME NEW i \in Instances, Reschedule(i)
      PROVE  TypeOK'
  <2>1. RowTypes'
    <3>1. ASSUME NEW d \in 0 .. RetryMaxDelay, IsCurrentClaim(current[i])
          PROVE  [pending[current[i].file] EXCEPT !.wait = d] \in Row
      <4>1. pending[current[i].file] \in Row /\ d \in Nat
        BY <1>22, <3>1, RowFields, TimingsAssumption DEF Reschedule, IsCurrentClaim, Claim
      <4> QED BY <4>1, RowUpdates
    <3>2. pending' \in [Files -> Row \cup {None}]
      <4>1. CASE UNCHANGED pending
        BY <4>1
      <4>2. CASE IsCurrentClaim(current[i]) /\
                 \E d \in 0 .. RetryMaxDelay :
                    pending' = [pending EXCEPT ![current[i].file].wait = d]
        <5>1. PICK d \in 0 .. RetryMaxDelay :
                 pending' = [pending EXCEPT ![current[i].file].wait = d]
          BY <4>2
        <5> QED BY <4>2, <5>1, <3>1
      <4> QED BY <1>22, <4>1, <4>2 DEF Reschedule, JitteredDelays
    <3> QED BY <1>22, <3>2 DEF Reschedule
  <2>2. WriterTypes'
    BY <1>22 DEF Reschedule, WriterPcs
  <2>3. GuardTypes'
    BY <1>22 DEF Reschedule
  <2>4. JobTypes'
    BY <1>22 DEF Reschedule, JobPcs
  <2> QED BY <2>1, <2>2, <2>3, <2>4 DEF TypeOK
<1>23. ASSUME NEW i \in Instances, EndPass(i)
      PROVE  TypeOK'
  <2>1. RowTypes'
    BY <1>23 DEF EndPass
  <2>2. WriterTypes'
    BY <1>23 DEF EndPass, WriterPcs
  <2>3. GuardTypes'
    BY <1>23 DEF EndPass
  <2>4. JobTypes'
    BY <1>23 DEF EndPass, JobPcs
  <2> QED BY <2>1, <2>2, <2>3, <2>4 DEF TypeOK
<1>24. CASE Tick
  <2>1. RowTypes'
    <3>1. ASSUME NEW f \in Files, HasRow(f), pending[f].wait > 0
          PROVE  [pending[f] EXCEPT !.wait = @ - 1] \in Row
      <4>1. pending[f] \in Row /\ pending[f].wait - 1 \in Nat
        BY <3>1, RowFields
      <4> QED BY <4>1, RowUpdates
    <3> QED BY <1>24, <3>1 DEF Tick
  <2>2. WriterTypes'
    BY <1>24 DEF Tick, WriterPcs
  <2>3. GuardTypes'
    BY <1>24 DEF Tick
  <2>4. JobTypes'
    BY <1>24 DEF Tick, JobPcs
  <2> QED BY <2>1, <2>2, <2>3, <2>4 DEF TypeOK
<1>25. ASSUME NEW i \in Instances, LoseSession(i)
      PROVE  TypeOK'
  <2>1. RowTypes'
    BY <1>25 DEF LoseSession
  <2>2. WriterTypes'
    BY <1>25 DEF LoseSession, WriterPcs
  <2>3. GuardTypes'
    BY <1>25 DEF LoseSession
  <2>4. JobTypes'
    BY <1>25 DEF LoseSession, JobPcs
  <2> QED BY <2>1, <2>2, <2>3, <2>4 DEF TypeOK
<1>26. CASE ReapSessions
  <2>1. RowTypes'
    BY <1>26 DEF ReapSessions
  <2>2. WriterTypes'
    BY <1>26 DEF ReapSessions, WriterPcs
  <2>3. GuardTypes'
    BY <1>26 DEF ReapSessions
  <2>4. JobTypes'
    BY <1>26 DEF ReapSessions, JobPcs
  <2> QED BY <2>1, <2>2, <2>3, <2>4 DEF TypeOK
<1>27. ASSUME NEW i \in Instances, Crash(i)
      PROVE  TypeOK'
  <2>1. RowTypes'
    BY <1>27 DEF Crash
  <2>2. WriterTypes'
    BY <1>27 DEF Crash, WriterPcs
  <2>3. GuardTypes'
    BY <1>27 DEF Crash
  <2>4. JobTypes'
    BY <1>27 DEF Crash, JobPcs
  <2> QED BY <2>1, <2>2, <2>3, <2>4 DEF TypeOK
<1>28. CASE UNCHANGED vars
  BY <1>28 DEF vars, TypeOK
<1> QED
  BY <1>1, <1>2, <1>3, <1>4, <1>5, <1>6, <1>7, <1>8, <1>9, <1>10, <1>11,
     <1>12, <1>13, <1>14, <1>15, <1>16, <1>17, <1>18, <1>19, <1>20, <1>21,
     <1>22, <1>23, <1>24, <1>25, <1>26, <1>27, <1>28
     DEF Next, WriteStep, ProtectWrite, ReleaseWrite, JobStep, ClaimDue, StartAttempt

\* The initial state is well typed.
LEMMA TypeInit == Init => TypeOK
BY TimingsAssumption
   DEF Init, TypeOK, RowTypes, WriterTypes, GuardTypes, JobTypes, WriterPcs, JobPcs

\* Every reachable state of the file store is well typed.
THEOREM TypeCorrect == Spec => []TypeOK
BY TypeInit, TypeStep, PTL DEF Spec

-----------------------------------------------------------------------------
(* What the steps do to the rows.                                            *)

\* Rows come and go, and change owner, with their id and generation only.
SameRows ==
    \A g \in Files : /\ HasRow(g)' <=> HasRow(g)
                     /\ HasRow(g) => pending'[g].id = pending[g].id /\ pending'[g].gen = pending[g].gen

\* Rescheduling a row keeps its identity.
LEMMA WaitUpdate ==
  ASSUME NEW r \in Row, NEW n \in Nat
  PROVE  LET q == [r EXCEPT !.wait = n] IN q # None /\ q.id = r.id /\ q.gen = r.gen
BY NoneAssumption DEF Row

\* Counting an attempt keeps the identity of a row.
LEMMA AttemptsUpdate ==
  ASSUME NEW r \in Row, NEW n \in Nat
  PROVE  LET q == [r EXCEPT !.attempts = n] IN q # None /\ q.id = r.id /\ q.gen = r.gen
BY NoneAssumption DEF Row

\* Rescheduling one row keeps all rows.
LEMMA WaitKeepsRows ==
  ASSUME TypeOK, NEW f \in Files, HasRow(f), NEW n \in Nat, pending' = [pending EXCEPT ![f].wait = n]
  PROVE SameRows
<1>1. pending[f] \in Row BY RowFields
<1>2. LET q == [pending[f] EXCEPT !.wait = n] IN q # None /\ q.id = pending[f].id /\ q.gen = pending[f].gen
  BY <1>1, WaitUpdate
<1> QED BY <1>2, RowFields DEF SameRows, HasRow

\* A writer reschedules rows and nothing else.
LEMMA WriterKeepsRows == ASSUME TypeOK, NEW f \in Files, LocateStorage(f) \/ SaveFile(f) \/ KeepForCommit(f) PROVE SameRows
<1>1. CASE UNCHANGED pending BY <1>1 DEF SameRows, HasRow
<1>2. CASE \E n \in Nat : HasRow(f) /\ pending' = [pending EXCEPT ![f].wait = n]
  BY <1>2, WaitKeepsRows
<1> QED BY <1>1, <1>2, TimingsAssumption DEF LocateStorage, SaveFile, KeepForCommit, MakeEligibleNow, ReceiptMatches

\* A failed attempt reschedules rows and nothing else.
LEMMA RescheduleKeepsRows == ASSUME TypeOK, NEW i \in Instances, Reschedule(i) PROVE SameRows
<1>1. CASE UNCHANGED pending BY <1>1 DEF SameRows, HasRow
<1>2. CASE IsCurrentClaim(current[i]) /\ \E n \in 0 .. RetryMaxDelay : pending' = [pending EXCEPT ![current[i].file].wait = n]
  <2>1. current[i].file \in Files /\ HasRow(current[i].file) /\ 0 .. RetryMaxDelay \subseteq Nat
    BY <1>2, TimingsAssumption DEF TypeOK, JobTypes, Reschedule, IsCurrentClaim, Claim
  <2> QED BY <1>2, <2>1, WaitKeepsRows
<1> QED BY <1>1, <1>2 DEF Reschedule, JitteredDelays

\* Counting an attempt keeps all rows.
LEMMA AttemptKeepsRows == ASSUME TypeOK, NEW i \in Instances, NEW c \in batch[i], BeginAttempt(i,c) PROVE SameRows
<1>1. c.file \in Files /\ pending[c.file] \in Row /\ pending[c.file].attempts + 1 \in Nat
  BY RowFields DEF TypeOK, JobTypes, BeginAttempt, MayAttempt, IsCurrentClaim, Claim
<1>2. LET q == [pending[c.file] EXCEPT !.attempts = @ + 1] IN q # None /\ q.id = pending[c.file].id /\ q.gen = pending[c.file].gen
  BY <1>1, AttemptsUpdate
<1> QED BY <1>1, <1>2, RowFields DEF SameRows, HasRow, BeginAttempt, MayAttempt, IsCurrentClaim

\* The passing of time keeps all rows.
LEMMA TickKeepsRows == ASSUME TypeOK, Tick PROVE SameRows
<1>1. ASSUME NEW g \in Files, HasRow(g), pending[g].wait > 0
      PROVE  LET q == [pending[g] EXCEPT !.wait = @ - 1] IN q # None /\ q.id = pending[g].id /\ q.gen = pending[g].gen
  <2>1. pending[g] \in Row /\ pending[g].wait - 1 \in Nat
    BY <1>1, RowFields
  <2> QED BY <2>1, WaitUpdate
<1> QED BY <1>1, RowFields DEF SameRows, HasRow, Tick

\* What a claim does to the rows.
LEMMA ClaimRows ==
  ASSUME TypeOK, NEW i \in Instances, NEW taken \in SUBSET Files, ClaimBatch(i, taken)
  PROVE  \A g \in Files :
           /\ HasRow(g)' <=> HasRow(g)
           /\ HasRow(g) => /\ pending'[g].id = pending[g].id
                           /\ g \in taken => pending'[g].gen = pending[g].gen + 1
                           /\ g \notin taken => pending'[g].gen = pending[g].gen
<1>1. ASSUME NEW g \in taken
      PROVE HasRow(g) /\ LET q == [pending[g] EXCEPT !.gen = @ + 1, !.wait = AttemptLease] IN q # None /\ q.id = pending[g].id /\ q.gen = pending[g].gen + 1
  <2>1. HasRow(g) BY DEF ClaimBatch, Claimable
  <2>2. pending[g] \in Row /\ pending[g].gen + 1 \in Nat /\ AttemptLease \in Nat
    BY <2>1, RowFields, TimingsAssumption
  <2>3. [pending[g] EXCEPT !.gen = @ + 1, !.wait = AttemptLease] \in Row
    BY <2>2, RowUpdates
  <2> QED BY <2>1, <2>2, <2>3, NoneAssumption DEF Row
<1> TAKE g \in Files
<1>2. CASE g \in taken
  <2>1. pending'[g] = [pending[g] EXCEPT !.gen = @ + 1, !.wait = AttemptLease]
    BY <1>2 DEF ClaimBatch
  <2>2. /\ HasRow(g) /\ pending'[g] # None
        /\ pending'[g].id = pending[g].id /\ pending'[g].gen = pending[g].gen + 1
    BY <1>1, <1>2, <2>1, Zenon
  <2>3. pending[g].gen \in Nat
    BY <2>2, RowFields
  <2> QED BY <1>2, <2>2, <2>3 DEF HasRow
<1>3. CASE g \notin taken
  <2>1. pending'[g] = pending[g]
    BY <1>3 DEF ClaimBatch
  <2> QED BY <1>3, <2>1 DEF HasRow
<1> QED BY <1>2, <1>3

\* What a deletion request does to the rows.
LEMMA RequestRows ==
  ASSUME TypeOK, NEW F \in SUBSET Files, RequestFileDeletions(F)
  PROVE  \A g \in Files :
           /\ g \notin F \/ ~StorageExists => pending'[g] = pending[g]
           /\ g \in F /\ StorageExists /\ HasRow(g) => HasRow(g)' /\ pending'[g].id = pending[g].id /\ pending'[g].gen = pending[g].gen + 1
           /\ g \in F /\ StorageExists /\ ~HasRow(g) => HasRow(g)' /\ pending'[g].id = lastId[g] + 1 /\ pending'[g].gen = 0
<1> TAKE g \in Files
<1>0. pending'[g] = IF g \in F THEN InsertOrTake(g) ELSE pending[g]
  BY DEF RequestFileDeletions
<1>1. CASE g \notin F \/ ~StorageExists
  BY <1>0, <1>1 DEF InsertOrTake
<1>2. CASE g \in F /\ StorageExists /\ HasRow(g)
  <2>1. /\ pending[g] \in Row /\ pending[g].gen + 1 \in Nat
        /\ (IF pending[g].attempts = 0 THEN 0 ELSE pending[g].wait) \in Nat
    BY <1>2, RowFields
  <2>2. LET q == InsertOrTake(g) IN q # None /\ q.id = pending[g].id /\ q.gen = pending[g].gen + 1
    <3>1. InsertOrTake(g) = [pending[g] EXCEPT !.gen = pending[g].gen + 1, !.wait = IF pending[g].attempts = 0 THEN 0 ELSE pending[g].wait]
      BY <1>2 DEF InsertOrTake
    <3>2. InsertOrTake(g) \in Row
      BY <1>2, <2>1, RowUpdates DEF InsertOrTake
    <3> QED BY <2>1, <3>1, <3>2, NoneAssumption DEF Row
  <2> QED BY <1>0, <1>2, <2>2 DEF HasRow
<1>3. CASE g \in F /\ StorageExists /\ ~HasRow(g)
  <2>1. InsertOrTake(g) = [id |-> lastId[g] + 1, gen |-> 0, wait |-> 0, attempts |-> 0]
    BY <1>3 DEF InsertOrTake
  <2>2. InsertOrTake(g) \in Row
    BY <2>1 DEF Row, TypeOK, RowTypes
  <2> QED BY <1>0, <1>3, <2>1, <2>2, NoneAssumption DEF HasRow
<1> QED BY <1>1, <1>2, <1>3

-----------------------------------------------------------------------------
(* Published files.  The inductive invariant says who may own what: a row is *)
(* the writer's own or that of a file nobody may publish any more, a claim   *)
(* in flight has taken the writer's receipt away or belongs to such a file,  *)
(* and a receipt that still matches stands for a complete object.            *)

\* The rows the job of i has claimed and not finished with.
Claims(i) ==
    batch[i] \cup (IF jpc[i] \in {"deleting", "deleted", "failed"} THEN {current[i]} ELSE {})

Unregistered(f) == wpc[f] \in {"idle", "joined", "protected"}

IdsInv ==
    \A f \in Files :
        /\ wid[f] <= lastId[f]
        /\ IF wpc[f] = "idle" THEN wid[f] = 0 ELSE 1 <= wid[f]
        /\ HasRow(f) => 1 <= pending[f].id /\ pending[f].id <= lastId[f]

RowsInv ==
    \A f \in Files : HasRow(f) =>
        /\ pending[f].id = wid[f] => ~Unregistered(f)
        /\ pending[f].id # wid[f] => catalog[f] = "dropped"

ClaimsInv ==
    \A i \in Instances : \A c \in Claims(i) :
        /\ 1 <= c.id /\ c.id <= lastId[c.file]
        /\ c.id = wid[c.file] => ~Unregistered(c.file) /\ ~ReceiptMatches(c.file)
        /\ c.id # wid[c.file] => catalog[c.file] = "dropped"

KeptInv ==
    \A f \in Files :
        /\ f \in kept => wpc[f] \in {"releasing", "leaving", "done"}
        /\ (f \in kept \/ wpc[f] = "saved") /\ ReceiptMatches(f) /\ catalog[f] = "open"
              => provider[f] = "complete"

PublishedInv ==
    \A f \in Files : catalog[f] = "published" =>
        /\ wpc[f] \in {"done", "dead"} /\ provider[f] = "complete" /\ ~HasRow(f)
        /\ \A i \in Instances : \A c \in Claims(i) : c.file # f

IInv == TypeOK /\ IdsInv /\ RowsInv /\ ClaimsInv /\ KeptInv /\ PublishedInv

\* Every step of the store keeps the ownership of rows, claims and receipts.
LEMMA IInvStep == IInv /\ [Next]_vars => IInv'
<1> SUFFICES ASSUME IInv, [Next]_vars PROVE IInv'
  OBVIOUS
<1>0. TypeOK /\ TypeOK' /\ IdsInv /\ RowsInv /\ ClaimsInv /\ KeptInv /\ PublishedInv
  BY TypeStep DEF IInv
<1> USE <1>0 DEF TypeOK, RowTypes, WriterTypes, JobTypes, Claim, rowVars, writerVars,
                 guardVars, jobVars
<1>1. ASSUME NEW f \in Files, StartWrite(f)
      PROVE  IInv'
  <2>1. IdsInv'
    BY <1>1, RowFields DEF IdsInv, StartWrite, HasRow
  <2>2. RowsInv'
    BY <1>1, RowFields DEF RowsInv, IdsInv, StartWrite, Unregistered, HasRow
  <2>3. ClaimsInv'
    BY <1>1 DEF ClaimsInv, StartWrite, Claims, Unregistered, ReceiptMatches, HasRow
  <2>4. KeptInv'
    BY <1>1 DEF KeptInv, StartWrite, ReceiptMatches, HasRow, Unregistered
  <2>5. PublishedInv'
    BY <1>1 DEF PublishedInv, StartWrite, HasRow, Claims
  <2> QED BY <2>1, <2>2, <2>3, <2>4, <2>5 DEF IInv
<1>2. ASSUME NEW f \in Files, RefuseProtection(f)
      PROVE  IInv'
  <2>1. IdsInv'
    BY <1>2 DEF IdsInv, RefuseProtection, HasRow
  <2>2. RowsInv'
    BY <1>2 DEF RowsInv, RefuseProtection, HasRow, Unregistered
  <2>3. ClaimsInv'
    BY <1>2 DEF ClaimsInv, RefuseProtection, Claims, Unregistered, ReceiptMatches, HasRow
  <2>4. KeptInv'
    BY <1>2 DEF KeptInv, RefuseProtection, ReceiptMatches, HasRow, Unregistered
  <2>5. PublishedInv'
    BY <1>2 DEF PublishedInv, RefuseProtection, HasRow, Claims
  <2> QED BY <2>1, <2>2, <2>3, <2>4, <2>5 DEF IInv
<1>3. ASSUME NEW f \in Files, BreakProtection(f)
      PROVE  IInv'
  <2>1. IdsInv'
    BY <1>3 DEF IdsInv, BreakProtection, FailProtection, CloseIdleConnection, HasRow
  <2>2. RowsInv'
    BY <1>3 DEF RowsInv, BreakProtection, FailProtection, CloseIdleConnection, HasRow, Unregistered
  <2>3. ClaimsInv'
    BY <1>3 DEF ClaimsInv, BreakProtection, FailProtection, CloseIdleConnection, Claims, Unregistered, ReceiptMatches, HasRow
  <2>4. KeptInv'
    BY <1>3 DEF KeptInv, BreakProtection, FailProtection, CloseIdleConnection, ReceiptMatches, HasRow, Unregistered
  <2>5. PublishedInv'
    BY <1>3 DEF PublishedInv, BreakProtection, FailProtection, CloseIdleConnection, HasRow, Claims
  <2> QED BY <2>1, <2>2, <2>3, <2>4, <2>5 DEF IInv
<1>4. ASSUME NEW f \in Files, FindProtected(f)
      PROVE  IInv'
  <2>1. IdsInv'
    BY <1>4 DEF IdsInv, FindProtected, CloseIdleConnection, HasRow
  <2>2. RowsInv'
    BY <1>4 DEF RowsInv, FindProtected, CloseIdleConnection, HasRow, Unregistered
  <2>3. ClaimsInv'
    BY <1>4 DEF ClaimsInv, FindProtected, CloseIdleConnection, Claims, Unregistered, ReceiptMatches, HasRow
  <2>4. KeptInv'
    BY <1>4 DEF KeptInv, FindProtected, CloseIdleConnection, ReceiptMatches, HasRow, Unregistered
  <2>5. PublishedInv'
    BY <1>4 DEF PublishedInv, FindProtected, CloseIdleConnection, HasRow, Claims
  <2> QED BY <2>1, <2>2, <2>3, <2>4, <2>5 DEF IInv
<1>5. ASSUME NEW f \in Files, GrantProtection(f)
      PROVE  IInv'
  <2>1. IdsInv'
    BY <1>5 DEF IdsInv, GrantProtection, CloseIdleConnection, HasRow
  <2>2. RowsInv'
    BY <1>5 DEF RowsInv, GrantProtection, CloseIdleConnection, HasRow, Unregistered
  <2>3. ClaimsInv'
    BY <1>5 DEF ClaimsInv, GrantProtection, CloseIdleConnection, Claims, Unregistered, ReceiptMatches, HasRow
  <2>4. KeptInv'
    BY <1>5 DEF KeptInv, GrantProtection, CloseIdleConnection, ReceiptMatches, HasRow, Unregistered
  <2>5. PublishedInv'
    BY <1>5 DEF PublishedInv, GrantProtection, CloseIdleConnection, HasRow, Claims
  <2> QED BY <2>1, <2>2, <2>3, <2>4, <2>5 DEF IInv
<1>6. ASSUME NEW f \in Files, InsertIfAbsent(f)
      PROVE  IInv'
  <2>1. IdsInv'
    BY <1>6, RowFields DEF IdsInv, InsertIfAbsent, HasRow
  <2>2. RowsInv'
    BY <1>6 DEF RowsInv, InsertIfAbsent, HasRow, Unregistered
  <2>3. ClaimsInv'
    BY <1>6 DEF ClaimsInv, InsertIfAbsent, Claims, Unregistered, ReceiptMatches, HasRow
  <2>4. KeptInv'
    BY <1>6 DEF KeptInv, InsertIfAbsent, ReceiptMatches, HasRow, Unregistered
  <2>5. PublishedInv'
    BY <1>6 DEF PublishedInv, InsertIfAbsent, HasRow, Claims
  <2> QED BY <2>1, <2>2, <2>3, <2>4, <2>5 DEF IInv
<1>7. ASSUME NEW f \in Files, LocateStorage(f)
      PROVE  IInv'
  <2>0. SameRows
    BY <1>7, WriterKeepsRows
  <2>1. IdsInv'
    BY <2>0, <1>7, RowFields DEF IdsInv, LocateStorage, SameRows
  <2>2. RowsInv'
    BY <2>0, <1>7, RowFields DEF RowsInv, LocateStorage, Unregistered, SameRows
  <2>3. ClaimsInv'
    BY <2>0, <1>7, RowFields DEF ClaimsInv, LocateStorage, Claims, Unregistered, ReceiptMatches, SameRows
  <2>4. KeptInv'
    BY <2>0, <1>7, RowFields DEF KeptInv, LocateStorage, ReceiptMatches, Unregistered, SameRows
  <2>5. PublishedInv'
    BY <2>0, <1>7, RowFields DEF PublishedInv, LocateStorage, Claims, SameRows
  <2> QED BY <2>1, <2>2, <2>3, <2>4, <2>5 DEF IInv
<1>8. ASSUME NEW f \in Files, SaveFile(f)
      PROVE  IInv'
  <2>0. SameRows
    BY <1>8, WriterKeepsRows
  <2>1. IdsInv'
    BY <2>0, <1>8, RowFields DEF IdsInv, SaveFile, SameRows
  <2>2. RowsInv'
    BY <2>0, <1>8, RowFields DEF RowsInv, SaveFile, Unregistered, SameRows
  <2>3. ClaimsInv'
    BY <2>0, <1>8, RowFields DEF ClaimsInv, SaveFile, Claims, Unregistered, ReceiptMatches, SameRows
  <2>4. KeptInv'
    BY <2>0, <1>8, RowFields DEF KeptInv, SaveFile, ReceiptMatches, Unregistered, SameRows
  <2>5. PublishedInv'
    BY <2>0, <1>8, RowFields DEF PublishedInv, SaveFile, Claims, SameRows
  <2> QED BY <2>1, <2>2, <2>3, <2>4, <2>5 DEF IInv
<1>9. ASSUME NEW f \in Files, KeepForCommit(f)
      PROVE  IInv'
  <2>0. SameRows
    BY <1>9, WriterKeepsRows
  <2>1. IdsInv'
    BY <2>0, <1>9, RowFields DEF IdsInv, KeepForCommit, SameRows
  <2>2. RowsInv'
    BY <2>0, <1>9, RowFields DEF RowsInv, KeepForCommit, Unregistered, SameRows
  <2>3. ClaimsInv'
    BY <2>0, <1>9, RowFields DEF ClaimsInv, KeepForCommit, Claims, Unregistered, ReceiptMatches, SameRows
  <2>4. KeptInv'
    BY <2>0, <1>9, RowFields DEF KeptInv, KeepForCommit, ReceiptMatches, Unregistered, SameRows
  <2>5. PublishedInv'
    BY <2>0, <1>9, RowFields DEF PublishedInv, KeepForCommit, Claims, SameRows
  <2> QED BY <2>1, <2>2, <2>3, <2>4, <2>5 DEF IInv
<1>10. ASSUME NEW f \in Files, ReleaseProtection(f)
      PROVE  IInv'
  <2>1. IdsInv'
    BY <1>10 DEF IdsInv, ReleaseProtection, CloseIdleConnection, HasRow
  <2>2. RowsInv'
    BY <1>10 DEF RowsInv, ReleaseProtection, CloseIdleConnection, HasRow, Unregistered
  <2>3. ClaimsInv'
    BY <1>10 DEF ClaimsInv, ReleaseProtection, CloseIdleConnection, Claims, Unregistered, ReceiptMatches, HasRow
  <2>4. KeptInv'
    BY <1>10 DEF KeptInv, ReleaseProtection, CloseIdleConnection, ReceiptMatches, HasRow, Unregistered
  <2>5. PublishedInv'
    BY <1>10 DEF PublishedInv, ReleaseProtection, CloseIdleConnection, HasRow, Claims
  <2> QED BY <2>1, <2>2, <2>3, <2>4, <2>5 DEF IInv
<1>11. ASSUME NEW f \in Files, LoseProtection(f)
      PROVE  IInv'
  <2>1. IdsInv'
    BY <1>11 DEF IdsInv, LoseProtection, FailProtection, CloseIdleConnection, HasRow
  <2>2. RowsInv'
    BY <1>11 DEF RowsInv, LoseProtection, FailProtection, CloseIdleConnection, HasRow, Unregistered
  <2>3. ClaimsInv'
    BY <1>11 DEF ClaimsInv, LoseProtection, FailProtection, CloseIdleConnection, Claims, Unregistered, ReceiptMatches, HasRow
  <2>4. KeptInv'
    BY <1>11 DEF KeptInv, LoseProtection, FailProtection, CloseIdleConnection, ReceiptMatches, HasRow, Unregistered
  <2>5. PublishedInv'
    BY <1>11 DEF PublishedInv, LoseProtection, FailProtection, CloseIdleConnection, HasRow, Claims
  <2> QED BY <2>1, <2>2, <2>3, <2>4, <2>5 DEF IInv
<1>12. ASSUME NEW f \in Files, LeaveLiveWrites(f)
      PROVE  IInv'
  <2>1. IdsInv'
    BY <1>12 DEF IdsInv, LeaveLiveWrites, HasRow
  <2>2. RowsInv'
    BY <1>12 DEF RowsInv, LeaveLiveWrites, HasRow, Unregistered
  <2>3. ClaimsInv'
    BY <1>12 DEF ClaimsInv, LeaveLiveWrites, Claims, Unregistered, ReceiptMatches, HasRow
  <2>4. KeptInv'
    BY <1>12 DEF KeptInv, LeaveLiveWrites, ReceiptMatches, HasRow, Unregistered
  <2>5. PublishedInv'
    BY <1>12 DEF PublishedInv, LeaveLiveWrites, HasRow, Claims
  <2> QED BY <2>1, <2>2, <2>3, <2>4, <2>5 DEF IInv
<1>13. ASSUME NEW f \in Files, CancelWrite(f)
      PROVE  IInv'
  <2>1. IdsInv'
    BY <1>13 DEF IdsInv, CancelWrite, HasRow
  <2>2. RowsInv'
    BY <1>13 DEF RowsInv, CancelWrite, HasRow, Unregistered
  <2>3. ClaimsInv'
    BY <1>13 DEF ClaimsInv, CancelWrite, Claims, Unregistered, ReceiptMatches, HasRow
  <2>4. KeptInv'
    BY <1>13 DEF KeptInv, CancelWrite, ReceiptMatches, HasRow, Unregistered
  <2>5. PublishedInv'
    BY <1>13 DEF PublishedInv, CancelWrite, HasRow, Claims
  <2> QED BY <2>1, <2>2, <2>3, <2>4, <2>5 DEF IInv
<1>14. ASSUME NEW F \in SUBSET Files, ConfirmFileWrites(F)
      PROVE  IInv'
  <2>1. IdsInv'
    BY <1>14 DEF IdsInv, ConfirmFileWrites, HasRow
  <2>2. RowsInv'
    BY <1>14 DEF RowsInv, ConfirmFileWrites, HasRow, Unregistered
  <2>3. ClaimsInv'
    BY <1>14 DEF ClaimsInv, ConfirmFileWrites, Claims, Unregistered, ReceiptMatches, HasRow
  <2>4. KeptInv'
    BY <1>14 DEF KeptInv, ConfirmFileWrites, ReceiptMatches, HasRow, Unregistered
  <2>5. PublishedInv'
    <3>1. ASSUME NEW f \in F, NEW i \in Instances, NEW c \in Claims(i) PROVE c.file # f
      BY <1>14, <3>1 DEF ClaimsInv, ConfirmFileWrites
    <3>2. ASSUME NEW f \in F PROVE provider[f] = "complete" /\ wpc[f] = "done"
      BY <1>14, <3>2 DEF KeptInv, ConfirmFileWrites
    <3>3. \A i \in Instances : Claims(i)' = Claims(i)
      BY <1>14 DEF ConfirmFileWrites, Claims
    <3> QED BY <1>14, <3>1, <3>2, <3>3 DEF PublishedInv, ConfirmFileWrites, HasRow
  <2> QED BY <2>1, <2>2, <2>3, <2>4, <2>5 DEF IInv
<1>15. ASSUME NEW F \in SUBSET Files, RequestFileDeletions(F)
      PROVE  IInv'
  <2>0. \A g \in Files :
           /\ g \notin F \/ ~StorageExists => pending'[g] = pending[g]
           /\ g \in F /\ StorageExists /\ HasRow(g) => HasRow(g)' /\ pending'[g].id = pending[g].id /\ pending'[g].gen = pending[g].gen + 1
           /\ g \in F /\ StorageExists /\ ~HasRow(g) => HasRow(g)' /\ pending'[g].id = lastId[g] + 1 /\ pending'[g].gen = 0
    BY <1>15, RequestRows
  <2>a. /\ lastId' = [g \in Files |-> IF g \in F /\ StorageExists /\ ~HasRow(g)
                                  THEN lastId[g] + 1 ELSE lastId[g]]
       /\ catalog' = [g \in Files |-> IF g \in F THEN "dropped" ELSE catalog[g]]
       /\ UNCHANGED <<provider, wpc, wid, kept, jpc, batch, current>>
    BY <1>15 DEF RequestFileDeletions
  <2>b. \A i \in Instances : Claims(i)' = Claims(i)
    BY <2>a DEF Claims
  <2>1. IdsInv'
    BY <2>0, <2>a, RowFields DEF IdsInv, HasRow
  <2>2. RowsInv'
    BY <2>0, <2>a, RowFields DEF RowsInv, IdsInv, Unregistered, HasRow
  <2>3. ClaimsInv'
    <3> SUFFICES ASSUME NEW i \in Instances, NEW c \in Claims(i)
                 PROVE /\ 1 <= c.id /\ c.id <= lastId'[c.file]
                       /\ c.id = wid[c.file] => ~Unregistered(c.file) /\ ~ReceiptMatches(c.file)'
                       /\ c.id # wid[c.file] => catalog'[c.file] = "dropped"
      BY <2>a, <2>b DEF ClaimsInv, Unregistered
    <3>1. c.file \in Files
      BY DEF Claims
    <3>2. /\ 1 <= c.id /\ c.id <= lastId[c.file]
          /\ c.id = wid[c.file] => ~Unregistered(c.file) /\ ~ReceiptMatches(c.file)
          /\ c.id # wid[c.file] => catalog[c.file] = "dropped"
      BY DEF ClaimsInv
    <3>3. lastId[c.file] <= lastId'[c.file] /\ (catalog[c.file] = "dropped" => catalog'[c.file] = "dropped")
      BY <2>a, <3>1
    <3>4. ~ReceiptMatches(c.file) => ~ReceiptMatches(c.file)'
      <4>1. CASE c.file \in F /\ StorageExists /\ HasRow(c.file)
        BY <2>0, <3>1, <4>1, RowFields DEF ReceiptMatches
      <4>2. CASE c.file \in F /\ StorageExists /\ ~HasRow(c.file)
        BY <2>0, <2>a, <3>1, <4>2 DEF ReceiptMatches, IdsInv
      <4>3. CASE c.file \notin F \/ ~StorageExists
        BY <2>0, <2>a, <3>1, <4>3 DEF ReceiptMatches, HasRow
      <4> QED BY <4>1, <4>2, <4>3
    <3>5. lastId[c.file] \in Nat /\ lastId'[c.file] \in Nat /\ c.id \in Nat
      BY <3>1 DEF Claims
    <3> HIDE DEF TypeOK
    <3> QED BY <3>2, <3>3, <3>4, <3>5
  <2>4. KeptInv'
    BY <2>0, <2>a, RowFields DEF KeptInv, ReceiptMatches, HasRow
  <2>5. PublishedInv'
    BY <2>0, <2>a, <2>b, RowFields DEF PublishedInv, HasRow
  <2> QED BY <2>1, <2>2, <2>3, <2>4, <2>5 DEF IInv
<1>16. ASSUME NEW b \in BOOLEAN, DeleteStorage(b)
      PROVE  IInv'
  <2>1. IdsInv'
    BY <1>16 DEF IdsInv, DeleteStorage, HasRow
  <2>2. RowsInv'
    BY <1>16 DEF RowsInv, DeleteStorage, HasRow, Unregistered
  <2>3. ClaimsInv'
    BY <1>16 DEF ClaimsInv, DeleteStorage, Claims, Unregistered, ReceiptMatches, HasRow
  <2>4. KeptInv'
    BY <1>16 DEF KeptInv, DeleteStorage, ReceiptMatches, HasRow, Unregistered
  <2>5. PublishedInv'
    BY <1>16 DEF PublishedInv, DeleteStorage, HasRow, Claims
  <2> QED BY <2>1, <2>2, <2>3, <2>4, <2>5 DEF IInv
<1>17. ASSUME NEW i \in Instances, NEW taken \in SUBSET Files, ClaimBatch(i, taken)
      PROVE  IInv'
  <2>0. \A g \in Files :
           /\ HasRow(g)' <=> HasRow(g)
           /\ HasRow(g) => /\ pending'[g].id = pending[g].id
                           /\ g \in taken => pending'[g].gen # 0
                           /\ g \notin taken => pending'[g].gen = pending[g].gen
    <3> TAKE g \in Files
    <3>1. HasRow(g) => pending[g].gen + 1 # 0
      BY RowFields
    <3> QED BY <1>17, <3>1, ClaimRows
  <2>a. /\ UNCHANGED <<lastId, catalog, provider, wpc, wid, kept>>
        /\ \A g \in taken : HasRow(g)
    BY <1>17 DEF ClaimBatch, Claimable
  <2>b. \A j \in Instances : \A c \in Claims(j)' :
           c \in Claims(j) \/ (c.file \in taken /\ c.id = pending[c.file].id)
    <3>1. ASSUME NEW j \in Instances, j # i PROVE Claims(j)' = Claims(j)
      BY <1>17, <3>1 DEF ClaimBatch, Claims
    <3>2. Claims(i)' = {[file |-> f, id |-> pending[f].id, gen |-> pending[f].gen + 1] : f \in taken}
      BY <1>17 DEF ClaimBatch, Claims
    <3>3. ASSUME NEW c \in Claims(i)' PROVE c.file \in taken /\ c.id = pending[c.file].id
      <4>1. PICK f \in taken : c = [file |-> f, id |-> pending[f].id, gen |-> pending[f].gen + 1]
        BY <3>2
      <4> QED BY <4>1
    <3> QED BY <3>1, <3>3
  <2>1. IdsInv'
    BY <2>0, <2>a, RowFields DEF IdsInv, HasRow
  <2>2. RowsInv'
    BY <2>0, <2>a, RowFields DEF RowsInv, Unregistered, HasRow
  <2>3. ClaimsInv'
    <3> SUFFICES ASSUME NEW j \in Instances, NEW c \in Claims(j)'
                 PROVE /\ 1 <= c.id /\ c.id <= lastId[c.file]
                       /\ c.id = wid[c.file] => ~Unregistered(c.file) /\ ~ReceiptMatches(c.file)'
                       /\ c.id # wid[c.file] => catalog[c.file] = "dropped"
      BY <2>a DEF ClaimsInv, Unregistered
    <3>1. CASE c \in Claims(j)
      <4>1. c.file \in Files
        BY <3>1 DEF Claims
      <4> QED BY <2>0, <2>a, <3>1, <4>1, RowFields DEF ClaimsInv, ReceiptMatches, HasRow
    <3>2. CASE c.file \in taken /\ c.id = pending[c.file].id
      BY <2>0, <2>a, <3>2, RowFields DEF IdsInv, RowsInv, ReceiptMatches, HasRow
    <3> QED BY <2>b, <3>1, <3>2
  <2>4. KeptInv'
    BY <2>0, <2>a, RowFields DEF KeptInv, ReceiptMatches, HasRow
  <2>5. PublishedInv'
    BY <2>0, <2>a, <2>b, RowFields DEF PublishedInv, HasRow
  <2> QED BY <2>1, <2>2, <2>3, <2>4, <2>5 DEF IInv
<1>18. ASSUME NEW i \in Instances, NEW c \in batch[i], BeginAttempt(i, c)
      PROVE  IInv'
  <2>0. SameRows
    BY <1>18, AttemptKeepsRows
  <2>1. IdsInv'
    BY <2>0, <1>18, RowFields DEF IdsInv, BeginAttempt, SameRows
  <2>2. RowsInv'
    BY <2>0, <1>18, RowFields DEF RowsInv, BeginAttempt, Unregistered, SameRows
  <2>3. ClaimsInv'
    BY <2>0, <1>18, RowFields DEF ClaimsInv, BeginAttempt, Claims, Unregistered, ReceiptMatches, SameRows
  <2>4. KeptInv'
    BY <2>0, <1>18, RowFields DEF KeptInv, BeginAttempt, ReceiptMatches, Unregistered, SameRows
  <2>5. PublishedInv'
    BY <2>0, <1>18, RowFields DEF PublishedInv, BeginAttempt, Claims, SameRows
  <2> QED BY <2>1, <2>2, <2>3, <2>4, <2>5 DEF IInv
<1>19. ASSUME NEW i \in Instances, NEW c \in batch[i], SkipAttempt(i, c)
      PROVE  IInv'
  <2>1. IdsInv'
    BY <1>19 DEF IdsInv, SkipAttempt, HasRow
  <2>2. RowsInv'
    BY <1>19 DEF RowsInv, SkipAttempt, HasRow, Unregistered
  <2>3. ClaimsInv'
    BY <1>19 DEF ClaimsInv, SkipAttempt, Claims, Unregistered, ReceiptMatches, HasRow
  <2>4. KeptInv'
    BY <1>19 DEF KeptInv, SkipAttempt, ReceiptMatches, HasRow, Unregistered
  <2>5. PublishedInv'
    BY <1>19 DEF PublishedInv, SkipAttempt, HasRow, Claims
  <2> QED BY <2>1, <2>2, <2>3, <2>4, <2>5 DEF IInv
<1>20. ASSUME NEW i \in Instances, DeleteFromProvider(i)
      PROVE  IInv'
  <2>1. IdsInv'
    BY <1>20 DEF IdsInv, DeleteFromProvider, HasRow
  <2>2. RowsInv'
    BY <1>20 DEF RowsInv, DeleteFromProvider, HasRow, Unregistered
  <2>3. ClaimsInv'
    BY <1>20 DEF ClaimsInv, DeleteFromProvider, Claims, Unregistered, ReceiptMatches, HasRow
  <2>4. KeptInv'
    <3>1. current[i] \in Claims(i)
      BY <1>20 DEF DeleteFromProvider, Claims
    <3>2. \A g \in Files : ReceiptMatches(g) /\ catalog[g] = "open" => provider'[g] = provider[g]
      BY <1>20, <3>1 DEF DeleteFromProvider, ClaimsInv
    <3> QED BY <1>20, <3>2 DEF KeptInv, DeleteFromProvider, ReceiptMatches, HasRow
  <2>5. PublishedInv'
    BY <1>20 DEF PublishedInv, DeleteFromProvider, HasRow, Claims
  <2> QED BY <2>1, <2>2, <2>3, <2>4, <2>5 DEF IInv
<1>21. ASSUME NEW i \in Instances, ReleaseDeletedFile(i)
      PROVE  IInv'
  <2>1. IdsInv'
    BY <1>21 DEF IdsInv, ReleaseDeletedFile, MayAttempt, IsCurrentClaim, HasRow
  <2>2. RowsInv'
    BY <1>21 DEF RowsInv, ReleaseDeletedFile, MayAttempt, IsCurrentClaim, HasRow, Unregistered
  <2>3. ClaimsInv'
    BY <1>21 DEF ClaimsInv, ReleaseDeletedFile, MayAttempt, IsCurrentClaim, Claims, Unregistered, ReceiptMatches, HasRow
  <2>4. KeptInv'
    BY <1>21 DEF KeptInv, ReleaseDeletedFile, MayAttempt, IsCurrentClaim, ReceiptMatches, HasRow, Unregistered
  <2>5. PublishedInv'
    BY <1>21 DEF PublishedInv, ReleaseDeletedFile, MayAttempt, IsCurrentClaim, HasRow, Claims
  <2> QED BY <2>1, <2>2, <2>3, <2>4, <2>5 DEF IInv
<1>22. ASSUME NEW i \in Instances, Reschedule(i)
      PROVE  IInv'
  <2>0. SameRows
    BY <1>22, RescheduleKeepsRows
  <2>1. IdsInv'
    BY <2>0, <1>22, RowFields DEF IdsInv, Reschedule, SameRows
  <2>2. RowsInv'
    BY <2>0, <1>22, RowFields DEF RowsInv, Reschedule, Unregistered, SameRows
  <2>3. ClaimsInv'
    BY <2>0, <1>22, RowFields DEF ClaimsInv, Reschedule, Claims, Unregistered, ReceiptMatches, SameRows
  <2>4. KeptInv'
    BY <2>0, <1>22, RowFields DEF KeptInv, Reschedule, ReceiptMatches, Unregistered, SameRows
  <2>5. PublishedInv'
    BY <2>0, <1>22, RowFields DEF PublishedInv, Reschedule, Claims, SameRows
  <2> QED BY <2>1, <2>2, <2>3, <2>4, <2>5 DEF IInv
<1>23. ASSUME NEW i \in Instances, EndPass(i)
      PROVE  IInv'
  <2>1. IdsInv'
    BY <1>23 DEF IdsInv, EndPass, HasRow
  <2>2. RowsInv'
    BY <1>23 DEF RowsInv, EndPass, HasRow, Unregistered
  <2>3. ClaimsInv'
    BY <1>23 DEF ClaimsInv, EndPass, Claims, Unregistered, ReceiptMatches, HasRow
  <2>4. KeptInv'
    BY <1>23 DEF KeptInv, EndPass, ReceiptMatches, HasRow, Unregistered
  <2>5. PublishedInv'
    BY <1>23 DEF PublishedInv, EndPass, HasRow, Claims
  <2> QED BY <2>1, <2>2, <2>3, <2>4, <2>5 DEF IInv
<1>24. CASE Tick
  <2>0. SameRows
    BY <1>24, TickKeepsRows
  <2>1. IdsInv'
    BY <2>0, <1>24, RowFields DEF IdsInv, Tick, SameRows
  <2>2. RowsInv'
    BY <2>0, <1>24, RowFields DEF RowsInv, Tick, Unregistered, SameRows
  <2>3. ClaimsInv'
    BY <2>0, <1>24, RowFields DEF ClaimsInv, Tick, Claims, Unregistered, ReceiptMatches, SameRows
  <2>4. KeptInv'
    BY <2>0, <1>24, RowFields DEF KeptInv, Tick, ReceiptMatches, Unregistered, SameRows
  <2>5. PublishedInv'
    BY <2>0, <1>24, RowFields DEF PublishedInv, Tick, Claims, SameRows
  <2> QED BY <2>1, <2>2, <2>3, <2>4, <2>5 DEF IInv
<1>25. ASSUME NEW i \in Instances, LoseSession(i)
      PROVE  IInv'
  <2>1. IdsInv'
    BY <1>25 DEF IdsInv, LoseSession, HasRow
  <2>2. RowsInv'
    BY <1>25 DEF RowsInv, LoseSession, HasRow, Unregistered
  <2>3. ClaimsInv'
    BY <1>25 DEF ClaimsInv, LoseSession, Claims, Unregistered, ReceiptMatches, HasRow
  <2>4. KeptInv'
    BY <1>25 DEF KeptInv, LoseSession, ReceiptMatches, HasRow, Unregistered
  <2>5. PublishedInv'
    BY <1>25 DEF PublishedInv, LoseSession, HasRow, Claims
  <2> QED BY <2>1, <2>2, <2>3, <2>4, <2>5 DEF IInv
<1>26. CASE ReapSessions
  <2>1. IdsInv'
    BY <1>26 DEF IdsInv, ReapSessions, HasRow
  <2>2. RowsInv'
    BY <1>26 DEF RowsInv, ReapSessions, HasRow, Unregistered
  <2>3. ClaimsInv'
    BY <1>26 DEF ClaimsInv, ReapSessions, Claims, Unregistered, ReceiptMatches, HasRow
  <2>4. KeptInv'
    BY <1>26 DEF KeptInv, ReapSessions, ReceiptMatches, HasRow, Unregistered
  <2>5. PublishedInv'
    BY <1>26 DEF PublishedInv, ReapSessions, HasRow, Claims
  <2> QED BY <2>1, <2>2, <2>3, <2>4, <2>5 DEF IInv
<1>27. ASSUME NEW i \in Instances, Crash(i)
      PROVE  IInv'
  <2>1. IdsInv'
    BY <1>27 DEF IdsInv, Crash, HasRow
  <2>2. RowsInv'
    BY <1>27 DEF RowsInv, Crash, HasRow, Unregistered
  <2>3. ClaimsInv'
    BY <1>27 DEF ClaimsInv, Crash, Claims, Unregistered, ReceiptMatches, HasRow
  <2>4. KeptInv'
    BY <1>27 DEF KeptInv, Crash, ReceiptMatches, HasRow, Unregistered
  <2>5. PublishedInv'
    BY <1>27 DEF PublishedInv, Crash, HasRow, Claims
  <2> QED BY <2>1, <2>2, <2>3, <2>4, <2>5 DEF IInv
<1>28. CASE UNCHANGED vars
  BY <1>28 DEF vars, IInv, IdsInv, RowsInv, ClaimsInv, KeptInv, PublishedInv, Claims,
               ReceiptMatches, HasRow, Unregistered
<1> QED
  BY <1>1, <1>2, <1>3, <1>4, <1>5, <1>6, <1>7, <1>8, <1>9, <1>10, <1>11, <1>12,
     <1>13, <1>14, <1>15, <1>16, <1>17, <1>18, <1>19, <1>20, <1>21, <1>22,
     <1>23, <1>24, <1>25, <1>26, <1>27, <1>28
     DEF Next, WriteStep, ProtectWrite, ReleaseWrite, JobStep, ClaimDue, StartAttempt

\* The initial state satisfies the invariant.
LEMMA IInvInit == Init => IInv
<1> SUFFICES ASSUME Init PROVE IInv
  OBVIOUS
<1>1. TypeOK
  BY TypeInit
<1>2. IdsInv /\ RowsInv /\ ClaimsInv /\ KeptInv /\ PublishedInv
  BY DEF Init, IdsInv, RowsInv, ClaimsInv, KeptInv, PublishedInv, HasRow, Claims
<1> QED BY <1>1, <1>2 DEF IInv

\* A published backup file is complete at the provider, no deletion of it is
\* running and none is owed, whatever the number of processes and whatever fails.
THEOREM PublishedStaysIntact == Spec => []PublishedIntact
<1>1. IInv => PublishedIntact
  BY DEF IInv, PublishedInv, PublishedIntact, Deleting, Claims
<1> QED BY <1>1, IInvInit, IInvStep, PTL DEF Spec

-----------------------------------------------------------------------------
(* Files nobody will remove.  With one process, the live set keeps the job    *)
(* away from the row of an upload, so the row is still there when the bytes   *)
(* are; and a claim that is still current when its deletion succeeded proves  *)
(* that the object is gone.                                                   *)

\* The supported installation runs one application process.
SoleInstance == \A i, j \in Instances : i = j

LiveInv == \A f \in Files : wpc[f] \notin {"idle", "done", "dead"} => f \in live[at[f]]

GoneInv == ~StorageExists => \A f \in Files : ~HasRow(f) /\ catalog[f] = "dropped"

UploadInv ==
    \A f \in Files : Uploading(f) =>
        /\ storage # "deleted"
        /\ StorageExists => HasRow(f) /\ pending[f].id = wid[f]
        /\ \A i \in Instances : \A c \in Claims(i) : c.file = f => c.id # wid[f]

GenInv ==
    \A i \in Instances : \A c \in Claims(i) :
        HasRow(c.file) /\ pending[c.file].id = c.id => c.gen <= pending[c.file].gen

DeletedInv ==
    \A i \in Instances : jpc[i] = "deleted" /\ IsCurrentClaim(current[i])
        => provider[current[i].file] = "absent"

OInv == IInv /\ LiveInv /\ GoneInv /\ UploadInv /\ GenInv /\ DeletedInv /\ NoOrphan

\* Steps that keep the rows and add no claim keep the order of generations.
LEMMA GenKept ==
  ASSUME TypeOK, GenInv, SameRows, \A i \in Instances : Claims(i)' \subseteq Claims(i)
  PROVE  GenInv'
<1> SUFFICES ASSUME NEW i \in Instances, NEW c \in Claims(i), pending'[c.file] # None,
                    pending'[c.file].id = c.id
             PROVE  c.gen <= pending'[c.file].gen
  BY DEF GenInv, HasRow
<1>1. c.file \in Files
  BY DEF Claims, TypeOK, JobTypes, Claim
<1>2. HasRow(c.file) /\ pending'[c.file].id = pending[c.file].id /\ pending'[c.file].gen = pending[c.file].gen
  BY <1>1 DEF SameRows, HasRow
<1> QED BY <1>2 DEF GenInv

\* With one process a step keeps the orphan invariant.
LEMMA OInvStep == ASSUME SoleInstance PROVE OInv /\ [Next]_vars => OInv'
<1> SUFFICES ASSUME OInv, [Next]_vars PROVE OInv'
  OBVIOUS
<1>0. /\ TypeOK /\ TypeOK' /\ IInv /\ IInv'
      /\ LiveInv /\ GoneInv /\ UploadInv /\ GenInv /\ DeletedInv /\ NoOrphan
  BY IInvStep, TypeStep DEF OInv, IInv
<1> USE <1>0 DEF TypeOK, RowTypes, WriterTypes, JobTypes, Claim, rowVars, writerVars,
                 guardVars, jobVars
<1>1. ASSUME NEW f \in Files, StartWrite(f)
      PROVE  OInv'
  <2>1. LiveInv'
    BY <1>1, RowFields DEF LiveInv, StartWrite, HasRow
  <2>2. GoneInv'
    BY <1>1, RowFields DEF GoneInv, StartWrite, StorageExists, HasRow
  <2>3. UploadInv'
    BY <1>1, RowFields DEF UploadInv, StartWrite, Uploading, StorageExists, Claims, HasRow
  <2>4. GenInv'
    BY <1>1, RowFields DEF GenInv, StartWrite, Claims, HasRow
  <2>5. DeletedInv'
    BY <1>1, RowFields DEF DeletedInv, StartWrite, IsCurrentClaim, Claims, HasRow
  <2>6. NoOrphan'
    BY <1>1, RowFields DEF NoOrphan, StartWrite, HasRow
  <2> QED BY <1>0, <2>1, <2>2, <2>3, <2>4, <2>5, <2>6 DEF OInv
<1>2. ASSUME NEW f \in Files, RefuseProtection(f)
      PROVE  OInv'
  <2>1. LiveInv'
    BY <1>2, RowFields DEF LiveInv, RefuseProtection, HasRow
  <2>2. GoneInv'
    BY <1>2, RowFields DEF GoneInv, RefuseProtection, StorageExists, HasRow
  <2>3. UploadInv'
    BY <1>2, RowFields DEF UploadInv, RefuseProtection, Uploading, StorageExists, Claims, HasRow
  <2>4. GenInv'
    BY <1>2, RowFields DEF GenInv, RefuseProtection, Claims, HasRow
  <2>5. DeletedInv'
    BY <1>2, RowFields DEF DeletedInv, RefuseProtection, IsCurrentClaim, Claims, HasRow
  <2>6. NoOrphan'
    BY <1>2, RowFields DEF NoOrphan, RefuseProtection, HasRow
  <2> QED BY <1>0, <2>1, <2>2, <2>3, <2>4, <2>5, <2>6 DEF OInv
<1>3. ASSUME NEW f \in Files, BreakProtection(f)
      PROVE  OInv'
  <2>1. LiveInv'
    BY <1>3, RowFields DEF LiveInv, BreakProtection, FailProtection, CloseIdleConnection, HasRow
  <2>2. GoneInv'
    BY <1>3, RowFields DEF GoneInv, BreakProtection, FailProtection, CloseIdleConnection, StorageExists, HasRow
  <2>3. UploadInv'
    BY <1>3, RowFields DEF UploadInv, BreakProtection, FailProtection, CloseIdleConnection, Uploading, StorageExists, Claims, HasRow
  <2>4. GenInv'
    BY <1>3, RowFields DEF GenInv, BreakProtection, FailProtection, CloseIdleConnection, Claims, HasRow
  <2>5. DeletedInv'
    BY <1>3, RowFields DEF DeletedInv, BreakProtection, FailProtection, CloseIdleConnection, IsCurrentClaim, Claims, HasRow
  <2>6. NoOrphan'
    BY <1>3, RowFields DEF NoOrphan, BreakProtection, FailProtection, CloseIdleConnection, HasRow
  <2> QED BY <1>0, <2>1, <2>2, <2>3, <2>4, <2>5, <2>6 DEF OInv
<1>4. ASSUME NEW f \in Files, FindProtected(f)
      PROVE  OInv'
  <2>1. LiveInv'
    BY <1>4, RowFields DEF LiveInv, FindProtected, CloseIdleConnection, HasRow
  <2>2. GoneInv'
    BY <1>4, RowFields DEF GoneInv, FindProtected, CloseIdleConnection, StorageExists, HasRow
  <2>3. UploadInv'
    BY <1>4, RowFields DEF UploadInv, FindProtected, CloseIdleConnection, Uploading, StorageExists, Claims, HasRow
  <2>4. GenInv'
    BY <1>4, RowFields DEF GenInv, FindProtected, CloseIdleConnection, Claims, HasRow
  <2>5. DeletedInv'
    BY <1>4, RowFields DEF DeletedInv, FindProtected, CloseIdleConnection, IsCurrentClaim, Claims, HasRow
  <2>6. NoOrphan'
    BY <1>4, RowFields DEF NoOrphan, FindProtected, CloseIdleConnection, HasRow
  <2> QED BY <1>0, <2>1, <2>2, <2>3, <2>4, <2>5, <2>6 DEF OInv
<1>5. ASSUME NEW f \in Files, GrantProtection(f)
      PROVE  OInv'
  <2>1. LiveInv'
    BY <1>5, RowFields DEF LiveInv, GrantProtection, CloseIdleConnection, HasRow
  <2>2. GoneInv'
    BY <1>5, RowFields DEF GoneInv, GrantProtection, CloseIdleConnection, StorageExists, HasRow
  <2>3. UploadInv'
    BY <1>5, RowFields DEF UploadInv, GrantProtection, CloseIdleConnection, Uploading, StorageExists, Claims, HasRow
  <2>4. GenInv'
    BY <1>5, RowFields DEF GenInv, GrantProtection, CloseIdleConnection, Claims, HasRow
  <2>5. DeletedInv'
    BY <1>5, RowFields DEF DeletedInv, GrantProtection, CloseIdleConnection, IsCurrentClaim, Claims, HasRow
  <2>6. NoOrphan'
    BY <1>5, RowFields DEF NoOrphan, GrantProtection, CloseIdleConnection, HasRow
  <2> QED BY <1>0, <2>1, <2>2, <2>3, <2>4, <2>5, <2>6 DEF OInv
<1>6. ASSUME NEW f \in Files, InsertIfAbsent(f)
      PROVE  OInv'
  <2>0. \A i \in Instances : Claims(i)' = Claims(i)
    BY <1>6 DEF InsertIfAbsent, Claims
  <2>00. \A i \in Instances : \A c \in Claims(i) : c.file = f => c.id # wid[f]
    BY <1>6 DEF InsertIfAbsent, IInv, ClaimsInv, Unregistered
  <2>a. ASSUME pending' = pending, wpc' = [wpc EXCEPT ![f] = "releasing"]
        PROVE  UploadInv' /\ GenInv'
    <3>3. UploadInv'
      BY <1>6, <2>0, <2>a DEF UploadInv, InsertIfAbsent, Uploading, StorageExists, HasRow
    <3>4. GenInv'
      <4> SUFFICES ASSUME NEW i \in Instances, NEW c \in Claims(i), pending'[c.file] # None,
                          pending'[c.file].id = c.id
                   PROVE  c.gen <= pending'[c.file].gen
        BY <2>0 DEF GenInv, HasRow
      <4>1. pending[c.file] # None /\ pending[c.file].id = c.id => c.gen <= pending[c.file].gen
        BY DEF GenInv, HasRow
      <4> QED BY <2>a, <4>1
    <3> QED BY <3>3, <3>4
  <2>b. ASSUME StorageExists,
               pending' = [pending EXCEPT ![f] =
                   [id |-> wid[f], gen |-> 0, wait |-> CommitWindow, attempts |-> 0]],
               wpc' = [wpc EXCEPT ![f] = "registered"]
        PROVE  UploadInv' /\ GenInv'
    <3>1. /\ HasRow(f)' /\ pending'[f].id = wid[f]
          /\ \A g \in Files : g # f => pending'[g] = pending[g] /\ wpc'[g] = wpc[g]
      <4>1. pending'[f] = [id |-> wid[f], gen |-> 0, wait |-> CommitWindow, attempts |-> 0]
        BY <2>b
      <4>2. pending'[f] \in Row
        BY <4>1, TimingsAssumption DEF Row
      <4>3. HasRow(f)'
        BY <4>2, NoneAssumption DEF HasRow
      <4> QED BY <2>b, <4>1, <4>3
    <3>2. UNCHANGED <<storage, wid>>
      BY <1>6 DEF InsertIfAbsent
    <3>3. UploadInv'
      BY <2>0, <2>00, <2>b, <3>1, <3>2 DEF UploadInv, Uploading, StorageExists, HasRow
    <3>4. GenInv'
      <4> SUFFICES ASSUME NEW i \in Instances, NEW c \in Claims(i), pending'[c.file] # None,
                          pending'[c.file].id = c.id
                   PROVE  c.gen <= pending'[c.file].gen
        BY <2>0 DEF GenInv, HasRow
      <4>1. c.file \in Files
        BY DEF Claims
      <4>2. c.file # f
        BY <2>00, <3>1
      <4>3. pending[c.file] # None /\ pending[c.file].id = c.id => c.gen <= pending[c.file].gen
        BY DEF GenInv, HasRow
      <4>4. pending'[c.file] = pending[c.file]
        BY <3>1, <4>1, <4>2
      <4> QED BY <4>3, <4>4
    <3> QED BY <3>3, <3>4
  <2>1. LiveInv'
    BY <1>6, RowFields DEF LiveInv, InsertIfAbsent, HasRow
  <2>2. GoneInv'
    BY <1>6, RowFields DEF GoneInv, InsertIfAbsent, StorageExists, HasRow
  <2>3. UploadInv' /\ GenInv'
    BY <1>6, <2>a, <2>b DEF InsertIfAbsent
  <2>5. DeletedInv'
    BY <1>6, <2>00 DEF DeletedInv, InsertIfAbsent, IsCurrentClaim, Claims, HasRow
  <2>6. NoOrphan'
    BY <1>6, RowFields DEF NoOrphan, InsertIfAbsent, HasRow
  <2> QED BY <1>0, <2>1, <2>2, <2>3, <2>5, <2>6 DEF OInv
<1>7. ASSUME NEW f \in Files, LocateStorage(f)
      PROVE  OInv'
  <2>0. SameRows
    BY <1>7, WriterKeepsRows
  <2>00. ASSUME NEW i \in Instances, jpc[i] = "deleted", IsCurrentClaim(current[i])
         PROVE  current[i].file # f
    BY <1>7, <2>00 DEF LocateStorage, UploadInv, GoneInv, Uploading, IsCurrentClaim, Claims
  <2>000. \A i \in Instances : /\ jpc[i]' = jpc[i] /\ current[i]' = current[i]
                               /\ jpc[i] = "deleted" /\ IsCurrentClaim(current[i])' => IsCurrentClaim(current[i])
    BY <1>7, <2>0 DEF LocateStorage, SameRows, IsCurrentClaim
  <2>1. LiveInv'
    BY <2>0, <1>7, RowFields DEF LiveInv, LocateStorage, SameRows
  <2>2. GoneInv'
    BY <2>0, <1>7, RowFields DEF GoneInv, LocateStorage, StorageExists, SameRows
  <2>3. UploadInv'
    BY <2>0, <1>7, RowFields DEF UploadInv, LocateStorage, Uploading, StorageExists, Claims, SameRows
  <2>4. GenInv'
    <3>1. \A j \in Instances : Claims(j)' \subseteq Claims(j)
      BY <1>7 DEF LocateStorage, Claims
    <3> QED BY <2>0, <3>1, GenKept
  <2>5. DeletedInv'
    BY <1>7, <2>00, <2>000 DEF DeletedInv, LocateStorage
  <2>6. NoOrphan'
    BY <1>7, <2>0 DEF NoOrphan, LocateStorage, SameRows, UploadInv, Uploading
  <2> QED BY <1>0, <2>1, <2>2, <2>3, <2>4, <2>5, <2>6 DEF OInv
<1>8. ASSUME NEW f \in Files, SaveFile(f)
      PROVE  OInv'
  <2>0. SameRows
    BY <1>8, WriterKeepsRows
  <2>00. ASSUME NEW i \in Instances, jpc[i] = "deleted", IsCurrentClaim(current[i])
         PROVE  current[i].file # f
    BY <1>8, <2>00 DEF SaveFile, UploadInv, GoneInv, Uploading, IsCurrentClaim, Claims
  <2>000. \A i \in Instances : /\ jpc[i]' = jpc[i] /\ current[i]' = current[i]
                               /\ jpc[i] = "deleted" /\ IsCurrentClaim(current[i])' => IsCurrentClaim(current[i])
    BY <1>8, <2>0 DEF SaveFile, SameRows, IsCurrentClaim
  <2>1. LiveInv'
    BY <2>0, <1>8, RowFields DEF LiveInv, SaveFile, SameRows
  <2>2. GoneInv'
    BY <2>0, <1>8, RowFields DEF GoneInv, SaveFile, StorageExists, SameRows
  <2>3. UploadInv'
    BY <2>0, <1>8, RowFields DEF UploadInv, SaveFile, Uploading, StorageExists, Claims, SameRows
  <2>4. GenInv'
    <3>1. \A j \in Instances : Claims(j)' \subseteq Claims(j)
      BY <1>8 DEF SaveFile, Claims
    <3> QED BY <2>0, <3>1, GenKept
  <2>5. DeletedInv'
    BY <1>8, <2>00, <2>000 DEF DeletedInv, SaveFile
  <2>6. NoOrphan'
    <3>1. HasRow(f) \/ storage = "abandoned"
      BY <1>8 DEF SaveFile, UploadInv, Uploading, StorageExists
    <3> QED BY <1>8, <2>0, <3>1 DEF NoOrphan, SaveFile, SameRows
  <2> QED BY <1>0, <2>1, <2>2, <2>3, <2>4, <2>5, <2>6 DEF OInv
<1>9. ASSUME NEW f \in Files, KeepForCommit(f)
      PROVE  OInv'
  <2>0. SameRows
    BY <1>9, WriterKeepsRows
  <2>1. LiveInv'
    BY <2>0, <1>9, RowFields DEF LiveInv, KeepForCommit, SameRows
  <2>2. GoneInv'
    BY <2>0, <1>9, RowFields DEF GoneInv, KeepForCommit, StorageExists, SameRows
  <2>3. UploadInv'
    BY <2>0, <1>9, RowFields DEF UploadInv, KeepForCommit, Uploading, StorageExists, Claims, SameRows
  <2>4. GenInv'
    <3>1. \A j \in Instances : Claims(j)' \subseteq Claims(j)
      BY <1>9 DEF KeepForCommit, Claims
    <3> QED BY <2>0, <3>1, GenKept
  <2>5. DeletedInv'
    BY <2>0, <1>9, RowFields DEF DeletedInv, KeepForCommit, IsCurrentClaim, Claims, SameRows
  <2>6. NoOrphan'
    BY <2>0, <1>9, RowFields DEF NoOrphan, KeepForCommit, SameRows
  <2> QED BY <1>0, <2>1, <2>2, <2>3, <2>4, <2>5, <2>6 DEF OInv
<1>10. ASSUME NEW f \in Files, ReleaseProtection(f)
      PROVE  OInv'
  <2>1. LiveInv'
    BY <1>10, RowFields DEF LiveInv, ReleaseProtection, CloseIdleConnection, HasRow
  <2>2. GoneInv'
    BY <1>10, RowFields DEF GoneInv, ReleaseProtection, CloseIdleConnection, StorageExists, HasRow
  <2>3. UploadInv'
    BY <1>10, RowFields DEF UploadInv, ReleaseProtection, CloseIdleConnection, Uploading, StorageExists, Claims, HasRow
  <2>4. GenInv'
    BY <1>10, RowFields DEF GenInv, ReleaseProtection, CloseIdleConnection, Claims, HasRow
  <2>5. DeletedInv'
    BY <1>10, RowFields DEF DeletedInv, ReleaseProtection, CloseIdleConnection, IsCurrentClaim, Claims, HasRow
  <2>6. NoOrphan'
    BY <1>10, RowFields DEF NoOrphan, ReleaseProtection, CloseIdleConnection, HasRow
  <2> QED BY <1>0, <2>1, <2>2, <2>3, <2>4, <2>5, <2>6 DEF OInv
<1>11. ASSUME NEW f \in Files, LoseProtection(f)
      PROVE  OInv'
  <2>1. LiveInv'
    BY <1>11, RowFields DEF LiveInv, LoseProtection, FailProtection, CloseIdleConnection, HasRow
  <2>2. GoneInv'
    BY <1>11, RowFields DEF GoneInv, LoseProtection, FailProtection, CloseIdleConnection, StorageExists, HasRow
  <2>3. UploadInv'
    BY <1>11, RowFields DEF UploadInv, LoseProtection, FailProtection, CloseIdleConnection, Uploading, StorageExists, Claims, HasRow
  <2>4. GenInv'
    BY <1>11, RowFields DEF GenInv, LoseProtection, FailProtection, CloseIdleConnection, Claims, HasRow
  <2>5. DeletedInv'
    BY <1>11, RowFields DEF DeletedInv, LoseProtection, FailProtection, CloseIdleConnection, IsCurrentClaim, Claims, HasRow
  <2>6. NoOrphan'
    BY <1>11, RowFields DEF NoOrphan, LoseProtection, FailProtection, CloseIdleConnection, HasRow
  <2> QED BY <1>0, <2>1, <2>2, <2>3, <2>4, <2>5, <2>6 DEF OInv
<1>12. ASSUME NEW f \in Files, LeaveLiveWrites(f)
      PROVE  OInv'
  <2>1. LiveInv'
    BY <1>12, RowFields DEF LiveInv, LeaveLiveWrites, HasRow
  <2>2. GoneInv'
    BY <1>12, RowFields DEF GoneInv, LeaveLiveWrites, StorageExists, HasRow
  <2>3. UploadInv'
    BY <1>12, RowFields DEF UploadInv, LeaveLiveWrites, Uploading, StorageExists, Claims, HasRow
  <2>4. GenInv'
    BY <1>12, RowFields DEF GenInv, LeaveLiveWrites, Claims, HasRow
  <2>5. DeletedInv'
    BY <1>12, RowFields DEF DeletedInv, LeaveLiveWrites, IsCurrentClaim, Claims, HasRow
  <2>6. NoOrphan'
    BY <1>12, RowFields DEF NoOrphan, LeaveLiveWrites, HasRow
  <2> QED BY <1>0, <2>1, <2>2, <2>3, <2>4, <2>5, <2>6 DEF OInv
<1>13. ASSUME NEW f \in Files, CancelWrite(f)
      PROVE  OInv'
  <2>1. LiveInv'
    BY <1>13, RowFields DEF LiveInv, CancelWrite, HasRow
  <2>2. GoneInv'
    BY <1>13, RowFields DEF GoneInv, CancelWrite, StorageExists, HasRow
  <2>3. UploadInv'
    BY <1>13, RowFields DEF UploadInv, CancelWrite, Uploading, StorageExists, Claims, HasRow
  <2>4. GenInv'
    BY <1>13, RowFields DEF GenInv, CancelWrite, Claims, HasRow
  <2>5. DeletedInv'
    BY <1>13, RowFields DEF DeletedInv, CancelWrite, IsCurrentClaim, Claims, HasRow
  <2>6. NoOrphan'
    BY <1>13, RowFields DEF NoOrphan, CancelWrite, HasRow
  <2> QED BY <1>0, <2>1, <2>2, <2>3, <2>4, <2>5, <2>6 DEF OInv
<1>14. ASSUME NEW F \in SUBSET Files, ConfirmFileWrites(F)
      PROVE  OInv'
  <2>1. LiveInv'
    BY <1>14, RowFields DEF LiveInv, ConfirmFileWrites, HasRow
  <2>2. GoneInv'
    BY <1>14, RowFields DEF GoneInv, ConfirmFileWrites, StorageExists, HasRow
  <2>3. UploadInv'
    BY <1>14, RowFields DEF UploadInv, ConfirmFileWrites, Uploading, StorageExists, Claims, HasRow
  <2>4. GenInv'
    BY <1>14, RowFields DEF GenInv, ConfirmFileWrites, Claims, HasRow
  <2>5. DeletedInv'
    BY <1>14, RowFields DEF DeletedInv, ConfirmFileWrites, IsCurrentClaim, Claims, HasRow
  <2>6. NoOrphan'
    BY <1>14, RowFields DEF NoOrphan, ConfirmFileWrites, HasRow
  <2> QED BY <1>0, <2>1, <2>2, <2>3, <2>4, <2>5, <2>6 DEF OInv
<1>15. ASSUME NEW F \in SUBSET Files, RequestFileDeletions(F)
      PROVE  OInv'
  <2>0. \A g \in Files :
           /\ g \notin F \/ ~StorageExists => pending'[g] = pending[g]
           /\ g \in F /\ StorageExists /\ HasRow(g) => HasRow(g)' /\ pending'[g].id = pending[g].id /\ pending'[g].gen = pending[g].gen + 1
           /\ g \in F /\ StorageExists /\ ~HasRow(g) => HasRow(g)' /\ pending'[g].id = lastId[g] + 1 /\ pending'[g].gen = 0
    BY <1>15, RequestRows
  <2>a. /\ catalog' = [g \in Files |-> IF g \in F THEN "dropped" ELSE catalog[g]]
       /\ UNCHANGED <<storage, provider, wpc, wid, jpc, batch, current>>
    BY <1>15 DEF RequestFileDeletions
  <2>b. \A i \in Instances : Claims(i)' = Claims(i)
    BY <2>a DEF Claims
  <2>c. ASSUME NEW i \in Instances, NEW c \in Claims(i) PROVE c.file \in Files /\ c.id \in Nat /\ c.gen \in Nat /\ c.id <= lastId[c.file]
    BY <2>c DEF Claims, IInv, ClaimsInv
  <2>d. ASSUME NEW i \in Instances, NEW c \in Claims(i), HasRow(c.file)', pending'[c.file].id = c.id
        PROVE HasRow(c.file) /\ pending[c.file].id = c.id /\ (pending'[c.file] = pending[c.file] \/ c.gen < pending'[c.file].gen)
    <3>1. CASE c.file \notin F \/ ~StorageExists
      BY <2>0, <2>c, <2>d, <3>1 DEF HasRow
    <3>2. CASE c.file \in F /\ StorageExists /\ HasRow(c.file)
      BY <2>0, <2>c, <2>d, <3>2, RowFields DEF GenInv
    <3>3. CASE c.file \in F /\ StorageExists /\ ~HasRow(c.file)
      BY <2>0, <2>c, <2>d, <3>3
    <3> QED BY <3>1, <3>2, <3>3
  <2>1. LiveInv'
    BY <1>15, RowFields DEF LiveInv, RequestFileDeletions, InsertOrTake, HasRow
  <2>2. GoneInv'
    BY <1>15, RowFields DEF GoneInv, RequestFileDeletions, InsertOrTake, StorageExists, HasRow
  <2>3. UploadInv'
    BY <2>0, <2>a, <2>b DEF UploadInv, Uploading, StorageExists, HasRow
  <2>4. GenInv'
    <3> SUFFICES ASSUME NEW i \in Instances, NEW c \in Claims(i), HasRow(c.file)', pending'[c.file].id = c.id
                 PROVE  c.gen <= pending'[c.file].gen
      BY <2>b DEF GenInv
    <3>1. pending'[c.file].gen \in Nat /\ c.gen \in Nat
      BY <2>c DEF HasRow, Row
    <3>2. pending'[c.file] = pending[c.file] => c.gen <= pending[c.file].gen
      BY <2>d DEF GenInv
    <3> QED BY <2>d, <3>1, <3>2
  <2>5. DeletedInv'
    <3> SUFFICES ASSUME NEW i \in Instances, jpc[i] = "deleted", IsCurrentClaim(current[i])'
                 PROVE  provider[current[i].file] = "absent"
      BY <2>a DEF DeletedInv
    <3>1. current[i] \in Claims(i) /\ pending'[current[i].file] # None /\ pending'[current[i].file].id = current[i].id
          /\ pending'[current[i].file].gen = current[i].gen
      BY <2>a DEF Claims, IsCurrentClaim, HasRow
    <3>2. IsCurrentClaim(current[i])
      <4>0. \A c \in Claims(i) : pending'[c.file] # None /\ pending'[c.file].id = c.id =>
                /\ HasRow(c.file) /\ pending[c.file].id = c.id
                /\ pending'[c.file] = pending[c.file] \/ c.gen < pending'[c.file].gen
        BY <2>d DEF HasRow
      <4>1. HasRow(current[i].file) /\ pending[current[i].file].id = current[i].id
        BY <3>1, <4>0
      <4>2. pending'[current[i].file] = pending[current[i].file] \/ current[i].gen < current[i].gen
        BY <3>1, <4>0
      <4>3. current[i].gen \in Nat
        BY <2>c, <3>1
      <4> QED BY <3>1, <4>1, <4>2, <4>3 DEF IsCurrentClaim
    <3> QED BY <3>2 DEF DeletedInv
  <2>6. NoOrphan'
    <3>1. \A g \in Files : HasRow(g) => HasRow(g)'
      BY <2>0 DEF HasRow
    <3>2. \A g \in F : StorageExists => HasRow(g)'
      BY <2>0
    <3>3. \A g \in Files : ~StorageExists => catalog[g] # "published"
      BY DEF GoneInv
    <3> QED BY <2>a, <3>1, <3>2, <3>3 DEF NoOrphan
  <2> QED BY <1>0, <2>1, <2>2, <2>3, <2>4, <2>5, <2>6 DEF OInv
<1>16. ASSUME NEW b \in BOOLEAN, DeleteStorage(b)
      PROVE  OInv'
  <2>1. LiveInv'
    BY <1>16, RowFields DEF LiveInv, DeleteStorage, HasRow
  <2>2. GoneInv'
    BY <1>16, RowFields DEF GoneInv, DeleteStorage, StorageExists, HasRow
  <2>3. UploadInv'
    BY <1>16, RowFields DEF UploadInv, DeleteStorage, Uploading, StorageExists, Claims, HasRow
  <2>4. GenInv'
    BY <1>16, RowFields DEF GenInv, DeleteStorage, Claims, HasRow
  <2>5. DeletedInv'
    BY <1>16, RowFields DEF DeletedInv, DeleteStorage, IsCurrentClaim, Claims, HasRow
  <2>6. NoOrphan'
    <3>1. CASE \E g \in Files : HasRow(g)
      BY <1>16, <3>1 DEF NoOrphan, DeleteStorage
    <3>2. CASE \A g \in Files : ~HasRow(g)
      BY <1>16, <3>2 DEF NoOrphan, DeleteStorage, StorageExists
    <3> QED BY <3>1, <3>2
  <2> QED BY <1>0, <2>1, <2>2, <2>3, <2>4, <2>5, <2>6 DEF OInv
<1>17. ASSUME NEW i \in Instances, NEW taken \in SUBSET Files, ClaimBatch(i, taken)
      PROVE  OInv'
  <2>0. \A g \in Files :
           /\ HasRow(g)' <=> HasRow(g)
           /\ HasRow(g) => /\ pending'[g].id = pending[g].id
                           /\ g \in taken => pending'[g].gen = pending[g].gen + 1
                           /\ g \notin taken => pending'[g].gen = pending[g].gen
    BY <1>17, ClaimRows
  <2>a. /\ UNCHANGED <<storage, catalog, provider, wpc, wid, at, live>>
        /\ \A g \in taken : HasRow(g) /\ ~(g \in live[i] /\ pending[g].id = wid[g])
        /\ jpc'[i] = "pass"
    BY <1>17 DEF ClaimBatch, Claimable
  <2>s. \A j \in Instances : j = i
    BY DEF SoleInstance
  <2>b. \A c \in Claims(i)' : c.file \in taken /\ c.id = pending[c.file].id /\ c.gen = pending[c.file].gen + 1
    <3>1. Claims(i)' = {[file |-> f, id |-> pending[f].id, gen |-> pending[f].gen + 1] : f \in taken}
      BY <1>17 DEF ClaimBatch, Claims
    <3> TAKE c \in Claims(i)'
    <3>2. PICK f \in taken : c = [file |-> f, id |-> pending[f].id, gen |-> pending[f].gen + 1]
      BY <3>1
    <3> QED BY <3>2
  <2>1. LiveInv'
    BY <1>17, RowFields DEF LiveInv, ClaimBatch, Claimable, HasRow
  <2>2. GoneInv'
    BY <1>17, RowFields DEF GoneInv, ClaimBatch, Claimable, StorageExists, HasRow
  <2>3. UploadInv'
    <3>1. ASSUME NEW f \in taken, Uploading(f) PROVE pending[f].id # wid[f]
      <4>1. at[f] = i
        BY <2>s
      <4> QED BY <2>a, <3>1, <4>1 DEF LiveInv, Uploading
    <3> QED BY <2>0, <2>a, <2>b, <2>s, <3>1 DEF UploadInv, Uploading, StorageExists
  <2>4. GenInv'
    BY <2>0, <2>a, <2>b, <2>s, RowFields DEF GenInv
  <2>5. DeletedInv'
    BY <2>a, <2>s DEF DeletedInv
  <2>6. NoOrphan'
    BY <2>0, <2>a DEF NoOrphan
  <2> QED BY <1>0, <2>1, <2>2, <2>3, <2>4, <2>5, <2>6 DEF OInv
<1>18. ASSUME NEW i \in Instances, NEW c \in batch[i], BeginAttempt(i, c)
      PROVE  OInv'
  <2>0. SameRows
    BY <1>18, AttemptKeepsRows
  <2>1. LiveInv'
    BY <2>0, <1>18, RowFields DEF LiveInv, BeginAttempt, SameRows
  <2>2. GoneInv'
    BY <2>0, <1>18, RowFields DEF GoneInv, BeginAttempt, StorageExists, SameRows
  <2>3. UploadInv'
    BY <2>0, <1>18, RowFields DEF UploadInv, BeginAttempt, Uploading, StorageExists, Claims, SameRows
  <2>4. GenInv'
    <3>1. \A j \in Instances : Claims(j)' \subseteq Claims(j)
      BY <1>18 DEF BeginAttempt, Claims
    <3> QED BY <2>0, <3>1, GenKept
  <2>5. DeletedInv'
    BY <2>0, <1>18, RowFields DEF DeletedInv, BeginAttempt, IsCurrentClaim, Claims, SameRows
  <2>6. NoOrphan'
    BY <2>0, <1>18, RowFields DEF NoOrphan, BeginAttempt, SameRows
  <2> QED BY <1>0, <2>1, <2>2, <2>3, <2>4, <2>5, <2>6 DEF OInv
<1>19. ASSUME NEW i \in Instances, NEW c \in batch[i], SkipAttempt(i, c)
      PROVE  OInv'
  <2>1. LiveInv'
    BY <1>19, RowFields DEF LiveInv, SkipAttempt, HasRow
  <2>2. GoneInv'
    BY <1>19, RowFields DEF GoneInv, SkipAttempt, StorageExists, HasRow
  <2>3. UploadInv'
    BY <1>19, RowFields DEF UploadInv, SkipAttempt, Uploading, StorageExists, Claims, HasRow
  <2>4. GenInv'
    BY <1>19, RowFields DEF GenInv, SkipAttempt, Claims, HasRow
  <2>5. DeletedInv'
    BY <1>19, RowFields DEF DeletedInv, SkipAttempt, IsCurrentClaim, Claims, HasRow
  <2>6. NoOrphan'
    BY <1>19, RowFields DEF NoOrphan, SkipAttempt, HasRow
  <2> QED BY <1>0, <2>1, <2>2, <2>3, <2>4, <2>5, <2>6 DEF OInv
<1>20. ASSUME NEW i \in Instances, DeleteFromProvider(i)
      PROVE  OInv'
  <2>1. LiveInv'
    BY <1>20, RowFields DEF LiveInv, DeleteFromProvider, HasRow
  <2>2. GoneInv'
    BY <1>20, RowFields DEF GoneInv, DeleteFromProvider, StorageExists, HasRow
  <2>3. UploadInv'
    BY <1>20, RowFields DEF UploadInv, DeleteFromProvider, Uploading, StorageExists, Claims, HasRow
  <2>4. GenInv'
    BY <1>20, RowFields DEF GenInv, DeleteFromProvider, Claims, HasRow
  <2>5. DeletedInv'
    BY <1>20, RowFields DEF DeletedInv, DeleteFromProvider, IsCurrentClaim, Claims, HasRow
  <2>6. NoOrphan'
    BY <1>20, RowFields DEF NoOrphan, DeleteFromProvider, HasRow
  <2> QED BY <1>0, <2>1, <2>2, <2>3, <2>4, <2>5, <2>6 DEF OInv
<1>21. ASSUME NEW i \in Instances, ReleaseDeletedFile(i)
      PROVE  OInv'
  <2>0. \A j \in Instances : \A c \in Claims(j)' : c \in Claims(j)
    BY <1>21 DEF ReleaseDeletedFile, Claims
  <2>00. ASSUME NEW g \in Files PROVE pending'[g] = pending[g] \/ (pending'[g] = None /\ g = current[i].file /\ IsCurrentClaim(current[i]))
    BY <1>21 DEF ReleaseDeletedFile, MayAttempt
  <2>000. ASSUME NEW j \in Instances, NEW c \in Claims(j) PROVE c.file \in Files
    BY DEF Claims
  <2>1. LiveInv'
    BY <1>21, RowFields DEF LiveInv, ReleaseDeletedFile, MayAttempt, IsCurrentClaim, HasRow
  <2>2. GoneInv'
    BY <1>21, RowFields DEF GoneInv, ReleaseDeletedFile, MayAttempt, IsCurrentClaim, StorageExists, HasRow
  <2>3. UploadInv'
    BY <1>21, RowFields DEF UploadInv, ReleaseDeletedFile, MayAttempt, IsCurrentClaim, Uploading, StorageExists, Claims, HasRow
  <2>4. GenInv'
    BY <2>0, <2>00, <2>000 DEF GenInv, HasRow
  <2>5. DeletedInv'
    BY <1>21, RowFields DEF DeletedInv, ReleaseDeletedFile, MayAttempt, IsCurrentClaim, IsCurrentClaim, Claims, HasRow
  <2>6. NoOrphan'
    <3>1. UNCHANGED <<provider, catalog, storage>> /\ jpc[i] = "deleted"
      BY <1>21 DEF ReleaseDeletedFile
    <3> QED BY <2>00, <3>1 DEF NoOrphan, DeletedInv, HasRow
  <2> QED BY <1>0, <2>1, <2>2, <2>3, <2>4, <2>5, <2>6 DEF OInv
<1>22. ASSUME NEW i \in Instances, Reschedule(i)
      PROVE  OInv'
  <2>0. SameRows
    BY <1>22, RescheduleKeepsRows
  <2>1. LiveInv'
    BY <2>0, <1>22, RowFields DEF LiveInv, Reschedule, SameRows
  <2>2. GoneInv'
    BY <2>0, <1>22, RowFields DEF GoneInv, Reschedule, StorageExists, SameRows
  <2>3. UploadInv'
    BY <2>0, <1>22, RowFields DEF UploadInv, Reschedule, Uploading, StorageExists, Claims, SameRows
  <2>4. GenInv'
    <3>1. \A j \in Instances : Claims(j)' \subseteq Claims(j)
      BY <1>22 DEF Reschedule, Claims
    <3> QED BY <2>0, <3>1, GenKept
  <2>5. DeletedInv'
    BY <2>0, <1>22, RowFields DEF DeletedInv, Reschedule, IsCurrentClaim, Claims, SameRows
  <2>6. NoOrphan'
    BY <2>0, <1>22, RowFields DEF NoOrphan, Reschedule, SameRows
  <2> QED BY <1>0, <2>1, <2>2, <2>3, <2>4, <2>5, <2>6 DEF OInv
<1>23. ASSUME NEW i \in Instances, EndPass(i)
      PROVE  OInv'
  <2>1. LiveInv'
    BY <1>23, RowFields DEF LiveInv, EndPass, HasRow
  <2>2. GoneInv'
    BY <1>23, RowFields DEF GoneInv, EndPass, StorageExists, HasRow
  <2>3. UploadInv'
    BY <1>23, RowFields DEF UploadInv, EndPass, Uploading, StorageExists, Claims, HasRow
  <2>4. GenInv'
    BY <1>23, RowFields DEF GenInv, EndPass, Claims, HasRow
  <2>5. DeletedInv'
    BY <1>23, RowFields DEF DeletedInv, EndPass, IsCurrentClaim, Claims, HasRow
  <2>6. NoOrphan'
    BY <1>23, RowFields DEF NoOrphan, EndPass, HasRow
  <2> QED BY <1>0, <2>1, <2>2, <2>3, <2>4, <2>5, <2>6 DEF OInv
<1>24. CASE Tick
  <2>0. SameRows
    BY <1>24, TickKeepsRows
  <2>1. LiveInv'
    BY <2>0, <1>24, RowFields DEF LiveInv, Tick, SameRows
  <2>2. GoneInv'
    BY <2>0, <1>24, RowFields DEF GoneInv, Tick, StorageExists, SameRows
  <2>3. UploadInv'
    BY <2>0, <1>24, RowFields DEF UploadInv, Tick, Uploading, StorageExists, Claims, SameRows
  <2>4. GenInv'
    <3>1. \A j \in Instances : Claims(j)' \subseteq Claims(j)
      BY <1>24 DEF Tick, Claims
    <3> QED BY <2>0, <3>1, GenKept
  <2>5. DeletedInv'
    BY <2>0, <1>24, RowFields DEF DeletedInv, Tick, IsCurrentClaim, Claims, SameRows
  <2>6. NoOrphan'
    BY <2>0, <1>24, RowFields DEF NoOrphan, Tick, SameRows
  <2> QED BY <1>0, <2>1, <2>2, <2>3, <2>4, <2>5, <2>6 DEF OInv
<1>25. ASSUME NEW i \in Instances, LoseSession(i)
      PROVE  OInv'
  <2>1. LiveInv'
    BY <1>25, RowFields DEF LiveInv, LoseSession, HasRow
  <2>2. GoneInv'
    BY <1>25, RowFields DEF GoneInv, LoseSession, StorageExists, HasRow
  <2>3. UploadInv'
    BY <1>25, RowFields DEF UploadInv, LoseSession, Uploading, StorageExists, Claims, HasRow
  <2>4. GenInv'
    BY <1>25, RowFields DEF GenInv, LoseSession, Claims, HasRow
  <2>5. DeletedInv'
    BY <1>25, RowFields DEF DeletedInv, LoseSession, IsCurrentClaim, Claims, HasRow
  <2>6. NoOrphan'
    BY <1>25, RowFields DEF NoOrphan, LoseSession, HasRow
  <2> QED BY <1>0, <2>1, <2>2, <2>3, <2>4, <2>5, <2>6 DEF OInv
<1>26. CASE ReapSessions
  <2>1. LiveInv'
    BY <1>26, RowFields DEF LiveInv, ReapSessions, HasRow
  <2>2. GoneInv'
    BY <1>26, RowFields DEF GoneInv, ReapSessions, StorageExists, HasRow
  <2>3. UploadInv'
    BY <1>26, RowFields DEF UploadInv, ReapSessions, Uploading, StorageExists, Claims, HasRow
  <2>4. GenInv'
    BY <1>26, RowFields DEF GenInv, ReapSessions, Claims, HasRow
  <2>5. DeletedInv'
    BY <1>26, RowFields DEF DeletedInv, ReapSessions, IsCurrentClaim, Claims, HasRow
  <2>6. NoOrphan'
    BY <1>26, RowFields DEF NoOrphan, ReapSessions, HasRow
  <2> QED BY <1>0, <2>1, <2>2, <2>3, <2>4, <2>5, <2>6 DEF OInv
<1>27. ASSUME NEW i \in Instances, Crash(i)
      PROVE  OInv'
  <2>0. \A j \in Instances : j = i
    BY DEF SoleInstance
  <2>00. /\ jpc'[i] = "idle" /\ UNCHANGED <<pending, storage, catalog>>
         /\ \A g \in Files : provider'[g] = provider[g] \/ wpc[g] = "saving"
    BY <1>27 DEF Crash
  <2>1. LiveInv'
    BY <1>27, RowFields DEF LiveInv, Crash, HasRow
  <2>2. GoneInv'
    BY <1>27, RowFields DEF GoneInv, Crash, StorageExists, HasRow
  <2>3. UploadInv'
    BY <1>27, RowFields DEF UploadInv, Crash, Uploading, StorageExists, Claims, HasRow
  <2>4. GenInv'
    BY <1>27, RowFields DEF GenInv, Crash, Claims, HasRow
  <2>5. DeletedInv'
    BY <2>0, <2>00 DEF DeletedInv
  <2>6. NoOrphan'
    BY <2>00 DEF NoOrphan, HasRow, UploadInv, Uploading, StorageExists
  <2> QED BY <1>0, <2>1, <2>2, <2>3, <2>4, <2>5, <2>6 DEF OInv
<1>28. CASE UNCHANGED vars
  BY <1>0, <1>28 DEF vars, OInv, LiveInv, GoneInv, UploadInv, GenInv, DeletedInv, NoOrphan, Claims,
               Uploading, StorageExists, IsCurrentClaim, HasRow
<1> QED
  BY <1>1, <1>2, <1>3, <1>4, <1>5, <1>6, <1>7, <1>8, <1>9, <1>10, <1>11, <1>12,
     <1>13, <1>14, <1>15, <1>16, <1>17, <1>18, <1>19, <1>20, <1>21, <1>22,
     <1>23, <1>24, <1>25, <1>26, <1>27, <1>28
     DEF Next, WriteStep, ProtectWrite, ReleaseWrite, JobStep, ClaimDue, StartAttempt

\* The initial states satisfy it: nothing is stored and nothing is claimed.
LEMMA OInvInit == Init => OInv
<1> SUFFICES ASSUME Init PROVE OInv
  OBVIOUS
<1>1. IInv
  BY IInvInit
<1>2. \A i \in Instances : jpc[i] = "idle" /\ Claims(i) = {}
  BY NoneAssumption DEF Init, Claims
<1>3. LiveInv /\ GoneInv /\ UploadInv /\ NoOrphan
  BY DEF Init, LiveInv, GoneInv, UploadInv, NoOrphan, Uploading, StorageExists, HasRow
<1>4. GenInv /\ DeletedInv
  BY <1>2 DEF GenInv, DeletedInv
<1> QED BY <1>1, <1>3, <1>4 DEF OInv

\* In a supported installation (one process) every stored object is published,
\* owed a deletion, or was given up by a user: WriteFile registers before it
\* uploads, and releaseDeletedFile forgets a file only under a valid lease.
THEOREM NothingOrphaned == ASSUME SoleInstance PROVE Spec => []NoOrphan
<1>1. Init => OInv
  BY OInvInit
<1>2. OInv /\ [Next]_vars => OInv'
  BY OInvStep
<1>3. OInv => NoOrphan
  BY DEF OInv
<1> QED BY <1>1, <1>2, <1>3, PTL DEF Spec

-----------------------------------------------------------------------------
(* Deletions and uploads of one file exclude each other.  The row of a file   *)
(* whose deletion runs cannot be replaced, so no upload of it registers; and  *)
(* a row that is being uploaded is never claimed.                             *)

AttemptInv ==
    \A i \in Instances : jpc[i] = "deleting" /\ StorageExists
        => HasRow(current[i].file) /\ pending[current[i].file].id = current[i].id

\* With one process a step starts neither a deletion under an upload nor an
\* upload under a deletion.
LEMMA WriteStepSafe ==
  ASSUME SoleInstance, OInv, AttemptInv, NoDeleteDuringWrite, [Next]_vars
  PROVE  AttemptInv' /\ NoDeleteDuringWrite'
<1>0. /\ TypeOK /\ TypeOK' /\ IInv
      /\ GoneInv /\ UploadInv /\ AttemptInv /\ NoDeleteDuringWrite
  BY TypeStep DEF OInv, IInv
<1> USE <1>0 DEF TypeOK, RowTypes, WriterTypes, JobTypes, Claim, rowVars, writerVars,
                 guardVars, jobVars
<1>1. ASSUME NEW f \in Files, StartWrite(f)
      PROVE  AttemptInv' /\ NoDeleteDuringWrite'
  <2>1. AttemptInv'
    BY <1>1 DEF AttemptInv, StartWrite, StorageExists, HasRow
  <2>2. NoDeleteDuringWrite'
    BY <1>1 DEF NoDeleteDuringWrite, StartWrite, Uploading, Deleting
  <2> QED BY <2>1, <2>2
<1>2. ASSUME NEW f \in Files, RefuseProtection(f)
      PROVE  AttemptInv' /\ NoDeleteDuringWrite'
  <2>1. AttemptInv'
    BY <1>2 DEF AttemptInv, RefuseProtection, StorageExists, HasRow
  <2>2. NoDeleteDuringWrite'
    BY <1>2 DEF NoDeleteDuringWrite, RefuseProtection, Uploading, Deleting
  <2> QED BY <2>1, <2>2
<1>3. ASSUME NEW f \in Files, BreakProtection(f)
      PROVE  AttemptInv' /\ NoDeleteDuringWrite'
  <2>1. AttemptInv'
    BY <1>3 DEF AttemptInv, BreakProtection, FailProtection, CloseIdleConnection, StorageExists, HasRow
  <2>2. NoDeleteDuringWrite'
    BY <1>3 DEF NoDeleteDuringWrite, BreakProtection, FailProtection, CloseIdleConnection, Uploading, Deleting
  <2> QED BY <2>1, <2>2
<1>4. ASSUME NEW f \in Files, FindProtected(f)
      PROVE  AttemptInv' /\ NoDeleteDuringWrite'
  <2>1. AttemptInv'
    BY <1>4 DEF AttemptInv, FindProtected, CloseIdleConnection, StorageExists, HasRow
  <2>2. NoDeleteDuringWrite'
    BY <1>4 DEF NoDeleteDuringWrite, FindProtected, CloseIdleConnection, Uploading, Deleting
  <2> QED BY <2>1, <2>2
<1>5. ASSUME NEW f \in Files, GrantProtection(f)
      PROVE  AttemptInv' /\ NoDeleteDuringWrite'
  <2>1. AttemptInv'
    BY <1>5 DEF AttemptInv, GrantProtection, CloseIdleConnection, StorageExists, HasRow
  <2>2. NoDeleteDuringWrite'
    BY <1>5 DEF NoDeleteDuringWrite, GrantProtection, CloseIdleConnection, Uploading, Deleting
  <2> QED BY <2>1, <2>2
<1>6. ASSUME NEW f \in Files, InsertIfAbsent(f)
      PROVE  AttemptInv' /\ NoDeleteDuringWrite'
  <2>1. AttemptInv'
    BY <1>6 DEF AttemptInv, InsertIfAbsent, StorageExists, HasRow
  <2>2. NoDeleteDuringWrite'
    BY <1>6 DEF NoDeleteDuringWrite, AttemptInv, InsertIfAbsent, Uploading, Deleting
  <2> QED BY <2>1, <2>2
<1>7. ASSUME NEW f \in Files, LocateStorage(f)
      PROVE  AttemptInv' /\ NoDeleteDuringWrite'
  <2>0. SameRows
    BY <1>7, WriterKeepsRows
  <2>1. AttemptInv'
    BY <2>0, <1>7 DEF AttemptInv, LocateStorage, SameRows, StorageExists
  <2>2. NoDeleteDuringWrite'
    BY <1>7 DEF NoDeleteDuringWrite, LocateStorage, Uploading, Deleting
  <2> QED BY <2>1, <2>2
<1>8. ASSUME NEW f \in Files, SaveFile(f)
      PROVE  AttemptInv' /\ NoDeleteDuringWrite'
  <2>0. SameRows
    BY <1>8, WriterKeepsRows
  <2>1. AttemptInv'
    BY <2>0, <1>8 DEF AttemptInv, SaveFile, SameRows, StorageExists
  <2>2. NoDeleteDuringWrite'
    BY <1>8 DEF NoDeleteDuringWrite, SaveFile, Uploading, Deleting
  <2> QED BY <2>1, <2>2
<1>9. ASSUME NEW f \in Files, KeepForCommit(f)
      PROVE  AttemptInv' /\ NoDeleteDuringWrite'
  <2>0. SameRows
    BY <1>9, WriterKeepsRows
  <2>1. AttemptInv'
    BY <2>0, <1>9 DEF AttemptInv, KeepForCommit, SameRows, StorageExists
  <2>2. NoDeleteDuringWrite'
    BY <1>9 DEF NoDeleteDuringWrite, KeepForCommit, Uploading, Deleting
  <2> QED BY <2>1, <2>2
<1>10. ASSUME NEW f \in Files, ReleaseProtection(f)
      PROVE  AttemptInv' /\ NoDeleteDuringWrite'
  <2>1. AttemptInv'
    BY <1>10 DEF AttemptInv, ReleaseProtection, CloseIdleConnection, StorageExists, HasRow
  <2>2. NoDeleteDuringWrite'
    BY <1>10 DEF NoDeleteDuringWrite, ReleaseProtection, CloseIdleConnection, Uploading, Deleting
  <2> QED BY <2>1, <2>2
<1>11. ASSUME NEW f \in Files, LoseProtection(f)
      PROVE  AttemptInv' /\ NoDeleteDuringWrite'
  <2>1. AttemptInv'
    BY <1>11 DEF AttemptInv, LoseProtection, FailProtection, CloseIdleConnection, StorageExists, HasRow
  <2>2. NoDeleteDuringWrite'
    BY <1>11 DEF NoDeleteDuringWrite, LoseProtection, FailProtection, CloseIdleConnection, Uploading, Deleting
  <2> QED BY <2>1, <2>2
<1>12. ASSUME NEW f \in Files, LeaveLiveWrites(f)
      PROVE  AttemptInv' /\ NoDeleteDuringWrite'
  <2>1. AttemptInv'
    BY <1>12 DEF AttemptInv, LeaveLiveWrites, StorageExists, HasRow
  <2>2. NoDeleteDuringWrite'
    BY <1>12 DEF NoDeleteDuringWrite, LeaveLiveWrites, Uploading, Deleting
  <2> QED BY <2>1, <2>2
<1>13. ASSUME NEW f \in Files, CancelWrite(f)
      PROVE  AttemptInv' /\ NoDeleteDuringWrite'
  <2>1. AttemptInv'
    BY <1>13 DEF AttemptInv, CancelWrite, StorageExists, HasRow
  <2>2. NoDeleteDuringWrite'
    BY <1>13 DEF NoDeleteDuringWrite, CancelWrite, Uploading, Deleting
  <2> QED BY <2>1, <2>2
<1>14. ASSUME NEW F \in SUBSET Files, ConfirmFileWrites(F)
      PROVE  AttemptInv' /\ NoDeleteDuringWrite'
  <2>1. AttemptInv'
    <3> SUFFICES ASSUME NEW i \in Instances, jpc[i] = "deleting", StorageExists
                 PROVE  pending'[current[i].file] = pending[current[i].file]
      BY <1>14 DEF AttemptInv, ConfirmFileWrites, StorageExists, HasRow
    <3>1. current[i] \in Claims(i) /\ current[i].file \in Files
      BY NoneAssumption DEF Claims
    <3>2. ~ReceiptMatches(current[i].file)
      BY <3>1 DEF AttemptInv, IInv, ClaimsInv, ReceiptMatches
    <3> QED BY <1>14, <3>1, <3>2 DEF ConfirmFileWrites
  <2>2. NoDeleteDuringWrite'
    BY <1>14 DEF NoDeleteDuringWrite, ConfirmFileWrites, Uploading, Deleting
  <2> QED BY <2>1, <2>2
<1>15. ASSUME NEW F \in SUBSET Files, RequestFileDeletions(F)
      PROVE  AttemptInv' /\ NoDeleteDuringWrite'
  <2>1. AttemptInv'
    <3>1. UNCHANGED <<storage, jpc, current>>
      BY <1>15 DEF RequestFileDeletions
    <3>2. \A g \in Files : HasRow(g) => pending'[g] # None /\ pending'[g].id = pending[g].id
      BY <1>15, RequestRows DEF HasRow
    <3>3. \A i \in Instances : jpc[i] = "deleting" => current[i].file \in Files
      OBVIOUS
    <3> QED BY <3>1, <3>2, <3>3 DEF AttemptInv, StorageExists, HasRow
  <2>2. NoDeleteDuringWrite'
    BY <1>15 DEF NoDeleteDuringWrite, RequestFileDeletions, Uploading, Deleting
  <2> QED BY <2>1, <2>2
<1>16. ASSUME NEW b \in BOOLEAN, DeleteStorage(b)
      PROVE  AttemptInv' /\ NoDeleteDuringWrite'
  <2>1. AttemptInv'
    BY <1>16 DEF AttemptInv, DeleteStorage, StorageExists, HasRow
  <2>2. NoDeleteDuringWrite'
    BY <1>16 DEF NoDeleteDuringWrite, DeleteStorage, Uploading, Deleting
  <2> QED BY <2>1, <2>2
<1>17. ASSUME NEW i \in Instances, NEW taken \in SUBSET Files, ClaimBatch(i, taken)
      PROVE  AttemptInv' /\ NoDeleteDuringWrite'
  <2>1. AttemptInv'
    <3>1. jpc'[i] = "pass" /\ \A j \in Instances : j = i
      BY <1>17 DEF ClaimBatch, SoleInstance
    <3> QED BY <3>1 DEF AttemptInv
  <2>2. NoDeleteDuringWrite'
    BY <1>17 DEF NoDeleteDuringWrite, ClaimBatch, Uploading, Deleting
  <2> QED BY <2>1, <2>2
<1>18. ASSUME NEW i \in Instances, NEW c \in batch[i], BeginAttempt(i, c)
      PROVE  AttemptInv' /\ NoDeleteDuringWrite'
  <2>0. SameRows
    BY <1>18, AttemptKeepsRows
  <2>1. AttemptInv'
    <3>1. /\ jpc'[i] = "deleting" /\ current'[i] = c /\ \A j \in Instances : j = i
          /\ HasRow(c.file) /\ pending[c.file].id = c.id /\ c.file \in Files
      BY <1>18 DEF BeginAttempt, MayAttempt, IsCurrentClaim, SoleInstance
    <3> QED BY <2>0, <3>1 DEF AttemptInv, SameRows, HasRow
  <2>2. NoDeleteDuringWrite'
    <3>1. /\ \A j \in Instances : j = i
          /\ current'[i] = c /\ wpc' = wpc /\ c \in Claims(i)
          /\ HasRow(c.file) /\ pending[c.file].id = c.id /\ c.file \in Files
      BY <1>18 DEF BeginAttempt, MayAttempt, IsCurrentClaim, SoleInstance, Claims
    <3>2. ~Uploading(c.file)
      BY <3>1 DEF UploadInv, GoneInv
    <3> QED BY <3>1, <3>2 DEF NoDeleteDuringWrite, Uploading, Deleting
  <2> QED BY <2>1, <2>2
<1>19. ASSUME NEW i \in Instances, NEW c \in batch[i], SkipAttempt(i, c)
      PROVE  AttemptInv' /\ NoDeleteDuringWrite'
  <2>1. AttemptInv'
    BY <1>19 DEF AttemptInv, SkipAttempt, StorageExists, HasRow
  <2>2. NoDeleteDuringWrite'
    BY <1>19 DEF NoDeleteDuringWrite, SkipAttempt, Uploading, Deleting
  <2> QED BY <2>1, <2>2
<1>20. ASSUME NEW i \in Instances, DeleteFromProvider(i)
      PROVE  AttemptInv' /\ NoDeleteDuringWrite'
  <2>1. AttemptInv'
    BY <1>20 DEF AttemptInv, DeleteFromProvider, StorageExists, HasRow
  <2>2. NoDeleteDuringWrite'
    BY <1>20 DEF NoDeleteDuringWrite, DeleteFromProvider, Uploading, Deleting
  <2> QED BY <2>1, <2>2
<1>21. ASSUME NEW i \in Instances, ReleaseDeletedFile(i)
      PROVE  AttemptInv' /\ NoDeleteDuringWrite'
  <2>1. AttemptInv'
    <3>1. jpc'[i] = "pass" /\ \A j \in Instances : j = i
      BY <1>21 DEF ReleaseDeletedFile, SoleInstance
    <3> QED BY <3>1 DEF AttemptInv
  <2>2. NoDeleteDuringWrite'
    BY <1>21 DEF NoDeleteDuringWrite, ReleaseDeletedFile, Uploading, Deleting
  <2> QED BY <2>1, <2>2
<1>22. ASSUME NEW i \in Instances, Reschedule(i)
      PROVE  AttemptInv' /\ NoDeleteDuringWrite'
  <2>0. SameRows
    BY <1>22, RescheduleKeepsRows
  <2>1. AttemptInv'
    BY <2>0, <1>22 DEF AttemptInv, Reschedule, SameRows, StorageExists
  <2>2. NoDeleteDuringWrite'
    BY <1>22 DEF NoDeleteDuringWrite, Reschedule, Uploading, Deleting
  <2> QED BY <2>1, <2>2
<1>23. ASSUME NEW i \in Instances, EndPass(i)
      PROVE  AttemptInv' /\ NoDeleteDuringWrite'
  <2>1. AttemptInv'
    BY <1>23 DEF AttemptInv, EndPass, StorageExists, HasRow
  <2>2. NoDeleteDuringWrite'
    BY <1>23 DEF NoDeleteDuringWrite, EndPass, Uploading, Deleting
  <2> QED BY <2>1, <2>2
<1>24. CASE Tick
  <2>0. SameRows
    BY <1>24, TickKeepsRows
  <2>1. AttemptInv'
    BY <2>0, <1>24 DEF AttemptInv, Tick, SameRows, StorageExists
  <2>2. NoDeleteDuringWrite'
    BY <1>24 DEF NoDeleteDuringWrite, Tick, Uploading, Deleting
  <2> QED BY <2>1, <2>2
<1>25. ASSUME NEW i \in Instances, LoseSession(i)
      PROVE  AttemptInv' /\ NoDeleteDuringWrite'
  <2>1. AttemptInv'
    BY <1>25 DEF AttemptInv, LoseSession, StorageExists, HasRow
  <2>2. NoDeleteDuringWrite'
    BY <1>25 DEF NoDeleteDuringWrite, LoseSession, Uploading, Deleting
  <2> QED BY <2>1, <2>2
<1>26. CASE ReapSessions
  <2>1. AttemptInv'
    BY <1>26 DEF AttemptInv, ReapSessions, StorageExists, HasRow
  <2>2. NoDeleteDuringWrite'
    BY <1>26 DEF NoDeleteDuringWrite, ReapSessions, Uploading, Deleting
  <2> QED BY <2>1, <2>2
<1>27. ASSUME NEW i \in Instances, Crash(i)
      PROVE  AttemptInv' /\ NoDeleteDuringWrite'
  <2>1. AttemptInv'
    BY <1>27 DEF AttemptInv, Crash, StorageExists, HasRow
  <2>2. NoDeleteDuringWrite'
    BY <1>27 DEF NoDeleteDuringWrite, Crash, Uploading, Deleting
  <2> QED BY <2>1, <2>2
<1>28. CASE UNCHANGED vars
  BY <1>28 DEF vars, AttemptInv, NoDeleteDuringWrite, Uploading, Deleting, StorageExists, HasRow
<1> QED
  BY <1>1, <1>2, <1>3, <1>4, <1>5, <1>6, <1>7, <1>8, <1>9, <1>10, <1>11, <1>12,
     <1>13, <1>14, <1>15, <1>16, <1>17, <1>18, <1>19, <1>20, <1>21, <1>22,
     <1>23, <1>24, <1>25, <1>26, <1>27, <1>28
     DEF Next, WriteStep, ProtectWrite, ReleaseWrite, JobStep, ClaimDue, StartAttempt

\* With one process no provider deletion of a file runs while WriteFile is
\* uploading it: the live set keeps claimDue away however long the upload takes.
THEOREM WritesUndisturbed == ASSUME SoleInstance PROVE Spec => []NoDeleteDuringWrite
<1> DEFINE WInv == OInv /\ AttemptInv /\ NoDeleteDuringWrite
<1>1. Init => WInv
  <2> SUFFICES ASSUME Init PROVE AttemptInv /\ NoDeleteDuringWrite
    BY OInvInit
  <2> QED BY DEF Init, AttemptInv, NoDeleteDuringWrite, Uploading
<1>2. WInv /\ [Next]_vars => WInv'
  BY OInvStep, WriteStepSafe
<1>3. WInv => NoDeleteDuringWrite
  OBVIOUS
<1> QED BY <1>1, <1>2, <1>3, PTL DEF Spec

-----------------------------------------------------------------------------
(* Several processes.  A claim passes over a file whose lock is held, and     *)
(* whatever else takes a row away from its writer ends the catalog row first. *)
(* So the lock keeps the receipt, and with a receipt no claim is under way.   *)

ShieldInv ==
    \A f \in Files : Uploading(f) /\ held[f] # None /\ catalog[f] = "open" => ReceiptMatches(f)

\* Rows that keep their identity keep the receipts of the writers.
LEMMA ReceiptsKept ==
  ASSUME SameRows, UNCHANGED wid
  PROVE  \A f \in Files : ReceiptMatches(f)' <=> ReceiptMatches(f)
BY DEF SameRows, ReceiptMatches, HasRow

\* What a claim takes, and what it leaves alone.
LEMMA ClaimTakes ==
  ASSUME TypeOK, NEW i \in Instances, NEW taken \in SUBSET Files, ClaimBatch(i, taken)
  PROVE  /\ \A f \in taken : /\ HasRow(f) /\ pending[f].wait = 0 /\ held[f] = None
                             /\ pending'[f].gen = pending[f].gen + 1
                             /\ pending'[f].attempts = pending[f].attempts
         /\ \A f \in Files \ taken : pending'[f] = pending[f]
         /\ UNCHANGED <<catalog, wpc, wid, held>>
<1>0. ASSUME NEW f \in Files
      PROVE  pending'[f] = IF f \in taken
                           THEN [pending[f] EXCEPT !.gen = @ + 1, !.wait = AttemptLease]
                           ELSE pending[f]
  BY Zenon DEF ClaimBatch
<1>1. ASSUME NEW f \in taken
      PROVE  /\ HasRow(f) /\ pending[f].wait = 0 /\ held[f] = None
             /\ pending'[f].gen = pending[f].gen + 1
             /\ pending'[f].attempts = pending[f].attempts
  <2>1. HasRow(f) /\ pending[f].wait = 0 /\ held[f] = None
    BY Zenon DEF ClaimBatch, Claimable
  <2>2. pending'[f] = [pending[f] EXCEPT !.gen = @ + 1, !.wait = AttemptLease]
    BY <1>0, Zenon
  <2>3. pending[f] \in Row
    BY <2>1, RowFields
  <2> QED BY <2>1, <2>2, <2>3 DEF Row
<1>2. ASSUME NEW f \in Files \ taken PROVE pending'[f] = pending[f]
  BY <1>0, Zenon
<1>3. UNCHANGED <<catalog, wpc, wid, held>>
  BY Zenon DEF ClaimBatch, writerVars, guardVars
<1> QED BY <1>1, <1>2, <1>3

\* The claims that follow from it.
LEMMA ClaimsTaken ==
  ASSUME TypeOK, NEW i \in Instances, NEW taken \in SUBSET Files, ClaimBatch(i, taken),
         NEW j \in Instances, NEW c \in Claims(j)'
  PROVE  c \in Claims(j) \/ \E f \in taken : HasRow(f) /\ c.gen = pending[f].gen + 1
<1> USE DEF TypeOK, JobTypes, Claims
<1>0. /\ jpc' = [jpc EXCEPT ![i] = "pass"] /\ UNCHANGED current
      /\ batch' = [batch EXCEPT ![i] =
             {[file |-> f, id |-> pending[f].id, gen |-> pending[f].gen + 1] : f \in taken}]
  BY Zenon DEF ClaimBatch
<1>1. CASE j # i
  BY <1>0, <1>1
<1>2. CASE j = i
  <2>1. c \in {[file |-> f, id |-> pending[f].id, gen |-> pending[f].gen + 1] : f \in taken}
    BY <1>0, <1>2
  <2>2. PICK f \in taken : c = [file |-> f, id |-> pending[f].id, gen |-> pending[f].gen + 1]
    BY <2>1
  <2> QED BY <2>2, ClaimTakes
<1> QED BY <1>1, <1>2

\* No step makes a receipt stale while the lock is held and the file is open.
LEMMA ShieldStep == IInv /\ ShieldInv /\ [Next]_vars => ShieldInv'
<1> SUFFICES ASSUME IInv, ShieldInv, [Next]_vars,
                    NEW f \in Files, Uploading(f)', held'[f] # None, catalog'[f] = "open"
             PROVE  ReceiptMatches(f)'
  BY DEF ShieldInv
<1>0. TypeOK /\ ClaimsInv
  BY DEF IInv
<1>00. Uploading(f) /\ held[f] # None /\ catalog[f] = "open" => ReceiptMatches(f)
  BY DEF ShieldInv
<1> USE <1>0 DEF TypeOK, RowTypes, WriterTypes, GuardTypes, rowVars, writerVars, guardVars
<1>1. ASSUME NEW g \in Files, InsertIfAbsent(g) PROVE ReceiptMatches(f)'
  <2>1. CASE UNCHANGED pending /\ wpc' = [wpc EXCEPT ![g] = "releasing"]
    BY <1>00, <1>1, <2>1 DEF InsertIfAbsent, Uploading, ReceiptMatches, HasRow
  <2>2. CASE pending' = [pending EXCEPT ![g] =
                  [id |-> wid[g], gen |-> 0, wait |-> CommitWindow, attempts |-> 0]]
             /\ wpc' = [wpc EXCEPT ![g] = "registered"]
    <3>1. [id |-> wid[g], gen |-> 0, wait |-> CommitWindow, attempts |-> 0] # None
      BY TimingsAssumption, NoneAssumption DEF Row
    <3> QED BY <1>00, <1>1, <2>2, <3>1 DEF InsertIfAbsent, Uploading, ReceiptMatches, HasRow
  <2> QED BY <1>1, <2>1, <2>2 DEF InsertIfAbsent
<1>2. ASSUME NEW g \in Files, LocateStorage(g) \/ SaveFile(g) \/ KeepForCommit(g)
      PROVE  ReceiptMatches(f)'
  <2>1. \A h \in Files : ReceiptMatches(h)' <=> ReceiptMatches(h)
    BY <1>2, WriterKeepsRows, ReceiptsKept DEF LocateStorage, SaveFile, KeepForCommit
  <2> QED BY <1>00, <1>2, <2>1 DEF LocateStorage, SaveFile, KeepForCommit, Uploading
<1>3. ASSUME NEW g \in Files,
             \/ StartWrite(g) \/ ProtectWrite(g)
             \/ ReleaseWrite(g) \/ LeaveLiveWrites(g) \/ CancelWrite(g)
      PROVE  ReceiptMatches(f)'
  <2>0. UNCHANGED <<pending, catalog>>
    BY <1>3 DEF StartWrite, ProtectWrite, RefuseProtection, BreakProtection, FindProtected,
                GrantProtection, ReleaseWrite, ReleaseProtection, LoseProtection,
                LeaveLiveWrites, CancelWrite
  <2>1. CASE StartWrite(g)
    BY <1>00, <2>0, <2>1 DEF StartWrite, Uploading, ReceiptMatches, HasRow
  <2>2. CASE RefuseProtection(g) \/ FindProtected(g) \/ GrantProtection(g)
    <3>1. UNCHANGED wid /\ (UNCHANGED held \/ held' = [held EXCEPT ![g] = at[g]])
      BY <2>2 DEF RefuseProtection, FindProtected, GrantProtection
    <3>2. \E pc \in {"leaving", "protected"} : wpc' = [wpc EXCEPT ![g] = pc]
      BY <2>2 DEF RefuseProtection, FindProtected, GrantProtection
    <3> QED BY <1>00, <2>0, <3>1, <3>2 DEF Uploading, ReceiptMatches, HasRow
  <2>3. CASE BreakProtection(g) \/ LoseProtection(g)
    <3>1. Uploading(f) /\ UNCHANGED wid
      BY <2>3 DEF BreakProtection, LoseProtection, Uploading
    <3>2. held' = [h \in Files |-> IF held[h] = at[g] THEN None ELSE held[h]]
      BY <2>3 DEF BreakProtection, LoseProtection, FailProtection
    <3> QED BY <1>00, <2>0, <3>1, <3>2 DEF ReceiptMatches, HasRow
  <2>4. CASE ReleaseProtection(g) \/ LeaveLiveWrites(g) \/ CancelWrite(g)
    BY <1>00, <2>0, <2>4 DEF ReleaseProtection, LeaveLiveWrites, CancelWrite,
                             Uploading, ReceiptMatches, HasRow
  <2> QED BY <1>3, <2>1, <2>2, <2>3, <2>4 DEF ProtectWrite, ReleaseWrite
<1>4. ASSUME NEW F \in SUBSET Files, ConfirmFileWrites(F) PROVE ReceiptMatches(f)'
  BY <1>00, <1>4 DEF ConfirmFileWrites, Uploading, ReceiptMatches, HasRow
<1>5. ASSUME NEW F \in SUBSET Files, RequestFileDeletions(F) PROVE ReceiptMatches(f)'
  <2>1. f \notin F /\ catalog[f] = "open"
    BY <1>5 DEF RequestFileDeletions
  <2> QED BY <1>00, <1>5, <2>1 DEF RequestFileDeletions, Uploading, ReceiptMatches, HasRow
<1>6. ASSUME NEW b \in BOOLEAN, DeleteStorage(b) PROVE ReceiptMatches(f)'
  BY <1>6 DEF DeleteStorage
<1>7. ASSUME NEW i \in Instances, NEW taken \in SUBSET Files, ClaimBatch(i, taken)
      PROVE  ReceiptMatches(f)'
  <2>1. f \notin taken
    BY <1>7, ClaimTakes
  <2>2. pending'[f] = pending[f] /\ UNCHANGED <<catalog, wpc, wid, held>>
    BY <1>7, <2>1, ClaimTakes
  <2> QED BY <1>00, <2>2 DEF Uploading, ReceiptMatches, HasRow
<1>8. ASSUME NEW i \in Instances, NEW c \in batch[i], BeginAttempt(i, c) PROVE ReceiptMatches(f)'
  <2>1. \A h \in Files : ReceiptMatches(h)' <=> ReceiptMatches(h)
    BY <1>8, AttemptKeepsRows, ReceiptsKept DEF BeginAttempt
  <2> QED BY <1>00, <1>8, <2>1 DEF BeginAttempt, Uploading
<1>9. ASSUME NEW i \in Instances, ReleaseDeletedFile(i) PROVE ReceiptMatches(f)'
  <2>1. ReceiptMatches(f)
    BY <1>00, <1>9 DEF ReleaseDeletedFile, Uploading
  <2>2. f # current[i].file \/ UNCHANGED pending
    <3>1. current[i] \in Claims(i) /\ current[i].id = pending[f].id => f # current[i].file
      BY <2>1, <1>9 DEF ClaimsInv, ReceiptMatches
    <3> QED BY <1>9, <3>1 DEF ReleaseDeletedFile, Claims, MayAttempt, IsCurrentClaim
  <2> QED BY <1>9, <2>1, <2>2 DEF ReleaseDeletedFile, ReceiptMatches, HasRow
<1>10. ASSUME NEW i \in Instances, Reschedule(i) PROVE ReceiptMatches(f)'
  <2>1. \A h \in Files : ReceiptMatches(h)' <=> ReceiptMatches(h)
    BY <1>10, RescheduleKeepsRows, ReceiptsKept DEF Reschedule
  <2> QED BY <1>00, <1>10, <2>1 DEF Reschedule, Uploading
<1>11. ASSUME NEW i \in Instances, NEW c \in batch[i], SkipAttempt(i, c) PROVE ReceiptMatches(f)'
  BY <1>00, <1>11 DEF SkipAttempt, Uploading, ReceiptMatches, HasRow
<1>12. ASSUME NEW i \in Instances, DeleteFromProvider(i) \/ EndPass(i) PROVE ReceiptMatches(f)'
  BY <1>00, <1>12 DEF DeleteFromProvider, EndPass, Uploading, ReceiptMatches, HasRow
<1>13. CASE Tick
  <2>1. \A h \in Files : ReceiptMatches(h)' <=> ReceiptMatches(h)
    BY <1>13, TickKeepsRows, ReceiptsKept DEF Tick
  <2> QED BY <1>00, <1>13, <2>1 DEF Tick, Uploading
<1>14. ASSUME NEW i \in Instances, LoseSession(i) PROVE ReceiptMatches(f)'
  <2>1. held[f] # None
    BY <1>14 DEF LoseSession
  <2> QED BY <1>00, <1>14, <2>1 DEF LoseSession, Uploading, ReceiptMatches, HasRow
<1>15. CASE ReapSessions
  BY <1>00, <1>15 DEF ReapSessions, Uploading, ReceiptMatches, HasRow
<1>16. ASSUME NEW i \in Instances, Crash(i) PROVE ReceiptMatches(f)'
  <2>1. Uploading(f) /\ held[f] # None
    BY <1>16 DEF Crash, Uploading
  <2> QED BY <1>00, <1>16, <2>1 DEF Crash, ReceiptMatches, HasRow
<1>17. CASE UNCHANGED vars
  BY <1>00, <1>17 DEF vars, Uploading, ReceiptMatches, HasRow
<1> QED
  BY <1>1, <1>2, <1>3, <1>4, <1>5, <1>6, <1>7, <1>8, <1>9, <1>10, <1>11, <1>12,
     <1>13, <1>14, <1>15, <1>16, <1>17
     DEF Next, WriteStep, JobStep, ClaimDue, StartAttempt

\* However many processes share the database, none deletes a file under a writer
\* whose session still holds the lock, as long as the file may be published.
THEOREM LockShields == Spec => []LockShieldsWrite
<1>1. Init => ShieldInv
  BY DEF Init, ShieldInv, Uploading
<1>2. IInv /\ ShieldInv => LockShieldsWrite
  <2> SUFFICES ASSUME IInv, ShieldInv, NEW f \in Files,
                      Uploading(f), held[f] # None, catalog[f] = "open",
                      NEW i \in Instances, jpc[i] = "deleting", current[i].file = f
               PROVE  FALSE
    BY DEF LockShieldsWrite, Deleting
  <2>1. ReceiptMatches(f)
    BY DEF ShieldInv
  <2>2. current[i] \in Claims(i)
    BY DEF Claims
  <2> QED BY <2>1, <2>2 DEF IInv, ClaimsInv
<1> QED BY <1>1, <1>2, IInvInit, IInvStep, ShieldStep, PTL DEF Spec

-----------------------------------------------------------------------------
(* Backoff.  Attempts are counted only on rows that were claimed, and a claim *)
(* moves the generation, so no receipt matches a row with a counted attempt.  *)

CountsInv ==
    /\ \A f \in Files : HasRow(f) /\ pending[f].gen = 0 => pending[f].attempts = 0
    /\ \A i \in Instances : \A c \in Claims(i) : 1 <= c.gen

\* The row of f changes its schedule, generation or counter in one of these ways.
Unmoved(f)     == pending'[f] = pending[f]
ByWriter(f)    == /\ ReceiptMatches(f)
                  /\ pending'[f].gen = pending[f].gen /\ pending'[f].attempts = pending[f].attempts
ByRequest(f)   == /\ pending'[f].gen = pending[f].gen + 1 /\ pending'[f].attempts = pending[f].attempts
                  /\ pending[f].attempts = 0 \/ pending'[f].wait = pending[f].wait
ByClaim(f)     == /\ pending[f].wait = 0
                  /\ pending'[f].gen = pending[f].gen + 1 /\ pending'[f].attempts = pending[f].attempts
ByAttempt(f)   == /\ pending'[f].wait = pending[f].wait /\ pending'[f].gen = pending[f].gen
                  /\ \E i \in Instances : \E c \in Claims(i) : c.gen = pending[f].gen
ByClock(f)     == /\ pending'[f].wait + 1 = pending[f].wait
                  /\ pending'[f].gen = pending[f].gen /\ pending'[f].attempts = pending[f].attempts
ByFailure(f)   == /\ \E i \in Instances : jpc[i] = "failed" /\ current[i].file = f
                  /\ pending'[f].gen = pending[f].gen /\ pending'[f].attempts = pending[f].attempts

RowMoves(f) ==
    IF HasRow(f)
    THEN HasRow(f)' => \/ Unmoved(f) \/ ByWriter(f) \/ ByRequest(f) \/ ByClaim(f)
                       \/ ByAttempt(f) \/ ByClock(f) \/ ByFailure(f)
    ELSE HasRow(f)' => pending'[f].gen = 0 /\ pending'[f].attempts = 0

\* The fields of a rescheduled row.
LEMMA WaitFields ==
  ASSUME NEW r \in Row, NEW n
  PROVE  LET q == [r EXCEPT !.wait = n]
         IN  q.wait = n /\ q.gen = r.gen /\ q.attempts = r.attempts
BY DEF Row

\* Every step moves every row in one of the ways above.
LEMMA RowHistory ==
  ASSUME TypeOK, [Next]_vars, NEW f \in Files
  PROVE  RowMoves(f)
<1> USE DEF TypeOK, RowTypes, WriterTypes, JobTypes, rowVars, writerVars, guardVars
<1>0. pending'[f] = pending[f] => RowMoves(f)
  BY DEF RowMoves, Unmoved, HasRow
<1>00. HasRow(f) => pending[f] \in Row
  BY RowFields
<1>1. ASSUME NEW g \in Files, InsertIfAbsent(g) PROVE RowMoves(f)
  BY <1>0, <1>1 DEF InsertIfAbsent, RowMoves
<1>2. ASSUME NEW g \in Files, LocateStorage(g) \/ SaveFile(g) \/ KeepForCommit(g)
      PROVE  RowMoves(f)
  <2>1. CASE UNCHANGED pending
    BY <1>0, <2>1
  <2>2. ASSUME NEW n, ReceiptMatches(g), pending' = [pending EXCEPT ![g].wait = n]
        PROVE  RowMoves(f)
    <3>1. CASE f # g
      BY <1>0, <2>2, <3>1
    <3>2. CASE f = g
      <4>1. HasRow(f) /\ pending'[f] = [pending[f] EXCEPT !.wait = n]
        BY <2>2, <3>2 DEF ReceiptMatches
      <4> QED BY <1>00, <2>2, <3>2, <4>1, WaitFields DEF RowMoves, ByWriter
    <3> QED BY <3>1, <3>2
  <2> QED BY <1>2, <2>1, <2>2 DEF LocateStorage, SaveFile, KeepForCommit, MakeEligibleNow
<1>3. ASSUME NEW g \in Files,
             \/ StartWrite(g) \/ ProtectWrite(g)
             \/ ReleaseWrite(g) \/ LeaveLiveWrites(g) \/ CancelWrite(g)
      PROVE  RowMoves(f)
  <2>1. UNCHANGED pending
    BY <1>3 DEF StartWrite, ProtectWrite, RefuseProtection, BreakProtection, FindProtected,
                GrantProtection, ReleaseWrite, ReleaseProtection, LoseProtection,
                LeaveLiveWrites, CancelWrite
  <2> QED BY <1>0, <2>1
<1>4. ASSUME NEW F \in SUBSET Files, ConfirmFileWrites(F) PROVE RowMoves(f)
  BY <1>0, <1>4 DEF ConfirmFileWrites, RowMoves, HasRow
<1>5. ASSUME NEW F \in SUBSET Files, RequestFileDeletions(F) PROVE RowMoves(f)
  <2>0. pending'[f] = IF f \in F THEN InsertOrTake(f) ELSE pending[f]
    BY <1>5 DEF RequestFileDeletions
  <2>1. CASE f \notin F \/ ~StorageExists
    BY <1>0, <2>0, <2>1 DEF InsertOrTake
  <2>2. CASE f \in F /\ StorageExists /\ HasRow(f)
    <3>1. pending'[f] = [pending[f] EXCEPT !.gen = @ + 1,
                            !.wait = IF pending[f].attempts = 0 THEN 0 ELSE @]
      BY <2>0, <2>2 DEF InsertOrTake
    <3>2. /\ pending'[f].gen = pending[f].gen + 1
          /\ pending'[f].attempts = pending[f].attempts
          /\ pending[f].attempts = 0 \/ pending'[f].wait = pending[f].wait
      BY <1>00, <2>2, <3>1 DEF Row
    <3> QED BY <2>2, <3>2 DEF RowMoves, ByRequest
  <2>3. CASE f \in F /\ StorageExists /\ ~HasRow(f)
    BY <2>0, <2>3 DEF InsertOrTake, RowMoves
  <2> QED BY <2>1, <2>2, <2>3
<1>6. ASSUME NEW b \in BOOLEAN, DeleteStorage(b) PROVE RowMoves(f)
  BY <1>6 DEF DeleteStorage, RowMoves, HasRow
<1>7. ASSUME NEW i \in Instances, NEW taken \in SUBSET Files, ClaimBatch(i, taken)
      PROVE  RowMoves(f)
  <2>1. CASE f \notin taken
    BY <1>0, <1>7, <2>1, ClaimTakes
  <2>2. CASE f \in taken
    <3>1. /\ HasRow(f) /\ pending[f].wait = 0
          /\ pending'[f].gen = pending[f].gen + 1 /\ pending'[f].attempts = pending[f].attempts
      BY <1>7, <2>2, ClaimTakes
    <3> QED BY <3>1 DEF RowMoves, ByClaim
  <2> QED BY <2>1, <2>2
<1>8. ASSUME NEW i \in Instances, NEW c \in batch[i], BeginAttempt(i, c) PROVE RowMoves(f)
  <2>1. CASE f # c.file
    BY <1>0, <1>8, <2>1 DEF BeginAttempt
  <2>2. CASE f = c.file
    <3>1. /\ HasRow(f) /\ pending[f].gen = c.gen
          /\ pending'[f] = [pending[f] EXCEPT !.attempts = @ + 1]
      BY <1>8, <2>2 DEF BeginAttempt, MayAttempt, IsCurrentClaim
    <3>2. pending'[f].wait = pending[f].wait /\ pending'[f].gen = pending[f].gen
      BY <1>00, <3>1 DEF Row
    <3>3. c \in Claims(i)
      BY DEF Claims
    <3> QED BY <3>1, <3>2, <3>3 DEF RowMoves, ByAttempt
  <2> QED BY <2>1, <2>2
<1>9. ASSUME NEW i \in Instances, ReleaseDeletedFile(i) PROVE RowMoves(f)
  BY <1>0, <1>9 DEF ReleaseDeletedFile, RowMoves, HasRow
<1>10. ASSUME NEW i \in Instances, Reschedule(i) PROVE RowMoves(f)
  <2>1. CASE UNCHANGED pending
    BY <1>0, <2>1
  <2>2. ASSUME NEW n, IsCurrentClaim(current[i]), pending' = [pending EXCEPT ![current[i].file].wait = n]
        PROVE  RowMoves(f)
    <3>1. CASE f # current[i].file
      BY <1>0, <2>2, <3>1
    <3>2. CASE f = current[i].file
      <4>1. HasRow(f) /\ pending'[f] = [pending[f] EXCEPT !.wait = n]
        BY <2>2, <3>2 DEF IsCurrentClaim
      <4>2. jpc[i] = "failed"
        BY <1>10 DEF Reschedule
      <4> QED BY <1>00, <3>2, <4>1, <4>2, WaitFields DEF RowMoves, ByFailure
    <3> QED BY <3>1, <3>2
  <2> QED BY <1>10, <2>1, <2>2 DEF Reschedule
<1>11. ASSUME NEW i \in Instances, NEW c \in batch[i], SkipAttempt(i, c) PROVE RowMoves(f)
  BY <1>0, <1>11 DEF SkipAttempt
<1>12. ASSUME NEW i \in Instances, DeleteFromProvider(i) \/ EndPass(i) \/ LoseSession(i) \/ Crash(i)
       PROVE  RowMoves(f)
  BY <1>0, <1>12 DEF DeleteFromProvider, EndPass, LoseSession, Crash
<1>13. CASE Tick
  <2>1. CASE HasRow(f) /\ pending[f].wait > 0
    <3>1. pending'[f] = [pending[f] EXCEPT !.wait = @ - 1] /\ pending[f].wait \in Nat
      BY <1>00, <1>13, <2>1 DEF Tick, Row
    <3>2. pending'[f].wait = pending[f].wait - 1
          /\ pending'[f].gen = pending[f].gen /\ pending'[f].attempts = pending[f].attempts
      BY <1>00, <2>1, <3>1, WaitFields
    <3> QED BY <2>1, <3>1, <3>2 DEF RowMoves, ByClock
  <2>2. CASE ~(HasRow(f) /\ pending[f].wait > 0)
    BY <1>0, <1>13, <2>2 DEF Tick
  <2> QED BY <2>1, <2>2
<1>14. CASE ReapSessions
  BY <1>0, <1>14 DEF ReapSessions
<1>15. CASE UNCHANGED vars
  BY <1>0, <1>15 DEF vars
<1> QED
  BY <1>1, <1>2, <1>3, <1>4, <1>5, <1>6, <1>7, <1>8, <1>9, <1>10, <1>11, <1>12,
     <1>13, <1>14, <1>15
     DEF Next, WriteStep, JobStep, ClaimDue, StartAttempt

\* A new claim has moved the generation of its row.
LEMMA ClaimHistory ==
  ASSUME TypeOK, [Next]_vars, NEW i \in Instances, NEW c \in Claims(i)'
  PROVE  c \in Claims(i) \/ \E f \in Files : HasRow(f) /\ c.gen = pending[f].gen + 1
<1> USE DEF TypeOK, JobTypes, Claims, jobVars
<1>1. ASSUME NEW g \in Files, WriteStep(g) \/ CancelWrite(g) PROVE UNCHANGED jobVars
  BY <1>1 DEF WriteStep, CancelWrite, StartWrite, ProtectWrite, RefuseProtection, BreakProtection,
              FindProtected, GrantProtection, InsertIfAbsent, LocateStorage, SaveFile, KeepForCommit,
              ReleaseWrite, ReleaseProtection, LoseProtection, LeaveLiveWrites
<1>2. ASSUME NEW F \in SUBSET Files, ConfirmFileWrites(F) \/ RequestFileDeletions(F)
      PROVE  UNCHANGED jobVars
  BY <1>2 DEF ConfirmFileWrites, RequestFileDeletions
<1>3. ASSUME NEW b \in BOOLEAN, DeleteStorage(b) PROVE UNCHANGED jobVars
  BY <1>3 DEF DeleteStorage
<1>4. ASSUME NEW j \in Instances, NEW taken \in SUBSET Files, ClaimBatch(j, taken)
      PROVE  c \in Claims(i) \/ \E f \in Files : HasRow(f) /\ c.gen = pending[f].gen + 1
  BY <1>4, ClaimsTaken
<1>5. ASSUME NEW j \in Instances, NEW d \in batch[j], BeginAttempt(j, d) \/ SkipAttempt(j, d)
      PROVE  c \in Claims(i)
  BY <1>5 DEF BeginAttempt, SkipAttempt
<1>6. ASSUME NEW j \in Instances,
             DeleteFromProvider(j) \/ ReleaseDeletedFile(j) \/ Reschedule(j) \/ EndPass(j)
      PROVE  c \in Claims(i)
  BY <1>6 DEF DeleteFromProvider, ReleaseDeletedFile, Reschedule, EndPass
<1>7. ASSUME NEW j \in Instances, LoseSession(j) \/ Crash(j) PROVE c \in Claims(i)
  BY <1>7 DEF LoseSession, Crash
<1>8. CASE Tick \/ ReapSessions
  BY <1>8 DEF Tick, ReapSessions
<1>9. CASE UNCHANGED vars
  BY <1>9 DEF vars
<1> QED BY <1>1, <1>2, <1>3, <1>4, <1>5, <1>6, <1>7, <1>8, <1>9
        DEF Next, JobStep, ClaimDue, StartAttempt

\* Every step keeps the counts.
LEMMA CountsStep == TypeOK /\ CountsInv /\ [Next]_vars => CountsInv'
<1> SUFFICES ASSUME TypeOK, CountsInv, [Next]_vars PROVE CountsInv'
  OBVIOUS
<1>1. ASSUME NEW f \in Files, HasRow(f)', pending'[f].gen = 0
      PROVE  pending'[f].attempts = 0
  <2>1. RowMoves(f)
    BY RowHistory
  <2>2. CASE ~HasRow(f)
    BY <1>1, <2>1, <2>2 DEF RowMoves
  <2>3. CASE HasRow(f)
    <3>1. pending[f].gen \in Nat /\ (pending[f].gen = 0 => pending[f].attempts = 0)
      BY <2>3, RowFields DEF CountsInv
    <3>2. ~ByRequest(f) /\ ~ByClaim(f)
      BY <1>1, <3>1 DEF ByRequest, ByClaim
    <3>3. ~ByAttempt(f)
      <4>1. ASSUME NEW i \in Instances, NEW d \in Claims(i), d.gen = pending[f].gen,
                   pending'[f].gen = pending[f].gen
            PROVE  FALSE
        <5>1. 1 <= d.gen
          BY DEF CountsInv
        <5> QED BY <1>1, <4>1, <5>1
      <4> QED BY <4>1 DEF ByAttempt
    <3> QED BY <1>1, <2>1, <2>3, <3>1, <3>2, <3>3
            DEF RowMoves, Unmoved, ByWriter, ByClock, ByFailure
  <2> QED BY <2>2, <2>3
<1>2. ASSUME NEW i \in Instances, NEW c \in Claims(i)' PROVE 1 <= c.gen
  <2>1. CASE c \in Claims(i)
    BY <2>1 DEF CountsInv
  <2>2. ASSUME NEW f \in Files, HasRow(f), c.gen = pending[f].gen + 1 PROVE 1 <= c.gen
    BY <2>2, RowFields
  <2> QED BY <2>1, <2>2, ClaimHistory
<1> QED BY <1>1, <1>2 DEF CountsInv, HasRow

\* Repeated requests, failed writes and late answers of older attempts never
\* shorten the backoff of a file whose deletion was attempted.
THEOREM BackoffIsKept == Spec => BackoffKept
<1> DEFINE BackoffStep ==
      \A f \in Files :
          (/\ HasRow(f) /\ pending[f].attempts > 0
           /\ pending'[f] # None /\ pending'[f].wait < pending[f].wait)
          => /\ pending'[f].gen = pending[f].gen
             /\ \/ pending'[f].wait + 1 = pending[f].wait
                \/ \E i \in Instances : jpc[i] = "failed" /\ current[i].file = f
<1>1. Init => CountsInv
  BY DEF Init, CountsInv, HasRow, Claims
<1>2. ASSUME TypeOK, TypeOK', CountsInv, [Next]_vars PROVE BackoffStep
  <2> SUFFICES ASSUME NEW f \in Files, HasRow(f), pending[f].attempts > 0,
                      HasRow(f)', pending'[f].wait < pending[f].wait
               PROVE  /\ pending'[f].gen = pending[f].gen
                      /\ \/ pending'[f].wait + 1 = pending[f].wait
                         \/ \E i \in Instances : jpc[i] = "failed" /\ current[i].file = f
    BY DEF HasRow
  <2>1. RowMoves(f)
    BY <1>2, RowHistory
  <2>2. pending[f].wait \in Nat /\ pending'[f].wait \in Nat /\ pending[f].attempts # 0
    <3>1. pending[f] \in Row /\ pending'[f] \in Row
      BY <1>2 DEF TypeOK, RowTypes, HasRow
    <3> QED BY <3>1 DEF Row
  <2>3. ~Unmoved(f) /\ ~ByRequest(f) /\ ~ByClaim(f) /\ ~ByAttempt(f)
    BY <2>2 DEF Unmoved, ByRequest, ByClaim, ByAttempt
  <2>4. ~ByWriter(f)
    BY <1>2, <2>2 DEF ByWriter, ReceiptMatches, CountsInv
  <2> QED BY <2>1, <2>3, <2>4 DEF RowMoves, ByClock, ByFailure
<1>3. TypeOK /\ TypeOK' /\ CountsInv /\ [Next]_vars => [BackoffStep]_vars
  BY <1>2
<1> HIDE DEF BackoffStep
<1>4. Spec => [][BackoffStep]_vars
  BY <1>1, <1>3, TypeInit, TypeStep, CountsStep, PTL DEF Spec
<1> QED BY <1>4 DEF BackoffKept, BackoffStep

=============================================================================
