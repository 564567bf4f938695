------------------------- MODULE WalArchivingProofs -------------------------
(* Proofs about WalArchiving, for every number of segments, upload slots and  *)
(* failures, every timeout and every grace period that is not shorter.        *)
EXTENDS WalArchiving, FiniteSetTheorems, WellFoundedInduction, TLAPS

-----------------------------------------------------------------------------
(* The inductive invariant.                                                  *)

\* The recovery's listing holds queued segments nobody has started.
Listing == \A s \in toRecover : local[s] # "none" /\ upload[s].phase = "idle"

\* Without a session there is no upload.
DownIdle == session = "down" => \A s \in Segments : upload[s].phase = "idle"

\* An upload that has not claimed its segment has its file in the queue.
BegunQueued ==
    \A s \in Segments : upload[s].phase \in {"starting", "conflict"} => local[s] # "none"

\* Files, rows and uploads belong to received segments, which lie behind next.
Known ==
    /\ \A s \in Segments :
         local[s] # "none" \/ row[s] # "none" \/ upload[s].phase # "idle" => s \in received
    /\ \A s \in received : s < next

\* What a session of a storage that was left still holds is given up.
StaleDropped == ~current => received \subseteq dropped

\* The claim an upload inserted is no older than the upload, as long as nobody
\* removed the segment's chain.
OwnClaim ==
    \A s \in Segments : upload[s].phase = "uploading" /\ ~upload[s].reused =>
        (row[s] = "claim" /\ age[s] <= upload[s].time) \/ s \in dropped

\* After its commit a segment is archived, or removed with its chain.
DoneArchived ==
    \A s \in Segments :
        upload[s].phase \in {"committed", "gapQueue", "gapRow", "removing"} =>
            row[s] = "file" \/ s \in dropped

\* A probe that looks for its predecessor has one, and once the queue was
\* listed without it, the predecessor is not in the queue.
Probing ==
    \A s \in Segments :
        /\ upload[s].phase \in {"gapQueue", "gapRow"} => s - 1 \in Segments
        /\ upload[s].phase = "gapRow" => local[s - 1] = "none"

\* Gaps are reported before received segments that have a predecessor.
AlertsKnown == \A s \in alerts : s \in received /\ s - 1 \in Segments

-----------------------------------------------------------------------------
(* How a step moves an upload.                                               *)

\* Only the upload of s changes.
Only(s) ==
    /\ upload' \in [Segments -> Uploads]
    /\ \A t \in Segments : t # s => upload'[t] = upload[t]

\* The upload of s goes to phase p.
Moves(s, p) ==
    /\ Only(s)
    /\ upload'[s].phase = p
    /\ upload'[s].reused = upload[s].reused
    /\ upload'[s].time = upload[s].time

\* The upload of s takes over a claim.
TakesOver(s) == Only(s) /\ upload'[s].phase = "uploading" /\ upload'[s].reused

\* The upload of s ends.
Ends(s) == Only(s) /\ upload'[s].phase = "idle"

\* A fresh upload is an upload.
LEMMA IdleType == Idle \in Uploads /\ Idle.phase = "idle"
BY WalAssumption DEF Uploads, Idle, Places, Phases

\* A new phase leaves an upload.
LEMMA RecordUpdates ==
  ASSUME NEW u \in Uploads, NEW p \in Phases
  PROVE  /\ [u EXCEPT !.phase = p] \in Uploads
         /\ [u EXCEPT !.phase = p].phase = p
         /\ [u EXCEPT !.phase = p].reused = u.reused
         /\ [u EXCEPT !.phase = p].time = u.time
BY WalAssumption DEF Uploads

\* A changed phase is a move.
LEMMA PhaseMove ==
  ASSUME TypeOK, NEW s \in Segments, NEW p \in Phases,
         upload' = [upload EXCEPT ![s].phase = p]
  PROVE  Moves(s, p)
<1>1. upload \in [Segments -> Uploads]
  BY DEF TypeOK
<1> QED BY <1>1, RecordUpdates DEF Moves, Only

\* A changed phase with the mark of a takeover is a takeover.
LEMMA TakeoverMove ==
  ASSUME TypeOK, NEW s \in Segments,
         upload' = [upload EXCEPT ![s].phase = "uploading", ![s].reused = TRUE]
  PROVE  TakesOver(s)
<1>1. upload \in [Segments -> Uploads]
  BY DEF TypeOK
<1> QED BY <1>1, WalAssumption DEF TakesOver, Only, Uploads, Phases

\* Finishing ends the upload.
LEMMA FinishMove ==
  ASSUME TypeOK, NEW s \in Segments, Finish(s)
  PROVE  Ends(s)
BY IdleType DEF TypeOK, Finish, Ends, Only

\* The shape of every step of an upload.
LEMMA Shapes ==
  ASSUME TypeOK, NEW s \in Segments
  PROVE  /\ Claim(s) => \/ row[s] = "none" /\ Moves(s, "uploading")
                        \/ row[s] # "none" /\ Moves(s, "conflict")
         /\ ClaimFails(s) => Ends(s)
         /\ Resolve(s) => Ends(s) \/ (row[s] = "claim" /\ TakesOver(s))
         /\ ResolveFails(s) => Ends(s)
         /\ UploadFails(s) => Ends(s)
         /\ Commit(s) => \/ current /\ row[s] = "claim" /\ Moves(s, "committed")
                         \/ ~(current /\ row[s] = "claim") /\ Ends(s)
         /\ CommitErrs(s) => Ends(s)
         /\ ProbeArchive(s) => Moves(s, "removing") \/ Moves(s, "gapQueue")
         /\ ProbeQueue(s) => Moves(s, "removing") \/ Moves(s, "gapRow")
         /\ ProbeRow(s) => Moves(s, "removing")
         /\ ProbeFails(s) => Moves(s, "removing")
         /\ Remove(s) => Ends(s)
<1>1. "uploading" \in Phases /\ "conflict" \in Phases /\ "committed" \in Phases
      /\ "removing" \in Phases /\ "gapQueue" \in Phases /\ "gapRow" \in Phases
  BY DEF Phases
<1>2. Claim(s) => \/ row[s] = "none" /\ Moves(s, "uploading")
                  \/ row[s] # "none" /\ Moves(s, "conflict")
  BY <1>1, PhaseMove DEF Claim
<1>3. Resolve(s) => Ends(s) \/ (row[s] = "claim" /\ TakesOver(s))
  BY FinishMove, TakeoverMove DEF Resolve
<1>4. Commit(s) => \/ current /\ row[s] = "claim" /\ Moves(s, "committed")
                   \/ ~(current /\ row[s] = "claim") /\ Ends(s)
  BY <1>1, PhaseMove, FinishMove DEF Commit
<1>5. ProbeArchive(s) => Moves(s, "removing") \/ Moves(s, "gapQueue")
  BY <1>1, PhaseMove DEF ProbeArchive
<1>6. ProbeQueue(s) => Moves(s, "removing") \/ Moves(s, "gapRow")
  BY <1>1, PhaseMove DEF ProbeQueue
<1>7. (ProbeRow(s) \/ ProbeFails(s)) => Moves(s, "removing")
  BY <1>1, PhaseMove DEF ProbeRow, ProbeFails
<1>8. (ClaimFails(s) \/ ResolveFails(s) \/ UploadFails(s) \/ CommitErrs(s) \/ Remove(s))
        => Ends(s)
  BY FinishMove DEF ClaimFails, ResolveFails, UploadFails, CommitErrs, Remove
<1> QED BY <1>2, <1>3, <1>4, <1>5, <1>6, <1>7, <1>8

\* A step of an upload that is under way changes that upload only.
LEMMA StepIsLocal ==
  ASSUME TypeOK, NEW s \in Segments, UploadStep(s)
  PROVE  Only(s) /\ upload[s].phase # "idle"
BY Shapes DEF UploadStep, Moves, TakesOver, Ends,
   Claim, ClaimFails, Resolve, ResolveFails, UploadFails, Commit, CommitErrs,
   ProbeArchive, ProbeQueue, ProbeRow, ProbeFails, Remove

\* A pass of the dispatcher starts queued segments that have no upload.
LEMMA StartMove ==
  ASSUME TypeOK, Listing, StartUploads
  PROVE  /\ upload' \in [Segments -> Uploads]
         /\ session # "down"
         /\ \A s \in Segments :
              \/ upload'[s] = upload[s]
              \/ /\ local[s] # "none" /\ upload[s].phase = "idle"
                 /\ upload'[s].phase = "starting" /\ ~upload'[s].reused
                 /\ s \notin toRecover'
         /\ toRecover' \subseteq toRecover
<1> DEFINE room == IF Cardinality(InFlight) < MaxUploads
                   THEN MaxUploads - Cardinality(InFlight) ELSE 0
           started == Lowest(Startable, room)
<1>1. started \subseteq Startable
  BY DEF Lowest
<1>2. /\ started # {} /\ toRecover' = toRecover \ started
      /\ upload' = [s \in Segments |-> IF s \in started THEN Begun(s) ELSE upload[s]]
  BY DEF StartUploads
<1>3. /\ session # "down"
      /\ \A s \in started : s \in Segments /\ local[s] # "none" /\ upload[s].phase = "idle"
  BY <1>1, <1>2 DEF Startable, Queued, InFlight, Listing, TypeOK
<1>4. ASSUME NEW s \in started
      PROVE  Begun(s) \in Uploads /\ Begun(s).phase = "starting" /\ ~Begun(s).reused
  <2>1. local[s] \in Places
    BY <1>3, <1>4 DEF TypeOK
  <2>2. "starting" \in Phases /\ 0 \in 0..Timeout
    BY WalAssumption DEF Phases
  <2> QED BY <2>1, <2>2 DEF Uploads, Begun
<1> HIDE DEF room, started
<1>5. upload' \in [Segments -> Uploads]
  BY <1>2, <1>4 DEF TypeOK
<1> QED BY <1>2, <1>3, <1>4, <1>5

-----------------------------------------------------------------------------
(* Type correctness.                                                         *)

\* Every step keeps the types.
LEMMA TypeStep == TypeOK /\ Listing /\ [Next]_vars => TypeOK'
<1> SUFFICES ASSUME TypeOK, Listing, [Next]_vars PROVE TypeOK'
  OBVIOUS
<1> USE WalAssumption DEF TypeOK
<1>1. CASE StartSession \/ RecoveryDone \/ Stop \/ StopStale
  <2>1. CASE StartSession \/ RecoveryDone
    BY <2>1 DEF StartSession, RecoveryDone, Queued
  <2>2. CASE Stop
    BY <2>2, IdleType DEF Stop
  <2>3. CASE StopStale
    BY <2>3, IdleType DEF StopStale, Queued
  <2> QED BY <1>1, <2>1, <2>2, <2>3
<1>2. CASE Receive \/ SkipSegment \/ ReceiverExits \/ Drain
  <2>1. CASE Receive
    <3>1. next \in Segments /\ next + 1 \in 1..N + 1
      BY <2>1 DEF Receive, Segments
    <3>2. local' \in [Segments -> Places \cup {"none"}] /\ received' \subseteq Segments
      BY <2>1, <3>1 DEF Receive, Places
    <3> QED BY <2>1, <3>1, <3>2 DEF Receive
  <2>2. CASE SkipSegment
    BY <2>2 DEF SkipSegment
  <2>3. CASE ReceiverExits \/ Drain
    BY <2>3 DEF ReceiverExits, Drain
  <2> QED BY <1>2, <2>1, <2>2, <2>3
<1>3. ASSUME NEW floor \in 1..N + 1, Spawn(floor) PROVE TypeOK'
  BY <1>3 DEF Spawn, Places
<1>4. CASE StartUploads
  BY <1>4, StartMove DEF StartUploads
<1>5. ASSUME NEW s \in Segments, UploadStep(s) PROVE TypeOK'
  <2>1. upload' \in [Segments -> Uploads]
    BY <1>5, StepIsLocal DEF Only
  <2>2. CASE Claim(s) \/ ClaimFails(s) \/ ResolveFails(s)
    BY <2>1, <2>2 DEF Claim, ClaimFails, ResolveFails
  <2>3. CASE Resolve(s)
    BY <2>1, <2>3 DEF Resolve, RemoveLocal
  <2>4. CASE UploadFails(s) \/ CommitErrs(s)
    BY <2>1, <2>4 DEF UploadFails, CommitErrs
  <2>5. CASE Commit(s)
    BY <2>1, <2>5 DEF Commit, RemoveLocal
  <2>6. CASE ProbeArchive(s) \/ ProbeQueue(s) \/ ProbeRow(s) \/ ProbeFails(s)
    BY <2>1, <2>6 DEF ProbeArchive, ProbeQueue, ProbeRow, ProbeFails
  <2>7. CASE Remove(s)
    BY <2>1, <2>7 DEF Remove, RemoveLocal
  <2> QED BY <1>5, <2>2, <2>3, <2>4, <2>5, <2>6, <2>7 DEF UploadStep
<1>6. CASE Reap
  BY <1>6 DEF Reap
<1>7. CASE SwitchStorage
  BY <1>7 DEF SwitchStorage
<1>8. CASE Tick
  <2>1. age' \in [Segments -> 0..Grace + 1]
    BY <1>8 DEF Tick, Older
  <2>2. ASSUME NEW s \in Segments, upload[s].phase = "uploading"
        PROVE  [upload[s] EXCEPT !.time = @ + 1] \in Uploads
    BY <1>8, <2>2 DEF Tick, Uploads
  <2>3. upload' \in [Segments -> Uploads]
    BY <1>8, <2>2 DEF Tick
  <2> QED BY <1>8, <2>1, <2>3 DEF Tick
<1>9. ASSUME NEW last \in Segments, DeleteChain(last) PROVE TypeOK'
  <2> DEFINE span == {s \in Segments : s <= last /\ row[s] # "none"}
  <2>1. /\ row' = [s \in Segments |-> IF s \in span THEN "none" ELSE row[s]]
        /\ age' = [s \in Segments |-> IF s \in span THEN 0 ELSE age[s]]
        /\ dropped' = dropped \cup span /\ span \subseteq Segments
        /\ faults > 0 /\ faults' = faults - 1
        /\ UNCHANGED <<next, received, local, upload, session, toRecover, receiver,
                       current, alerts>>
    BY <1>9 DEF DeleteChain
  <2> HIDE DEF span
  <2> QED BY <2>1
<1>10. CASE UNCHANGED vars
  BY <1>10 DEF vars
<1> QED BY <1>1, <1>2, <1>3, <1>4, <1>5, <1>6, <1>7, <1>8, <1>9, <1>10 DEF Next

-----------------------------------------------------------------------------
(* Sessions, queue and received segments.                                    *)

\* What a step of an upload leaves alone, and when it touches the queue.
LEMMA StepFacts ==
  ASSUME TypeOK, NEW s \in Segments, UploadStep(s)
  PROVE  /\ UNCHANGED <<next, received, session, toRecover, receiver, current, dropped>>
         /\ \A t \in Segments : t # s => /\ local'[t] = local[t]
                                         /\ row'[t] = row[t] /\ age'[t] = age[t]
         /\ local'[s] = local[s] \/ (local'[s] = "none" /\ upload'[s].phase = "idle")
         /\ upload'[s].phase \in {"starting", "conflict"} =>
              upload[s].phase = "starting" /\ local'[s] = local[s]
         /\ row[s] = "none" /\ row'[s] # "none" => upload[s].phase = "starting"
<1> USE DEF TypeOK
<1>1. CASE Claim(s)
  BY <1>1, Shapes DEF Claim, Moves
<1>2. CASE ClaimFails(s) \/ ResolveFails(s)
  BY <1>2, Shapes DEF ClaimFails, ResolveFails, Ends
<1>3. CASE Resolve(s)
  BY <1>3, Shapes DEF Resolve, RemoveLocal, Ends, TakesOver, Finish
<1>4. CASE UploadFails(s) \/ CommitErrs(s)
  BY <1>4, Shapes DEF UploadFails, CommitErrs, Ends
<1>5. CASE Commit(s)
  BY <1>5, Shapes DEF Commit, RemoveLocal, Ends, Moves
<1>6. CASE ProbeArchive(s) \/ ProbeQueue(s) \/ ProbeRow(s) \/ ProbeFails(s)
  BY <1>6, Shapes DEF ProbeArchive, ProbeQueue, ProbeRow, ProbeFails, Moves
<1>7. CASE Remove(s)
  BY <1>7, Shapes DEF Remove, RemoveLocal, Ends
<1> QED BY <1>1, <1>2, <1>3, <1>4, <1>5, <1>6, <1>7 DEF UploadStep

\* The listing, the uploads and the queue agree after every step.
LEMMA SessionStep ==
  TypeOK /\ Listing /\ DownIdle /\ BegunQueued /\ [Next]_vars
    => Listing' /\ DownIdle' /\ BegunQueued'
<1> SUFFICES ASSUME TypeOK, Listing, DownIdle, BegunQueued, [Next]_vars
             PROVE  Listing' /\ DownIdle' /\ BegunQueued'
  OBVIOUS
<1> USE DEF TypeOK, Listing, DownIdle, BegunQueued
<1>1. CASE StartSession
  BY <1>1 DEF StartSession, Queued
<1>2. CASE RecoveryDone \/ SkipSegment \/ ReceiverExits \/ Drain
  BY <1>2 DEF RecoveryDone, SkipSegment, ReceiverExits, Drain
<1>3. CASE Stop \/ StopStale
  BY <1>3, IdleType DEF Stop, StopStale
<1>4. CASE Receive
  BY <1>4 DEF Receive, Segments
<1>5. ASSUME NEW floor \in 1..N + 1, Spawn(floor)
      PROVE  Listing' /\ DownIdle' /\ BegunQueued'
  BY <1>5 DEF Spawn
<1>6. CASE StartUploads
  <2>1. UNCHANGED <<local, session>>
    BY <1>6 DEF StartUploads
  <2> QED BY <1>6, <2>1, StartMove
<1>7. ASSUME NEW s \in Segments, UploadStep(s)
      PROVE  Listing' /\ DownIdle' /\ BegunQueued'
  BY <1>7, StepFacts, StepIsLocal DEF Only
<1>8. CASE Reap \/ SwitchStorage
  BY <1>8 DEF Reap, SwitchStorage
<1>9. ASSUME NEW last \in Segments, DeleteChain(last)
      PROVE  Listing' /\ DownIdle' /\ BegunQueued'
  BY <1>9 DEF DeleteChain
<1>10. CASE Tick
  <2>1. \A s \in Segments : upload'[s].phase = upload[s].phase
    BY <1>10 DEF Tick, Uploads
  <2> QED BY <1>10, <2>1 DEF Tick
<1>11. CASE UNCHANGED vars
  BY <1>11 DEF vars
<1> QED BY <1>1, <1>2, <1>3, <1>4, <1>5, <1>6, <1>7, <1>8, <1>9, <1>10, <1>11 DEF Next

\* Files, rows and uploads stay with received segments, and those of a storage
\* that was left stay dropped.
LEMMA KnownStep ==
  TypeOK /\ Listing /\ Known /\ StaleDropped /\ [Next]_vars => Known' /\ StaleDropped'
<1> SUFFICES ASSUME TypeOK, Listing, Known, StaleDropped, [Next]_vars
             PROVE  Known' /\ StaleDropped'
  OBVIOUS
<1> USE WalAssumption DEF TypeOK, Known, StaleDropped
<1>1. CASE StartSession \/ RecoveryDone \/ SkipSegment \/ ReceiverExits \/ Drain
  <2>1. CASE SkipSegment
    <3>1. \A s \in received : s \in Int /\ next \in Int
      BY DEF Segments
    <3> QED BY <2>1, <3>1 DEF SkipSegment
  <2>2. CASE StartSession
    BY <2>2 DEF StartSession
  <2>3. CASE RecoveryDone \/ ReceiverExits \/ Drain
    BY <2>3 DEF RecoveryDone, ReceiverExits, Drain
  <2> QED BY <1>1, <2>1, <2>2, <2>3
<1>2. CASE Stop \/ StopStale
  BY <1>2, IdleType DEF Stop, StopStale
<1>3. CASE Receive
  BY <1>3 DEF Receive, Segments
<1>4. ASSUME NEW floor \in 1..N + 1, Spawn(floor) PROVE Known' /\ StaleDropped'
  BY <1>4 DEF Spawn
<1>5. CASE StartUploads
  <2>1. UNCHANGED <<local, row, received, next, current, dropped>>
    BY <1>5 DEF StartUploads
  <2> QED BY <1>5, <2>1, StartMove
<1>6. ASSUME NEW s \in Segments, UploadStep(s) PROVE Known' /\ StaleDropped'
  <2>1. s \in received
    BY <1>6, StepIsLocal
  <2>2. /\ UNCHANGED <<next, received, current, dropped>>
        /\ \A t \in Segments : t # s => /\ local'[t] = local[t] /\ row'[t] = row[t]
                                        /\ upload'[t] = upload[t]
    BY <1>6, StepFacts, StepIsLocal DEF Only
  <2> QED BY <2>1, <2>2
<1>7. CASE Reap \/ SwitchStorage
  BY <1>7 DEF Reap, SwitchStorage
<1>8. ASSUME NEW last \in Segments, DeleteChain(last) PROVE Known' /\ StaleDropped'
  <2>1. /\ \A s \in Segments : row'[s] # "none" => row[s] # "none"
        /\ dropped \subseteq dropped'
        /\ UNCHANGED <<next, received, local, upload, current>>
    BY <1>8 DEF DeleteChain
  <2> QED BY <2>1
<1>9. CASE Tick
  <2>1. \A s \in Segments : upload'[s].phase = upload[s].phase
    BY <1>9 DEF Tick, Uploads
  <2> QED BY <1>9, <2>1 DEF Tick
<1>10. CASE UNCHANGED vars
  BY <1>10 DEF vars
<1> QED BY <1>1, <1>2, <1>3, <1>4, <1>5, <1>6, <1>7, <1>8, <1>9, <1>10 DEF Next

-----------------------------------------------------------------------------
(* Claims and archived segments.                                             *)

\* What the steps of one upload make of its claim and of its row.
LEMMA StepClaims ==
  ASSUME TypeOK, ArchivedIsFinal, OwnClaim, DoneArchived, NEW s \in Segments, UploadStep(s)
  PROVE  /\ row'[s] = "file" => upload'[s].phase # "uploading"
         /\ upload'[s].phase = "uploading" /\ ~upload'[s].reused =>
              (row'[s] = "claim" /\ age'[s] <= upload'[s].time) \/ s \in dropped
         /\ upload'[s].phase \in {"committed", "gapQueue", "gapRow", "removing"} =>
              row'[s] = "file" \/ s \in dropped
<1> USE DEF TypeOK
<1>1. CASE Claim(s)
  <2>1. upload[s].time \in Nat
    BY WalAssumption DEF Uploads
  <2> QED BY <1>1, <2>1, Shapes DEF Claim, Moves
<1>2. CASE ClaimFails(s) \/ ResolveFails(s) \/ UploadFails(s) \/ CommitErrs(s) \/ Remove(s)
  BY <1>2, Shapes DEF Ends
<1>3. CASE Resolve(s)
  BY <1>3, Shapes DEF Resolve, Ends, TakesOver
<1>4. CASE Commit(s)
  BY <1>4, Shapes DEF Commit, Ends, Moves
<1>5. CASE ProbeArchive(s) \/ ProbeQueue(s) \/ ProbeRow(s) \/ ProbeFails(s)
  <2>1. /\ row'[s] = row[s]
        /\ upload[s].phase \in {"committed", "gapQueue", "gapRow"}
        /\ upload'[s].phase \in {"gapQueue", "gapRow", "removing"}
    BY <1>5, Shapes DEF ProbeArchive, ProbeQueue, ProbeRow, ProbeFails, Moves
  <2> QED BY <2>1 DEF DoneArchived
<1> QED BY <1>1, <1>2, <1>3, <1>4, <1>5 DEF UploadStep

\* Archived segments stay final, uploads keep the claims they inserted, and
\* what was committed stays archived until its chain goes.
LEMMA ArchiveStep ==
  TypeOK /\ Listing /\ Known /\ ArchivedIsFinal /\ OwnClaim /\ DoneArchived /\ [Next]_vars
    => ArchivedIsFinal' /\ OwnClaim' /\ DoneArchived'
<1> SUFFICES ASSUME TypeOK, Listing, Known, ArchivedIsFinal, OwnClaim, DoneArchived,
                    [Next]_vars
             PROVE  ArchivedIsFinal' /\ OwnClaim' /\ DoneArchived'
  OBVIOUS
<1>0. /\ \A s \in Segments : upload[s].time \in 0..Timeout /\ age[s] \in 0..Grace + 1
      /\ Timeout \in Nat /\ Grace \in Nat /\ Timeout <= Grace
  BY WalAssumption DEF TypeOK, Uploads
<1> USE DEF ArchivedIsFinal, OwnClaim, DoneArchived
<1>1. CASE StartSession \/ RecoveryDone \/ SkipSegment \/ ReceiverExits \/ Drain
  BY <1>1 DEF StartSession, RecoveryDone, SkipSegment, ReceiverExits, Drain
<1>2. CASE Stop \/ StopStale
  BY <1>2, IdleType DEF Stop, StopStale
<1>3. CASE Receive
  BY <1>3 DEF Receive
<1>4. ASSUME NEW floor \in 1..N + 1, Spawn(floor)
      PROVE  ArchivedIsFinal' /\ OwnClaim' /\ DoneArchived'
  BY <1>4 DEF Spawn
<1>5. CASE StartUploads
  <2>1. UNCHANGED <<row, age, dropped>>
    BY <1>5 DEF StartUploads
  <2> QED BY <1>5, <2>1, StartMove
<1>6. ASSUME NEW s \in Segments, UploadStep(s)
      PROVE  ArchivedIsFinal' /\ OwnClaim' /\ DoneArchived'
  <2>1. /\ UNCHANGED dropped
        /\ \A t \in Segments : t # s => /\ row'[t] = row[t] /\ age'[t] = age[t]
                                        /\ upload'[t] = upload[t]
    BY <1>6, StepFacts, StepIsLocal DEF Only
  <2>2. /\ row'[s] = "file" => upload'[s].phase # "uploading"
        /\ upload'[s].phase = "uploading" /\ ~upload'[s].reused =>
             (row'[s] = "claim" /\ age'[s] <= upload'[s].time) \/ s \in dropped
        /\ upload'[s].phase \in {"committed", "gapQueue", "gapRow", "removing"} =>
             row'[s] = "file" \/ s \in dropped
    BY <1>6, StepClaims
  <2> QED BY <2>1, <2>2
<1>7. CASE Reap
  <2>1. /\ UNCHANGED <<upload, dropped>>
        /\ \A s \in Segments : row'[s] = "file" => row[s] = "file"
        /\ \A s \in Segments : row[s] = "file" => row'[s] = "file"
        /\ \A s \in Segments : row[s] = "claim" /\ age[s] <= Grace =>
             row'[s] = row[s] /\ age'[s] = age[s]
    BY <1>0, <1>7 DEF Reap, Aged, TypeOK
  <2>2. \A s \in Segments : age[s] <= upload[s].time => age[s] <= Grace
    BY <1>0
  <2> QED BY <2>1, <2>2
<1>8. CASE SwitchStorage
  <2>1. /\ UNCHANGED upload /\ \A s \in Segments : row'[s] = "none"
        /\ \A s \in Segments : upload[s].phase # "idle" => s \in dropped'
    BY <1>8 DEF SwitchStorage, Known
  <2> QED BY <2>1
<1>9. ASSUME NEW last \in Segments, DeleteChain(last)
      PROVE  ArchivedIsFinal' /\ OwnClaim' /\ DoneArchived'
  <2>1. /\ UNCHANGED upload /\ dropped \subseteq dropped'
        /\ \A s \in Segments : \/ row'[s] = row[s] /\ age'[s] = age[s]
                               \/ row'[s] = "none" /\ s \in dropped'
    BY <1>9 DEF DeleteChain
  <2> QED BY <2>1
<1>10. CASE Tick
  <2>1. /\ UNCHANGED <<row, dropped>>
        /\ \A s \in Segments : row[s] = "claim" => age'[s] <= age[s] + 1
        /\ \A s \in Segments : /\ upload'[s].phase = upload[s].phase
                               /\ upload'[s].reused = upload[s].reused
                               /\ upload[s].phase = "uploading" =>
                                    upload'[s].time = upload[s].time + 1
                               /\ age'[s] \in Nat
    BY <1>0, <1>10 DEF Tick, Older, Uploads, TypeOK
  <2> QED BY <1>0, <2>1
<1>11. CASE UNCHANGED vars
  BY <1>11 DEF vars
<1> QED BY <1>1, <1>2, <1>3, <1>4, <1>5, <1>6, <1>7, <1>8, <1>9, <1>10, <1>11 DEF Next

-----------------------------------------------------------------------------
(* Gap alerts.                                                               *)

\* What the steps of one upload make of its probe.
LEMMA StepProbes ==
  ASSUME TypeOK, Known, Probing, NEW s \in Segments, UploadStep(s)
  PROVE  /\ upload'[s].phase \in {"gapQueue", "gapRow"} => s - 1 \in Segments
         /\ upload'[s].phase = "gapRow" => local[s - 1] = "none"
         /\ \/ alerts' = alerts
            \/ /\ alerts' = alerts \cup {s} /\ s \in received /\ s - 1 \in Segments
               /\ local[s - 1] = "none" /\ row[s - 1] = "none"
<1> USE DEF TypeOK
<1>1. CASE Claim(s)
  BY <1>1, Shapes DEF Claim, Moves
<1>2. CASE ClaimFails(s) \/ ResolveFails(s) \/ UploadFails(s) \/ CommitErrs(s) \/ Remove(s)
  BY <1>2, Shapes DEF Ends, ClaimFails, ResolveFails, UploadFails, CommitErrs, Remove
<1>3. CASE Resolve(s) \/ Commit(s)
  BY <1>3, Shapes DEF Resolve, Commit, Ends, Moves, TakesOver
<1>4. CASE ProbeArchive(s)
  <2>1. CASE Moves(s, "removing")
    BY <1>4, <2>1 DEF ProbeArchive, Moves
  <2>2. CASE Moves(s, "gapQueue") /\ ~Moves(s, "removing")
    <3>1. ArchivedBefore(s) # {}
      BY <1>4, <2>2, PhaseMove DEF ProbeArchive, Phases
    <3>2. s - 1 \in Segments
      BY <3>1, WalAssumption DEF ArchivedBefore, Segments
    <3> QED BY <1>4, <2>2, <3>2 DEF ProbeArchive, Moves
  <2> QED BY <1>4, <2>1, <2>2, Shapes
<1>5. CASE ProbeQueue(s)
  <2>1. s - 1 \in Segments
    BY <1>5 DEF ProbeQueue, Probing
  <2>2. CASE s - 1 \in Queued
    <3>1. Moves(s, "removing")
      BY <1>5, <2>2, PhaseMove DEF ProbeQueue, Phases
    <3> QED BY <1>5, <3>1 DEF ProbeQueue, Moves
  <2>3. CASE s - 1 \notin Queued
    BY <1>5, <2>1, <2>3 DEF ProbeQueue, Queued
  <2> QED BY <2>2, <2>3
<1>6. CASE ProbeRow(s)
  BY <1>6, Shapes DEF ProbeRow, Moves, Probing, Known
<1>7. CASE ProbeFails(s)
  BY <1>7, Shapes DEF ProbeFails, Moves
<1> QED BY <1>1, <1>2, <1>3, <1>4, <1>5, <1>6, <1>7 DEF UploadStep

\* Alerts stay true, and a probe's look at the queue stays valid.
LEMMA GapStep ==
  TypeOK /\ Listing /\ Known /\ BegunQueued /\ Probing /\ AlertsKnown /\ GapAlertsTrue
    /\ [Next]_vars => Probing' /\ AlertsKnown' /\ GapAlertsTrue'
<1> SUFFICES ASSUME TypeOK, Listing, Known, BegunQueued, Probing, AlertsKnown,
                    GapAlertsTrue, [Next]_vars
             PROVE  Probing' /\ AlertsKnown' /\ GapAlertsTrue'
  OBVIOUS
<1>0. /\ \A s \in Segments : s \in Int /\ s - 1 # s
      /\ next \in Int
  BY WalAssumption DEF TypeOK, Segments
<1> USE DEF Probing, AlertsKnown, GapAlertsTrue, Missing
<1>1. CASE StartSession \/ RecoveryDone \/ SkipSegment \/ ReceiverExits \/ Drain
  BY <1>1 DEF StartSession, RecoveryDone, SkipSegment, ReceiverExits, Drain
<1>2. CASE Stop \/ StopStale
  BY <1>2, IdleType DEF Stop, StopStale, Queued
<1>3. CASE Receive
  <2>1. \A s \in Segments : s # next => local'[s] = local[s]
    BY <1>3 DEF Receive, TypeOK
  <2>2. \A s \in received : s - 1 # next
    BY <1>0 DEF Known, TypeOK
  <2>3. /\ received' = received \cup {next} /\ dropped \subseteq dropped'
        /\ UNCHANGED <<row, upload, alerts>>
    BY <1>3 DEF Receive
  <2>4. \A s \in Segments : upload[s].phase = "gapRow" => s \in received
    BY DEF Known
  <2> QED BY <2>1, <2>2, <2>3, <2>4
<1>4. ASSUME NEW floor \in 1..N + 1, Spawn(floor)
      PROVE  Probing' /\ AlertsKnown' /\ GapAlertsTrue'
  <2>1. \A s \in Segments : local[s] = "none" => local'[s] = "none"
    BY <1>4 DEF Spawn
  <2> QED BY <1>4, <2>1 DEF Spawn
<1>5. CASE StartUploads
  <2>1. UNCHANGED <<row, local, received, dropped, alerts>>
    BY <1>5 DEF StartUploads
  <2> QED BY <1>5, <2>1, StartMove
<1>6. ASSUME NEW s \in Segments, UploadStep(s)
      PROVE  Probing' /\ AlertsKnown' /\ GapAlertsTrue'
  <2>1. /\ UNCHANGED <<received, dropped>>
        /\ \A t \in Segments : t # s => upload'[t] = upload[t] /\ row'[t] = row[t]
    BY <1>6, StepFacts, StepIsLocal DEF Only
  <2>2. \A t \in Segments : local[t] = "none" => local'[t] = "none"
    BY <1>6, StepFacts
  <2>3. \A t \in Segments : local[t] = "none" /\ row[t] = "none" => row'[t] = "none"
    BY <1>6, StepFacts DEF BegunQueued
  <2>4. /\ upload'[s].phase \in {"gapQueue", "gapRow"} => s - 1 \in Segments
        /\ upload'[s].phase = "gapRow" => local[s - 1] = "none"
        /\ \/ alerts' = alerts
           \/ /\ alerts' = alerts \cup {s} /\ s \in received /\ s - 1 \in Segments
              /\ local[s - 1] = "none" /\ row[s - 1] = "none"
    BY <1>6, StepProbes
  <2>5. Probing'
    BY <2>1, <2>2, <2>4
  <2>6. AlertsKnown'
    BY <2>1, <2>4
  <2>7. GapAlertsTrue'
    BY <2>1, <2>2, <2>3, <2>4
  <2> QED BY <2>5, <2>6, <2>7
<1>7. CASE Reap \/ SwitchStorage
  <2>1. /\ \A s \in Segments : row[s] = "none" => row'[s] = "none"
        /\ dropped \subseteq dropped' /\ UNCHANGED <<received, local, upload, alerts>>
    BY <1>7 DEF Reap, SwitchStorage
  <2> QED BY <2>1
<1>8. ASSUME NEW last \in Segments, DeleteChain(last)
      PROVE  Probing' /\ AlertsKnown' /\ GapAlertsTrue'
  <2>1. /\ \A s \in Segments : row[s] = "none" => row'[s] = "none"
        /\ dropped \subseteq dropped' /\ UNCHANGED <<received, local, upload, alerts>>
    BY <1>8 DEF DeleteChain
  <2> QED BY <2>1
<1>9. CASE Tick
  <2>1. \A s \in Segments : upload'[s].phase = upload[s].phase
    BY <1>9 DEF Tick, Uploads, TypeOK
  <2> QED BY <1>9, <2>1 DEF Tick
<1>10. CASE UNCHANGED vars
  BY <1>10 DEF vars
<1> QED BY <1>1, <1>2, <1>3, <1>4, <1>5, <1>6, <1>7, <1>8, <1>9, <1>10 DEF Next

-----------------------------------------------------------------------------
(* The limit on concurrent uploads.                                          *)

\* Sets of segments are finite, and a part of one has no more elements.
LEMMA SegmentSets ==
  ASSUME NEW S \in SUBSET Segments
  PROVE  /\ IsFiniteSet(S) /\ Cardinality(S) \in Nat
         /\ \A T \in SUBSET S : Cardinality(T) <= Cardinality(S)
<1>1. IsFiniteSet(Segments)
  BY FS_Interval, WalAssumption DEF Segments
<1>2. IsFiniteSet(S)
  BY <1>1, FS_Subset
<1> QED BY <1>2, FS_Subset, FS_CardinalityType

\* A set of segments that is not empty has a last one.
LEMMA LastSegment ==
  ASSUME NEW S \in SUBSET Segments, S # {}
  PROVE  \E m \in S : \A s \in S : s <= m
<1> DEFINE T == {N - s : s \in S}
<1>1. T \subseteq Nat /\ T # {}
  <2>1. \A s \in S : N - s \in Nat
    BY WalAssumption DEF Segments
  <2>2. PICK s \in S : TRUE
    OBVIOUS
  <2>3. N - s \in T
    BY <2>2
  <2> QED BY <2>1, <2>3
<1>2. PICK x \in T : \A y \in T : ~(<<y, x>> \in OpToRel(<, Nat))
  BY <1>1, NatLessThanWellFounded, WFMin
<1>3. PICK m \in S : x = N - m
  OBVIOUS
<1>4. ASSUME NEW s \in S PROVE s <= m
  <2>1. N - s \in T /\ N - s \in Nat /\ x \in Nat
    BY <1>1
  <2>2. ~(N - s < x)
    BY <1>2, <2>1 DEF OpToRel
  <2> QED BY <1>3, <2>1, <2>2, WalAssumption DEF Segments
<1> QED BY <1>4

\* The first k segments of a set are at most k.
LEMMA LowestBound ==
  ASSUME NEW S \in SUBSET Segments, NEW k \in Nat
  PROVE  Cardinality(Lowest(S, k)) <= k
<1> DEFINE L == Lowest(S, k)
<1>1. L \in SUBSET Segments /\ L \subseteq S
  BY DEF Lowest
<1>2. CASE L = {}
  BY <1>2, FS_EmptySet
<1>3. CASE L # {}
  <2>1. PICK m \in L : \A s \in L : s <= m
    BY <1>1, <1>3, LastSegment
  <2> DEFINE B == {t \in S : t < m}
  <2>2. Cardinality(B) < k
    BY <2>1 DEF Lowest
  <2>3. IsFiniteSet(B) /\ Cardinality(B) \in Nat
    BY SegmentSets
  <2>4. L \in SUBSET (B \cup {m})
    <3>1. \A s \in L : s \in Int /\ m \in Int
      BY <1>1 DEF Segments
    <3> QED BY <1>1, <2>1, <3>1
  <2>5. IsFiniteSet(B \cup {m}) /\ Cardinality(B \cup {m}) <= Cardinality(B) + 1
    <3> HIDE DEF B
    <3>1. /\ IsFiniteSet(B \cup {m})
          /\ Cardinality(B \cup {m}) = IF m \in B THEN Cardinality(B) ELSE Cardinality(B) + 1
      BY <2>3, FS_AddElement
    <3> QED BY <2>3, <3>1
  <2>6. Cardinality(B \cup {m}) \in Nat /\ Cardinality(L) \in Nat
    BY <1>1, <2>5, SegmentSets, FS_CardinalityType
  <2>7. Cardinality(L) <= Cardinality(B \cup {m})
    BY <2>4, <2>5, FS_Subset
  <2> HIDE DEF L, B
  <2>8. Cardinality(L) <= k
    BY <2>2, <2>3, <2>5, <2>6, <2>7
  <2> QED BY <2>8 DEF L
<1> QED BY <1>2, <1>3

\* No step starts more uploads than the limit leaves room for.
LEMMA LimitStep ==
  TypeOK /\ Listing /\ UploadsWithinLimit /\ [Next]_vars => UploadsWithinLimit'
<1> SUFFICES ASSUME TypeOK, Listing, UploadsWithinLimit, [Next]_vars
             PROVE  UploadsWithinLimit'
  OBVIOUS
<1>1. /\ InFlight \in SUBSET Segments /\ InFlight' \in SUBSET Segments
      /\ Cardinality(InFlight) \in Nat /\ Cardinality(InFlight') \in Nat
      /\ Cardinality(InFlight) <= MaxUploads /\ MaxUploads \in Nat
  BY SegmentSets, WalAssumption DEF InFlight, UploadsWithinLimit
<1>2. ASSUME InFlight' \subseteq InFlight PROVE UploadsWithinLimit'
  <2>1. Cardinality(InFlight') <= Cardinality(InFlight)
    BY <1>1, <1>2, SegmentSets
  <2> QED BY <1>1, <2>1 DEF UploadsWithinLimit
<1>3. CASE StartUploads
  <2> DEFINE room == IF Cardinality(InFlight) < MaxUploads
                     THEN MaxUploads - Cardinality(InFlight) ELSE 0
             started == Lowest(Startable, room)
  <2>1. Startable \in SUBSET Segments
    BY DEF Startable, Queued, TypeOK
  <2>2. room \in Nat /\ Cardinality(InFlight) + room <= MaxUploads
    BY <1>1
  <2>3. /\ started \in SUBSET Segments /\ Cardinality(started) \in Nat
        /\ Cardinality(started) <= room
    BY <2>1, <2>2, LowestBound, SegmentSets DEF Lowest
  <2>4. InFlight' \subseteq InFlight \cup started
    BY <1>3 DEF StartUploads, InFlight
  <2> HIDE DEF room, started
  <2>5. /\ IsFiniteSet(InFlight) /\ IsFiniteSet(started)
        /\ InFlight \cup started \in SUBSET Segments
        /\ Cardinality(InFlight \cap started) \in Nat
    BY <1>1, <2>3, SegmentSets
  <2>6. Cardinality(InFlight \cup started)
          = Cardinality(InFlight) + Cardinality(started) - Cardinality(InFlight \cap started)
    BY <2>5, FS_Union
  <2>7. Cardinality(InFlight') <= Cardinality(InFlight \cup started)
    BY <2>4, <2>5, SegmentSets
  <2> QED BY <1>1, <2>2, <2>3, <2>5, <2>6, <2>7 DEF UploadsWithinLimit
<1>4. ASSUME NEW s \in Segments, UploadStep(s) PROVE UploadsWithinLimit'
  <2>1. InFlight' \subseteq InFlight
    BY <1>4, StepIsLocal DEF Only, InFlight
  <2> QED BY <1>2, <2>1
<1>5. CASE Stop \/ StopStale
  <2>1. InFlight' \subseteq InFlight
    BY <1>5, IdleType DEF Stop, StopStale, InFlight
  <2> QED BY <1>2, <2>1
<1>6. CASE Tick
  <2>1. InFlight' \subseteq InFlight
    BY <1>6 DEF Tick, InFlight, Uploads, TypeOK
  <2> QED BY <1>2, <2>1
<1>7. CASE UNCHANGED upload
  <2>1. InFlight' \subseteq InFlight
    BY <1>7 DEF InFlight
  <2> QED BY <1>2, <2>1
<1>8. CASE \/ StartSession \/ RecoveryDone \/ Receive \/ SkipSegment \/ ReceiverExits
           \/ Drain \/ (\E floor \in 1..N + 1 : Spawn(floor)) \/ Reap \/ SwitchStorage
           \/ (\E last \in Segments : DeleteChain(last)) \/ UNCHANGED vars
  <2>1. UNCHANGED upload
    BY <1>8 DEF StartSession, RecoveryDone, Receive, SkipSegment, ReceiverExits, Drain,
                Spawn, Reap, SwitchStorage, DeleteChain, vars
  <2> QED BY <1>7, <2>1
<1> QED BY <1>3, <1>4, <1>5, <1>6, <1>8 DEF Next

-----------------------------------------------------------------------------
(* Segments that are lost.                                                   *)

\* A step loses a segment only at the end of an upload that took over a claim.
LEMMA LossStep ==
  TypeOK /\ Known /\ StaleDropped /\ OwnClaim /\ DoneArchived /\ [Next]_vars
    => \A s \in received : Safe(s) => Safe(s)' \/ upload[s].reused
<1> SUFFICES ASSUME TypeOK, Known, StaleDropped, OwnClaim, DoneArchived, [Next]_vars,
                    NEW s \in received, Safe(s), ~upload[s].reused
             PROVE  Safe(s)'
  OBVIOUS
<1>0. s \in Segments
  BY DEF TypeOK
<1> USE <1>0 DEF Safe, Queued, TypeOK
<1>1. CASE \/ StartSession \/ RecoveryDone \/ Stop \/ SkipSegment \/ ReceiverExits \/ Drain
           \/ StartUploads \/ Tick \/ UNCHANGED vars
  BY <1>1 DEF StartSession, RecoveryDone, Stop, SkipSegment, ReceiverExits, Drain,
              StartUploads, Tick, vars
<1>2. CASE StopStale
  BY <1>2 DEF StopStale
<1>3. CASE Receive
  BY <1>3 DEF Receive
<1>4. ASSUME NEW floor \in 1..N + 1, Spawn(floor) PROVE Safe(s)'
  BY <1>4 DEF Spawn
<1>5. ASSUME NEW t \in Segments, UploadStep(t) PROVE Safe(s)'
  <2>1. CASE s # t
    BY <1>5, <2>1, StepFacts
  <2>2. CASE s = t
    <3>1. CASE Claim(s) \/ ClaimFails(s) \/ ResolveFails(s)
      BY <3>1 DEF Claim, ClaimFails, ResolveFails
    <3>2. CASE Resolve(s)
      BY <3>2 DEF Resolve, RemoveLocal
    <3>3. CASE UploadFails(s) \/ CommitErrs(s)
      BY <3>3 DEF UploadFails, CommitErrs
    <3>4. CASE Commit(s)
      BY <3>4 DEF Commit, OwnClaim, StaleDropped
    <3>5. CASE ProbeArchive(s) \/ ProbeQueue(s) \/ ProbeRow(s) \/ ProbeFails(s)
      BY <3>5 DEF ProbeArchive, ProbeQueue, ProbeRow, ProbeFails
    <3>6. CASE Remove(s)
      BY <3>6 DEF Remove, DoneArchived
    <3> QED BY <1>5, <2>2, <3>1, <3>2, <3>3, <3>4, <3>5, <3>6 DEF UploadStep
  <2> QED BY <2>1, <2>2
<1>6. CASE Reap
  BY <1>6 DEF Reap, Aged
<1>7. CASE SwitchStorage
  BY <1>7 DEF SwitchStorage
<1>8. ASSUME NEW last \in Segments, DeleteChain(last) PROVE Safe(s)'
  BY <1>8 DEF DeleteChain
<1> QED BY <1>1, <1>2, <1>3, <1>4, <1>5, <1>6, <1>7, <1>8 DEF Next

-----------------------------------------------------------------------------
(* The theorems.                                                             *)

IInv ==
    /\ TypeOK /\ Listing /\ DownIdle /\ BegunQueued
    /\ Known /\ StaleDropped
    /\ ArchivedIsFinal /\ OwnClaim /\ DoneArchived
    /\ Probing /\ AlertsKnown /\ GapAlertsTrue
    /\ UploadsWithinLimit

\* The invariant holds in the initial states.
LEMMA InitInv == Init => IInv
<1> SUFFICES ASSUME Init PROVE IInv
  OBVIOUS
<1> USE WalAssumption DEF Init
<1>1. TypeOK
  BY IdleType DEF TypeOK, Segments, Places
<1>2. \A s \in Segments : upload[s].phase = "idle"
  BY IdleType
<1>3. Listing /\ DownIdle /\ BegunQueued /\ StaleDropped
  BY <1>2 DEF Listing, DownIdle, BegunQueued, StaleDropped
<1>4. Known
  BY <1>2 DEF Known, Segments
<1>5. ArchivedIsFinal /\ OwnClaim /\ DoneArchived /\ Probing /\ AlertsKnown /\ GapAlertsTrue
  BY <1>2 DEF ArchivedIsFinal, OwnClaim, DoneArchived, Probing, AlertsKnown, GapAlertsTrue
<1>6. UploadsWithinLimit
  <2>1. InFlight = {}
    BY <1>2 DEF InFlight
  <2> QED BY <2>1, FS_EmptySet DEF UploadsWithinLimit
<1> QED BY <1>1, <1>3, <1>4, <1>5, <1>6 DEF IInv

\* Every step keeps the invariant.
LEMMA InvStep == IInv /\ [Next]_vars => IInv'
BY TypeStep, SessionStep, KnownStep, ArchiveStep, GapStep, LimitStep DEF IInv

\* The invariant holds in every reachable state.
LEMMA Invariance == Spec => []IInv
BY InitInv, InvStep, PTL DEF Spec

\* Every variable keeps its type, and the recovery's listing ends with it.
THEOREM TypeCorrect == Spec => []TypeOK
<1>1. IInv => TypeOK
  BY DEF IInv
<1> QED BY <1>1, Invariance, PTL

\* The dispatchers of the recovery and of the uploader loop never have more
\* uploads under way than maxConcurrentSegmentUploads.
THEOREM LimitKept == Spec => []UploadsWithinLimit
<1>1. IInv => UploadsWithinLimit
  BY DEF IInv
<1> QED BY <1>1, Invariance, PTL

\* An archived segment is never uploaded again, whatever copy a crash, a failed
\* commit or a set-aside file left in the queue.
THEOREM ArchiveIsFinal == Spec => []ArchivedIsFinal
<1>1. IInv => ArchivedIsFinal
  BY DEF IInv
<1> QED BY <1>1, Invariance, PTL

\* A reported gap is a gap: the predecessor was never received, was removed
\* with its chain, or is neither queued nor catalogued.
THEOREM AlertsTrue == Spec => []GapAlertsTrue
<1>1. IInv => GapAlertsTrue
  BY DEF IInv
<1> QED BY <1>1, Invariance, PTL

\* A received segment is lost only by an upload that took over the claim of an
\* earlier session.  The grace period is not shorter than the upload timeout,
\* so the cleaner never reaps the claim an upload inserted itself.
THEOREM LossNeedsTakeover == Spec => LossOnlyByTakeover
<1>1. IInv /\ [Next]_vars => [\A s \in received : Safe(s) => Safe(s)' \/ upload[s].reused]_vars
  BY LossStep DEF IInv
<1> QED BY <1>1, Invariance, PTL DEF Spec, LossOnlyByTakeover
=============================================================================
