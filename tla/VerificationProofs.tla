------------------------- MODULE VerificationProofs -------------------------
(* Proofs about Verification, for every set of runs and agents, every number  *)
(* of attempts, jobs, backups and disturbances, and every disk.               *)
EXTENDS Verification, FiniteSetTheorems, WellFoundedInduction, TLAPS

-----------------------------------------------------------------------------
(* The inductive invariant.                                                  *)

Live == Active \cup Finished

\* A run is of a backup that still exists and has an attempt; an id that waits for
\* its run was never handed out.
RowShape ==
    \A v \in Verifications :
        /\ rows[v].status \in Live =>
             rows[v].attempt \in Attempts /\ rows[v].backup \in Completed
        /\ rows[v].status = "unused" => claims[v] = 0

\* A job belongs to an agent and reports a verdict; it reports success only after
\* it has restored the backup of its run.
JobFacts ==
    \A v \in Verifications : \A n \in Attempts :
        /\ jobs[v][n].phase # "none" => jobs[v][n].agent \in Agents
        /\ jobs[v][n].phase = "reporting" => jobs[v][n].verdict \in AllVerdicts
        /\ jobs[v][n].phase = "reporting" /\ jobs[v][n].verdict = "ok" => v \in restored

\* The same for a report that outlives its sender.
StrayFacts == \A s \in strays : s.verdict = "ok" => s.key[1] \in restored

\* Whoever gives up a run has read it running, and waiting if nobody claimed it.
DoomedFacts ==
    \A d \in doomed :
        d.row.status = IF d.reason = "UNCLAIMED_TOO_LONG" THEN "PENDING" ELSE "RUNNING"

\* What the attempt of a run says of the times it was handed out.
AttemptsMatch ==
    \A v \in Verifications :
        /\ rows[v].status = "PENDING" => claims[v] = rows[v].attempt - 1
        /\ rows[v].status \in {"RUNNING", "COMPLETED"} => claims[v] = rows[v].attempt
        /\ rows[v].status = "FAILED" =>
             claims[v] = IF rows[v].message = "unclaimed" THEN rows[v].attempt - 1
                         ELSE rows[v].attempt
        /\ rows[v].status = "CANCELED" => claims[v] \in {rows[v].attempt - 1, rows[v].attempt}

\* What shows that a backup may be given this verification status.
Backed(b, status) ==
    /\ status = "VERIFIED_SUCCESSFUL" =>
         \E v \in restored : rows[v].backup = b /\ rows[v].status = "COMPLETED"
    /\ status = "VERIFICATION_FAILED" =>
         \E v \in Verifications : rows[v].backup = b /\ rows[v].status = "FAILED"

\* A status that a hook is yet to write is backed, unless its backup was removed.
HooksBacked == \A h \in hooks : backups[h.backup] = "removed" \/ Backed(h.backup, h.status)

\* One manual and one scheduled run at most are under way.
OneActive ==
    \A v, w \in Verifications :
        /\ rows[v].status \in Active /\ rows[w].status \in Active
        /\ rows[v].trigger = rows[w].trigger /\ rows[v].trigger \in {"MANUAL", "SCHEDULED"}
        => v = w

IInv == /\ TypeOK /\ RowShape /\ JobFacts /\ StrayFacts /\ DoomedFacts
        /\ AttemptsMatch /\ HooksBacked /\ BackupStatusBacked /\ OneActive

-----------------------------------------------------------------------------
(* How a step moves the row of a run.                                        *)

SameClaims(v) == claims'[v] = claims[v]

\* A user, the scheduler or a completed backup starts a run.
Created(v) ==
    /\ rows[v].status = "unused" /\ SameClaims(v)
    /\ \E b \in Completed, trigger \in {"MANUAL", "SCHEDULED", "AFTER_BACKUP"} :
         /\ rows'[v] = NewPending(b, trigger)
         /\ trigger # "AFTER_BACKUP" =>
              ~HasActive(trigger) /\ \A w \in Verifications : w # v => rows'[w] = rows[w]

\* An agent is handed the run.
Claimed(v) ==
    /\ rows[v].status = "PENDING" /\ claims'[v] = claims[v] + 1
    /\ \E a \in Agents :
         rows'[v] = [rows[v] EXCEPT !.status = "RUNNING", !.agent = a, !.aged = FALSE]

\* The run is taken back, with a next attempt to give away.
TakenBack(v) ==
    /\ rows[v].status = "RUNNING" /\ rows[v].attempt < MaxAgentSideAttempts /\ SameClaims(v)
    /\ rows'[v] = Requeued(rows[v])

\* The run ends.
Ended(v) ==
    /\ SameClaims(v)
    /\ \E message \in {"none", "byUser", "scheduleDisabled", "superseded", "unclaimed", "failure"},
          n \in 0..MaxAgentSideAttempts :
         \/ /\ rows[v].status = "RUNNING"
            /\ rows'[v] = Terminal(rows[v], "COMPLETED", message, n)
         \/ /\ rows[v].status = (IF message = "unclaimed" THEN "PENDING" ELSE "RUNNING")
            /\ rows'[v] = Terminal(rows[v], "FAILED", message, n)
         \/ /\ rows[v].status \in Active
            /\ rows'[v] = Terminal(rows[v], "CANCELED", message, n)

\* The row becomes too old for something.
Aged(v) == rows[v].status \in Live /\ rows'[v] = [rows[v] EXCEPT !.aged = TRUE] /\ SameClaims(v)

\* The row goes with its backup.
Removed(v) ==
    /\ rows'[v] = NoRow("removed") /\ SameClaims(v)
    /\ rows[v].backup \in Completed /\ backups'[rows[v].backup] = "removed"

Stays(v) == rows'[v] = rows[v] /\ SameClaims(v)

Moves(v) == \/ Stays(v) \/ Created(v) \/ Claimed(v) \/ TakenBack(v) \/ Ended(v) \/ Aged(v)
            \/ Removed(v)


-----------------------------------------------------------------------------
(* The actions, and what they do to rows, hooks and jobs.                     *)

\* The actions of Next, one by one.
LEMMA Actions ==
  ASSUME [Next]_vars
  PROVE  \/ \E w \in Verifications, b \in Completed : StartVerification(w, b)
         \/ \E w \in Verifications : CancelVerification(w)
         \/ \E choice \in Schedules : SaveConfig(choice)
         \/ \E a \in Agents : DeleteAgent(a)
         \/ \E b \in 1..MaxBackups : CompleteBackup(b)
         \/ \E b \in 1..MaxBackups : OnLogicalBackupsDeleting(b)
         \/ OnLogicalBackupCompleted
         \/ ScheduleVerificationForCompletedBackup
         \/ \E a \in Agents, w \in Verifications : ClaimVerification(a, w)
         \/ \E k \in JobKeys : TrackVerification(k)
         \/ \E k \in JobKeys : GetBackupFile(k)
         \/ \E k \in JobKeys : FinishWork(k)
         \/ \E k \in JobKeys : Report(k)
         \/ \E k \in JobKeys : AbandonReport(k)
         \/ \E k \in JobKeys : UntrackVerification(k)
         \/ \E s \in strays : LateReport(s)
         \/ \E h \in hooks : SyncBackupVerificationStatus(h)
         \/ \E a \in Agents : SendHeartbeat(a)
         \/ \E a \in Agents : AbortVerifications(a)
         \/ \E a \in Agents : LoseAnswer(a)
         \/ \E d \in doomed : RequeueOrFail(d)
         \/ CreateScheduledRuns
         \/ CreateScheduledRun
         \/ ReapStaleRuns
         \/ ListDisabled
         \/ EndPass
         \/ \E w \in todo : CancelForDisabledSchedule(w)
         \/ StageFails
         \/ \E w \in Verifications : RowAges(w)
         \/ SlotComes
         \/ \E a \in Agents : ContactLapses(a)
         \/ \E a \in Agents : AgentStops(a)
         \/ \E a \in Agents : AgentStarts(a)
         \/ ServerRestarts
         \/ UNCHANGED vars
BY DEF Next, UserStep, JobStep, HeartbeatStep, PassStep

\* Rows and history are functions still, and every row makes a move.
MovesAll ==
    /\ rows' = [v \in Verifications |-> rows'[v]]
    /\ claims' = [v \in Verifications |-> claims'[v]]
    /\ \A v \in Verifications : Moves(v)

\* A cancel ends an active run and touches nothing else.
LEMMA CancelMoves ==
  ASSUME TypeOK, NEW w \in Verifications, NEW message \in {"byUser", "scheduleDisabled"},
         rows' = MarkCanceled(w, message), UNCHANGED claims
  PROVE  MovesAll
<1> USE DEF TypeOK, MovesAll, Moves
<1>1. CASE rows[w].status \in Active
  <2>1. rows' = [rows EXCEPT ![w] = Terminal(rows[w], "CANCELED", message, 0)]
    BY <1>1 DEF MarkCanceled
  <2>2. Ended(w)
    BY <1>1, <2>1, NumbersAssumption DEF Ended, SameClaims
  <2> QED BY <2>1, <2>2 DEF Stays, SameClaims
<1>2. CASE rows[w].status \notin Active
  BY <1>2 DEF MarkCanceled, Stays, SameClaims
<1> QED BY <1>1, <1>2

\* A failure takes a running run back or ends it; a run nobody claimed is ended.
LEMMA RequeueMoves ==
  ASSUME TypeOK, NEW w \in Verifications, NEW reason \in FailureReasons,
         NEW n \in 0..MaxAgentSideAttempts,
         rows[w].status = IF reason = "UNCLAIMED_TOO_LONG" THEN "PENDING" ELSE "RUNNING",
         RequeueOrFailLocked(w, reason, n), UNCHANGED claims
  PROVE  MovesAll
<1> USE DEF TypeOK, MovesAll, Moves
<1>1. CASE /\ ShouldRequeueAgentSide(reason, rows[w].attempt)
           /\ rows' = [rows EXCEPT ![w] = Requeued(rows[w])]
  <2>1. TakenBack(w)
    BY <1>1 DEF TakenBack, SameClaims, ShouldRequeueAgentSide, IsAgentSideFailure
  <2> QED BY <1>1, <2>1 DEF Stays, SameClaims
<1>2. CASE rows' = [rows EXCEPT ![w] =
                      Terminal(rows[w], "FAILED", FailureMessageFor(reason), n)]
  <2>1. /\ FailureMessageFor(reason) \in {"unclaimed", "failure"}
        /\ FailureMessageFor(reason) = "unclaimed" <=> reason = "UNCLAIMED_TOO_LONG"
    BY DEF FailureMessageFor
  <2>2. Ended(w)
    BY <1>2, <2>1 DEF Ended, SameClaims
  <2> QED BY <1>2, <2>2 DEF Stays, SameClaims
<1> QED BY <1>1, <1>2 DEF RequeueOrFailLocked, CommitOutcome

\* A report moves the run of its owner.
LEMMA ReportMoves ==
  ASSUME TypeOK, NEW w \in Verifications, NEW n \in Attempts, NEW a,
         NEW verdict \in AllVerdicts, SubmitReport(w, n, a, verdict), UNCHANGED claims
  PROVE  MovesAll
<1>1. CASE UNCHANGED runVars
  BY <1>1 DEF TypeOK, MovesAll, Moves, Stays, SameClaims, runVars
<1>2. CASE /\ IsOwnedBy(w, a) /\ verdict # "ok"
           /\ RequeueOrFailLocked(w, ClassifyAgentReport(verdict),
                                  IF IsFailedReport(verdict) THEN n ELSE 0)
  <2>1. ClassifyAgentReport(verdict) \in FailureReasons \ {"UNCLAIMED_TOO_LONG"}
    BY <1>2 DEF ClassifyAgentReport, FailureReasons, AllVerdicts
  <2>2. (IF IsFailedReport(verdict) THEN n ELSE 0) \in 0..MaxAgentSideAttempts
    BY NumbersAssumption DEF Attempts
  <2> QED BY <1>2, <2>1, <2>2, RequeueMoves DEF IsOwnedBy
<1>3. CASE /\ IsOwnedBy(w, a)
           /\ CommitOutcome(w, Terminal(rows[w], "COMPLETED", "none", 0), "VERIFIED_SUCCESSFUL")
  <2>1. rows' = [rows EXCEPT ![w] = Terminal(rows[w], "COMPLETED", "none", 0)]
    BY <1>3 DEF CommitOutcome
  <2>2. Ended(w)
    BY <1>3, <2>1, NumbersAssumption DEF Ended, SameClaims, IsOwnedBy, TypeOK
  <2> QED BY <2>1, <2>2 DEF TypeOK, MovesAll, Moves, Stays, SameClaims
<1> QED BY <1>1, <1>2, <1>3 DEF SubmitReport


\* Every step moves every row in one of these ways.
LEMMA RowMoves ==
  ASSUME TypeOK, JobFacts, DoomedFacts, [Next]_vars
  PROVE  MovesAll
<1> USE DEF TypeOK, JobFacts, DoomedFacts, MovesAll, Moves, SameClaims, runVars,
      passVars, agentVars, serverVars
<1>1. ASSUME NEW w \in Verifications, NEW b \in Completed, StartVerification(w, b)
      PROVE  MovesAll
  <2>1. /\ rows' = [rows EXCEPT ![w] = NewPending(b, "MANUAL")] /\ UNCHANGED claims
        /\ ~HasActive("MANUAL") /\ rows[w].status = "unused"
    BY <1>1 DEF StartVerification
  <2>2. Created(w)
    BY <2>1 DEF Created
  <2> QED BY <2>1, <2>2 DEF Stays
<1>2. ASSUME NEW w \in Verifications, CancelVerification(w) PROVE MovesAll
  <2>1. rows' = MarkCanceled(w, "byUser") /\ UNCHANGED claims
    BY <1>2 DEF CancelVerification
  <2> QED BY <2>1, CancelMoves
<1>3. ASSUME NEW b \in 1..MaxBackups, OnLogicalBackupsDeleting(b) PROVE MovesAll
  <2>1. backups'[b] = "removed" /\ b \in Completed /\ UNCHANGED claims
    BY <1>3 DEF OnLogicalBackupsDeleting
  <2>2. rows' = [w \in Verifications |->
                   IF rows[w].backup = b THEN NoRow("removed") ELSE rows[w]]
    BY <1>3 DEF OnLogicalBackupsDeleting
  <2>3. \A v \in Verifications : Removed(v) \/ Stays(v)
    BY <2>1, <2>2 DEF Removed, Stays
  <2> QED BY <2>1, <2>2, <2>3
<1>4. CASE ScheduleVerificationForCompletedBackup
  <2>1. CASE UNCHANGED rows
    BY <1>4, <2>1 DEF ScheduleVerificationForCompletedBackup, Stays
  <2>2. ASSUME MayTakeOver, NEW u \in Verifications, rows[u].status = "unused",
               rows' = [w \in Verifications |->
                    IF w = u THEN NewPending(takeover.backup, "AFTER_BACKUP")
                    ELSE IF w \in takeover.runs
                         THEN Terminal(rows[w], "CANCELED", "superseded", 0) ELSE rows[w]]
        PROVE  MovesAll
    <3>1. UNCHANGED claims
      BY <1>4 DEF ScheduleVerificationForCompletedBackup
    <3>2. Created(u)
      BY <2>2, <3>1 DEF Created, MayTakeOver
    <3>3. ASSUME NEW v \in Verifications, v # u PROVE Ended(v) \/ Stays(v)
      <4>1. v \in takeover.runs => rows[v].status \in Active
        BY <2>2 DEF MayTakeOver
      <4>2. CASE v \in takeover.runs
        <5>1. rows'[v] = Terminal(rows[v], "CANCELED", "superseded", 0)
          BY <2>2, <3>3, <4>2
        <5>2. 0 \in 0..MaxAgentSideAttempts
          BY NumbersAssumption
        <5> QED BY <3>1, <4>1, <4>2, <5>1, <5>2 DEF Ended
      <4>3. CASE v \notin takeover.runs
        BY <2>2, <3>1, <3>3, <4>3 DEF Stays
      <4> QED BY <4>2, <4>3
    <3> QED BY <2>2, <3>1, <3>2, <3>3
  <2> QED BY <1>4, <2>1, <2>2 DEF ScheduleVerificationForCompletedBackup
<1>5. ASSUME NEW a \in Agents, NEW w \in Verifications, ClaimVerification(a, w)
      PROVE  MovesAll
  <2>1. /\ rows' = [rows EXCEPT ![w].status = "RUNNING", ![w].agent = a, ![w].aged = FALSE]
        /\ claims' = [claims EXCEPT ![w] = @ + 1] /\ rows[w].status = "PENDING"
    BY <1>5 DEF ClaimVerification
  <2>2. rows'[w] = [rows[w] EXCEPT !.status = "RUNNING", !.agent = a, !.aged = FALSE]
    BY <2>1
  <2>3. Claimed(w)
    BY <2>1, <2>2 DEF Claimed
  <2> QED BY <2>1, <2>3 DEF Stays
<1>6. ASSUME NEW k \in JobKeys, Report(k) PROVE MovesAll
  <2>1. /\ SubmitReport(k[1], k[2], JobAt(k).agent, JobAt(k).verdict)
        /\ UNCHANGED claims /\ k[1] \in Verifications /\ k[2] \in Attempts
        /\ JobAt(k).verdict \in AllVerdicts
    BY <1>6 DEF Report, JobAt, JobKeys
  <2> QED BY <2>1, ReportMoves
<1>7. ASSUME NEW s \in strays, LateReport(s) PROVE MovesAll
  <2>1. s.key[1] \in Verifications /\ s.key[2] \in Attempts /\ s.verdict \in AllVerdicts
    BY <1>7 DEF JobKeys
  <2>2. CASE contact[s.agent] = "deleted"
    BY <1>7, <2>2 DEF LateReport, Stays
  <2>3. CASE contact[s.agent] # "deleted"
    BY <1>7, <2>1, <2>3, ReportMoves DEF LateReport
  <2> QED BY <2>2, <2>3
<1>8. ASSUME NEW d \in doomed, RequeueOrFail(d) PROVE MovesAll
  <2>1. CASE UNCHANGED runVars
    BY <1>8, <2>1 DEF RequeueOrFail, Stays
  <2>2. CASE IsUnchanged(d.row) /\ RequeueOrFailLocked(d.row.ver, d.reason, 0)
    <3>1. /\ d.row.ver \in Verifications /\ d.reason \in FailureReasons
          /\ 0 \in 0..MaxAgentSideAttempts /\ UNCHANGED claims
      BY <1>8, NumbersAssumption DEF RequeueOrFail, Snapshot
    <3>2. rows[d.row.ver].status = d.row.status
      BY <2>2 DEF IsUnchanged, SnapshotOf
    <3> QED BY <1>8, <2>2, <3>1, <3>2, RequeueMoves
  <2> QED BY <1>8, <2>1, <2>2 DEF RequeueOrFail
<1>9. CASE CreateScheduledRun
  <2>1. CASE UNCHANGED rows
    BY <1>9, <2>1 DEF CreateScheduledRun, Stays
  <2>2. ASSUME MayCreateScheduledRun, NEW w \in Verifications, rows[w].status = "unused",
               rows' = [rows EXCEPT ![w] = NewPending(plan, "SCHEDULED")]
        PROVE  MovesAll
    <3>1. UNCHANGED claims
      BY <1>9 DEF CreateScheduledRun
    <3>2. Created(w)
      BY <2>2, <3>1 DEF Created, MayCreateScheduledRun
    <3> QED BY <2>2, <3>1, <3>2 DEF Stays
  <2> QED BY <1>9, <2>1, <2>2 DEF CreateScheduledRun
<1>10. ASSUME NEW w \in todo, CancelForDisabledSchedule(w) PROVE MovesAll
  <2>1. rows' = MarkCanceled(w, "scheduleDisabled") /\ UNCHANGED claims /\ w \in Verifications
    BY <1>10 DEF CancelForDisabledSchedule
  <2> QED BY <2>1, CancelMoves
<1>11. ASSUME NEW w \in Verifications, RowAges(w) PROVE MovesAll
  <2>1. /\ rows' = [rows EXCEPT ![w].aged = TRUE] /\ UNCHANGED claims
        /\ rows[w].status \in Active
    BY <1>11 DEF RowAges
  <2>2. Aged(w)
    BY <2>1 DEF Aged, Live
  <2> QED BY <2>1, <2>2 DEF Stays
<1>12. CASE SlotComes
  <2>1. /\ UNCHANGED claims
        /\ rows' = [v \in Verifications |-> IF rows[v].status \in Finished
                                          THEN [rows[v] EXCEPT !.aged = TRUE] ELSE rows[v]]
    BY <1>12 DEF SlotComes
  <2>2. \A v \in Verifications : Aged(v) \/ Stays(v)
    BY <2>1 DEF Aged, Stays, Live
  <2> QED BY <2>1, <2>2
<1>13. CASE UNCHANGED <<rows, claims>>
  BY <1>13 DEF Stays
<1>14. CASE \/ \E choice \in Schedules : SaveConfig(choice)
            \/ \E a \in Agents : DeleteAgent(a) \/ SendHeartbeat(a)
                 \/ AbortVerifications(a) \/ LoseAnswer(a) \/ ContactLapses(a)
                 \/ AgentStops(a) \/ AgentStarts(a)
            \/ \E b \in 1..MaxBackups : CompleteBackup(b)
            \/ OnLogicalBackupCompleted \/ CreateScheduledRuns \/ ReapStaleRuns
              \/ ListDisabled \/ EndPass \/ StageFails \/ ServerRestarts
            \/ \E k \in JobKeys : TrackVerification(k) \/ GetBackupFile(k)
                 \/ FinishWork(k) \/ AbandonReport(k) \/ UntrackVerification(k)
            \/ \E h \in hooks : SyncBackupVerificationStatus(h)
  BY <1>14, <1>13 DEF SaveConfig, DeleteAgent, CompleteBackup,
    OnLogicalBackupCompleted, TrackVerification, GetBackupFile, FinishWork,
    AbandonReport, UntrackVerification, SyncBackupVerificationStatus, SendHeartbeat,
    AbortVerifications, LoseAnswer, CreateScheduledRuns, ReapStaleRuns, ListDisabled,
    EndPass, StageFails, ContactLapses, AgentStops, AgentStarts, ServerRestarts
<1>15. CASE UNCHANGED vars
  BY <1>15, <1>13 DEF vars
<1> QED BY <1>1, <1>2, <1>3, <1>4, <1>5, <1>6, <1>7, <1>8, <1>9, <1>10, <1>11, <1>12,
      <1>13, <1>14, <1>15, Actions

-----------------------------------------------------------------------------
(* Type correctness.                                                         *)

\* A set of backups that is not empty has a newest one.
LEMMA NewestBackup ==
  ASSUME NEW S \in SUBSET (1..MaxBackups), S # {}
  PROVE  Max(S) \in S
<1> DEFINE T == {MaxBackups - b : b \in S}
<1>1. T \subseteq Nat /\ T # {}
  <2>1. \A b \in S : MaxBackups - b \in Nat
    BY NumbersAssumption
  <2> QED BY <2>1
<1>2. PICK x \in T : \A y \in T : ~(<<y, x>> \in OpToRel(<, Nat))
  BY <1>1, NatLessThanWellFounded, WFMin
<1>3. PICK m \in S : x = MaxBackups - m
  OBVIOUS
<1>4. ASSUME NEW b \in S PROVE m >= b
  <2>1. MaxBackups - b \in T /\ MaxBackups - b \in Nat /\ x \in Nat
    BY <1>1
  <2>2. ~(MaxBackups - b < x)
    BY <1>2, <2>1 DEF OpToRel
  <2> QED BY <1>3, <2>1, <2>2, NumbersAssumption
<1> QED BY <1>4 DEF Max

\* What the repository and the agents write are rows.
LEMMA RowTypes ==
  ASSUME NEW r \in Row
  PROVE  /\ \A a \in Agents :
              [r EXCEPT !.status = "RUNNING", !.agent = a, !.aged = FALSE] \in Row
         /\ r.attempt < MaxAgentSideAttempts => Requeued(r) \in Row
         /\ \A status \in Finished, n \in 0..MaxAgentSideAttempts :
              \A message \in {"none", "byUser", "scheduleDisabled", "superseded",
                              "unclaimed", "failure"} :
                Terminal(r, status, message, n) \in Row
         /\ [r EXCEPT !.aged = TRUE] \in Row
         /\ NoRow("removed") \in Row
         /\ \A b \in 1..MaxBackups, trigger \in {"MANUAL", "SCHEDULED", "AFTER_BACKUP"} :
              NewPending(b, trigger) \in Row
<1> USE NumbersAssumption DEF Row, Active, Finished
<1>1. ASSUME NEW a \in Agents
      PROVE  [r EXCEPT !.status = "RUNNING", !.agent = a, !.aged = FALSE] \in Row
  OBVIOUS
<1>2. ASSUME r.attempt < MaxAgentSideAttempts PROVE Requeued(r) \in Row
  <2> DEFINE next == r.attempt + 1
  <2>1. next \in 0..MaxAgentSideAttempts /\ 0 \in 0..MaxAgentSideAttempts
    BY <1>2
  <2>2. Requeued(r) = [r EXCEPT !.status = "PENDING", !.agent = NoAgent, !.aged = FALSE,
                                !.attempt = next, !.message = "none", !.diagnostic = 0]
    BY DEF Requeued
  <2> HIDE DEF next
  <2> QED BY <2>1, <2>2
<1>3. ASSUME NEW status \in Finished, NEW n \in 0..MaxAgentSideAttempts,
             NEW message \in {"none", "byUser", "scheduleDisabled", "superseded",
                              "unclaimed", "failure"}
      PROVE  Terminal(r, status, message, n) \in Row
  BY DEF Terminal
<1>4. [r EXCEPT !.aged = TRUE] \in Row /\ NoRow("removed") \in Row
  <2>1. [r EXCEPT !.aged = TRUE] \in Row
    OBVIOUS
  <2>2. 0 \in 0..MaxBackups /\ 0 \in 0..MaxAgentSideAttempts
    OBVIOUS
  <2>3. NoRow("removed") \in Row
    BY <2>2 DEF NoRow
  <2> QED BY <2>1, <2>3
<1>5. ASSUME NEW b \in 1..MaxBackups, NEW trigger \in {"MANUAL", "SCHEDULED", "AFTER_BACKUP"}
      PROVE  NewPending(b, trigger) \in Row
  <2>1. /\ 0 \in 0..MaxBackups /\ 0 \in 0..MaxAgentSideAttempts /\ 1 \in 0..MaxAgentSideAttempts
        /\ b \in 0..MaxBackups /\ trigger \in {"MANUAL", "SCHEDULED", "AFTER_BACKUP", "none"}
    OBVIOUS
  <2> DEFINE fresh == NoRow("PENDING")
  <2>2. fresh \in Row
    BY <2>1 DEF NoRow
  <2>3. NewPending(b, trigger) = [fresh EXCEPT !.trigger = trigger, !.backup = b, !.attempt = 1]
    BY DEF NewPending
  <2> HIDE DEF fresh
  <2> QED BY <2>1, <2>2, <2>3
<1> QED BY <1>1, <1>2, <1>3, <1>4, <1>5

\* The newest completed backup is a backup.
LEMMA NewestCompleted ==
  ASSUME Completed # {}
  PROVE  Max(Completed) \in 0..MaxBackups
<1>1. Completed \subseteq 1..MaxBackups
  BY DEF Completed
<1>2. Max(Completed) \in 1..MaxBackups
  BY <1>1, NewestBackup
<1> QED BY <1>2, NumbersAssumption

\* What the takeover holds while there is none.
LEMMA NoTakeoverType == NoTakeover \in [backup : 0..MaxBackups, runs : SUBSET Verifications]
BY NumbersAssumption DEF NoTakeover

\* A moved row is a row, and the history counts on.
LEMMA MoveTypes ==
  ASSUME TypeOK, MovesAll
  PROVE  rows' \in [Verifications -> Row] /\ claims' \in [Verifications -> Nat]
<1> SUFFICES ASSUME NEW v \in Verifications PROVE rows'[v] \in Row /\ claims'[v] \in Nat
  BY DEF MovesAll
<1>1. rows[v] \in Row /\ claims[v] \in Nat /\ Moves(v) /\ Completed \subseteq 1..MaxBackups
  BY DEF TypeOK, MovesAll, Completed
<1>2. claims'[v] \in Nat
  <2>1. claims'[v] = claims[v] \/ claims'[v] = claims[v] + 1
    BY <1>1 DEF Moves, SameClaims, Stays, Created, Claimed, TakenBack, Ended, Aged, Removed
  <2> QED BY <1>1, <2>1
<1>3. rows'[v] \in Row
  <2>1. CASE Stays(v) \/ Aged(v) \/ Removed(v)
    BY <1>1, <2>1, RowTypes DEF Stays, Aged, Removed
  <2>2. CASE Created(v)
    BY <1>1, <2>2, RowTypes DEF Created
  <2>3. CASE Claimed(v)
    BY <1>1, <2>3, RowTypes DEF Claimed
  <2>4. CASE TakenBack(v)
    BY <1>1, <2>4, RowTypes DEF TakenBack
  <2>5. CASE Ended(v)
    <3>1. {"COMPLETED", "FAILED", "CANCELED"} = Finished
      BY DEF Finished
    <3> QED BY <1>1, <2>5, <3>1, RowTypes DEF Ended
  <2> QED BY <1>1, <2>1, <2>2, <2>3, <2>4, <2>5 DEF Moves
<1> QED BY <1>2, <1>3

\* What a change of one job leaves.
LEMMA OneJob ==
  ASSUME TypeOK, NEW k \in JobKeys, NEW job \in Job, SetJob(k, job)
  PROVE  /\ jobs' \in [Verifications -> [Attempts -> Job]]
         /\ \A v \in Verifications : \A n \in Attempts :
              jobs'[v][n] = IF v = k[1] /\ n = k[2] THEN job ELSE jobs[v][n]
BY DEF TypeOK, JobKeys, SetJob

\* The jobs that an agent sets are jobs.
LEMMA JobTypes ==
  ASSUME TypeOK, NEW k \in JobKeys
  PROVE  /\ JobAt(k) \in Job /\ NoJob \in Job
         /\ \A phase \in {"prepared", "restoring"} :
              [JobAt(k) EXCEPT !.phase = phase] \in Job
         /\ [NoJob EXCEPT !.agent = JobAt(k).agent, !.phase = "closing"] \in Job
         /\ \A verdict \in AllVerdicts :
              [NoJob EXCEPT !.agent = JobAt(k).agent, !.phase = "reporting",
                            !.verdict = verdict] \in Job
         /\ \A a \in Agents : [NoJob EXCEPT !.agent = a, !.phase = "assigned"] \in Job
<1>1. JobAt(k) \in Job
  BY DEF TypeOK, JobAt, JobKeys
<1> QED BY <1>1 DEF NoJob, Job

\* What a step may do to the jobs: one of them starts, works, reports or ends, some
\* are canceled, or some go with their agent.
JobMove(v, n) ==
    \/ jobs'[v][n] = jobs[v][n]
    \/ jobs'[v][n] = NoJob
    \/ \E a \in Agents : jobs'[v][n] = [NoJob EXCEPT !.agent = a, !.phase = "assigned"]
    \/ /\ jobs[v][n].phase # "none"
       /\ \/ \E phase \in {"prepared", "restoring"} :
               jobs'[v][n] = [jobs[v][n] EXCEPT !.phase = phase]
          \/ jobs'[v][n] = [NoJob EXCEPT !.agent = jobs[v][n].agent, !.phase = "closing"]
          \/ \E verdict \in AllVerdicts :
               /\ jobs'[v][n] = [NoJob EXCEPT !.agent = jobs[v][n].agent,
                                              !.phase = "reporting", !.verdict = verdict]
               /\ verdict = "ok" => v \in restored'
          \/ /\ jobs[v][n].phase \in Working
             /\ jobs'[v][n] = [jobs[v][n] EXCEPT !.isCanceled = TRUE]

JobMoves ==
    /\ jobs' \in [Verifications -> [Attempts -> Job]]
    /\ \A v \in Verifications : \A n \in Attempts : JobMove(v, n)
    /\ restored \subseteq restored' /\ restored' \subseteq Verifications

\* A change of one job is one of them, if it is one for that job.
LEMMA SetJobMoves ==
  ASSUME TypeOK, NEW k \in JobKeys, NEW job \in Job, SetJob(k, job),
         restored \subseteq restored', restored' \subseteq Verifications,
         jobs'[k[1]][k[2]] = job => JobMove(k[1], k[2])
  PROVE  JobMoves
<1>1. k[1] \in Verifications /\ k[2] \in Attempts
  BY DEF JobKeys
<1>2. /\ jobs' \in [Verifications -> [Attempts -> Job]]
      /\ \A v \in Verifications : \A n \in Attempts :
           jobs'[v][n] = IF v = k[1] /\ n = k[2] THEN job ELSE jobs[v][n]
  BY OneJob
<1>3. ASSUME NEW v \in Verifications, NEW n \in Attempts PROVE JobMove(v, n)
  <2>1. CASE v = k[1] /\ n = k[2]
    BY <1>1, <1>2, <2>1
  <2>2. CASE ~(v = k[1] /\ n = k[2])
    BY <1>2, <2>2 DEF JobMove
  <2> QED BY <2>1, <2>2
<1> QED BY <1>2, <1>3 DEF JobMoves

\* Closing a job is one of them.
LEMMA CloseMoves ==
  ASSUME TypeOK, NEW k \in JobKeys, CloseJob(k), JobAt(k).phase # "none",
         restored \subseteq restored', restored' \subseteq Verifications
  PROVE  JobMoves
<1> DEFINE job == [NoJob EXCEPT !.agent = JobAt(k).agent, !.phase = "closing"]
<1>1. job \in Job /\ SetJob(k, job)
  BY JobTypes DEF CloseJob
<1>2. jobs'[k[1]][k[2]] = job => JobMove(k[1], k[2])
  BY DEF JobMove, JobAt
<1> HIDE DEF job
<1> QED BY <1>1, <1>2, SetJobMoves

\* The other parts of the types.
ServerTypes ==
    /\ backups \in [1..MaxBackups -> {"none", "removed", "NOT_VERIFIED",
                                      "VERIFIED_SUCCESSFUL", "VERIFICATION_FAILED"}]
    /\ announced \in BOOLEAN
    /\ takeover \in [backup : 0..MaxBackups, runs : SUBSET Verifications]
    /\ automatic \in AllSchedules
    /\ contact \in [Agents -> {"fresh", "stale", "deleted"}]

PassTypes == pass \in 1..4 /\ plan \in 0..MaxBackups /\ todo \subseteq Verifications

Hooks == [ver : Verifications, backup : 1..MaxBackups,
          status : {"VERIFIED_SUCCESSFUL", "VERIFICATION_FAILED"}]

Doomed == [row : Snapshot, reason : FailureReasons, by : Agents \cup {NoAgent}]

AgentTypes ==
    /\ up \subseteq Agents
    /\ registry \in [Agents -> [Verifications -> 0..MaxAgentSideAttempts]]
    /\ lastAbort \in [Agents -> SUBSET Verifications]
    /\ beat \in [Agents -> [phase : {"idle", "handled"}, abort : SUBSET Verifications]]
    /\ strays \subseteq [key : JobKeys, agent : Agents, verdict : AllVerdicts]

DoomedRead == doomed \subseteq Doomed /\ DoomedFacts

DisturbanceType == disturbances \in 0..MaxDisturbances

\* The list of a run that is about to be given up.
LEMMA DoomedType ==
  ASSUME TypeOK, RowShape, NEW v \in Verifications, rows[v].status \in Active,
         NEW reason \in FailureReasons, NEW by \in Agents \cup {NoAgent}
  PROVE  [row |-> SnapshotOf(v), reason |-> reason, by |-> by] \in Doomed
<1>1. rows[v] \in Row /\ rows[v].attempt \in Attempts
  BY DEF TypeOK, RowShape, Live
<1>2. SnapshotOf(v) \in Snapshot
  BY <1>1 DEF SnapshotOf, Snapshot, Row
<1> QED BY <1>2 DEF Doomed

\* A hook that a report or a failure leaves is backed by the row it has just written.
HooksMove ==
    /\ hooks' \subseteq Hooks
    /\ \A h \in hooks' : h \in hooks \/ Backed(h.backup, h.status)'

\* The outcome of a run and its hook.
LEMMA OutcomeHook ==
  ASSUME TypeOK, RowShape, NEW w \in Verifications, rows[w].status \in Live,
         UNCHANGED restored, NEW message, NEW n,
         \/ /\ CommitOutcome(w, Terminal(rows[w], "COMPLETED", message, n), "VERIFIED_SUCCESSFUL")
            /\ w \in restored
         \/ CommitOutcome(w, Terminal(rows[w], "FAILED", message, n), "VERIFICATION_FAILED")
  PROVE  HooksMove
<1>1. rows[w] \in Row /\ rows[w].backup \in 1..MaxBackups /\ rows \in [Verifications -> Row]
      /\ hooks \subseteq Hooks
  BY DEF TypeOK, RowShape, Completed, Hooks
<1>2. ASSUME NEW status,
             CommitOutcome(w, Terminal(rows[w], status, message, n), "VERIFIED_SUCCESSFUL")
             \/ CommitOutcome(w, Terminal(rows[w], status, message, n), "VERIFICATION_FAILED")
      PROVE  rows'[w].backup = rows[w].backup /\ rows'[w].status = status
             /\ Terminal(rows[w], status, message, n).backup = rows[w].backup
  <2>1. /\ Terminal(rows[w], status, message, n).backup = rows[w].backup
        /\ Terminal(rows[w], status, message, n).status = status
    BY <1>1 DEF Terminal, Row
  <2>2. rows' = [rows EXCEPT ![w] = Terminal(rows[w], status, message, n)]
    BY <1>2 DEF CommitOutcome
  <2> QED BY <1>1, <2>1, <2>2
<1>3. CASE /\ CommitOutcome(w, Terminal(rows[w], "COMPLETED", message, n), "VERIFIED_SUCCESSFUL")
           /\ w \in restored
  <2> DEFINE h == [ver |-> w, backup |-> rows[w].backup, status |-> "VERIFIED_SUCCESSFUL"]
  <2>1. hooks' = hooks \cup {h} /\ rows'[w].backup = rows[w].backup
        /\ rows'[w].status = "COMPLETED"
    BY <1>2, <1>3 DEF CommitOutcome
  <2>2. h \in Hooks /\ Backed(h.backup, h.status)'
    BY <1>1, <1>3, <2>1 DEF Hooks, Backed
  <2> QED BY <1>1, <2>1, <2>2 DEF HooksMove
<1>4. CASE CommitOutcome(w, Terminal(rows[w], "FAILED", message, n), "VERIFICATION_FAILED")
  <2> DEFINE h == [ver |-> w, backup |-> rows[w].backup, status |-> "VERIFICATION_FAILED"]
  <2>1. hooks' = hooks \cup {h} /\ rows'[w].backup = rows[w].backup
        /\ rows'[w].status = "FAILED"
    BY <1>2, <1>4 DEF CommitOutcome
  <2>2. h \in Hooks /\ Backed(h.backup, h.status)'
    BY <1>1, <2>1 DEF Hooks, Backed
  <2> QED BY <1>1, <2>1, <2>2 DEF HooksMove
<1> QED BY <1>3, <1>4

\* A failure and its hook.
LEMMA RequeueHook ==
  ASSUME TypeOK, RowShape, NEW w \in Verifications, rows[w].status \in Live,
         UNCHANGED restored, NEW reason, NEW n, RequeueOrFailLocked(w, reason, n)
  PROVE  HooksMove
<1>1. CASE UNCHANGED hooks
  BY <1>1 DEF HooksMove, TypeOK, Hooks
<1> QED BY <1>1, OutcomeHook DEF RequeueOrFailLocked

\* A report and its hook.
LEMMA ReportHook ==
  ASSUME TypeOK, RowShape, NEW w \in Verifications, UNCHANGED restored,
         NEW n, NEW a, NEW verdict, verdict = "ok" => w \in restored,
         SubmitReport(w, n, a, verdict)
  PROVE  HooksMove
<1>1. CASE UNCHANGED runVars
  BY <1>1 DEF HooksMove, TypeOK, Hooks, runVars
<1>2. CASE IsOwnedBy(w, a)
  <2>1. rows[w].status \in Live
    BY <1>2 DEF IsOwnedBy, Live, Active
  <2> QED BY <1>1, <1>2, <2>1, OutcomeHook, RequeueHook DEF SubmitReport
<1> QED BY <1>1, <1>2 DEF SubmitReport

\* After a stage comes a stage.
LEMMA NextStage ==
  ASSUME NEW stage \in Stages, Reaches(stage)
  PROVE  pass' \in 1..4
<1>1. pass' = 1 + (stage % 4)
  BY DEF Reaches
<1>2. stage = 1 \/ stage = 2 \/ stage = 3 \/ stage = 4
  BY DEF Stages
<1> QED BY <1>1, <1>2


\* Every step moves every job in one of these ways.
LEMMA JobsStep ==
  ASSUME TypeOK, RowShape, [Next]_vars
  PROVE  JobMoves
<1> USE DEF TypeOK, RowShape, JobMoves, runVars, passVars, agentVars, serverVars
<1>1. ASSUME NEW a \in Agents, NEW w \in Verifications, ClaimVerification(a, w)
      PROVE  JobMoves
  <2>1. UNCHANGED restored
    BY <1>1 DEF ClaimVerification
  <2>2. <<w, rows[w].attempt>> \in JobKeys
    BY <1>1 DEF ClaimVerification, Active, Live, JobKeys
  <2> DEFINE job == [NoJob EXCEPT !.agent = a, !.phase = "assigned"]
  <2>3. UNCHANGED jobs \/ SetJob(<<w, rows[w].attempt>>, job)
    BY <1>1 DEF ClaimVerification, SetJob
  <2>4. CASE UNCHANGED jobs
    BY <2>1, <2>4 DEF JobMove
  <2>5. job \in Job /\ (jobs'[w][rows[w].attempt] = job => JobMove(w, rows[w].attempt))
    BY DEF NoJob, Job, JobMove
  <2> HIDE DEF job, JobMoves
  <2>6. CASE SetJob(<<w, rows[w].attempt>>, job)
    BY <2>1, <2>2, <2>5, <2>6, SetJobMoves
  <2> QED BY <2>3, <2>4, <2>6
<1>2. ASSUME NEW k \in JobKeys, TrackVerification(k) PROVE JobMoves
  <2>1. /\ SetJob(k, [JobAt(k) EXCEPT !.phase = "prepared"])
        /\ JobAt(k).phase = "assigned" /\ UNCHANGED restored
    BY <1>2 DEF TrackVerification, MoveJob
  <2>2. jobs'[k[1]][k[2]] = [JobAt(k) EXCEPT !.phase = "prepared"] => JobMove(k[1], k[2])
    BY <2>1 DEF JobMove, JobAt
  <2> QED BY <2>1, <2>2, SetJobMoves, JobTypes
<1>3. ASSUME NEW k \in JobKeys, GetBackupFile(k) PROVE JobMoves
  <2>1. JobAt(k).phase = "prepared" /\ UNCHANGED restored
    BY <1>3 DEF GetBackupFile
  <2>2. CASE SetJob(k, [JobAt(k) EXCEPT !.phase = "restoring"])
    <3>1. jobs'[k[1]][k[2]] = [JobAt(k) EXCEPT !.phase = "restoring"] => JobMove(k[1], k[2])
      BY <2>1 DEF JobMove, JobAt
    <3> QED BY <2>1, <2>2, <3>1, SetJobMoves, JobTypes
  <2>3. CASE CloseJob(k)
    BY <2>1, <2>3, CloseMoves
  <2> QED BY <1>3, <2>2, <2>3 DEF GetBackupFile, MoveJob
<1>4. ASSUME NEW k \in JobKeys, FinishWork(k) PROVE JobMoves
  <2>1. JobAt(k).phase # "none" /\ k[1] \in Verifications
    BY <1>4 DEF FinishWork, Working, JobKeys
  <2>2. CASE CloseJob(k) /\ UNCHANGED restored
    BY <2>1, <2>2, CloseMoves
  <2>3. ASSUME NEW verdict \in PossibleVerdicts(k),
               IF IsFailedReport(verdict) /\ ShouldSkipFailedReport(k) THEN CloseJob(k)
               ELSE SetJob(k, [NoJob EXCEPT !.agent = JobAt(k).agent, !.phase = "reporting",
                                            !.verdict = verdict]),
               restored' = IF verdict = "ok" THEN restored \cup {k[1]} ELSE restored
        PROVE  JobMoves
    <3> DEFINE job == [NoJob EXCEPT !.agent = JobAt(k).agent, !.phase = "reporting",
                                    !.verdict = verdict]
    <3>1. restored \subseteq restored' /\ restored' \subseteq Verifications
      BY <2>1, <2>3
    <3>2. CASE CloseJob(k)
      BY <2>1, <3>1, <3>2, CloseMoves
    <3>3. verdict \in AllVerdicts /\ job \in Job
      BY ChoiceAssumption, JobTypes DEF PossibleVerdicts
    <3>4. jobs'[k[1]][k[2]] = job => JobMove(k[1], k[2])
      BY <2>1, <2>3, <3>3 DEF JobMove, JobAt
    <3>5. CASE SetJob(k, job)
      BY <3>1, <3>3, <3>4, <3>5, SetJobMoves
    <3> QED BY <2>3, <3>2, <3>5
  <2> QED BY <1>4, <2>2, <2>3 DEF FinishWork
<1>5. ASSUME NEW k \in JobKeys, Report(k) PROVE JobMoves
  <2>1. /\ CloseJob(k) \/ UNCHANGED jobs
        /\ JobAt(k).phase = "reporting" /\ UNCHANGED restored
    BY <1>5 DEF Report
  <2>2. CASE UNCHANGED jobs
    BY <2>1, <2>2 DEF JobMove
  <2> QED BY <2>1, <2>2, CloseMoves
<1>6. ASSUME NEW k \in JobKeys, AbandonReport(k) PROVE JobMoves
  <2>1. CloseJob(k) /\ JobAt(k).phase = "reporting" /\ UNCHANGED restored
    BY <1>6 DEF AbandonReport
  <2> QED BY <2>1, CloseMoves
<1>7. ASSUME NEW k \in JobKeys, UntrackVerification(k) PROVE JobMoves
  <2>1. SetJob(k, NoJob) /\ UNCHANGED restored
    BY <1>7 DEF UntrackVerification
  <2>2. jobs'[k[1]][k[2]] = NoJob => JobMove(k[1], k[2])
    BY DEF JobMove
  <2> QED BY <2>1, <2>2, SetJobMoves, JobTypes
<1>8. ASSUME NEW a \in Agents, AbortVerifications(a) PROVE JobMoves
  <2>1. UNCHANGED restored
    BY <1>8 DEF AbortVerifications
  <2>2. ASSUME NEW v \in Verifications, NEW n \in Attempts
        PROVE  [jobs[v][n] EXCEPT !.isCanceled = TRUE] \in Job
    <3>1. jobs[v][n] \in Job
      OBVIOUS
    <3> HIDE DEF TypeOK
    <3> QED BY <3>1 DEF Job
  <2>3. jobs' \in [Verifications -> [Attempts -> Job]]
    BY <1>8, <2>2 DEF AbortVerifications
  <2>4. ASSUME NEW v \in Verifications, NEW n \in Attempts PROVE JobMove(v, n)
    <3>1. jobs[v][n].phase # "none" \/ jobs[v][n].phase \notin Working
      BY DEF Working
    <3> QED BY <1>8, <3>1 DEF AbortVerifications, JobMove
  <2> QED BY <2>1, <2>3, <2>4
<1>9. ASSUME NEW a \in Agents, AgentStops(a) PROVE JobMoves
  <2>1. UNCHANGED restored
    BY <1>9 DEF AgentStops
  <2>2. jobs' = [v \in Verifications |-> [n \in Attempts |->
                  IF jobs[v][n].agent = a THEN NoJob ELSE jobs[v][n]]]
    BY <1>9 DEF AgentStops
  <2>3. NoJob \in Job
    BY DEF NoJob, Job
  <2> QED BY <2>1, <2>2, <2>3 DEF JobMove
<1>10. CASE UNCHANGED <<jobs, restored>>
  BY <1>10 DEF JobMove
<1>11. CASE \/ \E w \in Verifications, b \in Completed : StartVerification(w, b)
            \/ \E w \in Verifications : CancelVerification(w) \/ RowAges(w)
            \/ \E choice \in Schedules : SaveConfig(choice)
            \/ \E a \in Agents : DeleteAgent(a) \/ SendHeartbeat(a) \/ LoseAnswer(a)
                 \/ ContactLapses(a) \/ AgentStarts(a)
            \/ \E b \in 1..MaxBackups : CompleteBackup(b) \/ OnLogicalBackupsDeleting(b)
            \/ OnLogicalBackupCompleted \/ ScheduleVerificationForCompletedBackup
              \/ CreateScheduledRuns \/ CreateScheduledRun \/ ReapStaleRuns
              \/ ListDisabled \/ EndPass \/ StageFails \/ SlotComes \/ ServerRestarts
            \/ \E s \in strays : LateReport(s)
            \/ \E h \in hooks : SyncBackupVerificationStatus(h)
            \/ \E d \in doomed : RequeueOrFail(d)
            \/ \E w \in todo : CancelForDisabledSchedule(w)
  BY <1>11, <1>10 DEF StartVerification, CancelVerification, SaveConfig, DeleteAgent,
    CompleteBackup, OnLogicalBackupsDeleting, OnLogicalBackupCompleted,
    ScheduleVerificationForCompletedBackup, LateReport, SyncBackupVerificationStatus,
    SendHeartbeat, LoseAnswer, RequeueOrFail, CreateScheduledRuns, CreateScheduledRun,
    ReapStaleRuns, ListDisabled, EndPass, CancelForDisabledSchedule, StageFails,
    RowAges, SlotComes, ContactLapses, AgentStarts, ServerRestarts
<1>12. CASE UNCHANGED vars
  BY <1>12, <1>10 DEF vars
<1> QED BY <1>1, <1>2, <1>3, <1>4, <1>5, <1>6, <1>7, <1>8, <1>9, <1>10, <1>11, <1>12,
      Actions

\* Every hook that a step adds is backed.
LEMMA HooksStep ==
  ASSUME TypeOK, RowShape, JobFacts, StrayFacts, [Next]_vars
  PROVE  HooksMove
<1> USE DEF TypeOK, RowShape, JobFacts, StrayFacts, runVars, passVars, agentVars,
      serverVars
<1>1. ASSUME NEW k \in JobKeys, Report(k) PROVE HooksMove
  <2>1. /\ SubmitReport(k[1], k[2], JobAt(k).agent, JobAt(k).verdict) /\ UNCHANGED restored
        /\ k[1] \in Verifications /\ (JobAt(k).verdict = "ok" => k[1] \in restored)
    BY <1>1 DEF Report, JobAt, JobKeys
  <2> QED BY <2>1, ReportHook
<1>2. ASSUME NEW s \in strays, LateReport(s) PROVE HooksMove
  <2>1. /\ UNCHANGED runVars \/ SubmitReport(s.key[1], s.key[2], s.agent, s.verdict)
        /\ UNCHANGED restored /\ s.key[1] \in Verifications
        /\ s.verdict = "ok" => s.key[1] \in restored
    BY <1>2 DEF LateReport, JobKeys
  <2>2. CASE UNCHANGED hooks
    BY <2>2 DEF HooksMove, Hooks
  <2> QED BY <2>1, <2>2, ReportHook
<1>3. ASSUME NEW h \in hooks, SyncBackupVerificationStatus(h) PROVE HooksMove
  BY <1>3 DEF SyncBackupVerificationStatus, HooksMove, Hooks
<1>4. ASSUME NEW d \in doomed, RequeueOrFail(d) PROVE HooksMove
  <2>1. UNCHANGED hooks \/ (IsUnchanged(d.row) /\ RequeueOrFailLocked(d.row.ver, d.reason, 0))
    BY <1>4 DEF RequeueOrFail
  <2>2. UNCHANGED restored /\ d.row.ver \in Verifications
    BY <1>4 DEF RequeueOrFail, Snapshot
  <2>3. IsUnchanged(d.row) => rows[d.row.ver].status \in Live
    BY DEF IsUnchanged, Live
  <2>4. CASE UNCHANGED hooks
    BY <2>4 DEF HooksMove, Hooks
  <2> QED BY <2>1, <2>2, <2>3, <2>4, RequeueHook
<1>5. CASE ServerRestarts
  BY <1>5 DEF ServerRestarts, HooksMove, Hooks
<1>6. CASE UNCHANGED <<hooks>>
  BY <1>6 DEF HooksMove, Hooks
<1>7. CASE \/ \E w \in Verifications, b \in Completed : StartVerification(w, b)
           \/ \E w \in Verifications : CancelVerification(w) \/ RowAges(w)
           \/ \E choice \in Schedules : SaveConfig(choice)
           \/ \E a \in Agents : DeleteAgent(a) \/ SendHeartbeat(a)
                \/ AbortVerifications(a) \/ LoseAnswer(a) \/ ContactLapses(a)
                \/ AgentStops(a) \/ AgentStarts(a)
           \/ \E b \in 1..MaxBackups : CompleteBackup(b) \/ OnLogicalBackupsDeleting(b)
           \/ OnLogicalBackupCompleted \/ ScheduleVerificationForCompletedBackup
             \/ CreateScheduledRuns \/ CreateScheduledRun \/ ReapStaleRuns
             \/ ListDisabled \/ EndPass \/ StageFails \/ SlotComes
           \/ \E a \in Agents, w \in Verifications : ClaimVerification(a, w)
           \/ \E k \in JobKeys : TrackVerification(k) \/ GetBackupFile(k)
                \/ FinishWork(k) \/ AbandonReport(k) \/ UntrackVerification(k)
           \/ \E w \in todo : CancelForDisabledSchedule(w)
  BY <1>7, <1>6 DEF StartVerification, CancelVerification, SaveConfig, DeleteAgent,
    CompleteBackup, OnLogicalBackupsDeleting, OnLogicalBackupCompleted,
    ScheduleVerificationForCompletedBackup, ClaimVerification, TrackVerification,
    GetBackupFile, FinishWork, AbandonReport, UntrackVerification, SendHeartbeat,
    AbortVerifications, LoseAnswer, CreateScheduledRuns, CreateScheduledRun,
    ReapStaleRuns, ListDisabled, EndPass, CancelForDisabledSchedule, StageFails,
    RowAges, SlotComes, ContactLapses, AgentStops, AgentStarts
<1>8. CASE UNCHANGED vars
  BY <1>8, <1>6 DEF vars
<1> QED BY <1>1, <1>2, <1>3, <1>4, <1>5, <1>6, <1>7, <1>8, Actions

\* Every step keeps the types of what the server holds.
LEMMA ServerTypesStep ==
  ASSUME TypeOK, [Next]_vars
  PROVE  ServerTypes'
<1> USE NumbersAssumption, ChoiceAssumption DEF TypeOK, ServerTypes, runVars,
      passVars, agentVars, serverVars
<1>1. ASSUME NEW choice \in Schedules, SaveConfig(choice) PROVE ServerTypes'
  BY <1>1 DEF SaveConfig
<1>2. ASSUME NEW a \in Agents, DeleteAgent(a) PROVE ServerTypes'
  BY <1>2 DEF DeleteAgent
<1>3. ASSUME NEW b \in 1..MaxBackups, CompleteBackup(b) PROVE ServerTypes'
  BY <1>3 DEF CompleteBackup
<1>4. ASSUME NEW b \in 1..MaxBackups, OnLogicalBackupsDeleting(b) PROVE ServerTypes'
  BY <1>4 DEF OnLogicalBackupsDeleting
<1>5. CASE OnLogicalBackupCompleted
  <2>1. \/ UNCHANGED takeover
        \/ /\ Completed # {}
           /\ takeover' = [backup |-> Max(Completed),
                           runs |-> {v \in Verifications : IsSuperseded(rows[v])}]
    BY <1>5 DEF OnLogicalBackupCompleted
  <2>2. UNCHANGED <<backups, automatic, contact>> /\ announced' \in BOOLEAN
    BY <1>5 DEF OnLogicalBackupCompleted
  <2>3. takeover' \in [backup : 0..MaxBackups, runs : SUBSET Verifications]
    BY <2>1, NewestCompleted
  <2> QED BY <2>2, <2>3
<1>6. CASE ScheduleVerificationForCompletedBackup
  BY <1>6, NoTakeoverType DEF ScheduleVerificationForCompletedBackup
<1>7. ASSUME NEW h \in hooks, SyncBackupVerificationStatus(h) PROVE ServerTypes'
  <2>1. StatusAfterSync(h) \in {"removed", "VERIFIED_SUCCESSFUL", "VERIFICATION_FAILED"}
    BY DEF StatusAfterSync
  <2> QED BY <1>7, <2>1 DEF SyncBackupVerificationStatus
<1>8. ASSUME NEW a \in Agents, SendHeartbeat(a) PROVE ServerTypes'
  BY <1>8 DEF SendHeartbeat
<1>9. ASSUME NEW a \in Agents, ContactLapses(a) PROVE ServerTypes'
  BY <1>9 DEF ContactLapses
<1>10. CASE ServerRestarts
  BY <1>10, NoTakeoverType DEF ServerRestarts
<1>11. CASE UNCHANGED <<backups, announced, takeover, automatic, contact>>
  BY <1>11
<1>12. CASE \/ \E w \in Verifications, b \in Completed : StartVerification(w, b)
            \/ \E w \in Verifications : CancelVerification(w) \/ RowAges(w)
            \/ \E a \in Agents, w \in Verifications : ClaimVerification(a, w)
            \/ \E k \in JobKeys : TrackVerification(k) \/ GetBackupFile(k)
                 \/ FinishWork(k) \/ Report(k) \/ AbandonReport(k)
                 \/ UntrackVerification(k)
            \/ \E s \in strays : LateReport(s)
            \/ \E a \in Agents : AbortVerifications(a) \/ LoseAnswer(a) \/ AgentStops(a)
                 \/ AgentStarts(a)
            \/ \E d \in doomed : RequeueOrFail(d)
            \/ CreateScheduledRuns \/ CreateScheduledRun \/ ReapStaleRuns
              \/ ListDisabled \/ EndPass \/ StageFails \/ SlotComes
            \/ \E w \in todo : CancelForDisabledSchedule(w)
  BY <1>12, <1>11 DEF StartVerification, CancelVerification, ClaimVerification,
    TrackVerification, GetBackupFile, FinishWork, Report, AbandonReport,
    UntrackVerification, LateReport, AbortVerifications, LoseAnswer, RequeueOrFail,
    CreateScheduledRuns, CreateScheduledRun, ReapStaleRuns, ListDisabled, EndPass,
    CancelForDisabledSchedule, StageFails, RowAges, SlotComes, AgentStops, AgentStarts
<1>13. CASE UNCHANGED vars
  BY <1>13, <1>11 DEF vars
<1> QED BY <1>1, <1>2, <1>3, <1>4, <1>5, <1>6, <1>7, <1>8, <1>9, <1>10, <1>11, <1>12,
      <1>13, Actions

\* Every step keeps the types of the scheduler pass.
LEMMA PassTypesStep ==
  ASSUME TypeOK, [Next]_vars
  PROVE  PassTypes'
<1> USE NumbersAssumption DEF TypeOK, PassTypes, runVars, passVars, agentVars,
      serverVars
<1>1. CASE CreateScheduledRuns
  <2>1. Reaches(1) /\ plan' = Max(ScheduledBackups) /\ UNCHANGED todo
    BY <1>1 DEF CreateScheduledRuns
  <2>2. ScheduledBackups # {} /\ ScheduledBackups \subseteq 1..MaxBackups
    BY <2>1 DEF Reaches, Finds, ScheduledBackups, Completed
  <2>3. Max(ScheduledBackups) \in 1..MaxBackups
    BY <2>2, NewestBackup
  <2> QED BY <2>1, <2>3, NextStage DEF Stages
<1>2. CASE CreateScheduledRun
  BY <1>2 DEF CreateScheduledRun
<1>3. CASE ReapStaleRuns
  <2>1. (Reaches(2) \/ Reaches(3)) /\ UNCHANGED <<plan, todo>>
    BY <1>3 DEF ReapStaleRuns
  <2> QED BY <2>1, NextStage DEF Stages
<1>4. CASE ListDisabled
  <2>1. Reaches(4) /\ todo' \subseteq Verifications /\ UNCHANGED plan
    BY <1>4 DEF ListDisabled, AutomaticForDisabledSchedules
  <2> QED BY <2>1, NextStage DEF Stages
<1>5. CASE EndPass
  BY <1>5 DEF EndPass
<1>6. ASSUME NEW w \in todo, CancelForDisabledSchedule(w) PROVE PassTypes'
  BY <1>6 DEF CancelForDisabledSchedule
<1>7. CASE StageFails
  <2>1. UNCHANGED <<plan, todo>>
    BY <1>7 DEF StageFails
  <2> QED BY <1>7, <2>1, NextStage DEF StageFails
<1>8. CASE ServerRestarts
  BY <1>8 DEF ServerRestarts
<1>9. CASE UNCHANGED <<pass, plan, todo>>
  BY <1>9
<1>10. CASE \/ \E w \in Verifications, b \in Completed : StartVerification(w, b)
            \/ \E w \in Verifications : CancelVerification(w) \/ RowAges(w)
            \/ \E choice \in Schedules : SaveConfig(choice)
            \/ \E a \in Agents : DeleteAgent(a) \/ SendHeartbeat(a)
                 \/ AbortVerifications(a) \/ LoseAnswer(a) \/ ContactLapses(a)
                 \/ AgentStops(a) \/ AgentStarts(a)
            \/ \E b \in 1..MaxBackups : CompleteBackup(b) \/ OnLogicalBackupsDeleting(b)
            \/ OnLogicalBackupCompleted \/ ScheduleVerificationForCompletedBackup
              \/ SlotComes
            \/ \E a \in Agents, w \in Verifications : ClaimVerification(a, w)
            \/ \E k \in JobKeys : TrackVerification(k) \/ GetBackupFile(k)
                 \/ FinishWork(k) \/ Report(k) \/ AbandonReport(k)
                 \/ UntrackVerification(k)
            \/ \E s \in strays : LateReport(s)
            \/ \E h \in hooks : SyncBackupVerificationStatus(h)
            \/ \E d \in doomed : RequeueOrFail(d)
  BY <1>10, <1>9 DEF StartVerification, CancelVerification, SaveConfig, DeleteAgent,
    CompleteBackup, OnLogicalBackupsDeleting, OnLogicalBackupCompleted,
    ScheduleVerificationForCompletedBackup, ClaimVerification, TrackVerification,
    GetBackupFile, FinishWork, Report, AbandonReport, UntrackVerification, LateReport,
    SyncBackupVerificationStatus, SendHeartbeat, AbortVerifications, LoseAnswer,
    RequeueOrFail, RowAges, SlotComes, ContactLapses, AgentStops, AgentStarts
<1>11. CASE UNCHANGED vars
  BY <1>11, <1>9 DEF vars
<1> QED BY <1>1, <1>2, <1>3, <1>4, <1>5, <1>6, <1>7, <1>8, <1>9, <1>10, <1>11, Actions

\* Runs are given up as they were read, by what they were read as.
LEMMA DoomedStep ==
  ASSUME TypeOK, RowShape, DoomedFacts, [Next]_vars
  PROVE  DoomedRead'
<1> USE DEF TypeOK, RowShape, DoomedFacts, DoomedRead, DoomedRead, Doomed, runVars,
      passVars, agentVars, serverVars
<1>1. ASSUME NEW a \in Agents, SendHeartbeat(a) PROVE DoomedRead'
  <2>1. doomed' \subseteq doomed \cup DroppedJobs(a)
    BY <1>1 DEF SendHeartbeat
  <2>2. ASSUME NEW d \in DroppedJobs(a)
        PROVE  d \in Doomed /\ d.reason # "UNCLAIMED_TOO_LONG" /\ d.row.status = "RUNNING"
    <3>1. PICK v \in RunningOf(a) :
                 d = [row |-> SnapshotOf(v), reason |-> "AGENT_DROPPED_JOB", by |-> a]
      BY <2>2 DEF DroppedJobs
    <3>2. v \in Verifications /\ rows[v].status = "RUNNING"
      BY DEF RunningOf
    <3>3. d \in Doomed
      BY <3>1, <3>2, DoomedType DEF Active, FailureReasons
    <3> QED BY <3>1, <3>2, <3>3 DEF SnapshotOf
  <2> QED BY <2>1, <2>2
<1>2. ASSUME NEW d \in doomed, RequeueOrFail(d) PROVE DoomedRead'
  BY <1>2 DEF RequeueOrFail
<1>3. CASE ReapStaleRuns
  <2>1. doomed' \subseteq doomed \cup LostRuns \cup StalePending
    BY <1>3 DEF ReapStaleRuns
  <2>2. ASSUME NEW d \in LostRuns
        PROVE  d \in Doomed /\ d.reason # "UNCLAIMED_TOO_LONG" /\ d.row.status = "RUNNING"
    <3>1. PICK v \in Verifications : \E reason \in {"AGENT_REMOVED", "AGENT_LOST_CONTACT"} :
                 /\ rows[v].status = "RUNNING"
                 /\ d = [row |-> SnapshotOf(v), by |-> NoAgent, reason |-> reason]
      BY <2>2 DEF LostRuns
    <3>2. PICK reason \in {"AGENT_REMOVED", "AGENT_LOST_CONTACT"} :
                 d = [row |-> SnapshotOf(v), reason |-> reason, by |-> NoAgent]
      BY <3>1
    <3>3. d \in Doomed
      BY <3>1, <3>2, DoomedType DEF Active, FailureReasons
    <3> QED BY <3>1, <3>2, <3>3 DEF SnapshotOf
  <2>3. ASSUME NEW d \in StalePending
        PROVE  d \in Doomed /\ d.reason = "UNCLAIMED_TOO_LONG" /\ d.row.status = "PENDING"
    <3>1. PICK v \in Verifications :
                 /\ rows[v].status = "PENDING"
                 /\ d = [row |-> SnapshotOf(v), reason |-> "UNCLAIMED_TOO_LONG", by |-> NoAgent]
      BY <2>3 DEF StalePending
    <3>2. d \in Doomed
      BY <3>1, DoomedType DEF Active, FailureReasons
    <3> QED BY <3>1, <3>2 DEF SnapshotOf
  <2> QED BY <2>1, <2>2, <2>3
<1>4. CASE ServerRestarts
  BY <1>4 DEF ServerRestarts
<1>5. CASE UNCHANGED <<doomed>>
  BY <1>5
<1>6. CASE \/ \E w \in Verifications, b \in Completed : StartVerification(w, b)
           \/ \E w \in Verifications : CancelVerification(w) \/ RowAges(w)
           \/ \E choice \in Schedules : SaveConfig(choice)
           \/ \E a \in Agents : DeleteAgent(a) \/ AbortVerifications(a) \/ LoseAnswer(a)
                \/ ContactLapses(a) \/ AgentStops(a) \/ AgentStarts(a)
           \/ \E b \in 1..MaxBackups : CompleteBackup(b) \/ OnLogicalBackupsDeleting(b)
           \/ OnLogicalBackupCompleted \/ ScheduleVerificationForCompletedBackup
             \/ CreateScheduledRuns \/ CreateScheduledRun \/ ListDisabled \/ EndPass
             \/ StageFails \/ SlotComes
           \/ \E a \in Agents, w \in Verifications : ClaimVerification(a, w)
           \/ \E k \in JobKeys : TrackVerification(k) \/ GetBackupFile(k)
                \/ FinishWork(k) \/ Report(k) \/ AbandonReport(k)
                \/ UntrackVerification(k)
           \/ \E s \in strays : LateReport(s)
           \/ \E h \in hooks : SyncBackupVerificationStatus(h)
           \/ \E w \in todo : CancelForDisabledSchedule(w)
  BY <1>6, <1>5 DEF StartVerification, CancelVerification, SaveConfig, DeleteAgent,
    CompleteBackup, OnLogicalBackupsDeleting, OnLogicalBackupCompleted,
    ScheduleVerificationForCompletedBackup, ClaimVerification, TrackVerification,
    GetBackupFile, FinishWork, Report, AbandonReport, UntrackVerification, LateReport,
    SyncBackupVerificationStatus, AbortVerifications, LoseAnswer, CreateScheduledRuns,
    CreateScheduledRun, ListDisabled, EndPass, CancelForDisabledSchedule, StageFails,
    RowAges, SlotComes, ContactLapses, AgentStops, AgentStarts
<1>7. CASE UNCHANGED vars
  BY <1>7, <1>5 DEF vars
<1> QED BY <1>1, <1>2, <1>3, <1>4, <1>5, <1>6, <1>7, Actions

\* Every step keeps the types of what the agents hold.
LEMMA AgentTypesStep ==
  ASSUME TypeOK, JobFacts, [Next]_vars
  PROVE  AgentTypes'
<1> USE NumbersAssumption DEF TypeOK, JobFacts, AgentTypes, NoBeat, runVars, passVars,
      agentVars, serverVars
<1>1. ASSUME NEW k \in JobKeys, TrackVerification(k) PROVE AgentTypes'
  <2>1. k[1] \in Verifications /\ k[2] \in 0..MaxAgentSideAttempts
    BY DEF JobKeys, Attempts
  <2> QED BY <1>1, <2>1 DEF TrackVerification
<1>2. ASSUME NEW k \in JobKeys, AbandonReport(k) PROVE AgentTypes'
  <2>1. JobAt(k).agent \in Agents /\ JobAt(k).verdict \in AllVerdicts
    BY <1>2 DEF AbandonReport, JobAt, JobKeys
  <2> QED BY <1>2, <2>1 DEF AbandonReport, StrayOf
<1>3. ASSUME NEW k \in JobKeys, UntrackVerification(k) PROVE AgentTypes'
  <2>1. UNCHANGED <<up, lastAbort, beat, strays>>
    BY <1>3 DEF UntrackVerification
  <2>2. JobAt(k).agent \in Agents /\ k[1] \in Verifications
    BY <1>3 DEF UntrackVerification, JobAt, JobKeys
  <2>3. registry' = [registry EXCEPT ![JobAt(k).agent][k[1]] = 0]
    BY <1>3 DEF UntrackVerification
  <2>4. registry' \in [Agents -> [Verifications -> 0..MaxAgentSideAttempts]]
    BY <2>2, <2>3
  <2> QED BY <2>1, <2>4
<1>4. ASSUME NEW s \in strays, LateReport(s) PROVE AgentTypes'
  BY <1>4 DEF LateReport
<1>5. ASSUME NEW a \in Agents, SendHeartbeat(a) PROVE AgentTypes'
  <2>1. UNCHANGED <<up, registry, lastAbort, strays>>
    BY <1>5 DEF SendHeartbeat
  <2>2. NamedBy(a) \ RunningOf(a) \subseteq Verifications
    BY DEF NamedBy
  <2>3. \/ beat' = [beat EXCEPT ![a] = NoBeat]
        \/ beat' = [beat EXCEPT ![a] = [phase |-> "handled", abort |-> NamedBy(a) \ RunningOf(a)]]
        \/ beat' = [beat EXCEPT ![a] = [phase |-> "handled", abort |-> {}]]
    BY <1>5 DEF SendHeartbeat
  <2>4. beat' \in [Agents -> [phase : {"idle", "handled"}, abort : SUBSET Verifications]]
    <3> DEFINE B == [phase : {"idle", "handled"}, abort : SUBSET Verifications]
    <3>1. /\ NoBeat \in B /\ [phase |-> "handled", abort |-> {}] \in B
          /\ [phase |-> "handled", abort |-> NamedBy(a) \ RunningOf(a)] \in B
      BY <2>2 DEF NamedBy
    <3>2. beat \in [Agents -> B]
      OBVIOUS
    <3>3. ASSUME NEW x \in B, beat' = [beat EXCEPT ![a] = x] PROVE beat' \in [Agents -> B]
      <4> HIDE DEF B
      <4> QED BY <3>2, <3>3
    <3> HIDE DEF B
    <3>4. beat' \in [Agents -> B]
      BY <2>3, <3>1, <3>3
    <3> QED BY <3>4 DEF B
  <2> QED BY <2>1, <2>4
<1>6. ASSUME NEW a \in Agents, AbortVerifications(a) PROVE AgentTypes'
  BY <1>6 DEF AbortVerifications
<1>7. ASSUME NEW a \in Agents, LoseAnswer(a) PROVE AgentTypes'
  BY <1>7 DEF LoseAnswer
<1>8. ASSUME NEW a \in Agents, AgentStops(a) PROVE AgentTypes'
  <2>1. {StrayOf(k) : k \in {l \in LiveJobs(a) : JobAt(l).phase = "reporting"}}
          \subseteq [key : JobKeys, agent : Agents, verdict : AllVerdicts]
    BY DEF LiveJobs, StrayOf, JobAt, JobKeys
  <2>2. up' \subseteq Agents
    BY <1>8 DEF AgentStops
  <2>3. strays' \subseteq [key : JobKeys, agent : Agents, verdict : AllVerdicts]
    BY <1>8, <2>1 DEF AgentStops
  <2>4. registry' \in [Agents -> [Verifications -> 0..MaxAgentSideAttempts]]
    BY <1>8 DEF AgentStops
  <2> QED BY <1>8, <2>2, <2>3, <2>4 DEF AgentStops
<1>9. ASSUME NEW a \in Agents, AgentStarts(a) PROVE AgentTypes'
  BY <1>9 DEF AgentStarts
<1>10. CASE ServerRestarts
  BY <1>10 DEF ServerRestarts
<1>11. CASE UNCHANGED <<up, registry, lastAbort, beat, strays>>
  BY <1>11
<1>12. CASE \/ \E w \in Verifications, b \in Completed : StartVerification(w, b)
            \/ \E w \in Verifications : CancelVerification(w) \/ RowAges(w)
            \/ \E choice \in Schedules : SaveConfig(choice)
            \/ \E a \in Agents : DeleteAgent(a) \/ ContactLapses(a)
            \/ \E b \in 1..MaxBackups : CompleteBackup(b) \/ OnLogicalBackupsDeleting(b)
            \/ OnLogicalBackupCompleted \/ ScheduleVerificationForCompletedBackup
              \/ CreateScheduledRuns \/ CreateScheduledRun \/ ReapStaleRuns
              \/ ListDisabled \/ EndPass \/ StageFails \/ SlotComes
            \/ \E a \in Agents, w \in Verifications : ClaimVerification(a, w)
            \/ \E k \in JobKeys : GetBackupFile(k) \/ FinishWork(k) \/ Report(k)
            \/ \E h \in hooks : SyncBackupVerificationStatus(h)
            \/ \E d \in doomed : RequeueOrFail(d)
            \/ \E w \in todo : CancelForDisabledSchedule(w)
  BY <1>12, <1>11 DEF StartVerification, CancelVerification, SaveConfig, DeleteAgent,
    CompleteBackup, OnLogicalBackupsDeleting, OnLogicalBackupCompleted,
    ScheduleVerificationForCompletedBackup, ClaimVerification, GetBackupFile,
    FinishWork, Report, SyncBackupVerificationStatus, RequeueOrFail,
    CreateScheduledRuns, CreateScheduledRun, ReapStaleRuns, ListDisabled, EndPass,
    CancelForDisabledSchedule, StageFails, RowAges, SlotComes, ContactLapses
<1>13. CASE UNCHANGED vars
  BY <1>13, <1>11 DEF vars
<1> QED BY <1>1, <1>2, <1>3, <1>4, <1>5, <1>6, <1>7, <1>8, <1>9, <1>10, <1>11, <1>12,
      <1>13, Actions

\* The disturbances stay within their bound.
LEMMA DisturbanceStep ==
  ASSUME TypeOK, [Next]_vars
  PROVE  DisturbanceType'
<1> USE NumbersAssumption DEF TypeOK, DisturbanceType, Disturb, runVars, passVars,
      agentVars, serverVars
<1>1. ASSUME NEW w \in Verifications, CancelVerification(w) PROVE DisturbanceType'
  BY <1>1 DEF CancelVerification
<1>2. ASSUME NEW choice \in Schedules, SaveConfig(choice) PROVE DisturbanceType'
  BY <1>2 DEF SaveConfig
<1>3. ASSUME NEW a \in Agents, DeleteAgent(a) PROVE DisturbanceType'
  BY <1>3 DEF DeleteAgent
<1>4. ASSUME NEW b \in 1..MaxBackups, OnLogicalBackupsDeleting(b) PROVE DisturbanceType'
  BY <1>4 DEF OnLogicalBackupsDeleting
<1>5. CASE OnLogicalBackupCompleted
  <2>1. UNCHANGED disturbances \/ Disturb
    BY <1>5 DEF OnLogicalBackupCompleted
  <2> QED BY <2>1
<1>6. ASSUME NEW a \in Agents, NEW w \in Verifications, ClaimVerification(a, w)
      PROVE  DisturbanceType'
  BY <1>6 DEF ClaimVerification
<1>7. ASSUME NEW k \in JobKeys, Report(k) PROVE DisturbanceType'
  BY <1>7 DEF Report
<1>8. ASSUME NEW k \in JobKeys, AbandonReport(k) PROVE DisturbanceType'
  BY <1>8 DEF AbandonReport
<1>9. ASSUME NEW h \in hooks, SyncBackupVerificationStatus(h) PROVE DisturbanceType'
  BY <1>9 DEF SyncBackupVerificationStatus
<1>10. ASSUME NEW a \in Agents, SendHeartbeat(a) PROVE DisturbanceType'
  BY <1>10 DEF SendHeartbeat
<1>11. ASSUME NEW a \in Agents, LoseAnswer(a) PROVE DisturbanceType'
  BY <1>11 DEF LoseAnswer
<1>12. ASSUME NEW d \in doomed, RequeueOrFail(d) PROVE DisturbanceType'
  BY <1>12 DEF RequeueOrFail
<1>13. CASE StageFails
  BY <1>13 DEF StageFails
<1>14. ASSUME NEW a \in Agents, ContactLapses(a) PROVE DisturbanceType'
  BY <1>14 DEF ContactLapses
<1>15. ASSUME NEW a \in Agents, AgentStops(a) PROVE DisturbanceType'
  BY <1>15 DEF AgentStops
<1>16. CASE ServerRestarts
  BY <1>16 DEF ServerRestarts
<1>17. CASE UNCHANGED <<disturbances>>
  BY <1>17
<1>18. CASE \/ \E w \in Verifications, b \in Completed : StartVerification(w, b)
            \/ \E b \in 1..MaxBackups : CompleteBackup(b)
            \/ ScheduleVerificationForCompletedBackup \/ CreateScheduledRuns
              \/ CreateScheduledRun \/ ReapStaleRuns \/ ListDisabled \/ EndPass
              \/ SlotComes
            \/ \E k \in JobKeys : TrackVerification(k) \/ GetBackupFile(k)
                 \/ FinishWork(k) \/ UntrackVerification(k)
            \/ \E s \in strays : LateReport(s)
            \/ \E a \in Agents : AbortVerifications(a) \/ AgentStarts(a)
            \/ \E w \in todo : CancelForDisabledSchedule(w)
            \/ \E w \in Verifications : RowAges(w)
  BY <1>18, <1>17 DEF StartVerification, CompleteBackup,
    ScheduleVerificationForCompletedBackup, TrackVerification, GetBackupFile,
    FinishWork, UntrackVerification, LateReport, AbortVerifications,
    CreateScheduledRuns, CreateScheduledRun, ReapStaleRuns, ListDisabled, EndPass,
    CancelForDisabledSchedule, RowAges, SlotComes, AgentStarts
<1>19. CASE UNCHANGED vars
  BY <1>19, <1>17 DEF vars
<1> QED BY <1>1, <1>2, <1>3, <1>4, <1>5, <1>6, <1>7, <1>8, <1>9, <1>10, <1>11, <1>12,
      <1>13, <1>14, <1>15, <1>16, <1>17, <1>18, <1>19, Actions

-----------------------------------------------------------------------------
(* Rows and backups, field by field.                                         *)

SameRun(v) ==
    /\ rows'[v].backup = rows[v].backup /\ rows'[v].trigger = rows[v].trigger

\* The moves of a row, by the fields that the invariant speaks of.
RowMove(v) ==
    \/ /\ rows'[v] = rows[v] /\ SameClaims(v)
    \/ /\ rows[v].status = "unused" /\ rows'[v].status = "PENDING" /\ SameClaims(v)
       /\ rows'[v].attempt = 1 /\ rows'[v].backup \in Completed
       /\ rows'[v].trigger # "AFTER_BACKUP" =>
            ~HasActive(rows'[v].trigger)
            /\ \A w \in Verifications : w # v => rows'[w] = rows[w]
    \/ /\ rows[v].status = "PENDING" /\ rows'[v].status = "RUNNING" /\ SameRun(v)
       /\ rows'[v].attempt = rows[v].attempt /\ claims'[v] = claims[v] + 1
    \/ /\ rows[v].status = "RUNNING" /\ rows'[v].status = "PENDING" /\ SameRun(v)
       /\ rows[v].attempt < MaxAgentSideAttempts
       /\ rows'[v].attempt = rows[v].attempt + 1 /\ SameClaims(v)
    \/ /\ SameRun(v) /\ rows'[v].attempt = rows[v].attempt /\ SameClaims(v)
       /\ \/ rows[v].status = "RUNNING" /\ rows'[v].status = "COMPLETED"
          \/ /\ rows'[v].status = "FAILED"
             /\ rows[v].status = IF rows'[v].message = "unclaimed" THEN "PENDING" ELSE "RUNNING"
          \/ rows[v].status \in Active /\ rows'[v].status = "CANCELED"
    \/ /\ SameRun(v) /\ rows'[v].attempt = rows[v].attempt /\ SameClaims(v)
       /\ rows'[v].status = rows[v].status /\ rows'[v].message = rows[v].message
    \/ /\ rows'[v].status = "removed" /\ SameClaims(v)
       /\ rows[v].backup \in Completed /\ backups'[rows[v].backup] = "removed"

\* The fields of a moved row.
LEMMA RowFields ==
  ASSUME TypeOK, NEW v \in Verifications, Moves(v)
  PROVE  RowMove(v)
<1>1. rows[v] \in Row
  BY DEF TypeOK
<1>2. CASE Stays(v)
  BY <1>2 DEF Stays, RowMove
<1>3. CASE Created(v)
  <2>1. PICK b \in Completed, trigger \in {"MANUAL", "SCHEDULED", "AFTER_BACKUP"} :
          /\ rows'[v] = NewPending(b, trigger)
          /\ trigger # "AFTER_BACKUP" =>
               ~HasActive(trigger) /\ \A w \in Verifications : w # v => rows'[w] = rows[w]
    BY <1>3 DEF Created
  <2>2. /\ rows'[v].status = "PENDING" /\ rows'[v].trigger = trigger
        /\ rows'[v].backup = b /\ rows'[v].attempt = 1
    BY <2>1 DEF NewPending, NoRow
  <2> QED BY <1>3, <2>1, <2>2 DEF Created, RowMove
<1>4. CASE Claimed(v)
  <2>1. /\ rows'[v].status = "RUNNING" /\ rows'[v].attempt = rows[v].attempt
        /\ rows'[v].backup = rows[v].backup /\ rows'[v].trigger = rows[v].trigger
    BY <1>1, <1>4 DEF Claimed, Row
  <2> QED BY <1>4, <2>1 DEF Claimed, RowMove, SameRun
<1>5. CASE TakenBack(v)
  <2>1. /\ rows'[v].status = "PENDING" /\ rows'[v].attempt = rows[v].attempt + 1
        /\ rows'[v].backup = rows[v].backup /\ rows'[v].trigger = rows[v].trigger
    BY <1>1, <1>5 DEF TakenBack, Requeued, Row
  <2> QED BY <1>5, <2>1 DEF TakenBack, RowMove, SameRun
<1>6. CASE Ended(v)
  <2>1. ASSUME NEW status, NEW message, NEW n,
               rows'[v] = Terminal(rows[v], status, message, n)
        PROVE  /\ rows'[v].status = status /\ rows'[v].message = message
               /\ rows'[v].attempt = rows[v].attempt
               /\ rows'[v].backup = rows[v].backup /\ rows'[v].trigger = rows[v].trigger
    BY <1>1, <2>1 DEF Terminal, Row
  <2>2. SameRun(v) /\ rows'[v].attempt = rows[v].attempt /\ SameClaims(v)
    BY <1>6, <2>1 DEF Ended, SameRun
  <2>3. \/ rows[v].status = "RUNNING" /\ rows'[v].status = "COMPLETED"
        \/ /\ rows'[v].status = "FAILED"
           /\ rows[v].status = IF rows'[v].message = "unclaimed" THEN "PENDING" ELSE "RUNNING"
        \/ rows[v].status \in Active /\ rows'[v].status = "CANCELED"
    BY <1>6, <2>1 DEF Ended
  <2> QED BY <2>2, <2>3 DEF RowMove
<1>7. CASE Aged(v)
  <2>1. /\ rows'[v].status = rows[v].status /\ rows'[v].message = rows[v].message
        /\ rows'[v].attempt = rows[v].attempt
        /\ rows'[v].backup = rows[v].backup /\ rows'[v].trigger = rows[v].trigger
    BY <1>1, <1>7 DEF Aged, Row
  <2> QED BY <1>7, <2>1 DEF Aged, RowMove, SameRun
<1>8. CASE Removed(v)
  <2>1. rows'[v].status = "removed"
    BY <1>8 DEF Removed, NoRow
  <2> QED BY <1>8, <2>1 DEF Removed, RowMove
<1> QED BY <1>2, <1>3, <1>4, <1>5, <1>6, <1>7, <1>8 DEF Moves

\* A backup goes, and only its rows go with it.
Goes(b) ==
    /\ b \in Completed /\ backups'[b] = "removed"
    /\ \A v \in Verifications :
         rows'[v] = IF rows[v].backup = b THEN NoRow("removed") ELSE rows[v]

\* The moves of the status of a backup.
BackupMove(b) ==
    \/ backups'[b] = backups[b]
    \/ backups[b] = "none" /\ backups'[b] = "NOT_VERIFIED"
    \/ /\ backups[b] # "removed" /\ UNCHANGED rows
       /\ \E h \in hooks : h.backup = b /\ backups'[b] = h.status
    \/ Goes(b)

BackupsMove == \A b \in 1..MaxBackups : BackupMove(b)


\* Every step moves the status of every backup in one of these ways.
LEMMA BackupsStep ==
  ASSUME TypeOK, [Next]_vars
  PROVE  BackupsMove
<1> USE DEF TypeOK, BackupMove, BackupsMove, runVars, passVars, agentVars, serverVars
<1>1. ASSUME NEW b \in 1..MaxBackups, CompleteBackup(b) PROVE BackupsMove
  BY <1>1 DEF CompleteBackup
<1>2. ASSUME NEW b \in 1..MaxBackups, OnLogicalBackupsDeleting(b) PROVE BackupsMove
  <2>1. /\ b \in Completed /\ backups' = [backups EXCEPT ![b] = "removed"]
        /\ rows' = [v \in Verifications |->
                      IF rows[v].backup = b THEN NoRow("removed") ELSE rows[v]]
    BY <1>2 DEF OnLogicalBackupsDeleting
  <2>2. ASSUME NEW c \in 1..MaxBackups PROVE BackupMove(c)
    <3>1. CASE c = b
      BY <2>1, <3>1 DEF Goes
    <3>2. CASE c # b
      BY <2>1, <3>2
    <3> QED BY <3>1, <3>2
  <2> QED BY <2>2
<1>3. ASSUME NEW h \in hooks, SyncBackupVerificationStatus(h) PROVE BackupsMove
  <2>1. UNCHANGED backups \/ backups' = [backups EXCEPT ![h.backup] = StatusAfterSync(h)]
    BY <1>3 DEF SyncBackupVerificationStatus
  <2>2. UNCHANGED rows /\ h.backup \in 1..MaxBackups
    BY <1>3 DEF SyncBackupVerificationStatus
  <2>3. CASE UNCHANGED backups
    BY <2>3
  <2>4. ASSUME backups' = [backups EXCEPT ![h.backup] = StatusAfterSync(h)],
               NEW c \in 1..MaxBackups
        PROVE  BackupMove(c)
    <3>1. CASE c = h.backup /\ backups[c] # "removed"
      BY <2>2, <2>4, <3>1 DEF StatusAfterSync
    <3>2. CASE c # h.backup \/ backups[c] = "removed"
      BY <2>4, <3>2 DEF StatusAfterSync
    <3> QED BY <3>1, <3>2
  <2> QED BY <2>1, <2>3, <2>4
<1>4. CASE UNCHANGED <<backups>>
  BY <1>4 DEF BackupMove
<1>5. CASE \/ \E w \in Verifications, b \in Completed : StartVerification(w, b)
           \/ \E w \in Verifications : CancelVerification(w) \/ RowAges(w)
           \/ \E choice \in Schedules : SaveConfig(choice)
           \/ \E a \in Agents : DeleteAgent(a) \/ SendHeartbeat(a)
                \/ AbortVerifications(a) \/ LoseAnswer(a) \/ ContactLapses(a)
                \/ AgentStops(a) \/ AgentStarts(a)
           \/ OnLogicalBackupCompleted \/ ScheduleVerificationForCompletedBackup
             \/ CreateScheduledRuns \/ CreateScheduledRun \/ ReapStaleRuns
             \/ ListDisabled \/ EndPass \/ StageFails \/ SlotComes \/ ServerRestarts
           \/ \E a \in Agents, w \in Verifications : ClaimVerification(a, w)
           \/ \E k \in JobKeys : TrackVerification(k) \/ GetBackupFile(k)
                \/ FinishWork(k) \/ Report(k) \/ AbandonReport(k)
                \/ UntrackVerification(k)
           \/ \E s \in strays : LateReport(s)
           \/ \E d \in doomed : RequeueOrFail(d)
           \/ \E w \in todo : CancelForDisabledSchedule(w)
  BY <1>5, <1>4 DEF StartVerification, CancelVerification, SaveConfig, DeleteAgent,
    OnLogicalBackupCompleted, ScheduleVerificationForCompletedBackup,
    ClaimVerification, TrackVerification, GetBackupFile, FinishWork, Report,
    AbandonReport, UntrackVerification, LateReport, SendHeartbeat, AbortVerifications,
    LoseAnswer, RequeueOrFail, CreateScheduledRuns, CreateScheduledRun, ReapStaleRuns,
    ListDisabled, EndPass, CancelForDisabledSchedule, StageFails, RowAges, SlotComes,
    ContactLapses, AgentStops, AgentStarts, ServerRestarts
<1>6. CASE UNCHANGED vars
  BY <1>6, <1>4 DEF vars
<1> QED BY <1>1, <1>2, <1>3, <1>4, <1>5, <1>6, Actions

-----------------------------------------------------------------------------
(* The steps keep the rest of the invariant.                                 *)

\* All that is known of a step.
LEMMA Step ==
  ASSUME IInv, [Next]_vars
  PROVE  /\ \A v \in Verifications : RowMove(v)
         /\ BackupsMove /\ JobMoves /\ HooksMove /\ TypeOK'
<1> USE DEF IInv
<1>1. MovesAll
  BY RowMoves
<1>2. \A v \in Verifications : RowMove(v)
  BY <1>1, RowFields DEF MovesAll
<1>3. BackupsMove /\ JobMoves /\ HooksMove
  BY BackupsStep, JobsStep, HooksStep
<1>4. rows' \in [Verifications -> Row] /\ claims' \in [Verifications -> Nat]
  BY <1>1, MoveTypes
<1>5. /\ ServerTypes' /\ PassTypes' /\ DoomedRead' /\ AgentTypes' /\ DisturbanceType'
  BY ServerTypesStep, PassTypesStep, DoomedStep, AgentTypesStep, DisturbanceStep
<1>6. TypeOK'
  BY <1>3, <1>4, <1>5 DEF TypeOK, ServerTypes, PassTypes, DoomedRead, AgentTypes,
     DisturbanceType, Doomed, Hooks, HooksMove, JobMoves
<1> QED BY <1>2, <1>3, <1>6

\* A completed backup stays one until its rows go with it.
LEMMA BackupKept ==
  ASSUME TypeOK, BackupsMove, NEW b \in Completed
  PROVE  b \in Completed' \/ Goes(b)
<1>1. b \in 1..MaxBackups /\ backups[b] \notin {"none", "removed"} /\ BackupMove(b)
  BY DEF Completed, BackupsMove
<1>2. CASE \E h \in hooks : h.backup = b /\ backups'[b] = h.status
  <2>1. backups'[b] \in {"VERIFIED_SUCCESSFUL", "VERIFICATION_FAILED"}
    BY <1>2 DEF TypeOK
  <2> QED BY <1>1, <2>1 DEF Completed
<1> QED BY <1>1, <1>2 DEF BackupMove, Completed

\* Runs keep their backup and an attempt in bounds; unused ids stay unclaimed.
LEMMA RowShapeStep ==
  ASSUME IInv, [Next]_vars
  PROVE  RowShape'
<1> SUFFICES ASSUME NEW v \in Verifications
             PROVE  /\ rows'[v].status \in Live =>
                         rows'[v].attempt \in Attempts /\ rows'[v].backup \in Completed'
                    /\ rows'[v].status = "unused" => claims'[v] = 0
  BY DEF RowShape
<1>1. /\ RowMove(v) /\ BackupsMove /\ TypeOK
      /\ rows[v].status \in Live => rows[v].attempt \in Attempts /\ rows[v].backup \in Completed
      /\ rows[v].status = "unused" => claims[v] = 0
      /\ rows[v] \in Row
  BY Step DEF IInv, RowShape, TypeOK
<1>2. rows'[v].status = "unused" => claims'[v] = 0
  BY <1>1 DEF RowMove, SameClaims, Active
<1>3. ASSUME rows'[v].status \in Live PROVE rows'[v].attempt \in Attempts
  BY <1>1, <1>3, NumbersAssumption DEF RowMove, Live, Active, Finished, Attempts
<1>4. ASSUME rows'[v].status \in Live PROVE rows'[v].backup \in Completed'
  <2>1. rows'[v].backup \in Completed
    BY <1>1, <1>4 DEF RowMove, SameRun, Live, Active, Finished
  <2>2. ASSUME Goes(rows'[v].backup) PROVE FALSE
    <3>1. NoRow("removed").status = "removed"
      BY DEF NoRow
    <3>2. rows'[v] = rows[v] /\ rows[v].backup # rows'[v].backup
      BY <1>4, <2>2, <3>1 DEF Goes, Live, Active, Finished
    <3> QED BY <3>2
  <2> QED BY <1>1, <2>1, <2>2, BackupKept
<1> QED BY <1>2, <1>3, <1>4

\* Jobs keep their agents and report only what they came to.
LEMMA JobFactsStep ==
  ASSUME IInv, [Next]_vars
  PROVE  JobFacts'
<1> SUFFICES ASSUME NEW v \in Verifications, NEW n \in Attempts
             PROVE  /\ jobs'[v][n].phase # "none" => jobs'[v][n].agent \in Agents
                    /\ jobs'[v][n].phase = "reporting" => jobs'[v][n].verdict \in AllVerdicts
                    /\ jobs'[v][n].phase = "reporting" /\ jobs'[v][n].verdict = "ok"
                         => v \in restored'
  BY DEF JobFacts
<1> DEFINE j == jobs[v][n]
<1>1. /\ JobMove(v, n) /\ restored \subseteq restored' /\ j \in Job
      /\ j.phase # "none" => j.agent \in Agents
      /\ j.phase = "reporting" => j.verdict \in AllVerdicts
      /\ j.phase = "reporting" /\ j.verdict = "ok" => v \in restored
  BY Step DEF IInv, JobFacts, JobMoves, TypeOK
<1> HIDE DEF j
<1>2. CASE jobs'[v][n] = j
  BY <1>1, <1>2
<1>3. CASE jobs'[v][n] = NoJob
  BY <1>3 DEF NoJob
<1>4. CASE \E a \in Agents : jobs'[v][n] = [NoJob EXCEPT !.agent = a, !.phase = "assigned"]
  BY <1>4 DEF NoJob
<1>5. ASSUME j.phase # "none",
             \E phase \in {"prepared", "restoring"} : jobs'[v][n] = [j EXCEPT !.phase = phase]
      PROVE  jobs'[v][n].agent \in Agents /\ jobs'[v][n].phase # "reporting"
  BY <1>1, <1>5 DEF Job
<1>6. CASE j.phase # "none" /\ jobs'[v][n] = [NoJob EXCEPT !.agent = j.agent, !.phase = "closing"]
  BY <1>1, <1>6 DEF NoJob
<1>7. ASSUME j.phase # "none", NEW verdict \in AllVerdicts, verdict = "ok" => v \in restored',
             jobs'[v][n] = [NoJob EXCEPT !.agent = j.agent, !.phase = "reporting",
                                         !.verdict = verdict]
      PROVE  /\ jobs'[v][n].agent \in Agents /\ jobs'[v][n].verdict \in AllVerdicts
             /\ jobs'[v][n].verdict = "ok" => v \in restored'
  BY <1>1, <1>7 DEF NoJob
<1>8. ASSUME j.phase \in Working, jobs'[v][n] = [j EXCEPT !.isCanceled = TRUE]
      PROVE  jobs'[v][n].agent \in Agents /\ jobs'[v][n].phase # "reporting"
  BY <1>1, <1>8 DEF Job, Working
<1> QED BY <1>1, <1>2, <1>3, <1>4, <1>5, <1>6, <1>7, <1>8 DEF JobMove, j

\* A step counts an attempt only for a run that was handed out.
LEMMA AttemptsStep ==
  ASSUME IInv, [Next]_vars
  PROVE  AttemptsMatch'
<1> SUFFICES ASSUME NEW v \in Verifications
      PROVE  /\ rows'[v].status = "PENDING" => claims'[v] = rows'[v].attempt - 1
             /\ rows'[v].status \in {"RUNNING", "COMPLETED"} => claims'[v] = rows'[v].attempt
             /\ rows'[v].status = "FAILED" =>
                  claims'[v] = IF rows'[v].message = "unclaimed" THEN rows'[v].attempt - 1
                               ELSE rows'[v].attempt
             /\ rows'[v].status = "CANCELED" =>
                  claims'[v] \in {rows'[v].attempt - 1, rows'[v].attempt}
  BY DEF AttemptsMatch
<1>1. /\ RowMove(v) /\ claims[v] \in Nat /\ rows[v].attempt \in Nat
      /\ rows[v].status = "PENDING" => claims[v] = rows[v].attempt - 1
      /\ rows[v].status \in {"RUNNING", "COMPLETED"} => claims[v] = rows[v].attempt
      /\ rows[v].status = "FAILED" =>
           claims[v] = IF rows[v].message = "unclaimed" THEN rows[v].attempt - 1
                       ELSE rows[v].attempt
      /\ rows[v].status = "CANCELED" => claims[v] \in {rows[v].attempt - 1, rows[v].attempt}
      /\ rows[v].status = "unused" => claims[v] = 0
  BY Step, NumbersAssumption DEF IInv, AttemptsMatch, RowShape, TypeOK, Row
<1> QED BY <1>1 DEF RowMove, SameClaims, Active

\* What shows a status stays, unless the backup goes.
LEMMA BackedStays ==
  ASSUME IInv, [Next]_vars, NEW b, NEW status, Backed(b, status)
  PROVE  Backed(b, status)' \/ backups'[b] = "removed"
<1>1. /\ \A v \in Verifications : RowMove(v)
      /\ restored \subseteq restored' /\ restored \subseteq Verifications
  BY Step DEF JobMoves, IInv, TypeOK
<1>2. ASSUME NEW v \in Verifications, rows[v].status \in {"COMPLETED", "FAILED"},
             rows[v].backup = b, backups'[b] # "removed"
      PROVE  rows'[v].status = rows[v].status /\ rows'[v].backup = b
  BY <1>1, <1>2 DEF RowMove, SameRun, Active
<1> QED BY <1>1, <1>2 DEF Backed

\* A removed backup stays removed.
LEMMA RemovedStays ==
  ASSUME TypeOK, BackupsMove, NEW b \in 1..MaxBackups, backups[b] = "removed"
  PROVE  backups'[b] = "removed"
BY DEF BackupsMove, BackupMove, Goes, Completed

\* Hooks stay backed.
LEMMA HooksBackedStep ==
  ASSUME IInv, [Next]_vars
  PROVE  HooksBacked'
<1> SUFFICES ASSUME NEW h \in hooks'
             PROVE  backups'[h.backup] = "removed" \/ Backed(h.backup, h.status)'
  BY DEF HooksBacked
<1>1. CASE h \in hooks
  <2>1. h.backup \in 1..MaxBackups /\ TypeOK /\ BackupsMove
    BY <1>1, Step DEF IInv, TypeOK
  <2>2. backups[h.backup] = "removed" \/ Backed(h.backup, h.status)
    BY <1>1 DEF IInv, HooksBacked
  <2> QED BY <2>1, <2>2, BackedStays, RemovedStays
<1>2. CASE h \notin hooks
  BY <1>2, Step DEF HooksMove
<1> QED BY <1>1, <1>2

\* The status of a backup stays backed.
LEMMA BackupStatusStep ==
  ASSUME IInv, [Next]_vars
  PROVE  BackupStatusBacked'
<1> SUFFICES ASSUME NEW b \in Completed' PROVE Backed(b, backups[b])'
  BY DEF BackupStatusBacked, Backed
<1>1. b \in 1..MaxBackups /\ backups'[b] \notin {"none", "removed"} /\ BackupMove(b)
  BY Step DEF Completed, BackupsMove
<1>2. CASE backups'[b] = backups[b]
  <2>1. Backed(b, backups[b])
    BY <1>1, <1>2 DEF IInv, BackupStatusBacked, Backed, Completed
  <2>2. Backed(b, backups'[b])
    BY <1>2, <2>1
  <2>3. \A status : Backed(b, status) => Backed(b, status)'
    BY <1>1, BackedStays
  <2> QED BY <1>2, <2>1, <2>3 DEF Backed
<1>3. CASE backups'[b] = "NOT_VERIFIED"
  BY <1>3 DEF Backed
<1>4. ASSUME NEW h \in hooks, h.backup = b, backups'[b] = h.status, backups[b] # "removed"
      PROVE  Backed(b, backups[b])'
  <2>1. Backed(b, h.status)
    BY <1>4 DEF IInv, HooksBacked
  <2>2. Backed(b, h.status)'
    BY <1>1, <2>1, BackedStays
  <2> QED BY <1>4, <2>2 DEF Backed
<1> QED BY <1>1, <1>2, <1>3, <1>4 DEF BackupMove, Goes

\* A run starts only where none of its trigger is under way.
LEMMA OneActiveStep ==
  ASSUME IInv, [Next]_vars
  PROVE  OneActive'
<1> SUFFICES ASSUME NEW v \in Verifications, NEW w \in Verifications,
                    rows'[v].status \in Active, rows'[w].status \in Active,
                    rows'[v].trigger = rows'[w].trigger,
                    rows'[v].trigger \in {"MANUAL", "SCHEDULED"}, v # w
             PROVE  FALSE
  BY DEF OneActive
<1> DEFINE Was(u) == rows[u].status \in Active /\ rows'[u].trigger = rows[u].trigger
           New(u) == /\ ~HasActive(rows'[u].trigger)
                     /\ \A x \in Verifications : x # u => rows'[x] = rows[x]
<1>1. \A u \in {v, w} : Was(u) \/ New(u)
  BY Step DEF RowMove, SameRun, Active
<1>2. CASE Was(v) /\ Was(w)
  BY <1>2 DEF IInv, OneActive
<1>3. CASE New(v)
  BY <1>3 DEF HasActive
<1>4. CASE New(w)
  BY <1>4 DEF HasActive
<1> QED BY <1>1, <1>2, <1>3, <1>4


\* A report that outlives its sender tells what its job came to.
LEMMA StraysStep ==
  ASSUME TypeOK, JobFacts, StrayFacts, [Next]_vars
  PROVE  StrayFacts'
<1> USE DEF TypeOK, JobFacts, StrayFacts, runVars, passVars, agentVars, serverVars
<1>1. ASSUME NEW k \in JobKeys, FinishWork(k) PROVE StrayFacts'
  <2>1. UNCHANGED strays
    BY <1>1 DEF FinishWork
  <2>2. restored \subseteq restored'
    BY <1>1 DEF FinishWork
  <2> QED BY <2>1, <2>2
<1>2. ASSUME NEW k \in JobKeys, AbandonReport(k) PROVE StrayFacts'
  <2>1. strays' \subseteq strays \cup {StrayOf(k)} /\ UNCHANGED restored
    BY <1>2 DEF AbandonReport
  <2>2. JobAt(k).verdict = "ok" => k[1] \in restored
    BY <1>2 DEF AbandonReport, JobAt, JobKeys
  <2> QED BY <2>1, <2>2 DEF StrayOf
<1>3. ASSUME NEW s \in strays, LateReport(s) PROVE StrayFacts'
  BY <1>3 DEF LateReport
<1>4. ASSUME NEW a \in Agents, AgentStops(a) PROVE StrayFacts'
  <2>1. /\ UNCHANGED restored
        /\ strays' \subseteq strays \cup {StrayOf(k) : k \in {l \in LiveJobs(a) :
                                                          JobAt(l).phase = "reporting"}}
    BY <1>4 DEF AgentStops
  <2>2. ASSUME NEW k \in LiveJobs(a), JobAt(k).phase = "reporting", JobAt(k).verdict = "ok"
        PROVE  StrayOf(k).key[1] \in restored
    BY <2>2 DEF LiveJobs, JobAt, JobKeys, StrayOf
  <2>3. ASSUME NEW s \in strays', s \notin strays, s.verdict = "ok"
        PROVE  s.key[1] \in restored
    <3>1. PICK k \in LiveJobs(a) : JobAt(k).phase = "reporting" /\ s = StrayOf(k)
      BY <2>1, <2>3
    <3>2. JobAt(k).verdict = "ok"
      BY <2>3, <3>1 DEF StrayOf
    <3> QED BY <2>2, <3>1, <3>2
  <2> QED BY <2>1, <2>3
<1>5. CASE UNCHANGED <<strays, restored>>
  BY <1>5
<1>6. CASE \/ \E w \in Verifications, b \in Completed : StartVerification(w, b)
           \/ \E w \in Verifications : CancelVerification(w) \/ RowAges(w)
           \/ \E choice \in Schedules : SaveConfig(choice)
           \/ \E a \in Agents : DeleteAgent(a) \/ SendHeartbeat(a)
                \/ AbortVerifications(a) \/ LoseAnswer(a) \/ ContactLapses(a)
                \/ AgentStarts(a)
           \/ \E b \in 1..MaxBackups : CompleteBackup(b) \/ OnLogicalBackupsDeleting(b)
           \/ OnLogicalBackupCompleted \/ ScheduleVerificationForCompletedBackup
             \/ CreateScheduledRuns \/ CreateScheduledRun \/ ReapStaleRuns
             \/ ListDisabled \/ EndPass \/ StageFails \/ SlotComes \/ ServerRestarts
           \/ \E a \in Agents, w \in Verifications : ClaimVerification(a, w)
           \/ \E k \in JobKeys : TrackVerification(k) \/ GetBackupFile(k) \/ Report(k)
                \/ UntrackVerification(k)
           \/ \E h \in hooks : SyncBackupVerificationStatus(h)
           \/ \E d \in doomed : RequeueOrFail(d)
           \/ \E w \in todo : CancelForDisabledSchedule(w)
  BY <1>6, <1>5 DEF StartVerification, CancelVerification, SaveConfig, DeleteAgent,
    CompleteBackup, OnLogicalBackupsDeleting, OnLogicalBackupCompleted,
    ScheduleVerificationForCompletedBackup, ClaimVerification, TrackVerification,
    GetBackupFile, Report, UntrackVerification, SyncBackupVerificationStatus,
    SendHeartbeat, AbortVerifications, LoseAnswer, RequeueOrFail, CreateScheduledRuns,
    CreateScheduledRun, ReapStaleRuns, ListDisabled, EndPass,
    CancelForDisabledSchedule, StageFails, RowAges, SlotComes, ContactLapses,
    AgentStarts, ServerRestarts
<1>7. CASE UNCHANGED vars
  BY <1>7, <1>5 DEF vars
<1> QED BY <1>1, <1>2, <1>3, <1>4, <1>5, <1>6, <1>7, Actions

-----------------------------------------------------------------------------
(* The theorems.                                                             *)

\* The program starts with the invariant.
LEMMA InitInvariant == Init => IInv
<1> SUFFICES ASSUME Init PROVE IInv
  OBVIOUS
<1> USE NumbersAssumption, ChoiceAssumption DEF Init
<1>1. NoRow("unused") \in Row /\ NoRow("unused").status = "unused"
      /\ NoRow("unused").trigger = "none"
  BY DEF NoRow, Row
<1>2. NoJob \in Job /\ NoJob.phase = "none"
  BY DEF NoJob, Job
<1>3. TypeOK
  <2>1. rows \in [Verifications -> Row] /\ jobs \in [Verifications -> [Attempts -> Job]]
    BY <1>1, <1>2
  <2>2. ServerTypes
    BY NoTakeoverType DEF ServerTypes, AllSchedules
  <2>3. PassTypes /\ DisturbanceType
    BY DEF PassTypes, DisturbanceType
  <2>4. AgentTypes
    BY DEF AgentTypes, NoBeat
  <2> QED BY <2>1, <2>2, <2>3, <2>4 DEF TypeOK, ServerTypes, PassTypes, AgentTypes, DisturbanceType
<1>4. RowShape /\ AttemptsMatch /\ OneActive
  BY <1>1 DEF RowShape, AttemptsMatch, OneActive, Live, Active, Finished
<1>5. JobFacts /\ StrayFacts /\ DoomedFacts /\ HooksBacked
  BY <1>2 DEF JobFacts, StrayFacts, DoomedFacts, HooksBacked
<1>6. BackupStatusBacked
  BY DEF BackupStatusBacked, Completed
<1> QED BY <1>3, <1>4, <1>5, <1>6 DEF IInv

\* Every step keeps it.
LEMMA StepInvariant == IInv /\ [Next]_vars => IInv'
<1> SUFFICES ASSUME IInv, [Next]_vars PROVE IInv'
  OBVIOUS
<1>1. TypeOK' /\ RowShape' /\ JobFacts'
  BY Step, RowShapeStep, JobFactsStep
<1>2. StrayFacts' /\ DoomedFacts'
  BY StraysStep, DoomedStep DEF IInv, DoomedRead
<1>3. AttemptsMatch' /\ HooksBacked' /\ BackupStatusBacked' /\ OneActive'
  BY AttemptsStep, HooksBackedStep, BackupStatusStep, OneActiveStep
<1> QED BY <1>1, <1>2, <1>3 DEF IInv

\* The invariant holds in every state the program reaches.
THEOREM Invariant == Spec => []IInv
BY InitInvariant, StepInvariant, PTL DEF Spec

\* Every variable keeps its type.
THEOREM TypeCorrect == Spec => []TypeOK
<1>1. IInv => TypeOK
  BY DEF IInv
<1> QED BY <1>1, Invariant, PTL

\* Every attempt that is counted was handed to an agent once, whoever takes a run back.
THEOREM AttemptsHandedOut == Spec => []EachAttemptHandedOutOnce
<1>1. IInv => EachAttemptHandedOutOnce
  <2> SUFFICES ASSUME IInv, NEW v \in Verifications, rows[v].status \in Active \cup Finished
               PROVE  LET n == rows[v].attempt IN
        CASE rows[v].status = "PENDING" -> claims[v] = n - 1
          [] rows[v].status \in {"RUNNING", "COMPLETED"} -> claims[v] = n
          [] rows[v].status = "FAILED" ->
               claims[v] = IF rows[v].message = "unclaimed" THEN n - 1 ELSE n
          [] rows[v].status = "CANCELED" -> claims[v] \in {n - 1, n}
    BY DEF EachAttemptHandedOutOnce
  <2> QED BY DEF IInv, AttemptsMatch, Active, Finished
<1> QED BY <1>1, Invariant, PTL

\* Two manual or two scheduled runs are never under way.
THEOREM RunsOfATrigger == Spec => []OneRunPerTrigger
<1>1. IInv => OneRunPerTrigger
  <2> SUFFICES ASSUME IInv, NEW trigger \in {"MANUAL", "SCHEDULED"}
               PROVE  Cardinality({v \in Verifications : rows[v].trigger = trigger
                                                         /\ rows[v].status \in Active}) <= 1
    BY DEF OneRunPerTrigger
  <2> DEFINE S == {v \in Verifications : rows[v].trigger = trigger /\ rows[v].status \in Active}
  <2>1. \A v, w \in S : v = w
    BY DEF IInv, OneActive
  <2> HIDE DEF S
  <2>2. CASE S = {}
    BY <2>2, FS_EmptySet DEF S
  <2>3. CASE S # {}
    <3>1. PICK v \in S : TRUE
      BY <2>3
    <3>2. S = {v}
      BY <2>1, <3>1
    <3>3. Cardinality(S) = 1
      BY <3>2, FS_Singleton
    <3> QED BY <3>3 DEF S
  <2> QED BY <2>2, <2>3
<1> QED BY <1>1, Invariant, PTL

\* A backup is shown as verified, or as failed, only by a run that came to it.
THEOREM StatusIsBacked == Spec => []BackupStatusBacked
<1>1. IInv => BackupStatusBacked
  BY DEF IInv
<1> QED BY <1>1, Invariant, PTL

\* A finished run keeps its outcome until it goes with its backup.
THEOREM FinishedRunsStay == Spec => OutcomeStays
<1>1. ASSUME IInv, [Next]_vars, NEW v \in Verifications, rows[v].status \in Finished
      PROVE  rows'[v] \in {rows[v], [rows[v] EXCEPT !.aged = TRUE], NoRow("removed")}
  <2>1. Moves(v)
    BY <1>1, RowMoves DEF IInv, MovesAll
  <2> QED BY <1>1, <2>1 DEF Moves, Stays, Created, Claimed, TakenBack, Ended, Aged, Removed,
             Active, Finished
<1>2. IInv /\ [Next]_vars =>
        [\A v \in Verifications : rows[v].status \in Finished =>
           rows'[v] \in {rows[v], [rows[v] EXCEPT !.aged = TRUE], NoRow("removed")}]_vars
  BY <1>1
<1> QED BY <1>2, Invariant, PTL DEF Spec, OutcomeStays
===============================================================================
