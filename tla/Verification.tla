----------------------------- MODULE Verification -----------------------------
(***************************************************************************)
(* Backup verification: the server's runs                                  *)
(* (backend/internal/modules/verification/internal/verifications) and the  *)
(* agents that carry them out (backend/internal/agent/runner, heartbeat).  *)
(* An agent claims a pending run, restores the backup into a container and *)
(* reports; its heartbeats name the runs it holds. The server takes a run  *)
(* back from an agent that is gone, silent or no longer names it, a bounded*)
(* number of times, and a user, a newer backup, a disabled schedule or the *)
(* removal of the backup ends it meanwhile.                                *)
(*                                                                         *)
(* What the model abstracts:                                               *)
(*  - one database; its backups are numbered in the order they complete;   *)
(*  - a transaction is one step, a list read before it a step of its own;  *)
(*  - time is what a row's age is compared with: "aged" is TRUE once a     *)
(*    RUNNING row is older than agentJobReclaimGrace, a PENDING one older  *)
(*    than maxPendingDuration, a finished one older than the last slot of  *)
(*    the schedule; an agent's last heartbeat is fresh or stale;           *)
(*  - an agent has one claim loop, so its claim reads and writes in one    *)
(*    step; SKIP LOCKED lets it pass over any pending row;                 *)
(*  - every backup needs the same disk; sizes, versions, notifications,    *)
(*    audit events, tokens and the texts of messages are left out.         *)
(***************************************************************************)
EXTENDS Naturals, FiniteSets, FiniteSetsExt

CONSTANTS
    Verifications,        \* ids of verification runs
    Agents, NoAgent,
    MaxAgentSideAttempts,
    MaxConcurrentJobs,    \* of every agent
    DiskMb, RequiredMb,   \* an agent's disk; the estimate for a backup
    Verdicts,             \* what the restores of the model may come to
    Schedules,            \* the choices of the verification config in the model
    MaxBackups,           \* bound: backups the database completes
    MaxDisturbances       \* bound: lost messages, errors, restarts, lapses, and what users
                          \* cancel, configure, delete or remove

AllVerdicts == {"ok", "tooSmall", "setup", "rejected", "diskLimit"}
AllSchedules == {"off", "afterBackup", "interval"}

ASSUME AgentAssumption == NoAgent \notin Agents
ASSUME NumbersAssumption ==
    /\ MaxAgentSideAttempts \in Nat \ {0} /\ MaxConcurrentJobs \in Nat \ {0}
    /\ DiskMb \in Nat /\ RequiredMb \in Nat /\ MaxBackups \in Nat /\ MaxDisturbances \in Nat
ASSUME ChoiceAssumption == Verdicts \subseteq AllVerdicts /\ Schedules \subseteq AllSchedules

VARIABLES
    rows,        \* [Verifications -> row of verification_runs]
    backups,     \* [1..MaxBackups -> verification status of the backup, none or removed]
    announced,   \* a completed backup's event is yet to be handled
    takeover,    \* the after-backup transaction: its backup, the runs it found to cancel
    automatic,   \* the verification config: off, afterBackup or interval
    contact,     \* [Agents -> the agent's row: fresh, stale (or never seen) or deleted]
    hooks,       \* after-commit hooks yet to run: terminal runs to sync to their backup
    pass,        \* the stage that the scheduler pass comes to next
    plan,        \* backup that the pass read for a scheduled run, or 0
    todo,        \* runs that the pass listed to cancel
    doomed,      \* rows as read by who wants to requeue or fail them
    up,          \* agents whose process runs
    jobs,        \* [Verifications -> [attempt -> the agent's execution of it]]
    registry,    \* [Agents -> [Verifications -> attempt whose cancel is tracked, or 0]]
    lastAbort,   \* [Agents -> abort list of the last answered heartbeat]
    beat,        \* [Agents -> the answer on its way to the agent's heartbeat]
    strays,      \* reports still on the network after their sender gave up
    claims,      \* history: [Verifications -> times the run was handed out]
    restored,    \* history: runs whose backup some agent restored and checked
    disturbances

runVars == <<rows, hooks>>
passVars == <<pass, plan, todo>>
agentVars == <<up, jobs, registry, lastAbort, beat, strays, restored>>
serverVars == <<backups, announced, takeover, automatic, contact>>
vars == <<rows, backups, announced, takeover, automatic, contact, hooks, pass, plan, todo, doomed,
          up, jobs, registry, lastAbort, beat, strays, claims, restored, disturbances>>

Attempts == 1..MaxAgentSideAttempts
Active == {"PENDING", "RUNNING"}
Finished == {"COMPLETED", "FAILED", "CANCELED"}

\* The columns that matter of a row; "unused" and "removed" stand for no row.
Row == [status : Active \cup Finished \cup {"unused", "removed"},
        trigger : {"MANUAL", "SCHEDULED", "AFTER_BACKUP", "none"},
        backup : 0..MaxBackups,
        agent : Agents \cup {NoAgent},
        attempt : 0..MaxAgentSideAttempts,
        aged : BOOLEAN,
        message : {"none", "byUser", "scheduleDisabled", "superseded", "unclaimed", "failure"},
        diagnostic : 0..MaxAgentSideAttempts]   \* the attempt that reported it

NoRow(status) ==
    [status |-> status, trigger |-> "none", backup |-> 0, agent |-> NoAgent, attempt |-> 0,
     aged |-> FALSE, message |-> "none", diagnostic |-> 0]

Job == [agent : Agents \cup {NoAgent},
        phase : {"none", "assigned", "prepared", "restoring", "reporting", "closing"},
        verdict : AllVerdicts \cup {"none"},
        isCanceled : BOOLEAN]

\* The phases under the job's own context, which an abort cancels; a report goes
\* out under the agent's.
Working == {"prepared", "restoring"}

NoJob == [agent |-> NoAgent, phase |-> "none", verdict |-> "none", isCanceled |-> FALSE]

Snapshot == [ver : Verifications, status : Active, attempt : Attempts,
             agent : Agents \cup {NoAgent}]

FailureReasons == {"AGENT_LOST_CONTACT", "AGENT_REMOVED", "AGENT_SETUP_FAILED",
                   "AGENT_DROPPED_JOB", "BACKUP_REJECTED", "DISK_LIMIT_EXCEEDED",
                   "RESTORED_TOO_SMALL", "UNCLAIMED_TOO_LONG"}

NoTakeover == [backup |-> 0, runs |-> {}]

NoBeat == [phase |-> "idle", abort |-> {}]

JobKeys == Verifications \X Attempts
JobAt(k) == jobs[k[1]][k[2]]
LiveJobs(a) == {k \in JobKeys : JobAt(k).agent = a /\ JobAt(k).phase # "none"}

RunningOf(a) == {v \in Verifications : rows[v].status = "RUNNING" /\ rows[v].agent = a}
Completed == {b \in 1..MaxBackups : backups[b] \notin {"none", "removed"}}
SnapshotOf(v) == [ver |-> v, status |-> rows[v].status, attempt |-> rows[v].attempt,
                  agent |-> rows[v].agent]

TypeOK ==
    /\ rows \in [Verifications -> Row]
    /\ backups \in [1..MaxBackups -> {"none", "removed", "NOT_VERIFIED",
                                      "VERIFIED_SUCCESSFUL", "VERIFICATION_FAILED"}]
    /\ announced \in BOOLEAN
    /\ takeover \in [backup : 0..MaxBackups, runs : SUBSET Verifications]
    /\ automatic \in AllSchedules
    /\ contact \in [Agents -> {"fresh", "stale", "deleted"}]
    /\ hooks \subseteq [ver : Verifications, backup : 1..MaxBackups,
                        status : {"VERIFIED_SUCCESSFUL", "VERIFICATION_FAILED"}]
    /\ pass \in 1..4
    /\ plan \in 0..MaxBackups
    /\ todo \subseteq Verifications
    /\ doomed \subseteq [row : Snapshot, reason : FailureReasons, by : Agents \cup {NoAgent}]
    /\ up \subseteq Agents
    /\ jobs \in [Verifications -> [Attempts -> Job]]
    /\ registry \in [Agents -> [Verifications -> 0..MaxAgentSideAttempts]]
    /\ lastAbort \in [Agents -> SUBSET Verifications]
    /\ beat \in [Agents -> [phase : {"idle", "handled"}, abort : SUBSET Verifications]]
    /\ strays \subseteq [key : JobKeys, agent : Agents, verdict : AllVerdicts]
    /\ claims \in [Verifications -> Nat]
    /\ restored \subseteq Verifications
    /\ disturbances \in 0..MaxDisturbances

Init ==
    /\ rows = [v \in Verifications |-> NoRow("unused")]
    /\ backups = [b \in 1..MaxBackups |-> "none"]
    /\ announced = FALSE /\ takeover = NoTakeover
    /\ automatic \in Schedules
    /\ contact = [a \in Agents |-> "stale"]
    /\ hooks = {}
    /\ pass = 1 /\ plan = 0 /\ todo = {}
    /\ doomed = {}
    /\ up = Agents
    /\ jobs = [v \in Verifications |-> [n \in Attempts |-> NoJob]]
    /\ registry = [a \in Agents |-> [v \in Verifications |-> 0]]
    /\ lastAbort = [a \in Agents |-> {}]
    /\ beat = [a \in Agents |-> NoBeat]
    /\ strays = {}
    /\ claims = [v \in Verifications |-> 0]
    /\ restored = {}
    /\ disturbances = 0

Disturb == /\ disturbances < MaxDisturbances
           /\ disturbances' = disturbances + 1

-----------------------------------------------------------------------------
(* What the repository writes into a row.                                   *)

NewPending(b, trigger) ==
    [NoRow("PENDING") EXCEPT !.trigger = trigger, !.backup = b, !.attempt = 1]

Requeued(r) ==
    [r EXCEPT !.status = "PENDING", !.agent = NoAgent, !.aged = FALSE,
              !.attempt = @ + 1, !.message = "none", !.diagnostic = 0]

Terminal(r, status, message, diagnostic) ==
    [r EXCEPT !.status = status, !.message = message, !.diagnostic = diagnostic, !.aged = FALSE]

MarkCanceled(v, message) ==
    IF rows[v].status \in Active
    THEN [rows EXCEPT ![v] = Terminal(@, "CANCELED", message, 0)]
    ELSE rows

\* The commit of a terminal outcome, with the hook that syncs it to the backup.
CommitOutcome(v, row, status) ==
    /\ rows' = [rows EXCEPT ![v] = row]
    /\ hooks' = hooks \cup {[ver |-> v, backup |-> row.backup, status |-> status]}

IsAgentSideFailure(reason) ==
    reason \in {"AGENT_LOST_CONTACT", "AGENT_REMOVED", "AGENT_SETUP_FAILED", "AGENT_DROPPED_JOB"}

\* Mutant: one requeue too many.
ShouldRequeueAtLimit(reason, attempt) ==
    IsAgentSideFailure(reason) /\ attempt <= MaxAgentSideAttempts

ShouldRequeueAgentSide(reason, attempt) ==
    IsAgentSideFailure(reason) /\ attempt < MaxAgentSideAttempts

FailureMessageFor(reason) == IF reason = "UNCLAIMED_TOO_LONG" THEN "unclaimed" ELSE "failure"

\* Mutant: a requeued run marks its backup as failed as well.
RequeueMarksBackup(v, reason, diagnostic) ==
    \/ /\ ShouldRequeueAgentSide(reason, rows[v].attempt)
       /\ CommitOutcome(v, Requeued(rows[v]), "VERIFICATION_FAILED")
    \/ /\ ~ShouldRequeueAgentSide(reason, rows[v].attempt)
       /\ CommitOutcome(v, Terminal(rows[v], "FAILED", FailureMessageFor(reason), diagnostic),
                        "VERIFICATION_FAILED")

\* requeueOrFail: the row is locked and is the one the failure is about.
RequeueOrFailLocked(v, reason, diagnostic) ==
    \/ /\ ShouldRequeueAgentSide(reason, rows[v].attempt)
       /\ rows' = [rows EXCEPT ![v] = Requeued(@)]
       /\ UNCHANGED hooks
    \/ /\ ~ShouldRequeueAgentSide(reason, rows[v].attempt)
       /\ CommitOutcome(v, Terminal(rows[v], "FAILED", FailureMessageFor(reason), diagnostic),
                        "VERIFICATION_FAILED")

\* Mutant: only the status is checked again.
IsStillActive(d) == rows[d.ver].status \in Active

\* The row is still as the caller read it.
IsUnchanged(d) == rows[d.ver].status \in Active /\ SnapshotOf(d.ver) = d

-----------------------------------------------------------------------------
(* Users and the backups module.                                            *)

\* Mutant: a run that waits does not count.
HasRunning(trigger) ==
    \E v \in Verifications : rows[v].trigger = trigger /\ rows[v].status = "RUNNING"

HasActive(trigger) ==
    \E v \in Verifications : rows[v].trigger = trigger /\ rows[v].status \in Active

StartVerification(v, b) ==
    /\ rows[v].status = "unused"
    /\ b \in Completed
    /\ takeover = NoTakeover          \* the advisory lock of the database
    /\ ~HasActive("MANUAL")
    /\ rows' = [rows EXCEPT ![v] = NewPending(b, "MANUAL")]
    /\ UNCHANGED <<serverVars, hooks, passVars, doomed, agentVars, claims,
                   disturbances>>

CancelVerification(v) ==
    /\ rows[v].status \in Active
    /\ Disturb
    /\ rows' = MarkCanceled(v, "byUser")
    /\ UNCHANGED <<serverVars, hooks, passVars, doomed, agentVars, claims>>

SaveConfig(choice) ==
    /\ automatic' = choice
    /\ automatic # choice
    /\ Disturb
    /\ UNCHANGED <<backups, announced, takeover, contact, runVars, passVars, doomed, agentVars,
                   claims>>

DeleteAgent(a) ==
    /\ contact[a] # "deleted"
    /\ Disturb
    /\ contact' = [contact EXCEPT ![a] = "deleted"]
    /\ UNCHANGED <<backups, announced, takeover, automatic, runVars, passVars, doomed, agentVars,
                   claims>>

CompleteBackup(b) ==
    /\ backups[b] = "none" /\ ~announced
    /\ \A c \in 1..(b - 1) : backups[c] # "none"
    /\ backups' = [backups EXCEPT ![b] = "NOT_VERIFIED"]
    /\ announced' = TRUE
    /\ UNCHANGED <<takeover, automatic, contact, runVars, passVars, doomed, agentVars, claims,
                   disturbances>>

\* The removal of a backup takes its verifications along, in its transaction.
OnLogicalBackupsDeleting(b) ==
    /\ b \in Completed
    /\ Disturb
    /\ backups' = [backups EXCEPT ![b] = "removed"]
    /\ rows' = [v \in Verifications |->
                  IF rows[v].backup = b THEN NoRow("removed") ELSE rows[v]]
    /\ UNCHANGED <<announced, takeover, automatic, contact, hooks, passVars, doomed,
                   agentVars, claims>>

IsSuperseded(r) == r.trigger # "MANUAL" /\ r.status = "PENDING"

\* Under afterBackup the handler reads the newest backup and lists the pending
\* automatic runs; an error ends it.
OnLogicalBackupCompleted ==
    /\ announced /\ takeover = NoTakeover
    /\ \/ /\ automatic = "afterBackup" /\ Completed # {}
          /\ takeover' = [backup |-> Max(Completed),
                          runs |-> {v \in Verifications : IsSuperseded(rows[v])}]
          /\ UNCHANGED <<announced, disturbances>>
       \/ /\ automatic # "afterBackup" \/ Completed = {}
          /\ announced' = FALSE
          /\ UNCHANGED <<takeover, disturbances>>
       \/ /\ Disturb
          /\ announced' = FALSE
          /\ UNCHANGED takeover
    /\ UNCHANGED <<backups, automatic, contact, runVars, passVars, doomed, agentVars, claims>>

\* MarkTerminal cancels a listed run that an agent has claimed meanwhile as well, and
\* the transaction fails if one has ended or the backup is gone.
MayTakeOver ==
    /\ \A v \in takeover.runs : rows[v].status \in Active
    /\ takeover.backup \in Completed
    /\ \E v \in Verifications : rows[v].status = "unused"   \* the bound on ids

ScheduleVerificationForCompletedBackup ==
    /\ takeover # NoTakeover
    /\ takeover' = NoTakeover /\ announced' = FALSE
    /\ \/ /\ MayTakeOver
          /\ \E v \in Verifications :
               /\ rows[v].status = "unused"
               /\ rows' = [w \in Verifications |->
                    IF w = v THEN NewPending(takeover.backup, "AFTER_BACKUP")
                    ELSE IF w \in takeover.runs
                         THEN Terminal(rows[w], "CANCELED", "superseded", 0) ELSE rows[w]]
       \/ ~MayTakeOver /\ UNCHANGED rows
    /\ UNCHANGED <<backups, automatic, contact, hooks, passVars, doomed, agentVars,
                   claims, disturbances>>

-----------------------------------------------------------------------------
(* Agents ask for work.                                                     *)

\* GetLogicalBackups returns every backup once, however many runs verify it.
RunningUsedMb(a) == RequiredMb * Cardinality({rows[v].backup : v \in RunningOf(a)})
EvaluateDiskAdmission(a) == DiskMb > 0 /\ RunningUsedMb(a) + RequiredMb <= DiskMb

IsSaturated(a) == Cardinality(LiveJobs(a)) >= MaxConcurrentJobs

HasFreshAcceptedHeartbeat(a) == contact[a] = "fresh"

\* The answer reaches the agent, which starts a job, or is lost.
ClaimVerification(a, v) ==
    /\ a \in up /\ ~IsSaturated(a)
    /\ HasFreshAcceptedHeartbeat(a)
    /\ rows[v].status = "PENDING"
    /\ EvaluateDiskAdmission(a)
    /\ rows' = [rows EXCEPT ![v].status = "RUNNING", ![v].agent = a, ![v].aged = FALSE]
    /\ claims' = [claims EXCEPT ![v] = @ + 1]
    /\ \/ /\ jobs' = [jobs EXCEPT ![v][rows[v].attempt] =
                        [NoJob EXCEPT !.agent = a, !.phase = "assigned"]]
          /\ UNCHANGED disturbances
       \/ Disturb /\ UNCHANGED jobs
    /\ UNCHANGED <<serverVars, hooks, passVars, doomed, up, registry, lastAbort, beat,
                   strays, restored>>

-----------------------------------------------------------------------------
(* An agent executes a job: track, prepare a container, download, restore,  *)
(* check, report, remove the container, untrack.                            *)

SetJob(k, job) == jobs' = [jobs EXCEPT ![k[1]][k[2]] = job]
MoveJob(k, phase) == SetJob(k, [JobAt(k) EXCEPT !.phase = phase])
CloseJob(k) == SetJob(k, [NoJob EXCEPT !.agent = JobAt(k).agent, !.phase = "closing"])

TrackVerification(k) ==
    /\ JobAt(k).phase = "assigned"
    /\ MoveJob(k, "prepared")
    /\ registry' = [registry EXCEPT ![JobAt(k).agent][k[1]] = k[2]]
    /\ UNCHANGED <<serverVars, runVars, passVars, doomed, up, lastAbort, beat, strays, claims,
                   restored, disturbances>>

\* Mutant: the agent once had the run.
WasClaimedBy(v, a) == rows[v].agent = a

IsOwnedBy(v, a) == rows[v].status = "RUNNING" /\ rows[v].agent = a

\* 410 drops the job without a report, 401 with one that is refused as well.
GetBackupFile(k) ==
    /\ JobAt(k).phase = "prepared"
    /\ IF /\ IsOwnedBy(k[1], JobAt(k).agent)
          /\ contact[JobAt(k).agent] # "deleted"
          /\ ~JobAt(k).isCanceled
       THEN MoveJob(k, "restoring") ELSE CloseJob(k)
    /\ UNCHANGED <<serverVars, runVars, passVars, doomed, up, registry, lastAbort, beat, strays,
                   claims, restored, disturbances>>

ShouldSkipFailedReport(k) == k[1] \in lastAbort[JobAt(k).agent]

IsFailedReport(verdict) == verdict \in {"setup", "rejected", "diskLimit"}

\* What a job in this phase may report, given that its context ended or not.
PossibleVerdicts(k) ==
    {verdict \in Verdicts :
        /\ JobAt(k).phase = "prepared" => verdict \in {"setup", "diskLimit"}
        /\ JobAt(k).isCanceled => verdict \notin {"setup", "rejected"}}

FinishWork(k) ==
    /\ JobAt(k).phase \in Working
    /\ \/ /\ JobAt(k).isCanceled
          /\ CloseJob(k)
          /\ UNCHANGED restored
       \/ \E verdict \in PossibleVerdicts(k) :
            /\ IF IsFailedReport(verdict) /\ ShouldSkipFailedReport(k) THEN CloseJob(k)
               ELSE SetJob(k, [NoJob EXCEPT !.agent = JobAt(k).agent, !.phase = "reporting",
                                            !.verdict = verdict])
            /\ restored' = IF verdict = "ok" THEN restored \cup {k[1]} ELSE restored
    /\ UNCHANGED <<serverVars, runVars, passVars, doomed, up, registry, lastAbort, beat, strays,
                   claims, disturbances>>

\* Removes the container, then the id from the registry.
UntrackVerification(k) ==
    /\ JobAt(k).phase = "closing"
    /\ SetJob(k, NoJob)
    /\ registry' = [registry EXCEPT ![JobAt(k).agent][k[1]] = 0]
    /\ UNCHANGED <<serverVars, runVars, passVars, doomed, up, lastAbort, beat, strays, claims,
                   restored, disturbances>>

-----------------------------------------------------------------------------
(* Reports.                                                                 *)

ClassifyAgentReport(verdict) ==
    CASE verdict = "diskLimit" -> "DISK_LIMIT_EXCEEDED"
      [] verdict = "rejected" -> "BACKUP_REJECTED"
      [] verdict = "setup" -> "AGENT_SETUP_FAILED"
      [] verdict = "tooSmall" -> "RESTORED_TOO_SMALL"   \* isRestoredTooSmall

\* What the server does with the report of attempt n of v from agent a.
SubmitReport(v, n, a, verdict) ==
    \/ /\ ~IsOwnedBy(v, a)
       /\ UNCHANGED runVars
    \/ /\ IsOwnedBy(v, a) /\ verdict # "ok"
       /\ RequeueOrFailLocked(v, ClassifyAgentReport(verdict),
                              IF IsFailedReport(verdict) THEN n ELSE 0)
    \/ /\ IsOwnedBy(v, a) /\ verdict = "ok"
       /\ CommitOutcome(v, Terminal(rows[v], "COMPLETED", "none", 0), "VERIFIED_SUCCESSFUL")

\* The server handles the report; its answer arrives, or is lost and the agent
\* posts again.
Report(k) ==
    /\ JobAt(k).phase = "reporting"
    /\ contact[JobAt(k).agent] # "deleted"
    /\ SubmitReport(k[1], k[2], JobAt(k).agent, JobAt(k).verdict)
    /\ \/ CloseJob(k) /\ UNCHANGED disturbances
       \/ Disturb /\ UNCHANGED jobs
    /\ UNCHANGED <<serverVars, passVars, doomed, up, registry, lastAbort, beat, strays, claims,
                   restored>>

StrayOf(k) == [key |-> k, agent |-> JobAt(k).agent, verdict |-> JobAt(k).verdict]

\* The retry budget is exhausted, with the last request lost or still on its way;
\* the server refuses the report of a deleted agent.
AbandonReport(k) ==
    /\ JobAt(k).phase = "reporting"
    /\ CloseJob(k)
    /\ \/ contact[JobAt(k).agent] = "deleted" /\ UNCHANGED <<strays, disturbances>>
       \/ Disturb /\ strays' \in {strays, strays \cup {StrayOf(k)}}
    /\ UNCHANGED <<serverVars, runVars, passVars, doomed, up, registry, lastAbort, beat, claims,
                   restored>>

LateReport(s) ==
    /\ strays' = strays \ {s}
    /\ IF contact[s.agent] = "deleted" THEN UNCHANGED runVars
       ELSE SubmitReport(s.key[1], s.key[2], s.agent, s.verdict)
    /\ UNCHANGED <<serverVars, passVars, doomed, up, jobs, registry, lastAbort, beat, claims,
                   restored, disturbances>>

StatusAfterSync(h) == IF backups[h.backup] = "removed" THEN "removed" ELSE h.status

\* The after-commit hook; an error of it is only logged.
SyncBackupVerificationStatus(h) ==
    /\ hooks' = hooks \ {h}
    /\ \/ /\ backups' = [backups EXCEPT ![h.backup] = StatusAfterSync(h)]
          /\ UNCHANGED disturbances
       \/ Disturb /\ UNCHANGED backups
    /\ UNCHANGED <<announced, takeover, automatic, contact, rows, passVars, doomed, agentVars,
                   claims>>

-----------------------------------------------------------------------------
(* Heartbeats.                                                              *)

NamedBy(a) == {v \in Verifications : registry[a][v] # 0}

\* Mutant: a run that the agent lost is never missed.
NothingDropped(a) == {}

\* Runs of the agent that it no longer names, past the grace.
DroppedJobs(a) ==
    {[row |-> SnapshotOf(v), reason |-> "AGENT_DROPPED_JOB", by |-> a] :
        v \in {w \in RunningOf(a) \ NamedBy(a) : rows[w].aged}}

\* The agent names its runs, the server compares them with the rows; reading these
\* may fail, and nothing is aborted then. An answer that changes nothing for the
\* agent is delivered at once. A lost request changes nothing.
SendHeartbeat(a) ==
    /\ a \in up /\ beat[a].phase = "idle"
    /\ contact[a] # "deleted"
    /\ contact' = [contact EXCEPT ![a] = "fresh"]
    /\ LET answer(abort) == IF abort = {} /\ lastAbort[a] = {} /\ DroppedJobs(a) = {}
                            THEN NoBeat ELSE [phase |-> "handled", abort |-> abort]
       IN \/ /\ beat' = [beat EXCEPT ![a] = answer(NamedBy(a) \ RunningOf(a))]
             /\ doomed' = doomed \cup DroppedJobs(a)
             /\ UNCHANGED disturbances
          \/ /\ Disturb
             /\ beat' = [beat EXCEPT ![a] = answer({})]
             /\ UNCHANGED doomed
    /\ UNCHANGED <<backups, announced, takeover, automatic, runVars, passVars, up, jobs, registry, lastAbort,
                   strays, claims, restored>>

AbortVerifications(a) ==
    /\ beat[a].phase = "handled"
    /\ \A d \in doomed : d.by # a
    /\ lastAbort' = [lastAbort EXCEPT ![a] = beat[a].abort]
    /\ jobs' = [v \in Verifications |-> [n \in Attempts |->
                  IF /\ v \in beat[a].abort /\ registry[a][v] = n
                     /\ jobs[v][n].agent = a /\ jobs[v][n].phase \in Working
                  THEN [jobs[v][n] EXCEPT !.isCanceled = TRUE] ELSE jobs[v][n]]]
    /\ beat' = [beat EXCEPT ![a] = NoBeat]
    /\ UNCHANGED <<serverVars, runVars, passVars, doomed, up, registry, strays, claims, restored,
                   disturbances>>

LoseAnswer(a) ==
    /\ beat[a].phase = "handled"
    /\ Disturb
    /\ beat' = [beat EXCEPT ![a] = NoBeat]
    /\ UNCHANGED <<serverVars, runVars, passVars, doomed, up, jobs, registry, lastAbort, strays,
                   claims, restored>>

\* RequeueOrFail locks the row and acts only if it is as its caller read it. It may fail.
RequeueOrFail(d) ==
    /\ doomed' = doomed \ {d}
    /\ \/ /\ IsUnchanged(d.row)
          /\ RequeueOrFailLocked(d.row.ver, d.reason, 0)
          /\ UNCHANGED disturbances
       \/ /\ ~IsUnchanged(d.row)
          /\ UNCHANGED <<runVars, disturbances>>
       \/ Disturb /\ UNCHANGED runVars
    /\ UNCHANGED <<serverVars, passVars, agentVars, claims>>

-----------------------------------------------------------------------------
(* The scheduler pass: (1) create the due run, (2) take running rows back   *)
(* from lost agents, (3) fail rows that waited too long, (4) cancel for a   *)
(* disabled schedule. Every stage reads a list first and then handles its   *)
(* rows one by one; stages that find nothing are passed over in one step.   *)

IsDue == \A v \in Verifications : rows[v].status \in Finished => rows[v].aged

\* What the stages list.
ScheduledBackups == IF automatic = "interval" THEN Completed ELSE {}

LostRuns ==
    {[row |-> SnapshotOf(v), by |-> NoAgent,
      reason |-> IF contact[rows[v].agent] = "deleted" THEN "AGENT_REMOVED"
                 ELSE "AGENT_LOST_CONTACT"] :
        v \in {w \in Verifications : /\ rows[w].status = "RUNNING"
                                    /\ ~HasFreshAcceptedHeartbeat(rows[w].agent)}}

StalePending ==
    {[row |-> SnapshotOf(v), by |-> NoAgent, reason |-> "UNCLAIMED_TOO_LONG"] :
        v \in {w \in Verifications : rows[w].status = "PENDING" /\ rows[w].aged}}

AutomaticForDisabledSchedules ==
    {v \in Verifications : /\ automatic = "off"
                           /\ rows[v].trigger \in {"SCHEDULED", "AFTER_BACKUP"}
                           /\ rows[v].status \in Active}

Stages == 1..4
Finds(stage) ==
    CASE stage = 1 -> ScheduledBackups # {}
      [] stage = 2 -> LostRuns # {}
      [] stage = 3 -> StalePending # {}
      [] stage = 4 -> AutomaticForDisabledSchedules # {}

IsPassBusy == plan # 0 \/ todo # {} \/ (\E d \in doomed : d.by = NoAgent)

\* The pass comes to this stage, and to the next one after it.
Reaches(stage) ==
    /\ ~IsPassBusy /\ stage >= pass
    /\ Finds(stage) /\ \A earlier \in pass..(stage - 1) : ~Finds(earlier)
    /\ pass' = 1 + (stage % 4)

CreateScheduledRuns ==
    /\ Reaches(1)
    /\ plan' = Max(ScheduledBackups)
    /\ UNCHANGED <<serverVars, runVars, todo, doomed, agentVars, claims, disturbances>>

MayCreateScheduledRun ==
    /\ plan \in Completed             \* else the foreign key refuses the row
    /\ ~HasActive("SCHEDULED")
    /\ IsDue
    /\ \E v \in Verifications : rows[v].status = "unused"   \* the bound on ids

CreateScheduledRun ==
    /\ plan # 0 /\ takeover = NoTakeover
    /\ plan' = 0
    /\ \/ /\ MayCreateScheduledRun
          /\ \E v \in Verifications :
               /\ rows[v].status = "unused"
               /\ rows' = [rows EXCEPT ![v] = NewPending(plan, "SCHEDULED")]
       \/ ~MayCreateScheduledRun /\ UNCHANGED rows
    /\ UNCHANGED <<serverVars, hooks, pass, todo, doomed, agentVars, claims,
                   disturbances>>

ReapStaleRuns ==
    /\ \/ Reaches(2) /\ doomed' = doomed \cup LostRuns
       \/ Reaches(3) /\ doomed' = doomed \cup StalePending
    /\ UNCHANGED <<serverVars, runVars, plan, todo, agentVars, claims, disturbances>>

ListDisabled ==
    /\ Reaches(4)
    /\ todo' = AutomaticForDisabledSchedules
    /\ UNCHANGED <<serverVars, runVars, plan, doomed, agentVars, claims, disturbances>>

CancelForDisabledSchedule(v) ==
    /\ todo' = todo \ {v}
    /\ rows' = MarkCanceled(v, "scheduleDisabled")
    /\ UNCHANGED <<serverVars, hooks, pass, plan, doomed, agentVars, claims,
                   disturbances>>

\* The list of the stage cannot be read; the pass goes on.
StageFails ==
    /\ \E stage \in Stages : Reaches(stage)
    /\ Disturb
    /\ UNCHANGED <<serverVars, runVars, plan, todo, doomed, agentVars, claims>>

EndPass ==
    /\ pass # 1 /\ ~IsPassBusy
    /\ \A stage \in pass..4 : ~Finds(stage)
    /\ pass' = 1
    /\ UNCHANGED <<serverVars, runVars, plan, todo, doomed, agentVars, claims, disturbances>>

-----------------------------------------------------------------------------
(* Time, crashes and restarts.                                              *)

\* The grace of a running row or the longest wait of a pending one passes.
RowAges(v) ==
    /\ rows[v].status \in Active /\ ~rows[v].aged
    /\ rows' = [rows EXCEPT ![v].aged = TRUE]
    /\ UNCHANGED <<serverVars, hooks, passVars, doomed, agentVars, claims,
                   disturbances>>

\* The next slot of the schedule; only an interval schedule looks at it.
SlotComes ==
    /\ automatic = "interval" /\ ~IsDue
    /\ rows' = [v \in Verifications |->
                  IF rows[v].status \in Finished THEN [rows[v] EXCEPT !.aged = TRUE] ELSE rows[v]]
    /\ UNCHANGED <<serverVars, hooks, passVars, doomed, agentVars, claims,
                   disturbances>>

ContactLapses(a) ==
    /\ contact[a] = "fresh"
    /\ contact' = [contact EXCEPT ![a] = "stale"]
    /\ IF a \in up THEN Disturb ELSE UNCHANGED disturbances
    /\ UNCHANGED <<backups, announced, takeover, automatic, runVars, passVars, doomed, agentVars,
                   claims>>

\* A stopped or killed agent reports nothing more; a request may be on its way.
AgentStops(a) ==
    /\ a \in up
    /\ Disturb
    /\ up' = up \ {a}
    /\ jobs' = [v \in Verifications |-> [n \in Attempts |->
                  IF jobs[v][n].agent = a THEN NoJob ELSE jobs[v][n]]]
    /\ strays' \in {strays, strays \cup {StrayOf(k) : k \in {l \in LiveJobs(a) :
                                                          JobAt(l).phase = "reporting"}}}
    /\ registry' = [registry EXCEPT ![a] = [v \in Verifications |-> 0]]
    /\ lastAbort' = [lastAbort EXCEPT ![a] = {}]
    /\ beat' = [beat EXCEPT ![a] = NoBeat]
    /\ UNCHANGED <<serverVars, runVars, passVars, doomed, claims, restored>>

AgentStarts(a) ==
    /\ a \notin up
    /\ up' = up \cup {a}
    /\ UNCHANGED <<serverVars, runVars, passVars, doomed, jobs, registry, lastAbort, beat, strays,
                   claims, restored, disturbances>>

\* The server restarts: what it held in memory is gone, the rows stay.
ServerRestarts ==
    /\ Disturb
    /\ hooks' = {} /\ announced' = FALSE /\ takeover' = NoTakeover
    /\ pass' = 1 /\ plan' = 0 /\ todo' = {} /\ doomed' = {}
    /\ beat' = [a \in Agents |-> NoBeat]
    /\ UNCHANGED <<rows, backups, automatic, contact, up, jobs, registry, lastAbort, strays, claims,
                   restored>>

-----------------------------------------------------------------------------

UserStep ==
    \/ \E v \in Verifications :
         CancelVerification(v) \/ (\E b \in Completed : StartVerification(v, b))
    \/ \E choice \in Schedules : SaveConfig(choice)
    \/ \E a \in Agents : DeleteAgent(a)
    \/ \E b \in 1..MaxBackups : CompleteBackup(b) \/ OnLogicalBackupsDeleting(b)

JobStep(k) ==
    \/ TrackVerification(k) \/ GetBackupFile(k) \/ FinishWork(k)
    \/ Report(k) \/ AbandonReport(k) \/ UntrackVerification(k)

HeartbeatStep(a) ==
    \/ SendHeartbeat(a) \/ AbortVerifications(a) \/ LoseAnswer(a)

PassStep ==
    \/ CreateScheduledRuns \/ CreateScheduledRun \/ ReapStaleRuns \/ ListDisabled \/ EndPass
    \/ \E v \in todo : CancelForDisabledSchedule(v)

Next ==
    \/ UserStep
    \/ OnLogicalBackupCompleted \/ ScheduleVerificationForCompletedBackup
    \/ \E a \in Agents, v \in Verifications : ClaimVerification(a, v)
    \/ \E k \in JobKeys : JobStep(k)
    \/ \E s \in strays : LateReport(s)
    \/ \E h \in hooks : SyncBackupVerificationStatus(h)
    \/ \E a \in Agents : HeartbeatStep(a)
    \/ \E d \in doomed : RequeueOrFail(d)
    \/ PassStep \/ StageFails
    \/ \E v \in Verifications : RowAges(v)
    \/ SlotComes
    \/ \E a \in Agents : ContactLapses(a) \/ AgentStops(a) \/ AgentStarts(a)
    \/ ServerRestarts

Spec == Init /\ [][Next]_vars

Fairness ==
    /\ WF_vars(PassStep) /\ WF_vars(ScheduleVerificationForCompletedBackup)
    /\ WF_vars(\E d \in doomed : RequeueOrFail(d))
    /\ \A v \in Verifications : WF_vars(RowAges(v))
    /\ \A k \in JobKeys : WF_vars(JobStep(k))
    /\ \A a \in Agents : /\ WF_vars(SendHeartbeat(a) \/ AbortVerifications(a))
                        /\ WF_vars(a \notin up /\ ContactLapses(a))

FairSpec == Spec /\ Fairness

-----------------------------------------------------------------------------
(* Properties.                                                              *)

\* A finished run keeps its outcome until its backup is removed: no late report,
\* heartbeat, reaper or cancel that read the row earlier writes over it
\* (RequeueOrFail's recheck, the filters of MarkTerminal and WriteSuccessReport).
OutcomeStays ==
    [][\A v \in Verifications : rows[v].status \in Finished =>
         rows'[v] \in {rows[v], [rows[v] EXCEPT !.aged = TRUE], NoRow("removed")}]_vars

\* Every attempt counted was handed to an agent once: neither two parties that take
\* the same run back, nor a repeated report, count an attempt that nobody was given
\* (retry_service.go), so a run that fails for good had its full number of tries.
EachAttemptHandedOutOnce ==
    \A v \in Verifications : rows[v].status \in Active \cup Finished =>
        LET n == rows[v].attempt IN
        CASE rows[v].status = "PENDING" -> claims[v] = n - 1
          [] rows[v].status \in {"RUNNING", "COMPLETED"} -> claims[v] = n
          [] rows[v].status = "FAILED" ->
               claims[v] = IF rows[v].message = "unclaimed" THEN n - 1 ELSE n
          [] rows[v].status = "CANCELED" -> claims[v] \in {n - 1, n}

\* A database never has two manual or two scheduled runs under way, whoever starts,
\* requeues or ends them (GetActiveForDatabase in StartVerification and
\* createScheduledRun).
OneRunPerTrigger ==
    \A trigger \in {"MANUAL", "SCHEDULED"} :
        Cardinality({v \in Verifications : rows[v].trigger = trigger
                                           /\ rows[v].status \in Active}) <= 1

\* A backup is shown as verified only if an agent did restore it under a run that is
\* recorded as completed, and as failed only if such a run failed; a removed backup
\* stays removed (the after-commit hook of submitReport and requeueOrFail).
BackupStatusBacked ==
    \A b \in Completed :
        /\ backups[b] = "VERIFIED_SUCCESSFUL" =>
             \E v \in restored : rows[v].backup = b /\ rows[v].status = "COMPLETED"
        /\ backups[b] = "VERIFICATION_FAILED" =>
             \E v \in Verifications : rows[v].backup = b /\ rows[v].status = "FAILED"

\* Every run ends, whatever agents crash, go silent, drop it or are deleted
\* (reapStaleRuns, reclaimDroppedRunningJobs).
EveryRunEnds ==
    \A v \in Verifications : rows[v].status \in Active ~> rows[v].status \notin Active
===============================================================================
