--------------------------- MODULE PhysicalBackups ---------------------------
(***************************************************************************)
(* Physical backups of one PostgreSQL database: chains of a full backup    *)
(* and its incrementals, the archived write-ahead log they replay, and the *)
(* retention that removes both.                                            *)
(*                                                                         *)
(* The scheduler claims the one running row of the database and hands it   *)
(* to a process; the user requests, cancels and deletes backups; the       *)
(* cleaner lists the chains and the WAL the retention policy gives up and  *)
(* then removes them one transaction at a time, from a list that may be    *)
(* stale by then.                                                          *)
(*                                                                         *)
(* Simplifications.                                                        *)
(*  - One database, one timeline, one storage, backups and incrementals    *)
(*    enabled.  Timeline history files and files in the storage follow the *)
(*    rows and are left out; module FileStore has the deletion of files.   *)
(*  - Log positions are numbers, a WAL segment spans SegmentSize of them.  *)
(*    A segment is archived at once; module WalArchiving has its upload.   *)
(*    The log moves when somebody looks at it: the start or the stop of a  *)
(*    backup or the end of an archived segment is any later position.      *)
(*  - When a full or an incremental is due is left open: a cadence may     *)
(*    become due at any time or never.  A re-anchoring full is one more    *)
(*    scheduled full.                                                      *)
(*  - Backups are numbered in the order of their creation.  GFS retention  *)
(*    keeps a set of fulls like LAST_N does and is not distinguished.      *)
(*  - The decision taken before the claim can only skip a turn; the one    *)
(*    repeated under the lock is the one modelled.  The source keeps its   *)
(*    system identifier, whose mismatch stops all but requested fulls.     *)
(*  - A removal of the cleaner that fails changes nothing, and the next    *)
(*    pass lists the chain again: it is left out.                          *)
(***************************************************************************)
EXTENDS Naturals, FiniteSets, FiniteSetsExt, Sequences

CONSTANTS
    MaxBackups,     \* bound on the backups of a behaviour
    Segments,       \* number of WAL segments of a behaviour
    SegmentSize,    \* log positions in a segment
    Stride,         \* bound on what the log moves between two looks at it
    MaxTries,       \* maxConsecutiveFailedIncrTries
    Policies,       \* the retention policies the database may be configured with
    KeepChains,     \* Retention.ChainsCount
    KeepFulls,      \* Retention.FullBackups.Count
    WalBudget,      \* segments one budgeted chain deletion may remove
    Grace,          \* age a chain's end must reach before retention takes it
    MaxTime,        \* bound on the clock
    MaxEvents       \* bound on what disturbs the schedule: requests, cancels
                    \* and deletions of the user, failures, restarts

Ids == 1..MaxBackups
Segs == 1..Segments
MaxLsn == Segments * SegmentSize
Lsn == 0..MaxLsn

ASSUME PhysicalAssumption ==
    /\ MaxBackups \in Nat /\ Segments \in Nat \ {0} /\ SegmentSize \in Nat \ {0}
    /\ Stride \in Nat
    /\ MaxTries \in Nat \ {0}
    /\ Policies \subseteq {"CHAINS", "FULL_BACKUPS", "CHAINS_AND_FULL_BACKUPS"}
    /\ KeepChains \in Nat \ {0} /\ KeepFulls \in Nat \ {0}
    /\ WalBudget \in Nat \ {0} /\ Grace \in Nat /\ MaxTime \in Nat \ {0}
    /\ MaxEvents \in Nat

VARIABLES
    backups,    \* the rows of backups_physical, by number
    created,    \* number of the last backup created
    pos,        \* the furthest position of the source's log seen so far
    received,   \* when each segment was archived, 0 if it was not
    removed,    \* what removed each archived segment
    now,        \* the clock
    run,        \* the live run of the database
    forceFull,  \* ForceFullRequestedAt, as the event of the request; 0 is nil
    forceIncr,  \* ForceIncrementalRequestedAt, likewise
    unserved,   \* a full was requested and none was claimed since
    cleaner,    \* what the pass of the cleaner has listed and not removed yet
    events      \* events still to come

catalogVars == <<backups, created>>
logVars == <<pos, received, removed>>
requestVars == <<forceFull, forceIncr, unserved>>

vars == <<catalogVars, logVars, now, run, requestVars, cleaner, events>>

Row == [kind: {"FULL", "INCREMENTAL"},
        status: {"IN_PROGRESS", "COMPLETED", "ERROR", "CHAIN_BROKEN", "CANCELED"},
        root: 0..MaxBackups, parent: 0..MaxBackups,
        start: Lsn, stop: Lsn,
        done: 0..MaxTime,     \* completed_at, 0 while running
        moved: BOOLEAN]       \* ended by a failover or a timeline switch

Run == [stage: {"idle", "claimed", "running"}, id: 0..MaxBackups,
        start: Lsn, full: 0..MaxEvents, incr: 0..MaxEvents]

NoRun == [stage |-> "idle", id |-> 0, start |-> 0, full |-> 0, incr |-> 0]

Removal == [by: {"nobody", "delete", "shed", "sweep"}, at: Lsn]

NotRemoved == [by |-> "nobody", at |-> 0]

Job == [root: Ids, keepFull: BOOLEAN]

Cleaner == [jobs: Seq(Job), orphans: SUBSET Segs,
            spares: 0..(MaxBackups + 1)]  \* the full extendable at the listing,
                                          \* or the first that could be since

Idle == [jobs |-> <<>>, orphans |-> {}, spares |-> 0]

-----------------------------------------------------------------------------
(***************************************************************************)
(* Queries of the catalog.                                                 *)
(***************************************************************************)
\* Where the log may have got to when somebody looks at it.
Ahead == {p \in pos..(pos + Stride) : p <= MaxLsn}

Disturb == events > 0 /\ events' = events - 1

SegStart(s) == (s - 1) * SegmentSize
SegEnd(s) == s * SegmentSize

Wal == {s \in Segs : received[s] # 0 /\ removed[s] = NotRemoved}

Fulls == {b \in DOMAIN backups : backups[b].kind = "FULL"}
Completed == {b \in DOMAIN backups : backups[b].status = "COMPLETED"}
CompletedFulls == Fulls \cap Completed
Running == {b \in DOMAIN backups : backups[b].status = "IN_PROGRESS"}
HasRunningFull == Running \cap Fulls # {}

Incrementals(f) == {b \in DOMAIN backups \ Fulls : backups[b].root = f}

\* isExtendable: the newest completed full, unless an incremental broke its
\* chain; 0 if there is none.
ExtendableRoot ==
    LET newest == Max(CompletedFulls \cup {0})
    IN  IF \E b \in Incrementals(newest) : backups[b].status = "CHAIN_BROKEN"
        THEN 0 ELSE newest

\* Mutant: the newest incremental is extended, however it ended.
IncrementalParentAny(f) == Max(Incrementals(f) \cup {f})

\* FindLatestCompletedByRootFull: what the next incremental of the chain
\* extends.
IncrementalParent(f) ==
    LET done == Incrementals(f) \cap Completed
    IN  IF done = {} THEN f
        ELSE CHOOSE b \in done : \A c \in done : backups[c].start <= backups[b].start

\* FindNextCompletedFull and LSNMax: where the log a full owns ends.
SpanEnd(f) ==
    LET later == {backups[g].start : g \in {g \in CompletedFulls :
                                            backups[g].start > backups[f].start}}
    IN  IF later = {} THEN MaxLsn ELSE Min(later)

\* HasCompletedFullBefore
HasPredecessor(f) ==
    \E g \in CompletedFulls : backups[g].start < backups[f].start

\* HasCompletedFullBackupCoveringWal
IsCovered(s) == \E f \in CompletedFulls : backups[f].start < SegEnd(s)

\* FindContained: the archived segments lying wholly in a span.
Contained(from, to) == {s \in Wal : SegStart(s) >= from /\ SegEnd(s) <= to}

\* GetChainEndTimestamp: the last sign of life of a chain, the segments
\* overlapping its span included.
ChainEnd(f) ==
    Max({backups[f].done} \cup {backups[b].done : b \in Incrementals(f)}
        \cup {received[s] : s \in {s \in Wal : SegStart(s) < SpanEnd(f)
                                            /\ SegEnd(s) > backups[f].start}})

IsWithinGrace(f) == now - ChainEnd(f) < Grace

-----------------------------------------------------------------------------
(***************************************************************************)
(* The scheduler.  registerRun refuses while a process of the database is  *)
(* alive, InsertRunning while a row is IN_PROGRESS.                        *)
(***************************************************************************)

\* decideImmediateReplacementFull
ReplacementDue ==
    LET full == Max(Fulls \cup {0})
        incr == Max((DOMAIN backups \ Fulls) \cup {0})
    IN  \/ full # 0 /\ backups[full].status = "ERROR" /\ backups[full].moved
        \/ incr # 0 /\ backups[incr].moved /\ full < incr

\* Mutant: a second row may be running.
MayInsertBeside == TRUE

\* InsertRunning: one running row per database, by a partial unique index.
MayInsert == Running = {}

\* claimAndInsert for the decision taken; "full" and "incr" are the requests
\* it serves.
Claim(kind, root, full, incr) ==
    /\ run.stage = "idle"
    /\ MayInsert
    /\ created < MaxBackups
    /\ created' = created + 1
    /\ backups' = [b \in DOMAIN backups \cup {created + 1} |->
                     IF b # created + 1 THEN backups[b]
                     ELSE [kind |-> kind, status |-> "IN_PROGRESS", root |-> root,
                           parent |-> IF root = 0 THEN 0 ELSE IncrementalParent(root),
                           start |-> 0, stop |-> 0, done |-> 0, moved |-> FALSE]]
    /\ run' = [stage |-> "claimed", id |-> created + 1, start |-> 0,
               full |-> full, incr |-> incr]
    /\ unserved' = (unserved /\ kind # "FULL")
    /\ UNCHANGED <<logVars, now, forceFull, cleaner, events>>

ClaimForcedFull ==
    /\ forceFull # 0
    /\ Claim("FULL", 0, forceFull, 0)
    /\ UNCHANGED forceIncr

ClaimReplacementFull ==
    /\ forceFull = 0
    /\ ReplacementDue
    /\ Claim("FULL", 0, 0, 0)
    /\ UNCHANGED forceIncr

\* A request for an incremental goes before a cadence that is due; without a
\* chain to extend it is dropped.
ClaimForcedIncremental ==
    /\ forceFull = 0 /\ ~ReplacementDue
    /\ forceIncr # 0
    /\ ExtendableRoot # 0
    /\ Claim("INCREMENTAL", ExtendableRoot, 0, forceIncr)
    /\ UNCHANGED forceIncr

ClaimScheduledFull ==
    /\ forceFull = 0 /\ ~ReplacementDue
    /\ forceIncr # 0 => ExtendableRoot = 0
    /\ Claim("FULL", 0, 0, 0)
    /\ forceIncr' = 0

ClaimScheduledIncremental ==
    /\ forceFull = 0 /\ ~ReplacementDue
    /\ forceIncr = 0
    /\ ExtendableRoot # 0
    /\ Claim("INCREMENTAL", ExtendableRoot, 0, 0)
    /\ UNCHANGED forceIncr

\* The turn of a database whose incremental request has no chain and for
\* which nothing is due or a backup is still running; the request is dropped
\* before the run is registered.
DropIncrementalRequest ==
    /\ forceFull = 0 /\ ~ReplacementDue
    /\ forceIncr # 0 /\ ExtendableRoot = 0
    /\ forceIncr' = 0
    /\ UNCHANGED <<catalogVars, logVars, now, run, forceFull, unserved,
                   cleaner, events>>

-----------------------------------------------------------------------------
(***************************************************************************)
(* The run.  Its start and stop positions are the source's; the row gets   *)
(* them when it completes.  Every transition asks for an IN_PROGRESS row:  *)
(* a row that was cancelled or deleted meanwhile stays as it is and the    *)
(* files of the run are given up.                                          *)
(***************************************************************************)

\* Mutant: the request is cleared whatever it has become.
ClearedAny(force, read) == IF read # 0 THEN 0 ELSE force

\* The request the claim read is cleared by a statement of its own, unless a
\* newer one has taken its place.
Cleared(force, read) == IF force = read THEN 0 ELSE force

\* scheduleBackup after the claim, and MakeBackup, which does nothing for a row
\* that is no longer running.  A request that cannot be cleared stays and is
\* served again.
Begin ==
    /\ run.stage = "claimed"
    /\ \/ /\ forceFull' = Cleared(forceFull, run.full)
          /\ forceIncr' = Cleared(forceIncr, run.incr)
          /\ UNCHANGED events
       \/ /\ Disturb
          /\ run.full # 0 \/ run.incr # 0
          /\ UNCHANGED <<forceFull, forceIncr>>
    /\ IF run.id \in Running
       THEN \E start \in Ahead :
              /\ run' = [stage |-> "running", id |-> run.id, start |-> start,
                         full |-> 0, incr |-> 0]
              /\ pos' = start
       ELSE run' = NoRun /\ UNCHANGED pos
    /\ UNCHANGED <<catalogVars, now, received, removed, unserved, cleaner>>

\* A row of the table as its end leaves it.
Ended(row, status, start, stop, moved) ==
    [kind |-> row.kind, status |-> status, root |-> row.root, parent |-> row.parent,
     start |-> start, stop |-> stop, done |-> now, moved |-> moved]

\* Mutant: the row is changed whatever its status.
TerminateAny(b, status, start, stop, moved) ==
    [c \in DOMAIN backups |->
        IF c = b THEN Ended(backups[c], status, start, stop, moved) ELSE backups[c]]

\* transition and markTerminal: only a row that is still running changes.
Terminate(b, status, start, stop, moved) ==
    [c \in DOMAIN backups |->
        IF c = b /\ c \in Running THEN Ended(backups[c], status, start, stop, moved)
        ELSE backups[c]]

Finish(status, start, stop, moved) ==
    /\ run.stage = "running"
    /\ backups' = Terminate(run.id, status, start, stop, moved)
    /\ run' = NoRun
    /\ UNCHANGED <<now, requestVars, created, received, removed, cleaner>>

\* A run past its last look at its context completes although it was
\* cancelled; Terminate then keeps the row as it is.
Complete ==
    /\ \E stop \in Ahead :
         /\ stop > run.start
         /\ Finish("COMPLETED", run.start, stop, FALSE)
         /\ pos' = stop
    /\ UNCHANGED events

\* isIncrRetryBudgetExhausted: the newest MaxTries incrementals of the chain
\* are this one and MaxTries - 1 failed ones.
RetriesExhausted(b) ==
    LET older == Incrementals(backups[b].root) \ {b}
        recent == {c \in older : Cardinality({d \in older : d > c}) < MaxTries - 1}
    IN  /\ Cardinality(recent) = MaxTries - 1
        /\ \A c \in recent : backups[c].status = "ERROR"

\* finalizeAsError: the run fails before the execution, or panics.
FailToOpen ==
    /\ Disturb
    /\ UNCHANGED pos
    /\ Finish("ERROR", 0, 0, FALSE)

\* A failed execution; a failover is told apart because it asks for a
\* replacement.
Fail ==
    /\ Disturb
    /\ UNCHANGED pos
    /\ IF run.id \in Running \ Fulls
       THEN Finish(IF RetriesExhausted(run.id) THEN "CHAIN_BROKEN" ELSE "ERROR",
                   0, 0, FALSE)
       ELSE \E moved \in BOOLEAN : Finish("ERROR", 0, 0, moved)

\* The parent's manifest, the WAL summaries or the timeline no longer allow an
\* incremental of this chain; only its timeline switch asks for a replacement.
\* A full is refused on an older timeline or when it starts outside its own.
BreakChain ==
    /\ Disturb
    /\ UNCHANGED pos
    /\ run.id \in Running
    /\ \E moved \in IF run.id \in Fulls THEN {FALSE} ELSE BOOLEAN :
         Finish("CHAIN_BROKEN", 0, 0, moved)

\* A process told to stop by a cancel or a deletion ends with nothing to write.
Abandon ==
    /\ run.stage = "running"
    /\ run.id \notin Running
    /\ run' = NoRun
    /\ UNCHANGED <<catalogVars, logVars, now, requestVars, cleaner,
                   events>>

\* The row cannot be read or its outcome not written: it is left IN_PROGRESS.
PersistFails ==
    /\ Disturb
    /\ run.stage = "running"
    /\ run' = NoRun
    /\ UNCHANGED <<catalogVars, logVars, now, requestVars, cleaner>>

\* The application stops and starts again: FailBackupsLeftInProgress.
Restart ==
    /\ Disturb
    /\ backups' = [b \in DOMAIN backups |->
                     Terminate(b, "ERROR", 0, 0, FALSE)[b]]
    /\ run' = NoRun
    /\ cleaner' = Idle
    /\ UNCHANGED <<logVars, now, requestVars, created>>

-----------------------------------------------------------------------------
(***************************************************************************)
(* Removal of a chain, in one transaction under the lock of the database.  *)
(***************************************************************************)

\* Mutant: an older full that could replay the WAL is not looked for.
RemovableWalOwned(f, keepFull) ==
    IF HasRunningFull \/ backups[f].start = 0 THEN {}
    ELSE Contained(backups[f].start, SpanEnd(f))

\* getFullRemovalWalPlan: a full takes its WAL along only when nothing older
\* can replay it, and never while a full runs, whose start is not known yet.
RemovableWal(f, keepFull) ==
    IF \/ HasRunningFull
       \/ backups[f].start = 0
       \/ ~keepFull /\ HasPredecessor(f)
    THEN {}
    ELSE Contained(backups[f].start, SpanEnd(f))

\* deleteWalInSpanBudgeted: the oldest segments up to the budget.
WithinBudget(wal, budget) ==
    {s \in wal : Cardinality({t \in wal : t < s}) < budget}

RemoveWal(wal, by, at) ==
    removed' = [s \in Segs |-> IF s \in wal THEN [by |-> by, at |-> at] ELSE removed[s]]

RemoveRows(gone) ==
    backups' = [b \in DOMAIN backups \ gone |-> backups[b]]

\* cascadeDelete; a call that used up its budget leaves the rows to the next.
CascadeDelete(f, budget, keepFull) ==
    LET wal == RemovableWal(f, keepFull)
    IN  /\ RemoveWal(WithinBudget(wal, budget),
                     IF keepFull THEN "shed" ELSE "delete", backups[f].start)
        /\ RemoveRows(IF Cardinality(wal) >= budget THEN {}
                      ELSE Incrementals(f) \cup (IF keepFull THEN {} ELSE {f}))

\* collectIncrementalSubtree
Subtree(i) ==
    LET below[b \in 1..created] ==
          \/ b = i
          \/ /\ b \in DOMAIN backups
             /\ backups[b].parent \in i..(b - 1)
             /\ below[backups[b].parent]
    IN  {b \in DOMAIN backups : below[b]}

-----------------------------------------------------------------------------
(***************************************************************************)
(* The user.                                                               *)
(***************************************************************************)
RequestFull ==
    /\ Disturb
    /\ forceFull' = events
    /\ unserved' = TRUE
    /\ UNCHANGED <<catalogVars, logVars, now, run, forceIncr, cleaner>>

RequestIncremental ==
    /\ Disturb
    /\ ExtendableRoot # 0
    /\ forceIncr' = events
    /\ UNCHANGED <<catalogVars, logVars, now, run, forceFull, unserved,
                   cleaner>>

\* CancelBackup; the row ends before the process hears of it.
Cancel ==
    /\ Disturb
    /\ \E b \in Running : backups' = Terminate(b, "CANCELED", 0, 0, FALSE)
    /\ UNCHANGED <<logVars, now, requestVars, created, run, cleaner>>

\* DeleteBackup: DeleteFullCompletely repeats the cascade without a budget, so
\* once is enough; DeleteIncrementalCascade leaves the full and the WAL.
Delete ==
    /\ Disturb
    /\ \E b \in DOMAIN backups :
         IF b \in Fulls
         THEN CascadeDelete(b, Segments + 1, FALSE)
         ELSE RemoveRows(Subtree(b)) /\ UNCHANGED removed
    /\ UNCHANGED <<now, requestVars, created, pos, received, run, cleaner>>

-----------------------------------------------------------------------------
(***************************************************************************)
(* The cleaner.                                                            *)
(***************************************************************************)

\* Mutant: the extendable chain is listed with the others.
NonExtendableAll == CompletedFulls

\* FindNonExtendableChainsByDatabase
NonExtendable == CompletedFulls \ {ExtendableRoot}

\* Sorted by chain end, newest first; the sort keeps the newest full first
\* among equal ends.
EndsAfter(f, g) ==
    \/ ChainEnd(f) > ChainEnd(g)
    \/ ChainEnd(f) = ChainEnd(g) /\ f > g

NewestEndFirst(fulls) ==
    CHOOSE order \in [1..Cardinality(fulls) -> fulls] :
        \A i, j \in DOMAIN order : i < j => EndsAfter(order[i], order[j])

\* getRetainedTiersByFullBackupID for LAST_N
RetainedFulls ==
    {f \in CompletedFulls : Cardinality({g \in CompletedFulls : g > f}) < KeepFulls}

\* The N chains with the newest end.
RetainedChains ==
    LET chains == NewestEndFirst(NonExtendable)
    IN  {chains[i] : i \in {i \in DOMAIN chains : i <= KeepChains}}

\* cleanByChains, cleanByFulls and cleanByCombined; the clock is read at the
\* listing for every chain of it.
RetentionJobs(policy) ==
    LET kept == CASE policy = "CHAINS" -> RetainedChains
                  [] policy = "FULL_BACKUPS" -> {}
                  [] policy = "CHAINS_AND_FULL_BACKUPS" -> RetainedChains \cup RetainedFulls
        given == {f \in NonExtendable \ kept : ~IsWithinGrace(f)}
        order == NewestEndFirst(given)
    IN  [i \in DOMAIN order |->
           [root |-> order[i],
            keepFull |-> policy = "FULL_BACKUPS" /\ order[i] \in RetainedFulls]]

\* RunPass removes what its first listing gives up and then lists and sweeps
\* the orphans; a listing that finds nothing is left out.  The policy is read at
\* every pass and may have been reconfigured since the last.
ListChains ==
    /\ cleaner = Idle
    /\ \E f \in NonExtendable : ~IsWithinGrace(f)
    /\ \E jobs \in {RetentionJobs(p) : p \in Policies} \ {<<>>} :
         cleaner' = [Idle EXCEPT !.jobs = jobs,
                                 !.spares = IF ExtendableRoot # 0 THEN ExtendableRoot
                                            ELSE Max(CompletedFulls) + 1]
    /\ UNCHANGED <<catalogVars, logVars, now, requestVars, run, events>>

\* DeleteFull or DeleteChainDependentsKeepFull on the next chain listed; a
\* chain that has gone meanwhile is passed over.
CleanChain ==
    /\ cleaner.jobs # <<>>
    /\ cleaner' = IF Len(cleaner.jobs) = 1 THEN Idle
                  ELSE [cleaner EXCEPT !.jobs = Tail(@)]
    /\ LET job == Head(cleaner.jobs)
       IN  IF job.root \in DOMAIN backups
           THEN CascadeDelete(job.root, WalBudget, job.keepFull)
           ELSE UNCHANGED <<backups, removed>>
    /\ UNCHANGED <<now, requestVars, created, pos, received, run, events>>

\* FindOrphans
Orphans == {s \in Wal : ~IsCovered(s)}

ListOrphans ==
    /\ cleaner = Idle
    /\ Orphans # {}
    /\ cleaner' = [Idle EXCEPT !.orphans = Orphans]
    /\ UNCHANGED <<catalogVars, logVars, now, requestVars, run, events>>

\* DeleteOrphanWalSegmentsInSpan looks again, under the lock.
IsOrphan(s) == s \in Orphans /\ ~HasRunningFull

SweepOrphan ==
    /\ cleaner.orphans # {}
    /\ LET s == Min(cleaner.orphans)
       IN  /\ cleaner' = [cleaner EXCEPT !.orphans = @ \ {s}]
           /\ RemoveWal(IF IsOrphan(s) THEN {s} ELSE {}, "sweep", 0)
    /\ UNCHANGED <<catalogVars, now, requestVars, pos, received, run,
                   events>>

-----------------------------------------------------------------------------
(***************************************************************************)
(* The source, the archive and the clock.                                  *)
(***************************************************************************)
\* A finished segment reaches the archive, late, out of order or never.
Archive ==
    /\ \E s \in Segs :
         /\ received[s] = 0 /\ SegEnd(s) <= Max(Ahead)
         /\ received' = [received EXCEPT ![s] = now]
         /\ pos' = Max({pos, SegEnd(s)})
    /\ UNCHANGED <<catalogVars, now, requestVars, removed, run, cleaner,
                   events>>

Tick ==
    /\ Disturb
    /\ now < MaxTime
    /\ now' = now + 1
    /\ UNCHANGED <<catalogVars, logVars, requestVars, run, cleaner>>

Init ==
    /\ backups = <<>> /\ created = 0
    /\ pos = 1 /\ now = 1
    /\ received = [s \in Segs |-> 0] /\ removed = [s \in Segs |-> NotRemoved]
    /\ run = NoRun
    /\ forceFull = 0 /\ forceIncr = 0 /\ unserved = FALSE
    /\ cleaner = Idle
    /\ events = MaxEvents

Scheduling ==
    \/ ClaimForcedFull \/ ClaimReplacementFull \/ ClaimForcedIncremental
    \/ ClaimScheduledFull \/ ClaimScheduledIncremental
    \/ DropIncrementalRequest

Process ==
    \/ Begin \/ Complete \/ FailToOpen \/ Fail \/ BreakChain
    \/ Abandon \/ PersistFails \/ Restart

User == RequestFull \/ RequestIncremental \/ Cancel \/ Delete

Cleaning == ListChains \/ CleanChain \/ ListOrphans \/ SweepOrphan

Environment == Archive \/ Tick

Next == Scheduling \/ Process \/ User \/ Cleaning \/ Environment

Spec == Init /\ [][Next]_vars

-----------------------------------------------------------------------------
(***************************************************************************)
(* Properties.                                                             *)
(***************************************************************************)

\* The variables have their types, and one backup runs at most, also after an
\* outcome could not be written.
TypeOK ==
    /\ DOMAIN backups \subseteq 1..created
    /\ \A b \in DOMAIN backups : backups[b] \in Row
    /\ created \in 0..MaxBackups
    /\ Cardinality(Running) <= 1
    /\ pos \in Lsn
    /\ received \in [Segs -> 0..MaxTime]
    /\ removed \in [Segs -> Removal]
    /\ now \in 1..MaxTime
    /\ run \in Run
    /\ forceFull \in 0..MaxEvents /\ forceIncr \in 0..MaxEvents
    /\ unserved \in BOOLEAN
    /\ cleaner \in Cleaner
    /\ events \in 0..MaxEvents

\* No removal of a chain, a backup or an orphan takes a segment that a
\* remaining full needs to replay the log: a segment reaching past the start
\* of a completed full is gone only because retention was removing that very
\* full, or shed the WAL of that full or a later one.
WalKept ==
    \A f \in CompletedFulls, s \in Segs :
        removed[s].by # "nobody" /\ SegEnd(s) > backups[f].start =>
            \/ removed[s].by = "delete" /\ removed[s].at = backups[f].start
            \/ removed[s].by = "shed" /\ removed[s].at >= backups[f].start

\* restoreSetForIncremental takes the completed incrementals that start no
\* later than the target for its ancestors: whatever was cancelled, deleted
\* or failed in between, they are the line of its parents, its full included.
RestoreSetIsLineage ==
    \A i \in Completed \ Fulls :
        LET root == backups[i].root
            before == {c \in (Incrementals(root) \cap Completed) \ {i} :
                         backups[c].start <= backups[i].start}
        IN  /\ root \in CompletedFulls
            /\ backups[i].parent \in before \cup {root}
            /\ \A c \in before : /\ backups[c].start <= backups[backups[i].parent].start
                                 /\ backups[c].stop <= backups[i].start

\* A request for a full backup is cleared only once a full was claimed after
\* it, also when it is renewed between the claim and the clearing.
RequestKept == unserved => forceFull # 0

\* A backup that has ended keeps its outcome until it is deleted: neither a
\* completion that arrives after a cancel nor a restart changes it.
OutcomeFinal ==
    [][\A b \in DOMAIN backups \ Running :
          b \in DOMAIN backups' => backups'[b] = backups[b]]_vars

\* resolveRestoreReach for the latest point: the end of the unbroken WAL after
\* the last backup of the newest chain.
LatestReach ==
    LET root == Max(CompletedFulls)
        from == backups[IncrementalParent(root)].stop
        after == {s \in Segs : SegEnd(s) > from}
        unbroken == {s \in after : \A t \in after : t <= s => t \in Wal}
    IN  IF unbroken = {} THEN from ELSE SegEnd(Max(unbroken))

\* A pass of the cleaner never moves the point a latest restore reaches on the
\* chain that could be extended when it made its list, or on one begun since,
\* whatever completed, arrived or was deleted in between.
ActiveReachKept ==
    [][/\ cleaner # Idle
       /\ CleanChain \/ SweepOrphan
       /\ ExtendableRoot # 0 /\ ExtendableRoot >= cleaner.spares
       => ExtendableRoot' = ExtendableRoot /\ LatestReach' = LatestReach]_vars
=============================================================================
