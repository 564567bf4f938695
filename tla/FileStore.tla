------------------------------ MODULE FileStore ------------------------------
(***************************************************************************)
(* The file store of the storages module                                   *)
(* (backend/internal/modules/storages/internal/files).  Before the first   *)
(* byte of a backup file leaves for a provider, a row of the table         *)
(* storages_pending_file_deletions records the obligation to remove the    *)
(* file.  The row goes away with the transaction that publishes the file,  *)
(* with a deletion the provider confirmed while its lease was valid, or    *)
(* with the storage.  Writers, catalog transactions, the deletion job of   *)
(* every instance, the provider and the clock interleave step by step.     *)
(*                                                                         *)
(* What the model abstracts:                                               *)
(*  - all files are of one storage, and a file name is written by at most  *)
(*    one writer (the callers put a fresh UUID into every name);           *)
(*  - a not_before instant is kept as the time left until it ("wait"), so  *)
(*    not_before <= now is wait = 0 and Tick lets time pass;               *)
(*  - a statement or a transaction that returns an error had no effect; a  *)
(*    conditional UPDATE is atomic (PostgreSQL re-checks it on the row it  *)
(*    locked);                                                             *)
(*  - catalog[f] stands for the backup row that names f: "open" while its  *)
(*    owner may still publish it, "dropped" once a transaction ended or    *)
(*    removed it and requested the deletion of f;                          *)
(*  - MaxDisturbances bounds how often the environment misbehaves (an I/O  *)
(*    or database error, a lost session, a crash, an attempt that outlives *)
(*    its lease, a deletion request), which bounds the generations.        *)
(***************************************************************************)
EXTENDS Naturals, FiniteSets

CONSTANTS
    Files,           \* names of the files of the storage
    Instances,       \* application processes (a supported installation runs one)
    None,            \* no row, no holder, no attempt
    CommitWindow,    \* Timings.CommitWindow
    AttemptLease,    \* Timings.AttemptLease
    RetryBaseDelay,  \* Timings.RetryBaseDelay
    RetryMaxDelay,   \* Timings.RetryMaxDelay
    ClaimBatchSize,  \* Timings.ClaimBatchSize
    MaxDisturbances  \* bound on the environment's misbehaviour

\* A row of storages_pending_file_deletions, and a claim of the job on one.
Row   == [id : Nat, gen : Nat, wait : Nat, attempts : Nat]
Claim == [file : Files, id : Nat, gen : Nat]

ASSUME NoneAssumption == None \notin Instances \cup Row \cup Claim
ASSUME TimingsAssumption ==
    /\ CommitWindow \in Nat \ {0} /\ AttemptLease \in Nat \ {0}
    /\ RetryBaseDelay \in Nat \ {0} /\ RetryMaxDelay \in Nat \ {0}
    /\ ClaimBatchSize \in Nat \ {0} /\ MaxDisturbances \in Nat

VARIABLES
    pending,      \* [Files -> row of storages_pending_file_deletions or None]
    lastId,       \* [Files -> last row id handed out for the file] (uuid.New)
    storage,      \* the storage row: present, deleted, or deleted with obligations abandoned
    provider,     \* [Files -> what the provider stores]
    catalog,      \* [Files -> the backup row naming the file]
    wpc,          \* [Files -> where the writer of the file is]
    at,           \* [Files -> the instance the writer runs in]
    wid,          \* [Files -> the row id of the writer]
    kept,         \* files whose writer holds a receipt (or is about to)
    cancelled,    \* files whose write context is canceled
    live,         \* [Instances -> Store.liveWrites, as files]
    conn,         \* [Instances -> WriteProtectionRepository.connection]
    active,       \* [Instances -> WriteProtectionRepository.activeWrites]
    failure,      \* instances whose WriteProtectionRepository.failure is set
    held,         \* [Files -> instance whose session holds the advisory lock]
    stale,        \* files locked by a session its instance no longer uses
    jpc,          \* [Instances -> where the deletion job is]
    batch,        \* [Instances -> claimed rows still to be attempted]
    current,      \* [Instances -> the row being attempted]
    disturbances  \* misbehaviour so far

rowVars    == <<pending, lastId, storage>>
writerVars == <<wpc, at, wid, kept, cancelled, live>>
guardVars  == <<conn, active, failure, held, stale>>
jobVars    == <<jpc, batch, current>>
vars == <<rowVars, provider, catalog, writerVars, guardVars, jobVars, disturbances>>

WriterPcs == {"idle", "joined", "protected", "registered", "saving", "saved",
              "releasing", "leaving", "done", "dead"}
JobPcs    == {"idle", "pass", "deleting", "deleted", "failed"}

\* Row is compared with None everywhere through this operator: None is no row.
HasRow(f) == pending[f] # None

StorageExists == storage = "present"

Init ==
    /\ pending = [f \in Files |-> None]
    /\ lastId = [f \in Files |-> 0]
    /\ storage = "present"
    /\ provider = [f \in Files |-> "absent"]
    /\ catalog = [f \in Files |-> "open"]
    /\ wpc = [f \in Files |-> "idle"]
    /\ at \in [Files -> Instances]
    /\ wid = [f \in Files |-> 0]
    /\ kept = {} /\ cancelled = {}
    /\ live = [i \in Instances |-> {}]
    /\ conn = [i \in Instances |-> "none"]
    /\ active = [i \in Instances |-> {}]
    /\ failure = {}
    /\ held = [f \in Files |-> None]
    /\ stale = {}
    /\ jpc = [i \in Instances |-> "idle"]
    /\ batch = [i \in Instances |-> {}]
    /\ current = [i \in Instances |-> None]
    /\ disturbances = 0

Disturbed == /\ disturbances < MaxDisturbances
             /\ disturbances' = disturbances + 1
Calm      == UNCHANGED disturbances

-----------------------------------------------------------------------------
(* The guard on writes: one database session per instance carries the      *)
(* advisory lock of every write that runs there.                            *)


\* closeIdleConnection: with no active write left the session goes back to
\* the pool and an old failure is forgotten.
CloseIdleConnection(i, stillActive, connection, failed) ==
    /\ active' = [active EXCEPT ![i] = stillActive]
    /\ conn' = [conn EXCEPT ![i] = IF stillActive = {} THEN "none" ELSE connection]
    /\ failure' = IF failed /\ stillActive # {} THEN failure \cup {i} ELSE failure \ {i}

\* failProtection: cancels every active write and drops the session.  The
\* server may take a while to notice, so its locks may outlive it.
FailProtection(i, stillActive) ==
    /\ cancelled' = cancelled \cup stillActive
    /\ \E lingering \in {{}, {f \in Files : held[f] = i}} : stale' = stale \cup lingering
    /\ held' = [f \in Files |-> IF held[f] = i THEN None ELSE held[f]]
    /\ CloseIdleConnection(i, stillActive, "none", TRUE)

-----------------------------------------------------------------------------
(* Store.WriteFile, one step per statement that other parties can see.     *)

\* The writer joins the live set before its row can exist.
StartWrite(f) ==
    /\ wpc[f] = "idle"
    /\ wpc' = [wpc EXCEPT ![f] = "joined"]
    /\ lastId' = [lastId EXCEPT ![f] = @ + 1]
    /\ wid' = [wid EXCEPT ![f] = lastId[f] + 1]
    /\ live' = [live EXCEPT ![at[f]] = @ \cup {f}]
    /\ UNCHANGED <<pending, storage, provider, catalog, at, kept, cancelled,
                   guardVars, jobVars>>
    /\ Calm

\* ProtectWrite returns early: the context is over, protection is failing, or no
\* connection is to be had.
RefuseProtection(f) ==
    /\ wpc[f] = "joined"
    /\ \/ (f \in cancelled \/ at[f] \in failure) /\ Calm
       \/ conn[at[f]] = "none" /\ Disturbed
    /\ wpc' = [wpc EXCEPT ![f] = "leaving"]
    /\ UNCHANGED <<rowVars, provider, catalog, at, wid, kept, cancelled, live, guardVars, jobVars>>

\* The lock query fails on the shared session, which fails all its writes.
BreakProtection(f) ==
    /\ wpc[f] = "joined" /\ f \notin cancelled /\ at[f] \notin failure
    /\ IF conn[at[f]] = "lost" THEN Calm ELSE Disturbed
    /\ wpc' = [wpc EXCEPT ![f] = "leaving"]
    /\ FailProtection(at[f], active[at[f]])
    /\ UNCHANGED <<rowVars, provider, catalog, at, wid, kept, live, jobVars>>

\* Another session holds the lock of this file: ErrFileNameAlreadyRegistered.  Names are
\* new for every write, so it is a claim that takes an earlier request's due row just now.
FindProtected(f) ==
    /\ wpc[f] = "joined" /\ f \notin cancelled /\ at[f] \notin failure
    /\ conn[at[f]] # "lost"
    /\ \/ held[f] # None \/ f \in stale
       \/ HasRow(f) /\ pending[f].wait = 0 /\ \E i \in Instances : jpc[i] = "idle"
    /\ wpc' = [wpc EXCEPT ![f] = "leaving"]
    /\ CloseIdleConnection(at[f], active[at[f]], "open", FALSE)
    /\ UNCHANGED <<rowVars, provider, catalog, at, wid, kept, cancelled, live, held, stale, jobVars>>
    /\ Calm

GrantProtection(f) ==
    /\ wpc[f] = "joined" /\ f \notin cancelled /\ at[f] \notin failure
    /\ conn[at[f]] # "lost"
    /\ held[f] = None /\ f \notin stale
    /\ wpc' = [wpc EXCEPT ![f] = "protected"]
    /\ CloseIdleConnection(at[f], active[at[f]] \cup {f}, "open", FALSE)
    /\ held' = [held EXCEPT ![f] = at[f]]
    /\ UNCHANGED <<rowVars, provider, catalog, at, wid, kept, cancelled, live, stale, jobVars>>
    /\ Calm

ProtectWrite(f) ==
    RefuseProtection(f) \/ BreakProtection(f) \/ FindProtected(f) \/ GrantProtection(f)

\* Repository.InsertIfAbsent: one obligation per file, none without a storage.
InsertIfAbsent(f) ==
    /\ wpc[f] = "protected"
    /\ \/ /\ f \notin cancelled /\ StorageExists /\ ~HasRow(f)
          /\ pending' = [pending EXCEPT ![f] =
                            [id |-> wid[f], gen |-> 0, wait |-> CommitWindow, attempts |-> 0]]
          /\ wpc' = [wpc EXCEPT ![f] = "registered"]
          /\ Calm
       \/ /\ IF f \in cancelled \/ ~StorageExists \/ HasRow(f) THEN Calm ELSE Disturbed
          /\ wpc' = [wpc EXCEPT ![f] = "releasing"]
          /\ UNCHANGED pending
    /\ UNCHANGED <<lastId, storage, provider, catalog, at, wid, kept, cancelled,
                   live, guardVars, jobVars>>

\* Mutant: the receipt ignores the generation.
ReceiptMatchesAnyGeneration(f) == /\ HasRow(f)
                                  /\ pending[f].id = wid[f]

\* The writer's row with the generation it was inserted with.
ReceiptMatches(f) == /\ HasRow(f)
                     /\ pending[f].id = wid[f]
                     /\ pending[f].gen = 0

\* Mutant: not_before is moved a commit window back, whatever is left of it.
MakeEligibleBefore(f) ==
    IF HasRow(f) /\ f \notin cancelled
    THEN {[pending EXCEPT ![f].wait = @ - 2 * CommitWindow], pending}
    ELSE {pending}

\* makeEligibleNow: the row becomes due at once if it is still the writer's.  It
\* runs on the write's own context, so it does nothing once that is canceled,
\* and an error is only logged: the possible values of pending after it.
MakeEligibleNow(f) ==
    IF ReceiptMatches(f) /\ f \notin cancelled
    THEN {[pending EXCEPT ![f].wait = 0], pending}
    ELSE {pending}

\* LocateStorage, then the first bytes reach the provider.
LocateStorage(f) ==
    /\ wpc[f] = "registered"
    /\ \/ /\ StorageExists /\ f \notin cancelled
          /\ wpc' = [wpc EXCEPT ![f] = "saving"]
          /\ provider' = [provider EXCEPT ![f] = "partial"]
          /\ UNCHANGED pending /\ Calm
       \/ /\ IF StorageExists /\ f \notin cancelled THEN Disturbed ELSE Calm
          /\ wpc' = [wpc EXCEPT ![f] = "releasing"]
          /\ pending' \in MakeEligibleNow(f)
          /\ UNCHANGED provider
    /\ UNCHANGED <<lastId, storage, catalog, at, wid, kept, cancelled, live,
                   guardVars, jobVars>>

\* Mutant: a rejected write forgets its row at once.
SaveFileForgets(f) ==
    /\ wpc[f] = "saving"
    /\ \/ /\ provider' = [provider EXCEPT ![f] = "complete"]
          /\ wpc' = [wpc EXCEPT ![f] = "saved"]
          /\ UNCHANGED pending /\ Calm
       \/ /\ IF f \in cancelled THEN Calm ELSE Disturbed
          /\ wpc' = [wpc EXCEPT ![f] = "releasing"]
          /\ pending' = [pending EXCEPT ![f] = None]
          /\ UNCHANGED provider
    /\ UNCHANGED <<lastId, storage, catalog, at, wid, kept, cancelled, live,
                   guardVars, jobVars>>

SaveFile(f) ==
    /\ wpc[f] = "saving"
    /\ \/ /\ provider' = [provider EXCEPT ![f] = "complete"]
          /\ wpc' = [wpc EXCEPT ![f] = "saved"]
          /\ UNCHANGED pending /\ Calm
       \/ \* an error, after any part of the object was stored
          /\ IF f \in cancelled THEN Calm ELSE Disturbed
          /\ \E left \in {"absent", "partial", "complete"} :
                provider' = [provider EXCEPT ![f] = left]
          /\ wpc' = [wpc EXCEPT ![f] = "releasing"]
          /\ pending' \in MakeEligibleNow(f)
    /\ UNCHANGED <<lastId, storage, catalog, at, wid, kept, cancelled, live,
                   guardVars, jobVars>>

\* SetNotBeforeIfGeneration after the upload: the caller gets a fresh commit
\* window, or learns that the file was taken for deletion.
KeepForCommit(f) ==
    /\ wpc[f] = "saved"
    /\ wpc' = [wpc EXCEPT ![f] = "releasing"]
    /\ \/ /\ ReceiptMatches(f) /\ f \notin cancelled
          /\ pending' = [pending EXCEPT ![f].wait = CommitWindow]
          /\ kept' = kept \cup {f}
          /\ Calm
       \/ /\ IF ReceiptMatches(f) /\ f \notin cancelled THEN Disturbed ELSE Calm
          /\ UNCHANGED <<pending, kept>>
    /\ UNCHANGED <<lastId, storage, provider, catalog, at, wid, cancelled, live,
                   guardVars, jobVars>>

\* The deferred ReleaseWrite unlocks the file.
ReleaseProtection(f) ==
    /\ wpc[f] = "releasing" /\ at[f] \notin failure /\ held[f] = at[f]
    /\ wpc' = [wpc EXCEPT ![f] = "leaving"]
    /\ held' = [held EXCEPT ![f] = None]
    /\ CloseIdleConnection(at[f], active[at[f]] \ {f}, conn[at[f]], FALSE)
    /\ UNCHANGED <<rowVars, provider, catalog, at, wid, kept, cancelled, live, stale, jobVars>>
    /\ Calm

\* A protection that failed, earlier or in the unlock itself, takes the receipt
\* back and cancels the other writes of the session.
LoseProtection(f) ==
    /\ wpc[f] = "releasing"
    /\ IF at[f] \in failure \/ held[f] # at[f] THEN Calm ELSE Disturbed
    /\ wpc' = [wpc EXCEPT ![f] = "leaving"]
    /\ FailProtection(at[f], active[at[f]] \ {f})
    /\ kept' = kept \ {f}
    /\ UNCHANGED <<rowVars, provider, catalog, at, wid, live, jobVars>>

ReleaseWrite(f) == ReleaseProtection(f) \/ LoseProtection(f)

\* Mutant: the write stays in the live set for ever.
LeaveStaysLive(f) ==
    /\ wpc[f] = "leaving"
    /\ wpc' = [wpc EXCEPT ![f] = "done"]
    /\ UNCHANGED <<rowVars, provider, catalog, at, wid, kept, cancelled, live, guardVars, jobVars>>
    /\ Calm

\* leaveLiveWrites, after which the job may claim the row and the caller has
\* the receipt (StartBackgroundWrite delivers it).
LeaveLiveWrites(f) ==
    /\ wpc[f] = "leaving"
    /\ wpc' = [wpc EXCEPT ![f] = "done"]
    /\ live' = [live EXCEPT ![at[f]] = @ \ {f}]
    /\ UNCHANGED <<rowVars, provider, catalog, at, wid, kept, cancelled, guardVars, jobVars>>
    /\ Calm

\* The caller's context ends while the write runs (a user's cancellation, a
\* shutdown, the failure of another stage).
CancelWrite(f) ==
    /\ wpc[f] \notin {"idle", "done", "dead"} /\ f \notin cancelled
    /\ cancelled' = cancelled \cup {f}
    /\ UNCHANGED <<rowVars, provider, catalog, wpc, at, wid, kept, live, guardVars, jobVars>>
    /\ Calm

-----------------------------------------------------------------------------
(* Catalog transactions of the callers.                                     *)

\* ConfirmFileWrites inside the transaction that ends the catalog row
\* successfully: all receipts still match, or everything rolls back.
ConfirmFileWrites(F) ==
    /\ F # {}
    /\ \A f \in F : /\ wpc[f] = "done" /\ f \in kept
                    /\ catalog[f] = "open"
                    /\ ReceiptMatches(f)
    /\ pending' = [f \in Files |-> IF f \in F THEN None ELSE pending[f]]
    /\ catalog' = [f \in Files |-> IF f \in F THEN "published" ELSE catalog[f]]
    /\ UNCHANGED <<lastId, storage, provider, writerVars, guardVars, jobVars>>
    /\ Calm

\* Mutant: a repeated request makes the row due at once.
InsertOrTakeNow(f) ==
    IF ~StorageExists THEN pending[f]
    ELSE IF ~HasRow(f) THEN [id |-> lastId[f] + 1, gen |-> 0, wait |-> 0, attempts |-> 0]
    ELSE [pending[f] EXCEPT !.gen = @ + 1, !.wait = 0]

\* Repository.InsertOrTake on one row: a fresh row is due now; an existing one
\* changes generation, and keeps its backoff once an attempt was made.
InsertOrTake(f) ==
    IF ~StorageExists THEN pending[f]
    ELSE IF ~HasRow(f) THEN [id |-> lastId[f] + 1, gen |-> 0, wait |-> 0, attempts |-> 0]
    ELSE [pending[f] EXCEPT !.gen = @ + 1,
                            !.wait = IF pending[f].attempts = 0 THEN 0 ELSE @]

\* RequestFileDeletions inside the transaction that ends or removes the catalog
\* rows of F.  It is accepted whatever the writer of a file is doing.
RequestFileDeletions(F) ==
    /\ F # {}
    /\ pending' = [f \in Files |-> IF f \in F THEN InsertOrTake(f) ELSE pending[f]]
    /\ lastId' = [f \in Files |-> IF f \in F /\ StorageExists /\ ~HasRow(f)
                                  THEN lastId[f] + 1 ELSE lastId[f]]
    /\ catalog' = [f \in Files |-> IF f \in F THEN "dropped" ELSE catalog[f]]
    /\ UNCHANGED <<storage, provider, writerVars, guardVars, jobVars>>
    /\ Disturbed

\* DeleteStorage: catalog rows restrict it, outstanding obligations refuse it
\* unless the user abandons them, and they cascade away with it.
DeleteStorage(shouldAbandonCleanup) ==
    /\ StorageExists
    /\ \A f \in Files : catalog[f] = "dropped"
    /\ (\A f \in Files : ~HasRow(f)) \/ shouldAbandonCleanup
    /\ storage' = IF \E f \in Files : HasRow(f) THEN "abandoned" ELSE "deleted"
    /\ pending' = [f \in Files |-> None]
    /\ UNCHANGED <<lastId, provider, catalog, writerVars, guardVars, jobVars>>
    /\ Calm

-----------------------------------------------------------------------------
(* The deletion job.                                                         *)

\* The claimed row is still the one the attempt was made for.
IsCurrentClaim(c) == /\ HasRow(c.file)
                     /\ pending[c.file].id = c.id
                     /\ pending[c.file].gen = c.gen

\* Mutant: the live writes are not excluded.
ClaimableLive(i, f) ==
    /\ HasRow(f) /\ pending[f].wait = 0
    /\ held[f] = None /\ f \notin stale

\* Mutant: the advisory lock is not looked at.
ClaimableLocked(i, f) ==
    /\ HasRow(f) /\ pending[f].wait = 0
    /\ ~(f \in live[i] /\ pending[f].id = wid[f])

\* ClaimDue's WHERE clause, with the live set of the instance excluded.
Claimable(i, f) ==
    /\ HasRow(f) /\ pending[f].wait = 0
    /\ ~(f \in live[i] /\ pending[f].id = wid[f])
    /\ held[f] = None /\ f \notin stale

\* claimDue: under the live-set mutex, one UPDATE takes a batch of due rows: the
\* generation of each moves and the row is leased.
ClaimBatch(i, taken) ==
    /\ jpc[i] = "idle" /\ taken # {}
    /\ \A f \in taken : Claimable(i, f)
    /\ Cardinality(taken) <= ClaimBatchSize
    /\ Cardinality(taken) = ClaimBatchSize \/ \A f \in Files \ taken : ~Claimable(i, f)
    /\ pending' = [f \in Files |->
                      IF f \in taken
                      THEN [pending[f] EXCEPT !.gen = @ + 1, !.wait = AttemptLease]
                      ELSE pending[f]]
    /\ batch' = [batch EXCEPT ![i] =
                    {[file |-> f, id |-> pending[f].id, gen |-> pending[f].gen + 1] : f \in taken}]
    /\ jpc' = [jpc EXCEPT ![i] = "pass"]
    /\ UNCHANGED <<lastId, storage, provider, catalog, writerVars, guardVars, current>>
    /\ Calm

ClaimDue(i) == \E taken \in SUBSET Files : ClaimBatch(i, taken)

\* The attempt may go on: its claim is current and its lease runs.
MayAttempt(c) == IsCurrentClaim(c) /\ pending[c.file].wait > 0

\* prepareAttempt / StartAttempt count the attempt while the lease runs.
BeginAttempt(i, c) ==
    /\ jpc[i] = "pass" /\ c \in batch[i] /\ MayAttempt(c)
    /\ batch' = [batch EXCEPT ![i] = @ \ {c}]
    /\ pending' = [pending EXCEPT ![c.file].attempts = @ + 1]
    /\ current' = [current EXCEPT ![i] = c]
    /\ jpc' = [jpc EXCEPT ![i] = "deleting"]
    /\ UNCHANGED <<lastId, storage, provider, catalog, writerVars, guardVars>>
    /\ Calm

\* The row changed hands, its lease ran out while the batch was worked off, or
\* the statement failed.
SkipAttempt(i, c) ==
    /\ jpc[i] = "pass" /\ c \in batch[i]
    /\ IF MayAttempt(c) THEN Disturbed ELSE Calm
    /\ batch' = [batch EXCEPT ![i] = @ \ {c}]
    /\ UNCHANGED <<rowVars, provider, catalog, writerVars, guardVars, jpc, current>>

StartAttempt(i) == \E c \in batch[i] : BeginAttempt(i, c) \/ SkipAttempt(i, c)

\* deleteFromProvider: idempotent, and an error says nothing about what is left.
DeleteFromProvider(i) ==
    LET f == current[i].file IN
    /\ jpc[i] = "deleting"
    /\ \/ /\ StorageExists
          /\ provider' = [provider EXCEPT ![f] = "absent"]
          /\ jpc' = [jpc EXCEPT ![i] = "deleted"]
          /\ Calm
       \/ /\ \E left \in IF provider[f] = "absent" \/ ~StorageExists THEN {provider[f]}
                         ELSE {provider[f], "partial", "absent"} :
                provider' = [provider EXCEPT ![f] = left]
          /\ jpc' = [jpc EXCEPT ![i] = "failed"]
          /\ IF StorageExists THEN Disturbed ELSE Calm
    /\ UNCHANGED <<rowVars, catalog, writerVars, guardVars, batch, current>>

\* releaseDeletedFile: only the attempt whose lease is valid ends the obligation.
ReleaseDeletedFile(i) ==
    LET c == current[i] IN
    /\ jpc[i] = "deleted"
    /\ \/ /\ pending' = IF MayAttempt(c) THEN [pending EXCEPT ![c.file] = None] ELSE pending
          /\ Calm
       \/ UNCHANGED pending /\ Disturbed
    /\ jpc' = [jpc EXCEPT ![i] = "pass"]
    /\ current' = [current EXCEPT ![i] = None]
    /\ UNCHANGED <<lastId, storage, provider, catalog, writerVars, guardVars, batch>>

\* getRetryDelay: doubles with every attempt, up to a maximum.
RetryDelay(attempts) ==
    LET delay == RetryBaseDelay * 2 ^ (IF attempts = 0 THEN 0 ELSE attempts - 1)
    IN  IF delay > RetryMaxDelay THEN RetryMaxDelay ELSE delay

\* getJitteredDelay: between half of the delay and all of it.
JitteredDelays(delay) == {d \in 0 .. RetryMaxDelay : delay \div 2 <= d /\ d <= delay}

\* Mutant: the job gives a file up after a failed attempt.
RescheduleGivesUp(i) ==
    /\ jpc[i] = "failed"
    /\ pending' = IF IsCurrentClaim(current[i])
                  THEN [pending EXCEPT ![current[i].file] = None] ELSE pending
    /\ jpc' = [jpc EXCEPT ![i] = "pass"]
    /\ current' = [current EXCEPT ![i] = None]
    /\ UNCHANGED <<lastId, storage, provider, catalog, writerVars, guardVars, batch>>
    /\ Calm

\* The failure branch of attemptDeletion: reschedules the row, expired or not,
\* unless a newer request or attempt owns it.
Reschedule(i) ==
    LET c == current[i] IN
    /\ jpc[i] = "failed"
    /\ \/ /\ IsCurrentClaim(c)
          /\ \E delay \in JitteredDelays(RetryDelay(pending[c.file].attempts)) :
                pending' = [pending EXCEPT ![c.file].wait = delay]
          /\ Calm
       \/ /\ IF IsCurrentClaim(c) THEN Disturbed ELSE Calm
          /\ UNCHANGED pending
    /\ jpc' = [jpc EXCEPT ![i] = "pass"]
    /\ current' = [current EXCEPT ![i] = None]
    /\ UNCHANGED <<lastId, storage, provider, catalog, writerVars, guardVars, batch>>

EndPass(i) ==
    /\ jpc[i] = "pass" /\ batch[i] = {}
    /\ jpc' = [jpc EXCEPT ![i] = "idle"]
    /\ UNCHANGED <<rowVars, provider, catalog, writerVars, guardVars, batch, current>>
    /\ Calm

-----------------------------------------------------------------------------
(* The environment.                                                          *)

\* The lease of an unfinished attempt is about to run out.
LeaseEnding ==
    \E i \in Instances : \E c \in batch[i] \cup ({current[i]} \ {None}) :
        IsCurrentClaim(c) /\ pending[c.file].wait = 1

Tick ==
    /\ \E f \in Files : HasRow(f) /\ pending[f].wait > 0
    /\ pending' = [f \in Files |-> IF HasRow(f) /\ pending[f].wait > 0
                                   THEN [pending[f] EXCEPT !.wait = @ - 1] ELSE pending[f]]
    /\ IF LeaseEnding THEN Disturbed ELSE Calm
    /\ UNCHANGED <<lastId, storage, provider, catalog, writerVars, guardVars, jobVars>>

\* The server ends the session behind an instance's back.
LoseSession(i) ==
    /\ conn[i] = "open"
    /\ conn' = [conn EXCEPT ![i] = "lost"]
    /\ held' = [f \in Files |-> IF held[f] = i THEN None ELSE held[f]]
    /\ UNCHANGED <<rowVars, provider, catalog, writerVars, active, failure, stale, jobVars>>
    /\ Disturbed

\* The server notices that the owner of a session is gone.
ReapSessions ==
    /\ stale # {}
    /\ stale' = {}
    /\ UNCHANGED <<rowVars, provider, catalog, writerVars, conn, active, failure, held, jobVars>>
    /\ Calm

\* An instance dies and starts again: its memory is gone, an upload stops
\* anywhere, the rows and what the provider stores remain.
Crash(i) ==
    LET dying == {f \in Files : at[f] = i /\ wpc[f] # "idle"} IN
    /\ wpc' = [f \in Files |-> IF f \in dying THEN "dead" ELSE wpc[f]]
    /\ kept' = kept \ dying
    /\ \E left \in [dying -> {"absent", "partial", "complete"}] :
          provider' = [f \in Files |-> IF f \in dying /\ wpc[f] = "saving"
                                       THEN left[f] ELSE provider[f]]
    /\ live' = [live EXCEPT ![i] = {}]
    /\ conn' = [conn EXCEPT ![i] = "none"]
    /\ active' = [active EXCEPT ![i] = {}]
    /\ failure' = failure \ {i}
    /\ \E lingering \in {{}, {f \in Files : held[f] = i}} : stale' = stale \cup lingering
    /\ held' = [f \in Files |-> IF held[f] = i THEN None ELSE held[f]]
    /\ jpc' = [jpc EXCEPT ![i] = "idle"]
    /\ batch' = [batch EXCEPT ![i] = {}]
    /\ current' = [current EXCEPT ![i] = None]
    /\ UNCHANGED <<rowVars, catalog, at, wid, cancelled>>
    /\ Disturbed

-----------------------------------------------------------------------------
WriteStep(f) ==
    \/ StartWrite(f) \/ ProtectWrite(f) \/ InsertIfAbsent(f) \/ LocateStorage(f)
    \/ SaveFile(f) \/ KeepForCommit(f) \/ ReleaseWrite(f) \/ LeaveLiveWrites(f)

JobStep(i) ==
    \/ ClaimDue(i) \/ StartAttempt(i) \/ DeleteFromProvider(i)
    \/ ReleaseDeletedFile(i) \/ Reschedule(i) \/ EndPass(i)

Next ==
    \/ \E f \in Files : WriteStep(f) \/ CancelWrite(f)
    \/ \E F \in SUBSET Files : ConfirmFileWrites(F) \/ RequestFileDeletions(F)
    \/ \E shouldAbandonCleanup \in BOOLEAN : DeleteStorage(shouldAbandonCleanup)
    \/ \E i \in Instances : JobStep(i) \/ LoseSession(i) \/ Crash(i)
    \/ Tick
    \/ ReapSessions

\* Provider calls return, the job's timer fires, time passes and the server
\* ends dead sessions.  Callers need not publish and users need not do anything.
Fairness ==
    /\ \A f \in Files : WF_vars(wpc[f] # "idle" /\ WriteStep(f))
    /\ \A i \in Instances : WF_vars(JobStep(i))
    /\ WF_vars(Tick) /\ WF_vars(ReapSessions)

Spec == Init /\ [][Next]_vars
FairSpec == Spec /\ Fairness

-----------------------------------------------------------------------------
(* Properties.                                                               *)

RowTypes ==
    /\ pending \in [Files -> Row \cup {None}]
    /\ lastId \in [Files -> Nat]
    /\ storage \in {"present", "deleted", "abandoned"}
    /\ provider \in [Files -> {"absent", "partial", "complete"}]
    /\ catalog \in [Files -> {"open", "published", "dropped"}]

WriterTypes ==
    /\ wpc \in [Files -> WriterPcs]
    /\ at \in [Files -> Instances]
    /\ wid \in [Files -> Nat]
    /\ kept \subseteq Files /\ cancelled \subseteq Files
    /\ live \in [Instances -> SUBSET Files]

GuardTypes ==
    /\ conn \in [Instances -> {"none", "open", "lost"}]
    /\ active \in [Instances -> SUBSET Files]
    /\ failure \subseteq Instances
    /\ held \in [Files -> Instances \cup {None}]
    /\ stale \subseteq Files

\* An attempt under way is an attempt on a claimed row.
JobTypes ==
    /\ jpc \in [Instances -> JobPcs]
    /\ batch \in [Instances -> SUBSET Claim]
    /\ current \in [Instances -> Claim \cup {None}]
    /\ \A i \in Instances : jpc[i] \in {"deleting", "deleted", "failed"} => current[i] \in Claim
    /\ disturbances \in 0 .. MaxDisturbances

\* Every variable stays in its type.
TypeOK == RowTypes /\ WriterTypes /\ GuardTypes /\ JobTypes

\* A deletion of f is running at the provider.
Deleting(f) == \E i \in Instances : jpc[i] = "deleting" /\ current[i].file = f

\* A published backup file is complete at the provider, no deletion of it is
\* running and none is owed: neither a slow attempt, a second instance, a lost
\* session nor a crash lets the deletion job reach a file a transaction kept.
PublishedIntact ==
    \A f \in Files : catalog[f] = "published" =>
        provider[f] = "complete" /\ ~HasRow(f) /\ ~Deleting(f)

\* Whatever a provider stores is published or owed a deletion, unless a user
\* deleted the storage and abandoned its cleanup: no crash, error or race
\* leaves an object behind that nothing will ever remove.
NoOrphan ==
    \A f \in Files : provider[f] # "absent" =>
        catalog[f] = "published" \/ HasRow(f) \/ storage = "abandoned"

\* The phases of a write in which bytes may reach the provider.
Uploading(f) == wpc[f] \in {"registered", "saving", "saved"}

\* The deletion job never calls the provider for a file whose bytes are still
\* being written by the same process, however long the upload takes.
NoDeleteDuringWrite == \A f \in Files : Uploading(f) => ~Deleting(f)

\* With several processes the advisory lock does the same for a file that may
\* still be published: as long as the writer's session holds the lock, no process
\* deletes the file under the writer.
LockShieldsWrite ==
    \A f \in Files : Uploading(f) /\ held[f] # None /\ catalog[f] = "open" => ~Deleting(f)

\* Once an attempt to delete a file was counted, only the passing of time and the
\* attempt's own failure set the next attempt: repeated requests, failed writes and
\* late answers of older attempts never shorten the backoff.
BackoffKept ==
    [][\A f \in Files :
          (/\ HasRow(f) /\ pending[f].attempts > 0
           /\ pending'[f] # None /\ pending'[f].wait < pending[f].wait)
          => /\ pending'[f].gen = pending[f].gen
             /\ \/ pending'[f].wait + 1 = pending[f].wait
                \/ \E i \in Instances : jpc[i] = "failed" /\ current[i].file = f]_vars

\* An object that is not published is eventually gone, as long as the storage
\* is not taken away and the environment misbehaves finitely often.
EventuallyRemoved ==
    \A f \in Files : (provider[f] # "absent" /\ catalog[f] # "published")
        ~> (provider[f] = "absent" \/ catalog[f] = "published" \/ ~StorageExists)


\* The store implements the promise its callers rely on.
Fate == INSTANCE FileFate WITH
            owed <- {f \in Files : HasRow(f)},
            stored <- provider,
            published <- {f \in Files : catalog[f] = "published"},
            exists <- StorageExists,
            givenUp <- (storage = "abandoned")

\* Every step of the store, seen through its rows, its catalog and the provider,
\* is a step of FileFate: obligations start before bytes arrive and end only by
\* publication, confirmed removal or the deletion of the storage.
KeepsFilePromise == Fate!Spec

=============================================================================
