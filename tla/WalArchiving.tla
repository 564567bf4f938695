---------------------------- MODULE WalArchiving ----------------------------
(***************************************************************************)
(* Archiving of the write-ahead log of one streamed PostgreSQL database.   *)
(*                                                                         *)
(* pg_receivewal writes completed segments into a local queue directory.   *)
(* The uploader claims a segment by inserting its catalog row, writes the  *)
(* object, commits by giving the row the object's name, looks for a gap    *)
(* before the segment, and only then removes the local file.  A session    *)
(* that starts first recovers what an earlier one left in the queue and    *)
(* may take over its claims; the cleaner reaps claims older than a grace   *)
(* period; chain deletion and a change of storage remove rows under all    *)
(* of them.                                                                *)
(*                                                                         *)
(* Simplifications.                                                        *)
(*  - One database, one timeline, complete segments numbered by position.  *)
(*    An installation runs one process, so a running upload is the only    *)
(*    user of its segment's claim and rows need no identifiers.            *)
(*  - Time is kept as ages: of claims up to just past the grace period, of *)
(*    uploads up to their timeout.  The transaction of a commit takes no   *)
(*    time of its own.                                                     *)
(*  - Object and sidecar are one file; what the file store does with a     *)
(*    discarded or unconfirmed one is module FileStore's subject.          *)
(*  - "faults" bounds the failures, stops and removals of a behaviour.     *)
(***************************************************************************)
EXTENDS Naturals, FiniteSets

CONSTANTS
    N,              \* number of segments a behaviour can see
    Archived,       \* segments 1..Archived are in the archive at the start
    MaxUploads,     \* maxConcurrentSegmentUploads
    Timeout,        \* walSegmentUploadTimeout
    Grace,          \* walClaimGracePeriod
    HighWatermark,  \* local queue size, in segments, that pauses the receiver
    MaxFaults       \* bound on failures and removals

Segments == 1..N

\* The upload timeout (2 minutes) is shorter than the grace period (1 hour).
ASSUME WalAssumption ==
    /\ N \in Nat /\ Archived \in 0..N
    /\ MaxUploads \in Nat \ {0} /\ HighWatermark \in Nat \ {0}
    /\ Timeout \in Nat /\ Grace \in Nat /\ Timeout <= Grace
    /\ MaxFaults \in Nat

VARIABLES
    next,       \* number of the next segment the source completes
    received,   \* segments pg_receivewal wrote to the queue
    local,      \* where the file of a segment is: queue, set aside, or nowhere
    row,        \* catalog row: none, a claim (no file name), or a file
    age,        \* age of the claim row
    upload,     \* the upload of each segment
    session,    \* the streamer: down, recovering the queue, running
    toRecover,  \* queued segments the recovery has not started yet
    receiver,   \* pg_receivewal: streaming, exited, waiting for the queue to drain
    current,    \* the session's storage publication is the configured one
    dropped,    \* segments whose chain was deleted or whose storage was left
    alerts,     \* segments before which a WAL gap was reported
    faults      \* failures and removals still to come

vars == <<next, received, local, row, age, upload, session, toRecover,
          receiver, current, dropped, alerts, faults>>

Places == {"watch", "pending"}

Phases == {"idle", "starting", "conflict", "uploading",
           "committed", "gapQueue", "gapRow", "removing"}

\* An upload: the phase it is in, the path it was given, whether it took over
\* a claim it found, and how long it has been writing.
Uploads == [phase: Phases, path: Places, reused: BOOLEAN, time: 0..Timeout]

Idle == [phase |-> "idle", path |-> "watch", reused |-> FALSE, time |-> 0]

Queued == {s \in Segments : local[s] # "none"}

InFlight == {s \in Segments : upload[s].phase # "idle"}

Init ==
    /\ next = Archived + 1
    /\ received = 1..Archived
    /\ local = [s \in Segments |-> "none"]
    /\ row = [s \in Segments |-> IF s <= Archived THEN "file" ELSE "none"]
    /\ age = [s \in Segments |-> 0]
    /\ upload = [s \in Segments |-> Idle]
    /\ session = "down"
    /\ toRecover = {}
    /\ receiver = "exited"
    /\ current = TRUE
    /\ dropped = {}
    /\ alerts = {}
    /\ faults = MaxFaults

(***************************************************************************)
(* The streamer session.                                                   *)
(***************************************************************************)

\* The manager claims the stream and starts a streamer, which lists the queue
\* it has to recover before anything else runs.
StartSession ==
    /\ session = "down"
    /\ session' = "recovering"
    /\ toRecover' = Queued
    /\ current' = TRUE
    /\ UNCHANGED <<next, received, local, row, age, upload, receiver, dropped,
                   alerts, faults>>

\* Every recovered segment was started and has finished.
RecoveryDone ==
    /\ session = "recovering" /\ toRecover = {} /\ InFlight = {}
    /\ session' = "running"
    /\ receiver' = "exited"
    /\ UNCHANGED <<next, received, local, row, age, upload, toRecover, current,
                   dropped, alerts, faults>>

\* Mutant: the queue listing of the recovery outlives the session.
StopKeepsListing ==
    /\ faults > 0 /\ session # "down"
    /\ faults' = faults - 1
    /\ session' = "down"
    /\ upload' = [s \in Segments |-> Idle]
    /\ receiver' = "exited"
    /\ UNCHANGED <<next, received, local, row, age, toRecover, current, dropped,
                   alerts>>

\* The session ends with the process, by shutdown or by a fatal error.  Its
\* uploads end without releasing their claims: the release uses the cancelled
\* context.  The queue stays on disk.
Stop ==
    /\ faults > 0 /\ session # "down"
    /\ faults' = faults - 1
    /\ session' = "down"
    /\ upload' = [s \in Segments |-> Idle]
    /\ toRecover' = {}
    /\ receiver' = "exited"
    /\ UNCHANGED <<next, received, local, row, age, current, dropped, alerts>>

\* The reconciler cancels a streamer of a storage the configuration has left,
\* and the queue directory goes once its uploads have ended.
StopStale ==
    /\ ~current /\ session # "down"
    /\ session' = "down"
    /\ upload' = [s \in Segments |-> Idle]
    /\ toRecover' = {}
    /\ receiver' = "exited"
    /\ local' = [s \in Segments |-> "none"]
    /\ dropped' = dropped \cup Queued
    /\ UNCHANGED <<next, received, row, age, current, alerts, faults>>

(***************************************************************************)
(* The receiver.                                                           *)
(***************************************************************************)

\* pg_receivewal completes the next segment.
Receive ==
    /\ session = "running" /\ receiver = "streaming" /\ next <= N
    /\ local' = [local EXCEPT ![next] = "watch"]
    /\ received' = received \cup {next}
    /\ dropped' = IF current THEN dropped ELSE dropped \cup {next}
    /\ next' = next + 1
    /\ UNCHANGED <<row, age, upload, session, toRecover, receiver, current,
                   alerts, faults>>

\* The slot was lost and rebuilt: the source never sends the next segment.
SkipSegment ==
    /\ faults > 0 /\ session = "running" /\ receiver = "exited" /\ next < N
    /\ faults' = faults - 1
    /\ next' = next + 1
    /\ UNCHANGED <<received, local, row, age, upload, session, toRecover,
                   receiver, current, dropped, alerts>>

\* The process exits, or the backpressure monitor stops it.
ReceiverExits ==
    /\ session = "running" /\ receiver = "streaming"
    /\ receiver' = "exited"
    /\ UNCHANGED <<next, received, local, row, age, upload, session, toRecover,
                   current, dropped, alerts, faults>>

\* A queue at the high watermark makes the next spawn wait.
Drain ==
    /\ session = "running" /\ receiver = "exited"
    /\ Cardinality(Queued) >= HighWatermark
    /\ receiver' = "draining"
    /\ UNCHANGED <<next, received, local, row, age, upload, session, toRecover,
                   current, dropped, alerts, faults>>

\* The receiver is spawned: at once below the high watermark, after draining
\* once the queue is below the low one, a fifth of it.  A slot ahead of the
\* queue sets the queued files below it aside.
Spawn(floor) ==
    /\ session = "running"
    /\ \/ receiver = "exited" /\ Cardinality(Queued) < HighWatermark
       \/ receiver = "draining" /\ 5 * Cardinality(Queued) < HighWatermark
    /\ receiver' = "streaming"
    /\ local' = [s \in Segments |->
                   IF local[s] = "watch" /\ s < floor THEN "pending" ELSE local[s]]
    /\ UNCHANGED <<next, received, row, age, upload, session, toRecover, current,
                   dropped, alerts, faults>>

(***************************************************************************)
(* Uploads.                                                                *)
(***************************************************************************)

\* The first k segments of a set in WAL order.
Lowest(S, k) == {s \in S : Cardinality({t \in S : t < s}) < k}

\* What the next pass of the dispatcher can start.
Startable ==
    IF session = "recovering" THEN toRecover
    ELSE IF session = "running" THEN Queued \ InFlight ELSE {}

\* A fresh upload of a queued segment, with the path of its file.
Begun(s) == [phase |-> "starting", path |-> local[s], reused |-> FALSE, time |-> 0]

\* Mutant: a pass counts only its own starts against the limit.
StartUploadsBeyondLimit ==
    LET started == Lowest(Startable, MaxUploads)
    IN  /\ started # {}
        /\ upload' = [s \in Segments |->
                        IF s \in started THEN Begun(s) ELSE upload[s]]
        /\ toRecover' = toRecover \ started
        /\ UNCHANGED <<next, received, local, row, age, session, receiver,
                       current, dropped, alerts, faults>>

\* A pass of the dispatcher: segments start in WAL order while there is room.
StartUploads ==
    LET room == IF Cardinality(InFlight) < MaxUploads
                THEN MaxUploads - Cardinality(InFlight) ELSE 0
        started == Lowest(Startable, room)
    IN  /\ started # {}
        /\ upload' = [s \in Segments |->
                        IF s \in started THEN Begun(s) ELSE upload[s]]
        /\ toRecover' = toRecover \ started
        /\ UNCHANGED <<next, received, local, row, age, session, receiver,
                       current, dropped, alerts, faults>>

\* The upload ends and its dispatcher slot is free again.
Finish(s) == upload' = [upload EXCEPT ![s] = Idle]

\* The file at the upload's path is removed; one that was set aside stays.
RemoveLocal(s) ==
    local' = IF local[s] = upload[s].path THEN [local EXCEPT ![s] = "none"]
                                          ELSE local

\* claimSegment inserts the claim row, in a transaction that checks the
\* storage publication, or finds the key taken.
Claim(s) ==
    /\ upload[s].phase = "starting" /\ current
    /\ IF row[s] = "none"
       THEN /\ row' = [row EXCEPT ![s] = "claim"]
            /\ age' = [age EXCEPT ![s] = 0]
            /\ upload' = [upload EXCEPT ![s].phase = "uploading"]
       ELSE /\ upload' = [upload EXCEPT ![s].phase = "conflict"]
            /\ UNCHANGED <<row, age>>
    /\ UNCHANGED <<next, received, local, session, toRecover, receiver, current,
                   dropped, alerts, faults>>

\* The claim transaction fails, or the publication is stale.
ClaimFails(s) ==
    /\ upload[s].phase = "starting"
    /\ \/ ~current /\ UNCHANGED faults
       \/ faults > 0 /\ faults' = faults - 1
    /\ Finish(s)
    /\ UNCHANGED <<next, received, local, row, age, session, toRecover, receiver,
                   current, dropped, alerts>>

\* Mutant: recovery takes over an archived segment's row as if it were a claim.
ResolveArchivedAgain(s) ==
    /\ upload[s].phase = "conflict"
    /\ IF session = "recovering" /\ row[s] # "none"
       THEN /\ upload' = [upload EXCEPT ![s].phase = "uploading",
                                        ![s].reused = TRUE]
            /\ UNCHANGED local
       ELSE /\ Finish(s)
            /\ IF row[s] = "file" THEN RemoveLocal(s) ELSE UNCHANGED local
    /\ UNCHANGED <<next, received, row, age, session, toRecover, receiver,
                   current, dropped, alerts, faults>>

\* The row that was in the way is read: an archived segment's file is removed,
\* a claim is taken over by a recovery and left alone by the running uploader.
Resolve(s) ==
    /\ upload[s].phase = "conflict"
    /\ IF session = "recovering" /\ row[s] = "claim"
       THEN /\ upload' = [upload EXCEPT ![s].phase = "uploading",
                                        ![s].reused = TRUE]
            /\ UNCHANGED local
       ELSE /\ Finish(s)
            /\ IF row[s] = "file" THEN RemoveLocal(s) ELSE UNCHANGED local
    /\ UNCHANGED <<next, received, row, age, session, toRecover, receiver,
                   current, dropped, alerts, faults>>

\* The row that was in the way cannot be read: the file waits for a later pass.
ResolveFails(s) ==
    /\ faults > 0 /\ faults' = faults - 1
    /\ upload[s].phase = "conflict"
    /\ Finish(s)
    /\ UNCHANGED <<next, received, local, row, age, session, toRecover, receiver,
                   current, dropped, alerts>>

\* Opening the file or writing to the storage fails: the object is discarded
\* and the claim released, unless releasing fails too.
UploadFails(s) ==
    /\ upload[s].phase = "uploading"
    /\ \/ local[s] # upload[s].path /\ UNCHANGED faults
       \/ faults > 0 /\ faults' = faults - 1
    /\ \/ /\ row' = [row EXCEPT ![s] = IF @ = "claim" THEN "none" ELSE @]
          /\ age' = [age EXCEPT ![s] = 0]
       \/ UNCHANGED <<row, age>>
    /\ Finish(s)
    /\ UNCHANGED <<next, received, local, session, toRecover, receiver, current,
                   dropped, alerts>>

\* commitSegment names the object in the claim row.  A stale publication or a
\* vanished row ends the upload: the object is discarded, the file removed.
Commit(s) ==
    /\ upload[s].phase = "uploading"
    /\ IF current /\ row[s] = "claim"
       THEN /\ row' = [row EXCEPT ![s] = "file"]
            /\ age' = [age EXCEPT ![s] = 0]
            /\ upload' = [upload EXCEPT ![s].phase = "committed"]
            /\ UNCHANGED local
       ELSE /\ Finish(s) /\ RemoveLocal(s)
            /\ UNCHANGED <<row, age>>
    /\ UNCHANGED <<next, received, session, toRecover, receiver, current, dropped,
                   alerts, faults>>

\* The commit reports an error, before or after it took effect: the claim, or
\* the archived row, stays and the file waits for a later pass.
CommitErrs(s) ==
    /\ faults > 0 /\ faults' = faults - 1
    /\ upload[s].phase = "uploading"
    /\ \/ /\ current /\ row[s] = "claim"
          /\ row' = [row EXCEPT ![s] = "file"]
          /\ age' = [age EXCEPT ![s] = 0]
       \/ UNCHANGED <<row, age>>
    /\ Finish(s)
    /\ UNCHANGED <<next, received, local, session, toRecover, receiver, current,
                   dropped, alerts>>

\* The last step: the local file of an archived segment goes.
Remove(s) ==
    /\ upload[s].phase = "removing"
    /\ Finish(s) /\ RemoveLocal(s)
    /\ UNCHANGED <<next, received, row, age, session, toRecover, receiver,
                   current, dropped, alerts, faults>>

(***************************************************************************)
(* The gap probe: three reads at three moments.                            *)
(***************************************************************************)

ArchivedBefore(s) == {t \in Segments : t < s /\ row[t] = "file"}

\* The newest archived segment before this one: none, or the one that ends
\* where this one starts, means no gap.
ProbeArchive(s) ==
    /\ upload[s].phase = "committed"
    /\ upload' = [upload EXCEPT ![s].phase =
                    IF ArchivedBefore(s) = {} \/ s - 1 \in ArchivedBefore(s)
                    THEN "removing" ELSE "gapQueue"]
    /\ UNCHANGED <<next, received, local, row, age, session, toRecover, receiver,
                   current, dropped, alerts, faults>>

\* The queue is listed, set-aside files included: a predecessor that waits
\* there will arrive.
ProbeQueue(s) ==
    /\ upload[s].phase = "gapQueue"
    /\ upload' = [upload EXCEPT ![s].phase =
                    IF s - 1 \in Queued THEN "removing" ELSE "gapRow"]
    /\ UNCHANGED <<next, received, local, row, age, session, toRecover, receiver,
                   current, dropped, alerts, faults>>

\* Mutant: the catalog is not asked again after the queue, so a predecessor
\* archived between the reads is reported.
ProbeRowBlind(s) ==
    /\ upload[s].phase = "gapRow"
    /\ upload' = [upload EXCEPT ![s].phase = "removing"]
    /\ alerts' = alerts \cup {s}
    /\ UNCHANGED <<next, received, local, row, age, session, toRecover, receiver,
                   current, dropped, faults>>

\* The catalog is read for the predecessor: without a row the gap is reported.
ProbeRow(s) ==
    /\ upload[s].phase = "gapRow"
    /\ upload' = [upload EXCEPT ![s].phase = "removing"]
    /\ alerts' = IF row[s - 1] # "none" THEN alerts ELSE alerts \cup {s}
    /\ UNCHANGED <<next, received, local, row, age, session, toRecover, receiver,
                   current, dropped, faults>>

\* A read of the catalog fails: nothing is reported, the upload goes on.
ProbeFails(s) ==
    /\ faults > 0 /\ faults' = faults - 1
    /\ upload[s].phase \in {"committed", "gapRow"}
    /\ upload' = [upload EXCEPT ![s].phase = "removing"]
    /\ UNCHANGED <<next, received, local, row, age, session, toRecover, receiver,
                   current, dropped, alerts>>

(***************************************************************************)
(* The cleaner, the removal of history, and time.                          *)
(***************************************************************************)

Aged == {s \in Segments : row[s] = "claim" /\ age[s] > Grace}

\* Mutant: claims are reaped whatever their age.
ReapAll ==
    LET claims == {s \in Segments : row[s] = "claim"}
    IN  /\ claims # {}
        /\ row' = [s \in Segments |-> IF s \in claims THEN "none" ELSE row[s]]
        /\ age' = [s \in Segments |-> IF s \in claims THEN 0 ELSE age[s]]
        /\ UNCHANGED <<next, received, local, upload, session, toRecover,
                       receiver, current, dropped, alerts, faults>>

\* Mutant: abandoned claims are never reaped.
ReapNone == FALSE /\ UNCHANGED vars

\* The cleaner deletes the claims that are older than the grace period.
Reap ==
    /\ Aged # {}
    /\ row' = [s \in Segments |-> IF s \in Aged THEN "none" ELSE row[s]]
    /\ age' = [s \in Segments |-> IF s \in Aged THEN 0 ELSE age[s]]
    /\ UNCHANGED <<next, received, local, upload, session, toRecover, receiver,
                   current, dropped, alerts, faults>>

\* Deleting a chain removes the rows of its span, claims included.
DeleteChain(last) ==
    LET span == {s \in Segments : s <= last /\ row[s] # "none"}
    IN  /\ faults > 0 /\ span # {}
        /\ faults' = faults - 1
        /\ row' = [s \in Segments |-> IF s \in span THEN "none" ELSE row[s]]
        /\ age' = [s \in Segments |-> IF s \in span THEN 0 ELSE age[s]]
        /\ dropped' = dropped \cup span
        /\ UNCHANGED <<next, received, local, upload, session, toRecover,
                       receiver, current, alerts>>

\* The database is moved to another storage: its history is removed, and a
\* session that runs now publishes to a storage that was left.
SwitchStorage ==
    /\ faults > 0 /\ received # {}
    /\ faults' = faults - 1
    /\ row' = [s \in Segments |-> "none"]
    /\ age' = [s \in Segments |-> 0]
    /\ dropped' = dropped \cup received
    /\ current' = (session = "down")
    /\ UNCHANGED <<next, received, local, upload, session, toRecover, receiver,
                   alerts>>

Older(a) == IF a <= Grace THEN a + 1 ELSE a

\* Time passes, but no upload outlives its timeout.
Tick ==
    /\ \E s \in Segments : row[s] = "claim" /\ age[s] <= Grace
    /\ \A s \in Segments : upload[s].phase = "uploading" => upload[s].time < Timeout
    /\ age' = [s \in Segments |-> IF row[s] = "claim" THEN Older(age[s]) ELSE age[s]]
    /\ upload' = [s \in Segments |->
                    IF upload[s].phase = "uploading"
                    THEN [upload[s] EXCEPT !.time = @ + 1] ELSE upload[s]]
    /\ UNCHANGED <<next, received, local, row, session, toRecover, receiver,
                   current, dropped, alerts, faults>>

UploadStep(s) ==
    \/ Claim(s) \/ ClaimFails(s) \/ Resolve(s) \/ ResolveFails(s)
    \/ UploadFails(s) \/ Commit(s) \/ CommitErrs(s)
    \/ ProbeArchive(s) \/ ProbeQueue(s) \/ ProbeRow(s) \/ ProbeFails(s)
    \/ Remove(s)

Next ==
    \/ StartSession \/ RecoveryDone \/ Stop \/ StopStale
    \/ Receive \/ SkipSegment \/ ReceiverExits \/ Drain
    \/ \E floor \in 1..N + 1 : Spawn(floor)
    \/ StartUploads
    \/ \E s \in Segments : UploadStep(s)
    \/ Reap \/ SwitchStorage \/ Tick
    \/ \E last \in Segments : DeleteChain(last)

Spec == Init /\ [][Next]_vars

\* The manager reconciles every 15 seconds, the uploader loops, the cleaner
\* runs every minute, time passes, and each call of an upload returns.
Fairness ==
    /\ WF_vars(StartSession) /\ WF_vars(RecoveryDone) /\ WF_vars(StopStale)
    /\ WF_vars(Drain) /\ WF_vars(\E floor \in 1..N + 1 : Spawn(floor))
    /\ WF_vars(StartUploads) /\ WF_vars(Reap) /\ WF_vars(Tick)
    /\ \A s \in Segments : WF_vars(UploadStep(s))

FairSpec == Spec /\ Fairness

(***************************************************************************)
(* Properties.                                                             *)
(***************************************************************************)

\* Every variable has its type; the recovery's listing lives no longer than
\* the recovery.
TypeOK ==
    /\ next \in 1..N + 1
    /\ received \subseteq Segments
    /\ local \in [Segments -> Places \cup {"none"}]
    /\ row \in [Segments -> {"none", "claim", "file"}]
    /\ age \in [Segments -> 0..Grace + 1]
    /\ upload \in [Segments -> Uploads]
    /\ session \in {"down", "recovering", "running"}
    /\ toRecover \subseteq Segments
    /\ session # "recovering" => toRecover = {}
    /\ receiver \in {"streaming", "exited", "draining"}
    /\ current \in BOOLEAN
    /\ dropped \subseteq Segments
    /\ alerts \subseteq Segments
    /\ faults \in 0..MaxFaults

\* No moment sees more than the allowed number of uploads, whether the
\* recovery or the running uploader started them.
UploadsWithinLimit == Cardinality(InFlight) <= MaxUploads

\* A segment that is in the archive is final: nothing uploads it again, also
\* when a crash, a failed commit or a set-aside file left its local copy.
ArchivedIsFinal ==
    \A s \in Segments : row[s] = "file" => upload[s].phase # "uploading"

Missing(s) == s \notin received \/ s \in dropped
              \/ (local[s] = "none" /\ row[s] = "none")

\* A gap is reported only before a segment whose predecessor will not arrive:
\* one the source never sent, one whose chain was removed, or a lost one.
GapAlertsTrue == \A s \in alerts : Missing(s - 1)

Safe(s) == s \in Queued \/ row[s] = "file" \/ s \in dropped

\* A received segment is in the queue or in the archive, unless its chain was
\* deleted or its storage left.
NoSegmentLost == \A s \in received : Safe(s)

\* Only an upload that took over the claim of an earlier session can lose its
\* segment: the reaper never takes the claim of an upload that inserted it.
LossOnlyByTakeover ==
    [][\A s \in received : Safe(s) => Safe(s)' \/ upload[s].reused]_vars

\* Every queued segment leaves the queue in the end, also when its claim was
\* abandoned and blocks the dispatcher until it is reaped, and a receiver that
\* waits for the queue to drain is not left waiting.
QueueDrains ==
    /\ \A s \in Segments : s \in Queued ~> s \notin Queued
    /\ receiver = "draining" ~> receiver # "draining"
=============================================================================
