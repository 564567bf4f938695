------------------------------ MODULE BackupFate ------------------------------
(***************************************************************************)
(* What the logical backups and their restores promise their users: a      *)
(* backup is complete, with all its files, or it keeps none of them; an    *)
(* outcome lasts until the backup is removed; a removal takes ended        *)
(* backups, whole, and none that a restore reads; a database makes one     *)
(* backup and serves one restore at a time, and takes its backups with it. *)
(* Locks, transactions, goroutines, restarts and the scheduler are not     *)
(* seen here.  LogicalBackups implements it.                               *)
(***************************************************************************)
CONSTANTS Databases, Backups, Restores, Parts

VARIABLES
    dbs,      \* databases that exist
    catalog,  \* [Databases -> backups listed for the database]
    outcome,  \* [Backups -> unused, IN_PROGRESS, how the backup ended, or removed]
    kept,     \* [Backups -> parts of it that the store keeps]
    reading   \* [Restores -> backups the restore reads]

fateVars == <<dbs, catalog, outcome, kept, reading>>

Ended == {"COMPLETED", "FAILED", "CANCELED"}
IsRead(b) == \E r \in Restores : b \in reading[r]

Init ==
    /\ dbs = Databases
    /\ catalog = [d \in Databases |-> {}]
    /\ outcome = [b \in Backups |-> "unused"]
    /\ kept = [b \in Backups |-> {}]
    /\ reading = [r \in Restores |-> {}]

\* A backup starts while no other of its database is in progress.
Start(d, b) ==
    /\ d \in dbs /\ outcome[b] = "unused"
    /\ \A c \in catalog[d] : outcome[c] # "IN_PROGRESS"
    /\ outcome' = [outcome EXCEPT ![b] = "IN_PROGRESS"]
    /\ catalog' = [catalog EXCEPT ![d] = @ \cup {b}]
    /\ UNCHANGED <<dbs, kept, reading>>

\* It completes with all its files at once.
Complete(b) ==
    /\ outcome[b] = "IN_PROGRESS"
    /\ outcome' = [outcome EXCEPT ![b] = "COMPLETED"]
    /\ kept' = [kept EXCEPT ![b] = Parts]
    /\ UNCHANGED <<dbs, catalog, reading>>

\* Or it ends without any.
End(B, final) ==
    /\ \A b \in B : outcome[b] = "IN_PROGRESS"
    /\ outcome' = [b \in Backups |-> IF b \in B THEN final ELSE outcome[b]]
    /\ UNCHANGED <<dbs, catalog, kept, reading>>

\* Ended backups that nobody reads go, rows and files together.
Take(B) ==
    /\ \A b \in B : outcome[b] \in Ended /\ ~IsRead(b)
    /\ outcome' = [b \in Backups |-> IF b \in B THEN "removed" ELSE outcome[b]]
    /\ catalog' = [d \in Databases |-> catalog[d] \ B]
    /\ kept' = [b \in Backups |-> IF b \in B THEN {} ELSE kept[b]]
    /\ UNCHANGED reading

Remove(B) == Take(B) /\ UNCHANGED dbs

\* A database goes with every backup of it.
DeleteDatabase(d) == d \in dbs /\ Take(catalog[d]) /\ dbs' = dbs \ {d}

\* A restore reads a completed backup of a database that no other restore reads.
Read(r, b) ==
    /\ reading[r] = {} /\ outcome[b] = "COMPLETED"
    /\ \A d \in Databases : b \in catalog[d] => \A c \in catalog[d] : ~IsRead(c)
    /\ reading' = [reading EXCEPT ![r] = {b}]
    /\ UNCHANGED <<dbs, catalog, outcome, kept>>

\* Restores end, all of them when the process dies.
StopReading(R) ==
    /\ reading' = [r \in Restores |-> IF r \in R THEN {} ELSE reading[r]]
    /\ UNCHANGED <<dbs, catalog, outcome, kept>>

Next ==
    \/ \E d \in Databases : DeleteDatabase(d) \/ \E b \in Backups : Start(d, b)
    \/ \E b \in Backups : Complete(b) \/ \E r \in Restores : Read(r, b)
    \/ \E B \in SUBSET Backups : Remove(B) \/ \E final \in {"FAILED", "CANCELED"} : End(B, final)
    \/ \E R \in SUBSET Restores : StopReading(R)

Spec == Init /\ [][Next]_fateVars
===============================================================================
