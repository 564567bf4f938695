------------------------------- MODULE FileFate -------------------------------
(***************************************************************************)
(* What the storages module promises about the files of one storage        *)
(* (storages/internal/files/doc.go): the obligation to remove a file is    *)
(* created before the first byte reaches the provider and released only by *)
(* the transaction that publishes the file, by a confirmed removal, or by  *)
(* a user who deletes the storage.  FileStore implements it.               *)
(***************************************************************************)
EXTENDS Naturals

CONSTANTS Files

VARIABLES
    owed,       \* files whose removal is owed
    stored,     \* [Files -> what the provider stores]
    published,  \* files that belong to a backup
    exists,     \* the storage exists
    givenUp     \* a user gave the obligations up with the storage

fateVars == <<owed, stored, published, exists, givenUp>>

Init ==
    /\ owed = {} /\ published = {}
    /\ stored = [f \in Files |-> "absent"]
    /\ exists = TRUE /\ givenUp = FALSE

\* A write registers its file.
Owe(f) ==
    /\ exists /\ f \notin published
    /\ owed' = owed \cup {f}
    /\ UNCHANGED <<stored, published, exists, givenUp>>

\* Bytes arrive or go away, only where their removal is owed.
Change(F) ==
    /\ F \subseteq owed \/ givenUp
    /\ stored' \in [Files -> {"absent", "partial", "complete"}]
    /\ \A f \in Files \ F : stored'[f] = stored[f]
    /\ UNCHANGED <<owed, published, exists, givenUp>>

\* A transaction takes complete files over into a backup, all or none.
Publish(F) ==
    /\ F \subseteq owed /\ \A f \in F : stored[f] = "complete"
    /\ published' = published \cup F
    /\ owed' = owed \ F
    /\ UNCHANGED <<stored, exists, givenUp>>

\* A transaction removes files from the catalog.
Retract(F) ==
    /\ exists
    /\ published' = published \ F
    /\ owed' = owed \cup F
    /\ UNCHANGED <<stored, exists, givenUp>>

\* The removal is confirmed.
Discharge(f) ==
    /\ stored[f] = "absent"
    /\ owed' = owed \ {f}
    /\ UNCHANGED <<stored, published, exists, givenUp>>

\* The storage goes away; what is still owed is given up.
GiveUp ==
    /\ exists /\ published = {}
    /\ exists' = FALSE /\ givenUp' = (owed # {})
    /\ owed' = {}
    /\ UNCHANGED <<stored, published>>

Next ==
    \/ \E f \in Files : Owe(f) \/ Discharge(f)
    \/ \E F \in SUBSET Files : Change(F) \/ Publish(F) \/ Retract(F)
    \/ GiveUp

Spec == Init /\ [][Next]_fateVars
===============================================================================
