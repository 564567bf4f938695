------------------------- MODULE MCPhysicalBackups -------------------------
(***************************************************************************)
(* Instances of PhysicalBackups for TLC.                                   *)
(***************************************************************************)
EXTENDS PhysicalBackups

\* A database whose first full backup has just completed, so that the bounds
\* go to what follows it.
AfterFirstFull ==
    /\ backups = <<[kind |-> "FULL", status |-> "COMPLETED", root |-> 0, parent |-> 0,
                    start |-> 1, stop |-> 2, done |-> 1, moved |-> FALSE]>>
    /\ created = 1
    /\ pos = 2 /\ now = 1
    /\ received = [s \in Segs |-> 0] /\ removed = [s \in Segs |-> NotRemoved]
    /\ run = NoRun
    /\ forceFull = 0 /\ forceIncr = 0 /\ unserved = FALSE
    /\ cleaner = Idle
    /\ events = MaxEvents

MCSpec == AfterFirstFull /\ [][Next]_vars
=============================================================================
