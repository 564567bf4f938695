--------------------------- MODULE MCLogicalBackups ---------------------------
(* Model values of the runs of LogicalBackups.                               *)
EXTENDS LogicalBackups, TLC

\* No storage and no backup is told apart from another of its kind.
Symmetry == Permutations(Backups) \cup Permutations(Storages)
BackupSymmetry == Permutations(Backups)
===============================================================================
