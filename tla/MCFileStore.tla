---------------------------- MODULE MCFileStore ----------------------------
(* Instances of FileStore for TLC.  Instances are interchangeable, so the safety *)
(* run uses symmetry; the liveness run does not.                                 *)
EXTENDS FileStore, TLC

InstanceSymmetry == Permutations(Instances)
=============================================================================
