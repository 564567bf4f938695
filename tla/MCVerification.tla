---------------------------- MODULE MCVerification ----------------------------
(* Model values of the runs of Verification.                                 *)
EXTENDS Verification, TLC

\* No run and no agent is told apart from another.
Symmetry == Permutations(Verifications) \cup Permutations(Agents)
===============================================================================
