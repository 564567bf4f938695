--------------------------- MODULE MCWalArchiving ---------------------------
(***************************************************************************)
(* Instances of WalArchiving for TLC: its constants are numbers, so the    *)
(* configurations give them directly.                                      *)
(***************************************************************************)
EXTENDS WalArchiving
=============================================================================
