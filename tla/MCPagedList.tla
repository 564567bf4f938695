---------------------------- MODULE MCPagedList ----------------------------
(* Values of the runs of PagedList.                                        *)
EXTENDS PagedList

\* The screen lists every backup, or only those that have ended.
AllAndEnded == {Statuses, {"ended"}}
=============================================================================
