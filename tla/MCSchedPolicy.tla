---------------------------- MODULE MCSchedPolicy ----------------------------
(* SchedPolicy for three levels, every assignment of levels to the processes. *)
EXTENDS SchedPolicy
=============================================================================
