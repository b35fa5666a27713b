------------------------------- MODULE MCTimer -------------------------------
(* Timer with two CPUs and the loader, exhaustively. *)
EXTENDS Timer
=============================================================================
