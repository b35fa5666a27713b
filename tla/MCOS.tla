-------------------------------- MODULE MCOS --------------------------------
(* OS with every configuration of a few processes. *)
EXTENDS OS
=============================================================================
