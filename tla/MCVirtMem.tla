------------------------------ MODULE MCVirtMem ------------------------------
(* VirtMem for a few registers and sizes. *)
EXTENDS VirtMem
=============================================================================
