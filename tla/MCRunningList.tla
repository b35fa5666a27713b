--------------------------- MODULE MCRunningList ---------------------------
(* RunningList for small lists; the threads are model values, and those of a *)
(* kind are interchangeable.                                                 *)
EXTENDS RunningList, TLC

ThreadSymmetry == Permutations(Enlisters) \cup Permutations(Searchers)
=============================================================================
