------------------------------ MODULE MCSysMem ------------------------------
(* SysMem for two CPUs; the walks cover one directory, or two that part at the *)
(* last level.  One of the regions ends before it starts.                      *)
EXTENDS SysMem, TLC

MCWalks == {<< <<0, 0, 0, 0>> >>, << <<0, 0, 0, 0>>, <<0, 0, 0, 1>> >>}
MCMixes == {[ops |-> {"load", "print", "map"}, calls |-> 2],
            [ops |-> {"print", "map"}, calls |-> 3],
            [ops |-> {"write", "swap"}, calls |-> 4],
            [ops |-> {"alloc", "free", "read"}, calls |-> 4]}
MCRegions == {[rg_start |-> 0, rg_end |-> 2], [rg_start |-> 1, rg_end |-> 2],
              [rg_start |-> 2, rg_end |-> 3], [rg_start |-> 3, rg_end |-> 1]}
MCSymmetry == Permutations(Cpus)
=============================================================================
