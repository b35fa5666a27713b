----------------------------- MODULE MCPageTable -----------------------------
(* PageTable for three pages: the neighbours 511 and 512, whose paths differ   *)
(* in the last two levels, and one whose path differs from 512's at the top.   *)
EXTENDS PageTable

MCPages == {0..8, {9}, {9, 36}}
MCSwapTypes == {{0}}
MCSwapOffsets == {{}, {0, 20}}
=============================================================================
