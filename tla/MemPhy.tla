------------------------------- MODULE MemPhy -------------------------------
(***************************************************************************)
(* A physical memory device (mm-memphy.c): its cells and the list of its   *)
(* free frames.  Frame f is the cells f * PAGING_PAGESZ + 0 ..             *)
(* PAGING_PAGESZ - 1.                                                      *)
(*                                                                         *)
(* The cursor is left out: only the sequential accesses move it, and they  *)
(* fail on every device (MEMPHY_read and MEMPHY_write call them when       *)
(* rdmflg is 0, they return an error when rdmflg is 0).                    *)
(***************************************************************************)
EXTENDS Naturals, Sequences, SequencesExt

CONSTANT PAGING_PAGESZ      \* cells in a frame

ASSUME PageSizeAssumption == PAGING_PAGESZ \in Nat \ {0}

\* Mutated: frames are counted from 1.
FormatFromOne(maxsz) == [n \in 1..(maxsz \div PAGING_PAGESZ) |-> n]

\* The free list after formatting: all frames in order.  For a device of fewer
\* than two frames the code leaves the end of the list uninitialised.
MEMPHY_format(maxsz) == [n \in 1..(maxsz \div PAGING_PAGESZ) |-> n - 1]

init_memphy(max_size, randomflg) ==
  [storage      |-> [a \in 0..(max_size - 1) |-> 0],
   rdmflg       |-> randomflg,
   free_fp_list |-> MEMPHY_format(max_size)]

NoValue == "error"

\* NoValue stands for the error return.
MEMPHY_read(mp, addr) == IF mp.rdmflg THEN mp.storage[addr] ELSE NoValue

MEMPHY_write(mp, addr, data) ==
  IF mp.rdmflg THEN [mp EXCEPT !.storage[addr] = data] ELSE mp

\* MEMPHY_get_freefp, called up to n times and until it fails: the frames it
\* has returned and the list it leaves.
Taken(free, n) == SubSeq(free, 1, IF n <= Len(free) THEN n ELSE Len(free))
LeftAfter(free, n) == SubSeq(free, n + 1, Len(free))

\* MEMPHY_put_freefp for each frame of the sequence in turn; each becomes the
\* new head of the list.
PutBack(free, frames) == Reverse(frames) \o free
=============================================================================
