------------------------------ MODULE PageTable ------------------------------
(***************************************************************************)
(* The page tables of mm64.c with the frames of MEMRAM: alloc_pages_range, *)
(* vmap_page_range, pte_set_swap and pte_set_entry, called in any order,   *)
(* and free_pcb_memph of libmem.c.  Each entry is made under mm64_lock and *)
(* is one step; vmap_page_range takes that lock once per page.             *)
(*                                                                         *)
(* A machine word is the set of the positions of its one-bits, so masking, *)
(* shifting and setting bits are set operations and exact at full width; a *)
(* page number is such a word too.  The table of five levels is the set of *)
(* directories that exist and the words of the last level.                 *)
(*                                                                         *)
(* In the configured build these operations are compiled but nothing calls *)
(* them with frames (the call in vm_map_ram is commented out); this module *)
(* is about the interface they offer, to one caller at a time as far as    *)
(* alloc_pages_range goes: it takes frames one by one without a lock, and  *)
(* overlapping calls of it are outside this module.                        *)
(***************************************************************************)
EXTENDS Naturals, Sequences, FiniteSets, MemPhy

CONSTANTS
  Pages,              \* page numbers
  NumFrames,          \* frames of MEMRAM
  SwapTypes, SwapOffsets,
  MaxRequest          \* most frames asked for at a time

ASSUME PagesAssumption == Pages \subseteq SUBSET (0..44)
ASSUME SwapAssumption ==
  /\ SwapTypes \subseteq SUBSET (0..4)
  /\ SwapOffsets \subseteq SUBSET (0..20)
\* Frame numbers fit into 13 bits, as they do for a RAM of 2^21 cells.
ASSUME FramesAssumption == NumFrames \in 2..(2^13) /\ MaxRequest \in Nat

VARIABLES
  dirs,               \* the directories below the pgd that exist, by path
  pt_tbl,             \* the words of the last level, by path
  free_fp_list,       \* of MEMRAM
  frm_lst,            \* frames handed out and not yet mapped
  vmap,               \* vmap_page_range: the pages it still has to map
  fifo_pgn,
  req,                \* the last entry made (interface of PageMap)
  entered             \* ghost: frames that were put into an entry

table == <<dirs, pt_tbl, req>>
vars == <<table, free_fp_list, frm_lst, vmap, fifo_pgn, entered>>

-----------------------------------------------------------------------------
(* Words *)

BitsOf(n) == {b \in 0..12 : (n \div 2^b) % 2 = 1}

SHL(v, n) == {b + n : b \in v}
SHR(v, n) == {b - n : b \in {c \in v : c >= n}}
GETVAL(v, mask, lobit) == SHR(v \cap mask, lobit)
SETVAL(v, value, mask, lobit) == (v \ mask) \cup (SHL(value, lobit) \cap mask)

PRESENT == 31
SWAPPED == 30
DIRTY == 28
FPN_MASK == 0..12
SWPTYP_MASK == 0..4
SWPOFF_MASK == 5..25
SWPOFF_LOBIT == 5

\* Mutated: the SWAPPED bit stays set.
WithFpnKeepsSwapped(v, fpn) == SETVAL(v \cup {PRESENT}, fpn, FPN_MASK, 0)

\* What pte_set_fpn and pte_set_swap make of an entry.
WithFpn(v, fpn) ==
  SETVAL((v \cup {PRESENT}) \ {SWAPPED}, fpn, FPN_MASK, 0)
WithSwap(v, swptyp, swpoff) ==
  SETVAL(SETVAL(v \cup {PRESENT, SWAPPED}, swptyp, SWPTYP_MASK, 0),
         swpoff, SWPOFF_MASK, SWPOFF_LOBIT)

\* init_pte builds an entry from a zero word.  Frame 0 is refused, and so is a
\* page that is not present; the word is then left as it is.
init_pte(pre, fpn, swp, swptyp, swpoff) ==
  IF ~pre \/ (~swp /\ fpn = {}) THEN {}
  ELSE IF swp THEN WithSwap({}, swptyp, swpoff) \ {DIRTY}
       ELSE WithFpn({}, fpn) \ {DIRTY}

-----------------------------------------------------------------------------
(* The walk *)

PGD == 48..56
P4D == 39..47
PUD == 30..38
PMD == 21..29
PT == 12..20

\* The index of a page at each level.
get_pd_from_pagenum(pgn) ==
  LET addr == SHL(pgn, 12) IN
  <<GETVAL(addr, PGD, 48), GETVAL(addr, P4D, 39), GETVAL(addr, PUD, 30),
    GETVAL(addr, PMD, 21), GETVAL(addr, PT, 12)>>

Path == [p \in Pages |-> get_pd_from_pagenum(p)]
Paths == {Path[p] : p \in Pages}

\* The directories on the way to a page.
Directories == [p \in Pages |-> {SubSeq(Path[p], 1, n) : n \in 1..4}]

\* A directory that is missing is made, empty, on the way.
Walk(pgn) == dirs' = dirs \cup Directories[pgn]

\* The word of a page, if the walk to it would find its table.
EntryOf(pgn) ==
  IF Directories[pgn] \subseteq dirs THEN pt_tbl[Path[pgn]] ELSE {}

SetEntry(pgn, word) ==
  /\ Walk(pgn)
  /\ pt_tbl' = [pt_tbl EXCEPT ![Path[pgn]] = word]

\* mm->pt is NULL from init_mm on, and pte_get_entry answers 0 then.
mm_pt == "NULL"
pte_get_entry(pgn) == IF mm_pt = "NULL" THEN {} ELSE EntryOf(pgn)

-----------------------------------------------------------------------------
(* Frames *)

Frames == 0..(NumFrames - 1)

\* Mutated: the roll-back forgets the first frame of the list.
RollBackShort(n) ==
  PutBack(LeftAfter(free_fp_list, n), Tail(Taken(free_fp_list, n)))

\* The free list once every frame taken has been given back.
RollBack(n) == PutBack(LeftAfter(free_fp_list, n), Taken(free_fp_list, n))

\* All n frames, or none.  The caller maps what it has got before it asks again.
alloc_pages_range(n) ==
  /\ frm_lst = <<>>
  /\ IF n <= Len(free_fp_list)
     THEN /\ frm_lst' = Taken(free_fp_list, n)
          /\ free_fp_list' = LeftAfter(free_fp_list, n)
     ELSE /\ free_fp_list' = IF free_fp_list = <<>> THEN <<>> ELSE RollBack(n)
          /\ UNCHANGED frm_lst
  /\ UNCHANGED <<table, vmap, fifo_pgn, entered>>

-----------------------------------------------------------------------------
(* Entries *)

Unmapped == <<"unmapped">>
Online(fpn) == <<"online", fpn>>
Swapped(swptyp, swpoff) == <<"swapped", swptyp, swpoff>>

pte_set_fpn(pgn, fpn) ==
  /\ SetEntry(pgn, WithFpn(EntryOf(pgn), BitsOf(fpn)))
  /\ req' = <<pgn, Online(BitsOf(fpn))>>

\* The page after a page: the carry goes up to the lowest zero bit.
NextPage(pgn) ==
  LET carry == CHOOSE b \in 0..45 : b \notin pgn /\ 0..(b - 1) \subseteq pgn IN
  (pgn \ 0..(carry - 1)) \cup {carry}

\* The pgnum pages from pgn on.
Consecutive(pgn, pgnum) ==
  LET page[k \in 1..pgnum] == IF k = 1 THEN pgn ELSE NextPage(page[k - 1])
  IN  [k \in 1..pgnum |-> page[k]]

\* A call of vmap_page_range begins ...
VmapBegin(pgn, pgnum) ==
  /\ vmap = <<>> /\ frm_lst # <<>>
  /\ vmap' = Consecutive(pgn, pgnum)
  /\ \A k \in 1..pgnum : vmap'[k] \in Pages
  /\ UNCHANGED <<table, free_fp_list, frm_lst, fifo_pgn, entered>>

\* Mutated: fpit does not advance.
VmapPageSameFrame ==
  /\ vmap # <<>>
  /\ pte_set_fpn(Head(vmap), Head(frm_lst))
  /\ fifo_pgn' = <<Head(vmap)>> \o fifo_pgn
  /\ entered' = entered \cup {Head(frm_lst)}
  /\ vmap' = Tail(vmap)
  /\ frm_lst' = IF Len(vmap) = 1 THEN Tail(frm_lst) ELSE frm_lst
  /\ UNCHANGED free_fp_list

\* ... and maps one page per turn, while there are pages and frames.
VmapPage ==
  /\ vmap # <<>>
  /\ pte_set_fpn(Head(vmap), Head(frm_lst))
  /\ fifo_pgn' = <<Head(vmap)>> \o fifo_pgn
  /\ entered' = entered \cup {Head(frm_lst)}
  /\ frm_lst' = Tail(frm_lst)
  /\ vmap' = IF frm_lst' = <<>> THEN <<>> ELSE Tail(vmap)
  /\ UNCHANGED free_fp_list

pte_set_swap(pgn, swptyp, swpoff) ==
  /\ SetEntry(pgn, WithSwap(EntryOf(pgn), swptyp, swpoff))
  /\ req' = <<pgn, Swapped(swptyp, swpoff)>>
  /\ UNCHANGED <<free_fp_list, frm_lst, vmap, fifo_pgn, entered>>

\* pte_set_entry with a word init_pte has built.
EnterOnline(pgn) ==
  /\ vmap = <<>> /\ frm_lst # <<>>
  /\ LET fpn == BitsOf(Head(frm_lst)) IN
       /\ SetEntry(pgn, init_pte(TRUE, fpn, FALSE, {}, {}))
       /\ req' = <<pgn, IF fpn = {} THEN Unmapped ELSE Online(fpn)>>
  /\ frm_lst' = Tail(frm_lst)
  /\ entered' = entered \cup {Head(frm_lst)}
  /\ UNCHANGED <<free_fp_list, vmap, fifo_pgn>>

EnterSwapped(pgn, swptyp, swpoff) ==
  /\ SetEntry(pgn, init_pte(TRUE, {}, TRUE, swptyp, swpoff))
  /\ req' = <<pgn, Swapped(swptyp, swpoff)>>
  /\ UNCHANGED <<free_fp_list, frm_lst, vmap, fifo_pgn, entered>>

EnterAbsent(pgn) ==
  /\ SetEntry(pgn, init_pte(FALSE, {}, FALSE, {}, {}))
  /\ req' = <<pgn, Unmapped>>
  /\ UNCHANGED <<free_fp_list, frm_lst, vmap, fifo_pgn, entered>>

\* free_pcb_memph looks at the entry of each page in fifo_pgn and gives back the
\* frame of one that is present; it takes a page with an offset in its swap field
\* for a swapped one, whose place goes to the swap device.
InRam(pgn) ==
  /\ PRESENT \in pte_get_entry(pgn)
  /\ GETVAL(pte_get_entry(pgn), SWPOFF_MASK, SWPOFF_LOBIT) = {}

FrameOf(pgn) ==
  CHOOSE f \in Frames : BitsOf(f) = GETVAL(pte_get_entry(pgn), FPN_MASK, 0)

free_pcb_memph ==
  LET inRam == {n \in 1..Len(fifo_pgn) : InRam(fifo_pgn[n])}
      \* the free list after the first n turns of the loop
      free[n \in 0..Len(fifo_pgn)] ==
        IF n = 0 THEN free_fp_list
        ELSE IF n \in inRam THEN PutBack(free[n - 1], <<FrameOf(fifo_pgn[n])>>)
        ELSE free[n - 1] IN
  /\ fifo_pgn # <<>>
  /\ free_fp_list' = free[Len(fifo_pgn)]
  /\ entered' = entered \ {FrameOf(fifo_pgn[n]) : n \in inRam}
  /\ fifo_pgn' = <<>>
  /\ UNCHANGED <<table, frm_lst, vmap>>

-----------------------------------------------------------------------------

Init ==
  /\ dirs = {}
  /\ pt_tbl = [q \in Paths |-> {}]
  /\ free_fp_list = MEMPHY_format(NumFrames * PAGING_PAGESZ)
  /\ frm_lst = <<>>
  /\ vmap = <<>>
  /\ fifo_pgn = <<>>
  /\ req = <<>>
  /\ entered = {}

Next ==
  \/ \E n \in 1..MaxRequest : alloc_pages_range(n)
  \/ VmapPage
  \/ free_pcb_memph
  \/ \E p \in Pages :
       \/ \E n \in 1..MaxRequest : VmapBegin(p, n)
       \/ EnterOnline(p)
       \/ EnterAbsent(p)
       \/ \E t \in SwapTypes, o \in SwapOffsets :
            pte_set_swap(p, t, o) \/ EnterSwapped(p, t, o)

Spec == Init /\ [][Next]_vars

-----------------------------------------------------------------------------
(* Properties *)

Word == SUBSET (0..31)

TypeOK ==
  /\ pt_tbl \in [Paths -> Word]
  /\ free_fp_list \in Seq(Frames) /\ frm_lst \in Seq(Frames)
  /\ fifo_pgn \in Seq(Pages) /\ vmap \in Seq(Pages)
  /\ entered \subseteq Frames

\* No frame is lost, duplicated or handed out while it is free, also when a
\* request fails half way and is rolled back (mm64.c, alloc_pages_range;
\* mm-memphy.c, MEMPHY_get_freefp, MEMPHY_put_freefp).
FramesPartitioned ==
  LET unused == free_fp_list \o frm_lst IN
  /\ \A j, k \in 1..Len(unused) : j # k => unused[j] # unused[k]
  /\ {unused[k] : k \in 1..Len(unused)} = Frames \ entered

\* What an entry says of its page.
Decode(word) ==
  IF PRESENT \notin word THEN Unmapped
  ELSE IF SWAPPED \in word
  THEN Swapped(GETVAL(word, SWPTYP_MASK, 0), GETVAL(word, SWPOFF_MASK, SWPOFF_LOBIT))
  ELSE Online(GETVAL(word, FPN_MASK, 0))

\* Two pages are never online in one frame (mm64.c, vmap_page_range).
NoFrameShared ==
  \A p, q \in Pages :
    p # q /\ Decode(EntryOf(p))[1] = "online" => Decode(EntryOf(p)) # Decode(EntryOf(q))

PageStates ==
  {Unmapped} \cup {Online(BitsOf(f)) : f \in Frames}
  \cup {Swapped(t, o) : t \in SwapTypes, o \in SwapOffsets}

\* The refinement mapping: the table stands for what its entries say.
map == [p \in Pages |-> Decode(EntryOf(p))]

Map == INSTANCE PageMap WITH PageStates <- PageStates, req <- req, map <- map

\* The five-level table with its overlapping bit fields implements the map:
\* each entry says afterwards exactly what it was set to, whatever it held
\* before, and no other page's entry changes (mm64.c, pte_set_fpn,
\* pte_set_swap, pte_set_entry, init_pte, get_pd_from_pagenum).
ImplementsPageMap == Map!MapSpec
=============================================================================
