------------------------------- MODULE VirtMem -------------------------------
(***************************************************************************)
(* The address space krnl->mm between two loads (libmem.c, mm-vm.c, and    *)
(* what they use of mm64.c and sys_mem.c): the symbol table, the list of   *)
(* free regions and the limit of the one vm area.  liballoc, libfree and   *)
(* libwrite hold mmvm_lock from beginning to end, so a call is one step,   *)
(* whichever process and CPU makes it.  libread changes nothing here, so   *)
(* it is no action (SysMem has its races); the system call a program makes *)
(* itself writes only the limit.                                           *)
(*                                                                         *)
(* The list of free regions is a sequence: removing a used-up node by      *)
(* copying its successor over it is removing it, and the last node is      *)
(* never removed but left with size 0.                                     *)
(*                                                                         *)
(* Sizes and addresses are addr_t and arg_t, unsigned and 64 bits wide;    *)
(* get_free_vmrg_area and the inc_sz of __alloc take the size as an int,   *)
(* which keeps its low 32 bits and may make it negative.                   *)
(***************************************************************************)
EXTENDS Integers, Sequences, SequencesExt

CONSTANTS
  INT_MAX,      \* 2^31 - 1, or less in a small instance
  ADDR_MAX,     \* 2^64 - 1, or less
  PAGING_MAX_SYMTBL_SZ,
  RgIds,        \* the register numbers the programs use
  AllocSizes,   \* the sizes they ask for
  Offsets,      \* the offsets they write at
  Lookups,      \* may the search for the caller in running_list find it?
  MaxGrowth,    \* bound on the bytes the area hands out by being extended
  MaxOversized  \* bound on the requests for more than INT_MAX bytes

ASSUME MemAssumption ==
  /\ PAGING_MAX_SYMTBL_SZ \in Nat /\ MaxGrowth \in Nat /\ MaxOversized \in Nat
  /\ Lookups \subseteq BOOLEAN
  /\ INT_MAX \in Nat /\ ADDR_MAX \in Nat /\ 2 * (INT_MAX + 1) <= ADDR_MAX
  /\ RgIds \subseteq Nat
  /\ AllocSizes \subseteq 0..ADDR_MAX /\ Offsets \subseteq 0..ADDR_MAX

VARIABLES
  symrgtbl,          \* the region of each register; [0,0) when it has none
  vm_freerg_list,
  vm_end,            \* limit of the vm area; its start and its sbrk are 0
  stored,            \* the bytes a write has put into MEMRAM
  written,           \* ghost: the writes that returned 0
  given, leaked,     \* ghost: bytes gained by extending the area, and bytes
                     \* that were overwritten in the symbol table
  oversized,         \* history: the requests for more than INT_MAX bytes
  misfit             \* history: get_free_vmrg_area has handed out a region that
                     \* has not the size asked for

memory == <<symrgtbl, vm_freerg_list, vm_end>>
ghosts == <<written, given, leaked, oversized, misfit>>
vars == <<memory, stored, ghosts>>

Symbols == 0..(PAGING_MAX_SYMTBL_SZ - 1)
sbrk == 0
Addresses == 0..ADDR_MAX

\* Mutated: a type one bit narrower.
NarrowBelowInt(size) ==
  LET low == size % (INT_MAX + 1) IN
  IF 2 * low <= INT_MAX THEN low ELSE low - (INT_MAX + 1)

\* The int that an argument becomes.
Narrow(size) ==
  LET low == size % (2 * (INT_MAX + 1)) IN
  IF low <= INT_MAX THEN low ELSE low - 2 * (INT_MAX + 1)

\* An address plus an int, or plus an offset: the sum wraps.
Add(addr, n) == (addr + n) % (ADDR_MAX + 1)

Region(s, e) == [rg_start |-> s, rg_end |-> e]
NoRegion == Region(0, 0)
Length(rg) == rg.rg_end - rg.rg_start

\* init_mm: an empty area with one free region of size 0.
init_mm ==
  /\ symrgtbl = [r \in Symbols |-> NoRegion]
  /\ vm_freerg_list = <<Region(0, 0)>>
  /\ vm_end = 0

Init ==
  /\ init_mm
  /\ stored = {}
  /\ written = {}
  /\ given = 0
  /\ leaked = 0
  /\ oversized = 0
  /\ misfit = FALSE

\* The entries an index reaches; beyond the table it is undefined what is there.
Entry(rgid) == IF rgid \in Symbols THEN symrgtbl[rgid] ELSE NoRegion
SetEntry(rgid, rg) ==
  symrgtbl' = IF rgid \in Symbols THEN [symrgtbl EXCEPT ![rgid] = rg] ELSE symrgtbl

\* The test get_symrg_byid and __free make.
AcceptsId(rgid) == rgid >= 0 /\ rgid <= PAGING_MAX_SYMTBL_SZ

-----------------------------------------------------------------------------
(* liballoc *)

\* Where a region of that size would end.
EndIn(rg, size) == Add(rg.rg_start, Narrow(size))

Fits(rg, size) == EndIn(rg, size) <= rg.rg_end

\* get_free_vmrg_area finds room in the n-th free region, the first that fits.
\* A region that starts at the last address would be taken for none (the test of
\* newrg->rg_start against -1); no node starts there (FreeListShape).
FirstFit(n, size) ==
  /\ Fits(vm_freerg_list[n], size)
  /\ \A k \in 1..(n - 1) : ~Fits(vm_freerg_list[k], size)

\* Mutated: a used-up node is removed even when it is the last one.
TakeFromDropsLast(n, size) ==
  IF EndIn(vm_freerg_list[n], size) < vm_freerg_list[n].rg_end
  THEN [vm_freerg_list EXCEPT ![n].rg_start = EndIn(vm_freerg_list[n], size)]
  ELSE RemoveAt(vm_freerg_list, n)

\* Mutated: a used-up node stays as it is.
TakeFromKeepsNode(n, size) ==
  IF EndIn(vm_freerg_list[n], size) < vm_freerg_list[n].rg_end
  THEN [vm_freerg_list EXCEPT ![n].rg_start = EndIn(vm_freerg_list[n], size)]
  ELSE vm_freerg_list

\* What it leaves of the list.
TakeFrom(n, size) ==
  IF EndIn(vm_freerg_list[n], size) < vm_freerg_list[n].rg_end
  THEN [vm_freerg_list EXCEPT ![n].rg_start = EndIn(vm_freerg_list[n], size)]
  ELSE IF n < Len(vm_freerg_list)
  THEN RemoveAt(vm_freerg_list, n)
  ELSE [vm_freerg_list EXCEPT ![n].rg_start = vm_freerg_list[n].rg_end]

\* The entry is overwritten whatever it held.
Assign(rgid, rg) ==
  /\ SetEntry(rgid, rg)
  /\ leaked' = leaked + Length(Entry(rgid))

AllocFromFree(size, rgid) ==
  /\ \E n \in 1..Len(vm_freerg_list) :
       LET start == vm_freerg_list[n].rg_start
           end == EndIn(vm_freerg_list[n], size) IN
       /\ FirstFit(n, size)
       /\ vm_freerg_list' = TakeFrom(n, size)
       /\ Assign(rgid, Region(start, end))
       /\ misfit' = (misfit \/ end # start + size)
  /\ UNCHANGED <<vm_end, stored, written, given>>

\* inc_vma_limit: the new limit is sbrk + inc_sz.  It refuses an empty region, and
\* no other: the area is the only one.
inc_vma_limit(inc_sz) ==
  vm_end' = IF sbrk >= Add(sbrk, inc_sz) THEN vm_end ELSE Add(sbrk, inc_sz)

\* System call 17 fails when it does not find the caller in running_list.
sys_memmap(inc_sz) ==
  \E found \in Lookups :
    IF found THEN inc_vma_limit(inc_sz) ELSE UNCHANGED vm_end

\* No free region is large enough.  The limit grows by an int's worth of the size,
\* the region has all of it.  The result of the system call is ignored.
AllocExtend(size, rgid) ==
  /\ \A n \in 1..Len(vm_freerg_list) : ~Fits(vm_freerg_list[n], size)
  /\ given + size <= MaxGrowth
  /\ sys_memmap(Narrow(size))
  /\ Assign(rgid, Region(sbrk, Add(sbrk, size)))
  /\ given' = given + size
  /\ UNCHANGED <<vm_freerg_list, stored, written, misfit>>

\* Requests for more than INT_MAX bytes are counted, and bounded.
liballoc(size, rgid) ==
  /\ AllocFromFree(size, rgid) \/ AllocExtend(size, rgid)
  /\ oversized' = IF size > INT_MAX THEN oversized + 1 ELSE oversized
  /\ oversized' <= MaxOversized

\* A program's SYSCALL instruction may also call sys_memmap by itself.
libsyscall(size) ==
  /\ sys_memmap(size)
  /\ UNCHANGED <<symrgtbl, vm_freerg_list, stored, ghosts>>

-----------------------------------------------------------------------------
(* libfree *)

\* Mutated: an empty region is enlisted too.
EnlistAnyRegion(rg) == vm_freerg_list' = <<rg>> \o vm_freerg_list

\* enlist_vm_freerg_list refuses an empty region.
enlist_vm_freerg_list(rg) ==
  vm_freerg_list' = IF rg.rg_start >= rg.rg_end THEN vm_freerg_list
                    ELSE <<rg>> \o vm_freerg_list

libfree(rgid) ==
  /\ AcceptsId(rgid)
  /\ IF Entry(rgid) = NoRegion
     THEN UNCHANGED <<symrgtbl, vm_freerg_list>>
     ELSE /\ enlist_vm_freerg_list(Entry(rgid))
          /\ SetEntry(rgid, NoRegion)
  /\ UNCHANGED <<vm_end, stored, ghosts>>

-----------------------------------------------------------------------------
(* libwrite *)

\* init_mm leaves mm->pt NULL and nothing sets it later; pte_get_entry then
\* says 0, which is not present, for every page.
pt == "NULL"
PagePresent == pt # "NULL"

\* The frames vm_map_ram gives to vmap_page_range: the call of
\* alloc_pages_range is commented out.
frm_lst == <<>>

\* vmap_page_range enters one page into fifo_pgn for every frame.
VictimExists == frm_lst # <<>>

\* pg_getpage, for whichever page.
PageAvailable == PagePresent \/ VictimExists

\* __write ignores what pg_setval returns.
libwrite(rgid, offset) ==
  /\ AcceptsId(rgid)
  /\ LET addr == Add(Entry(rgid).rg_start, offset) IN
       /\ stored' = IF PageAvailable THEN stored \cup {addr} ELSE stored
       /\ written' = written \cup {addr}
  /\ UNCHANGED <<memory, given, leaked, oversized, misfit>>

-----------------------------------------------------------------------------

Next ==
  \/ \E size \in AllocSizes : libsyscall(size)
  \/ \E rgid \in RgIds :
    \/ \E size \in AllocSizes : liballoc(size, rgid)
    \/ libfree(rgid)
    \/ \E offset \in Offsets : libwrite(rgid, offset)

Spec == Init /\ [][Next]_vars

-----------------------------------------------------------------------------
(* Properties *)

Regions == [rg_start : Addresses, rg_end : Addresses]

TypeOK ==
  /\ symrgtbl \in [Symbols -> Regions]
  /\ vm_freerg_list \in Seq(Regions) /\ vm_freerg_list # <<>>
  /\ vm_end \in Addresses /\ given \in Nat /\ leaked \in Int
  /\ oversized \in 0..MaxOversized /\ misfit \in BOOLEAN

\* The last node of the free list is the empty one of init_mm and no other node is
\* empty or ends before it starts, whatever sizes are asked for: get_free_vmrg_area's
\* ways of using up a node (shrink it, copy the next one over it, leave an empty
\* last one) leave no empty node in the middle (libmem.c, get_free_vmrg_area,
\* enlist_vm_freerg_list).
FreeListShape ==
  /\ \A n \in 1..(Len(vm_freerg_list) - 1) :
       vm_freerg_list[n].rg_start < vm_freerg_list[n].rg_end
  /\ vm_freerg_list[Len(vm_freerg_list)] = Region(0, 0)

\* As long as no program asks for a size above INT_MAX, every region has the size
\* asked for: neither the narrowing of the size nor a sum that wraps shows
\* (libmem.c:490, :503-509).
MisfitOnlyOversized == misfit => oversized > 0

\* f[1] + ... + f[n]
SumTo(f, n) == LET sum[k \in Nat] == IF k = 0 THEN 0 ELSE sum[k - 1] + f[k] IN sum[n]

FreeBytes ==
  SumTo([n \in 1..Len(vm_freerg_list) |-> Length(vm_freerg_list[n])],
        Len(vm_freerg_list))
SymbolBytes ==
  SumTo([n \in 1..PAGING_MAX_SYMTBL_SZ |-> Length(symrgtbl[n - 1])],
        PAGING_MAX_SYMTBL_SZ)

\* Splitting, using up and giving back regions loses no byte and duplicates
\* none: what extensions of the area have handed out is in the free list, in the
\* symbol table, or was overwritten there by an alloc to a register that still
\* had its region (libmem.c, __alloc, __free, get_free_vmrg_area).  It is so until
\* get_free_vmrg_area hands out a region of another size than it was asked for.
BytesConserved ==
  ~misfit => /\ \A r \in Symbols : symrgtbl[r].rg_start <= symrgtbl[r].rg_end
             /\ FreeBytes + SymbolBytes + leaked = given

Overlap(a, b) == a.rg_start < b.rg_end /\ b.rg_start < a.rg_end

\* mm-vm.c:101 "validate the planned memory area is not overlapped": two
\* variables never share an address.
NoOverlap ==
  \A q, r \in Symbols : q # r => ~Overlap(symrgtbl[q], symrgtbl[r])

\* libmem.c:310 "Actually write the value to physical memory": a write that
\* reports success has stored its byte.
WriteStores == written \subseteq stored
=============================================================================
