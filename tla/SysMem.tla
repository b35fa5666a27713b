------------------------------- MODULE SysMem -------------------------------
(***************************************************************************)
(* The kernel's memory code that CPUs run at the same time without a lock: *)
(*   - print_pgtbl (mm64.c), which liballoc, libfree, libread and libwrite *)
(*     call after they have given up mmvm_lock, and which makes the page   *)
(*     directories it finds missing;                                       *)
(*   - system call 17 (sys_mem.c) as a program makes it: SYSMEM_MAP_OP     *)
(*     walks the same directories, SYSMEM_SWP_OP copies a frame to the     *)
(*     active swap device cell by cell, SYSMEM_IO_WRITE writes a cell of   *)
(*     MEMRAM (SYSMEM_IO_READ changes nothing; SYSMEM_INC_OP is VirtMem's);*)
(*   - the loader, which replaces krnl->mm under the running processes;    *)
(*   - __read (libmem.c), which looks at the region of a register while    *)
(*     __alloc and __free, under mmvm_lock, may be changing it.            *)
(* A step makes at most one access to what is shared.                      *)
(*                                                                         *)
(* The bounds of a region and the offset in it are addr_t, unsigned and 64 *)
(* bits wide: their sum wraps, and a negative offset is a large one.       *)
(***************************************************************************)
EXTENDS Naturals, Sequences, FiniteSets, MemPhy

CONSTANTS
  Cpus,
  Walks,              \* the ranges of pages walked, as sequences of the
                      \* distinct paths of directory indices in the range
  RamFrames, SwapFrames, Values,
  ADDR_MAX,           \* 2^64 - 1, or less in a small instance
  Regions, Offsets,   \* what a register may be assigned; where it is read
  Mixes,              \* the operations that may overlap, and a bound on
                      \* the calls the CPUs make in all
  MaxLoads            \* bound on the loads after the first one

ASSUME BoundsAssumption ==
  /\ RamFrames \in Nat /\ SwapFrames \in Nat
  /\ MaxLoads \in Nat
  /\ ADDR_MAX \in Nat
  /\ Offsets \subseteq 0..ADDR_MAX
  /\ Regions \subseteq [rg_start : 0..ADDR_MAX, rg_end : 0..ADDR_MAX]

\* A range holds at least one page, and a page has an index at each of the four
\* levels of directories.
ASSUME WalksAssumption == Walks \subseteq Seq([1..4 -> Nat]) \ {<<>>}

\* The devices are cleared when they are made.
ASSUME ValuesAssumption == 0 \in Values

Operations == {"load", "print", "map", "write", "swap", "alloc", "free", "read"}

ASSUME MixesAssumption ==
  Mixes \subseteq [ops : SUBSET Operations, calls : Nat]

VARIABLES
  mix,                \* the operations of this behaviour, and how many
  mms,                \* the mm_structs made so far; krnl->mm is the last
  tables,             \* the directory tables made so far
  lpc,                \* the loader, inside or outside init_mm
  mram, active_mswp,
  cpc, calls,         \* control of each CPU; calls made in all
  walk, kind, at,     \* paths to walk, indices left on the first; who asks;
                      \* the table pointer the walk holds
  copy,               \* __swap_cp_page's frames, cell and byte
  overlapped,         \* ghost: krnl->mm was being replaced during the call
  disturbed,          \* ghost: another call wrote a frame of the copy
  symrg,              \* the symbol table's entry of one register
  mmvm_lock,          \* its holder
  newrg,              \* the region __alloc is storing
  access,             \* __read's offset and address; the bounds of the region
                      \* when the call began (ghosts)
  reassigned          \* ghost: __alloc stored into the entry meanwhile

spaces == <<mms, tables>>
devices == <<mram, active_mswp>>
walks == <<walk, kind, at>>
library == <<symrg, mmvm_lock, newrg, access, reassigned>>
vars == <<mix, spaces, lpc, devices, cpc, calls, walks, copy, overlapped, disturbed,
          library>>

\* Entry 0 is a NULL entry; a field that init_mm has not set yet is UNSET.
UNSET == 0
NULL == 0
Indices == UNION {{p[l] : l \in 1..4} : p \in UNION {{w[n] : n \in 1..Len(w)} : w \in Walks}}
EmptyTable == [x \in Indices |-> NULL]

NoRegion == [rg_start |-> 0, rg_end |-> 0]
NoAccess == [offset |-> 0, addr |-> 0, start |-> 0, end |-> 0]
NONE == "none"

RamCells == 0..(RamFrames * PAGING_PAGESZ - 1)
SwapCells == 0..(SwapFrames * PAGING_PAGESZ - 1)

\* The simulator is one program: a CPU that faults ends it.
Crashed == \E c \in Cpus : cpc[c] = "fault"
Goto(c, from, to) == cpc[c] = from /\ cpc' = [cpc EXCEPT ![c] = to]
Set(f, c, v) == [f EXCEPT ![c] = v]

Init ==
  /\ mix \in Mixes
  /\ mms = <<[pgd |-> 1, mmap |-> TRUE]>>
  /\ tables = <<EmptyTable>>
  /\ lpc = "outside"
  /\ mram = init_memphy(RamFrames * PAGING_PAGESZ, TRUE)
  /\ active_mswp = init_memphy(SwapFrames * PAGING_PAGESZ, TRUE)
  /\ cpc = [c \in Cpus |-> "user"]
  /\ calls = 0
  /\ walk = [c \in Cpus |-> <<>>]
  /\ kind = [c \in Cpus |-> "none"]
  /\ at = [c \in Cpus |-> NULL]
  /\ copy = [c \in Cpus |-> [src |-> 0, dst |-> 0, cell |-> 0, data |-> 0]]
  /\ overlapped = [c \in Cpus |-> FALSE]
  /\ disturbed = [c \in Cpus |-> FALSE]
  /\ symrg = NoRegion
  /\ mmvm_lock = NONE
  /\ newrg = NoRegion
  /\ access = [c \in Cpus |-> NoAccess]
  /\ reassigned = [c \in Cpus |-> FALSE]

mm == mms[Len(mms)]

\* A call begins: the bound, and the ghosts.
Call(c, to) ==
  /\ calls < mix.calls
  /\ Goto(c, "user", to)
  /\ calls' = calls + 1
  /\ overlapped' = Set(overlapped, c, lpc # "outside")
  /\ disturbed' = Set(disturbed, c, FALSE)

-----------------------------------------------------------------------------
(* The loader *)

Touch == overlapped' = [c \in Cpus |-> cpc[c] # "user"]

\* krnl->mm = malloc(...): nothing in it is set.
LoadMalloc ==
  /\ lpc = "outside" /\ Len(mms) <= MaxLoads
  /\ lpc' = "malloced"
  /\ mms' = Append(mms, [pgd |-> UNSET, mmap |-> FALSE])
  /\ Touch
  /\ UNCHANGED <<tables, devices, cpc, calls, walks, copy, disturbed>>

\* init_mm: the top directory ...
LoadPgd ==
  /\ lpc = "malloced"
  /\ lpc' = "pgd"
  /\ tables' = Append(tables, EmptyTable)
  /\ mms' = [mms EXCEPT ![Len(mms)].pgd = Len(tables')]
  /\ Touch
  /\ UNCHANGED <<devices, cpc, calls, walks, copy, disturbed>>

\* ... and at last the vm area.
LoadMmap ==
  /\ lpc = "pgd"
  /\ lpc' = "outside"
  /\ mms' = [mms EXCEPT ![Len(mms)].mmap = TRUE]
  /\ Touch
  /\ UNCHANGED <<tables, devices, cpc, calls, walks, copy, disturbed>>

-----------------------------------------------------------------------------
(* Walks *)

\* The range is 0 .. vm_end of the area; without one there is nothing to read it
\* from.  The pointers it keeps only to print are left out.
print_pgtbl(c) ==
  /\ Call(c, IF mm.mmap THEN "test" ELSE "fault")
  /\ \E w \in Walks : walk' = Set(walk, c, w)
  /\ kind' = Set(kind, c, "print")
  /\ at' = Set(at, c, NULL)
  /\ UNCHANGED <<spaces, lpc, devices, copy>>

\* No page is asked for: the loop is not entered.
vmap_nothing(c) ==
  /\ Call(c, "user")
  /\ UNCHANGED <<spaces, lpc, devices, walks, copy>>

\* It comes no further than the first page (see PageDone).
vmap_pgd_memset(c) ==
  /\ Call(c, "test")
  /\ \E w \in Walks : walk' = Set(walk, c, <<Head(w)>>)
  /\ kind' = Set(kind, c, "map")
  /\ at' = Set(at, c, NULL)
  /\ UNCHANGED <<spaces, lpc, devices, copy>>

\* Four levels: the first is reached through krnl->mm each time, the others
\* through the pointer read from the level above.
Level(c) == 5 - Len(Head(walk[c]))
Table(c) == IF Level(c) = 1 THEN mm.pgd ELSE at[c]
Index(c) == Head(Head(walk[c]))
Faults(c) == Table(c) = NULL

Fault(c) ==
  /\ cpc[c] \in {"test", "fill", "follow"} /\ Faults(c)
  /\ cpc' = Set(cpc, c, "fault")
  /\ UNCHANGED <<spaces, lpc, devices, calls, walks, copy, overlapped, disturbed>>

\* The directories of a page are all there: on to the next page, or out.
\* vmap_pgd_memset first writes through mm->pt, which is NULL.
PageDone(c) ==
  LET done == Len(walk[c]) = 1 IN
  /\ cpc' = Set(cpc, c, IF kind[c] = "map" THEN "fault" ELSE IF done THEN "user" ELSE "test")
  /\ walk' = Set(walk, c, Tail(walk[c]))
  /\ at' = Set(at, c, NULL)
  /\ overlapped' = IF cpc'[c] = "user" THEN Set(overlapped, c, FALSE) ELSE overlapped

\* An entry that is set is followed, except on the last level.
EntrySet(c) ==
  IF Level(c) = 4 THEN PageDone(c)
  ELSE cpc' = Set(cpc, c, "follow") /\ UNCHANGED <<walk, at, overlapped>>

TestEntry(c) ==
  /\ cpc[c] = "test" /\ ~Faults(c)
  /\ IF tables[Table(c)][Index(c)] # NULL
     THEN EntrySet(c)
     ELSE cpc' = Set(cpc, c, "fill") /\ UNCHANGED <<walk, at, overlapped>>
  /\ UNCHANGED <<spaces, lpc, devices, calls, kind, copy, disturbed>>

\* Mutated: the new table is made but not entered.
FillEntryForgotten(c) ==
  /\ cpc[c] = "fill" /\ ~Faults(c)
  /\ EntrySet(c)
  /\ tables' = Append(tables, EmptyTable)
  /\ UNCHANGED <<mms, lpc, devices, calls, kind, copy, disturbed>>

\* calloc a table and enter it, whatever the entry holds by now.
FillEntry(c) ==
  /\ cpc[c] = "fill" /\ ~Faults(c)
  /\ EntrySet(c)
  /\ tables' = Append([tables EXCEPT ![Table(c)][Index(c)] = Len(tables) + 1], EmptyTable)
  /\ UNCHANGED <<mms, lpc, devices, calls, kind, copy, disturbed>>

\* Read the entry again and go down one level.
FollowEntry(c) ==
  /\ cpc[c] = "follow" /\ ~Faults(c)
  /\ Goto(c, "follow", "test")
  /\ at' = Set(at, c, tables[Table(c)][Index(c)])
  /\ walk' = [walk EXCEPT ![c][1] = Tail(@)]
  /\ UNCHANGED <<spaces, lpc, devices, calls, kind, copy, overlapped, disturbed>>

-----------------------------------------------------------------------------
(* MEMRAM and the swap device *)

Cell(frame, cell) == frame * PAGING_PAGESZ + cell
FrameOf(addr) == addr \div PAGING_PAGESZ

Copying(c) == cpc[c] \in {"read", "write", "copied"}

\* A write of frame `frame` on the device that is a copy's source or target
\* disturbs every copy but the writer's own.
Disturb(c, end, frame) ==
  disturbed' = [d \in Cpus |->
    disturbed[d] \/ (d # c /\ Copying(d) /\ copy[d][end] = frame)]

\* SYSMEM_IO_WRITE
MemWrite(c) ==
  /\ cpc[c] = "user" /\ calls < mix.calls
  /\ calls' = calls + 1
  /\ \E addr \in RamCells, v \in Values :
       /\ mram' = MEMPHY_write(mram, addr, v)
       /\ Disturb(c, "src", FrameOf(addr))
  /\ UNCHANGED <<spaces, lpc, active_mswp, cpc, walks, copy, overlapped>>

\* SYSMEM_SWP_OP: __mm_swap_page, __swap_cp_page.
SwapBegin(c) ==
  /\ Call(c, "read")
  /\ \E f \in 0..(RamFrames - 1), g \in 0..(SwapFrames - 1) :
       copy' = Set(copy, c, [src |-> f, dst |-> g, cell |-> 0, data |-> 0])
  /\ UNCHANGED <<spaces, lpc, devices, walks>>

\* Mutated: the source address is computed from the target frame.
SwapReadSwapped(c) ==
  /\ Goto(c, "read", "write")
  /\ copy' = [copy EXCEPT ![c].data = MEMPHY_read(mram, Cell(copy[c].dst, copy[c].cell))]
  /\ UNCHANGED <<spaces, lpc, devices, calls, walks, overlapped, disturbed>>

SwapRead(c) ==
  /\ Goto(c, "read", "write")
  /\ copy' = [copy EXCEPT ![c].data = MEMPHY_read(mram, Cell(copy[c].src, copy[c].cell))]
  /\ UNCHANGED <<spaces, lpc, devices, calls, walks, overlapped, disturbed>>

\* Mutated: the loop makes one turn too many.
SwapWritePastEnd(c) ==
  /\ Goto(c, "write", IF copy[c].cell = PAGING_PAGESZ THEN "copied" ELSE "read")
  /\ active_mswp' = MEMPHY_write(active_mswp, Cell(copy[c].dst, copy[c].cell), copy[c].data)
  /\ copy' = [copy EXCEPT ![c].cell = @ + 1]
  /\ Disturb(c, "dst", copy[c].dst)
  /\ UNCHANGED <<spaces, lpc, mram, calls, walks, overlapped>>

SwapWrite(c) ==
  /\ Goto(c, "write", IF copy[c].cell + 1 = PAGING_PAGESZ THEN "copied" ELSE "read")
  /\ active_mswp' = MEMPHY_write(active_mswp, Cell(copy[c].dst, copy[c].cell), copy[c].data)
  /\ copy' = [copy EXCEPT ![c].cell = @ + 1]
  /\ Disturb(c, "dst", copy[c].dst)
  /\ UNCHANGED <<spaces, lpc, mram, calls, walks, overlapped>>

SwapReturn(c) ==
  /\ Goto(c, "copied", "user")
  /\ copy' = Set(copy, c, [src |-> 0, dst |-> 0, cell |-> 0, data |-> 0])
  /\ overlapped' = Set(overlapped, c, FALSE)
  /\ disturbed' = Set(disturbed, c, FALSE)
  /\ UNCHANGED <<spaces, lpc, devices, calls, walks>>

-----------------------------------------------------------------------------
(* The region of a register *)

Reading(c) == cpc[c] \in {"start_zero", "end_zero", "sum", "bound", "address", "getval"}

\* __free, from mmvm_lock on.  Without a region it gives up at once.
__free(c) ==
  /\ mmvm_lock = NONE
  /\ IF symrg = NoRegion
     THEN Call(c, "user") /\ UNCHANGED mmvm_lock
     ELSE Call(c, "free_start") /\ mmvm_lock' = c
  /\ UNCHANGED <<symrg, newrg, access, reassigned>>

FreeStart(c) ==
  /\ Goto(c, "free_start", "free_end")
  /\ symrg' = [symrg EXCEPT !.rg_start = 0]
  /\ UNCHANGED <<calls, overlapped, disturbed, mmvm_lock, newrg, access, reassigned>>

FreeEnd(c) ==
  /\ Goto(c, "free_end", "user")
  /\ symrg' = [symrg EXCEPT !.rg_end = 0]
  /\ mmvm_lock' = NONE
  /\ UNCHANGED <<calls, overlapped, disturbed, newrg, access, reassigned>>

\* __alloc, once it has a region to assign.
__alloc(c) ==
  /\ mmvm_lock = NONE /\ mmvm_lock' = c
  /\ Call(c, "alloc_start")
  /\ newrg' \in Regions
  /\ UNCHANGED <<symrg, access, reassigned>>

AllocStart(c) ==
  /\ Goto(c, "alloc_start", "alloc_end")
  /\ symrg' = [symrg EXCEPT !.rg_start = newrg.rg_start]
  /\ reassigned' = [d \in Cpus |-> Reading(d)]
  /\ UNCHANGED <<calls, overlapped, disturbed, mmvm_lock, newrg, access>>

AllocEnd(c) ==
  /\ Goto(c, "alloc_end", "user")
  /\ symrg' = [symrg EXCEPT !.rg_end = newrg.rg_end]
  /\ reassigned' = [d \in Cpus |-> Reading(d)]
  /\ mmvm_lock' = NONE
  /\ newrg' = NoRegion
  /\ UNCHANGED <<calls, overlapped, disturbed, access>>

\* __read takes no lock and reads a field of the entry at each mention.
__read(c) ==
  /\ Call(c, "start_zero")
  /\ \E o \in Offsets :
       access' = Set(access, c, [offset |-> o, addr |-> 0,
                                 start |-> symrg.rg_start, end |-> symrg.rg_end])
  /\ UNCHANGED <<symrg, mmvm_lock, newrg, reassigned>>

\* It returns when a test refuses.
ReadTest(c, from, to, refused) ==
  /\ cpc[c] = from
  /\ cpc' = Set(cpc, c, IF refused THEN "user" ELSE to)
  /\ access' = IF refused THEN Set(access, c, NoAccess) ELSE access
  /\ reassigned' = IF refused THEN Set(reassigned, c, FALSE) ELSE reassigned
  /\ UNCHANGED <<calls, overlapped, disturbed, symrg, mmvm_lock, newrg>>

\* Is it allocated?
ReadStartZero(c) ==
  ReadTest(c, "start_zero", IF symrg.rg_start = 0 THEN "end_zero" ELSE "sum", FALSE)
ReadEndZero(c) == ReadTest(c, "end_zero", "sum", symrg.rg_end = 0)

\* An address plus an offset: the sum wraps.
Add(addr, offset) == (addr + offset) % (ADDR_MAX + 1)

\* The address is computed for the test of the bound ...
ReadSum(c, from, to) ==
  /\ Goto(c, from, to)
  /\ access' = [access EXCEPT ![c].addr = Add(symrg.rg_start, access[c].offset)]
  /\ UNCHANGED <<calls, overlapped, disturbed, symrg, mmvm_lock, newrg, reassigned>>

\* Mutated: the end belongs to the region.
ReadBoundInclusive(c) == ReadTest(c, "bound", "address", access[c].addr > symrg.rg_end)

\* The second test, offset < 0, is never true of an addr_t.
ReadBound(c) == ReadTest(c, "bound", "address", access[c].addr >= symrg.rg_end)

\* ... and once more for pg_getval, which finds no page there.
ReadReturn(c) == ReadTest(c, "getval", "user", TRUE)

Library(c) ==
  \/ "free" \in mix.ops /\ __free(c)
  \/ "alloc" \in mix.ops /\ __alloc(c)
  \/ "read" \in mix.ops /\ __read(c)
  \/ FreeStart(c) \/ FreeEnd(c) \/ AllocStart(c) \/ AllocEnd(c)
  \/ ReadStartZero(c) \/ ReadEndZero(c)
  \/ ReadSum(c, "sum", "bound") \/ ReadBound(c)
  \/ ReadSum(c, "address", "getval") \/ ReadReturn(c)

-----------------------------------------------------------------------------

Loader == "load" \in mix.ops /\ (LoadMalloc \/ LoadPgd \/ LoadMmap)

Begin(c) ==
  \/ "print" \in mix.ops /\ print_pgtbl(c)
  \/ "map" \in mix.ops /\ (vmap_pgd_memset(c) \/ vmap_nothing(c))
  \/ "write" \in mix.ops /\ MemWrite(c)
  \/ "swap" \in mix.ops /\ SwapBegin(c)

Kernel(c) ==
  \/ Begin(c)
  \/ Fault(c) \/ TestEntry(c) \/ FillEntry(c) \/ FollowEntry(c)
  \/ SwapRead(c) \/ SwapWrite(c) \/ SwapReturn(c)

Step ==
  /\ ~Crashed
  /\ \/ (Loader \/ \E c \in Cpus : Kernel(c)) /\ UNCHANGED library
     \/ (\E c \in Cpus : Library(c)) /\ UNCHANGED <<spaces, lpc, devices, walks, copy>>
  /\ UNCHANGED mix

Terminated ==
  /\ Crashed \/ (lpc = "outside" /\ ("load" \in mix.ops => Len(mms) > MaxLoads)
                  /\ \A c \in Cpus : cpc[c] = "user" /\ calls = mix.calls)
  /\ UNCHANGED vars

Next == Step \/ Terminated

Spec == Init /\ [][Next]_vars

-----------------------------------------------------------------------------
(* Properties *)

TypeOK ==
  /\ \A n \in 1..Len(mms) : mms[n].pgd \in 0..Len(tables)
  /\ \A n \in 1..Len(tables) : tables[n] \in [Indices -> 0..Len(tables)]
  /\ mram.storage \in [RamCells -> Values]
  /\ active_mswp.storage \in [SwapCells -> Values]
  /\ \A c \in Cpus :
       /\ at[c] \in 0..Len(tables)
       /\ cpc[c] \in {"read", "write"} => copy[c].cell < PAGING_PAGESZ

\* A walk of print_pgtbl never follows a NULL or unset pointer, however the
\* walks of several CPUs overwrite each other's directories, unless krnl->mm
\* was being replaced while it ran (mm64.c, print_pgtbl; os.c, ld_routine).
OnlyLoadsFault ==
  \A c \in Cpus :
    cpc[c] = "fault" /\ kind[c] = "print" => overlapped[c]

\* The cells a page copy has been through are equal in MEMRAM and on the swap
\* device, unless another CPU wrote one of its two frames meanwhile (mm64.c,
\* __swap_cp_page, which nothing keeps from being torn).
UndisturbedCopy ==
  \A c \in Cpus :
    Copying(c) /\ ~disturbed[c] =>
      \A k \in 0..(copy[c].cell - 1) :
        active_mswp.storage[Cell(copy[c].dst, k)] = mram.storage[Cell(copy[c].src, k)]

\* Has the region of the call and the offset a sum that wraps?
Wraps(c) == access[c].start + access[c].offset > ADDR_MAX

\* A read stays below the end its register's region had when the call began,
\* although __free may clear the two bounds while __read looks at them one by
\* one.  What escapes the test is a register that __alloc fills anew meanwhile, and
\* an offset so large that the sum wrapped when it was tested and no longer
\* does after a __free: then the offset is the address (libmem.c:338, :343).
ReadBelowEnd ==
  \A c \in Cpus :
    cpc[c] = "getval" /\ ~reassigned[c] =>
      \/ access[c].addr < access[c].end
      \/ Wraps(c) /\ access[c].addr = access[c].offset
=============================================================================
