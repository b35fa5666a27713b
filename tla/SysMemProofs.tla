---------------------------- MODULE SysMemProofs ----------------------------
(***************************************************************************)
(* Proofs about the kernel's unlocked memory code, for any number of CPUs, *)
(* any ranges walked, frames, regions, offsets and mixes of operations.    *)
(* Walks, copies and reads share only the control of the CPUs, so each has *)
(* an inductive invariant of its own, and the steps of the other two       *)
(* disturb it only through cpc.                                            *)
(***************************************************************************)
EXTENDS SysMem, SequenceTheorems, TLAPS

WalkPoints == {"test", "fill", "follow"}
CopyPoints == {"read", "write", "copied"}
ReadPoints == {"start_zero", "end_zero", "sum", "bound", "address", "getval"}
LockPoints == {"free_start", "free_end", "alloc_start", "alloc_end"}
Points == WalkPoints \cup CopyPoints \cup ReadPoints \cup LockPoints \cup {"user", "fault"}

Control == cpc \in [Cpus -> Points]

-----------------------------------------------------------------------------
(* The invariant of the walks *)

Space == [pgd : Nat, mmap : BOOLEAN]

WalkType ==
  /\ Control
  /\ mms \in Seq(Space) /\ mms # <<>>
  /\ tables \in Seq([Indices -> Nat])
  /\ walk \in [Cpus -> Seq(Seq(Indices))]
  /\ kind \in [Cpus -> {"none", "print", "map"}]
  /\ at \in [Cpus -> Nat]
  /\ overlapped \in [Cpus -> BOOLEAN]

\* Pointers are NULL or point to a table that was made.
Pointers ==
  /\ \A n \in 1..Len(mms) : mms[n].pgd \in 0..Len(tables)
  /\ \A n \in 1..Len(tables) : tables[n] \in [Indices -> 0..Len(tables)]
  /\ \A c \in Cpus : at[c] \in 0..Len(tables)

\* Outside init_mm, krnl->mm has all its fields.
Loading ==
  /\ lpc \in {"outside", "malloced", "pgd"}
  /\ lpc = "pgd" => mm.pgd # UNSET
  /\ lpc = "outside" => mm.pgd # UNSET /\ mm.mmap

\* A CPU on a walk has indices left on its page, and all four of every page to
\* come; it follows entries above the last level only.
PathsLeft(c) ==
  cpc[c] \in WalkPoints =>
    /\ walk[c] # <<>>
    /\ Len(walk[c][1]) \in 1..4
    /\ \A n \in 2..Len(walk[c]) : Len(walk[c][n]) = 4
    /\ cpc[c] = "follow" => Len(walk[c][1]) # 1

\* What a walk holds while krnl->mm is not being replaced: a table at every
\* level below the first, and an entry to follow that stays set, since nobody
\* ever clears one.
PointersHeld(c) ==
  cpc[c] \in WalkPoints /\ ~overlapped[c] =>
    /\ lpc = "outside"
    /\ Len(walk[c][1]) # 4 => at[c] # NULL
    /\ cpc[c] = "follow" => tables[Table(c)][Index(c)] # NULL

WalkInv ==
  /\ WalkType /\ Pointers /\ Loading
  /\ \A c \in Cpus : PathsLeft(c) /\ PointersHeld(c)
  /\ OnlyLoadsFault

-----------------------------------------------------------------------------
(* The invariant of the copies *)

RamDevice == [storage : [RamCells -> Values], rdmflg : {TRUE},
              free_fp_list : {MEMPHY_format(RamFrames * PAGING_PAGESZ)}]
SwapDevice == [storage : [SwapCells -> Values], rdmflg : {TRUE},
               free_fp_list : {MEMPHY_format(SwapFrames * PAGING_PAGESZ)}]

CopyType ==
  /\ Control
  /\ mram \in RamDevice
  /\ active_mswp \in SwapDevice
  /\ copy \in [Cpus -> [src : Nat, dst : Nat, cell : Nat, data : Values]]
  /\ disturbed \in [Cpus -> BOOLEAN]

\* A copy stays within its two frames.
WithinFrames(c) ==
  Copying(c) => /\ copy[c].src \in 0..(RamFrames - 1)
                /\ copy[c].dst \in 0..(SwapFrames - 1)
                /\ copy[c].cell \in 0..PAGING_PAGESZ
                /\ cpc[c] # "copied" => copy[c].cell < PAGING_PAGESZ

\* The byte between its read and its write is still the one in MEMRAM.
ByteInHand(c) ==
  cpc[c] = "write" /\ ~disturbed[c] =>
    copy[c].data = mram.storage[Cell(copy[c].src, copy[c].cell)]

CopyInv ==
  /\ CopyType
  /\ \A c \in Cpus : WithinFrames(c) /\ ByteInHand(c)
  /\ UndisturbedCopy

-----------------------------------------------------------------------------
(* The invariant of the reads *)

Addresses == 0..ADDR_MAX
Region == [rg_start : Addresses, rg_end : Addresses]
Access == [offset : Addresses, addr : Addresses, start : Addresses, end : Addresses]

ReadType ==
  /\ Control
  /\ symrg \in Region /\ newrg \in Region
  /\ access \in [Cpus -> Access]
  /\ reassigned \in [Cpus -> BOOLEAN]

\* As long as no region is assigned, the bounds are those the call found, or 0;
\* the address of the test was computed from the start the call found, unless the
\* start is 0 by now; and once the test was passed, it is below the end.
BoundKept(c) ==
  Reading(c) /\ ~reassigned[c] =>
    /\ symrg.rg_start \in {access[c].start, 0}
    /\ symrg.rg_end \in {access[c].end, 0}
    /\ cpc[c] \in {"bound", "address"} =>
         \/ access[c].addr = Add(access[c].start, access[c].offset)
         \/ symrg.rg_start = 0 /\ access[c].addr = access[c].offset
    /\ cpc[c] = "address" => access[c].addr < access[c].end

ReadInv ==
  /\ ReadType
  /\ \A c \in Cpus : BoundKept(c)
  /\ ReadBelowEnd

-----------------------------------------------------------------------------
(* Control *)

\* A CPU that moves on moves alone.
LEMMA Moved ==
  ASSUME Control, NEW c \in Cpus, NEW x \in Points, cpc' = Set(cpc, c, x)
  PROVE  /\ Control'
         /\ cpc'[c] = x
         /\ \A d \in Cpus : d # c => cpc'[d] = cpc[d]
  BY DEF Control, Set

\* A CPU that goes from one point of its code to another.
LEMMA Went ==
  ASSUME Control, NEW c \in Cpus, NEW from, NEW to \in Points, Goto(c, from, to)
  PROVE  /\ Control'
         /\ cpc[c] = from /\ cpc'[c] = to
         /\ \A d \in Cpus : d # c => cpc'[d] = cpc[d]
  BY Moved DEF Goto, Set

WalkStep(c) ==
  \/ print_pgtbl(c) \/ vmap_pgd_memset(c) \/ vmap_nothing(c)
  \/ Fault(c) \/ TestEntry(c) \/ FillEntry(c) \/ FollowEntry(c)

CopyStep(c) == MemWrite(c) \/ SwapBegin(c) \/ SwapRead(c) \/ SwapWrite(c) \/ SwapReturn(c)

\* The steps inside the kernel are those of a walk or of a copy.
LEMMA KernelSteps ==
  ASSUME NEW c, Kernel(c)
  PROVE  WalkStep(c) \/ CopyStep(c)
  BY DEF Kernel, Begin, WalkStep, CopyStep

\* Where the steps of a walk take a CPU.
LEMMA WalkControl ==
  ASSUME Control, NEW c \in Cpus, WalkStep(c)
  PROVE  /\ Control'
         /\ \A d \in Cpus : d # c => cpc'[d] = cpc[d]
         /\ cpc[c] \in WalkPoints \cup {"user"}
         /\ cpc'[c] \in WalkPoints \cup {"user", "fault"}
<1> USE DEF Points, WalkPoints
<1>1. CASE print_pgtbl(c) \/ vmap_pgd_memset(c) \/ vmap_nothing(c)
  <2>1. \E x \in {"test", "fault", "user"} : Goto(c, "user", x)
    BY <1>1 DEF print_pgtbl, vmap_pgd_memset, vmap_nothing, Call
  <2> QED
    BY <2>1, Went
<1>2. CASE Fault(c)
  BY <1>2, Moved DEF Fault
<1>3. CASE TestEntry(c) \/ FillEntry(c)
  <2>1. cpc[c] \in {"test", "fill"} /\ (cpc' = Set(cpc, c, "fill") \/ EntrySet(c))
    BY <1>3 DEF TestEntry, FillEntry
  <2>2. \E x \in {"fill", "follow", "fault", "user", "test"} : cpc' = Set(cpc, c, x)
    BY <2>1 DEF EntrySet, PageDone
  <2> QED
    BY <2>1, <2>2, Moved
<1>4. CASE FollowEntry(c)
  BY <1>4, Went DEF FollowEntry
<1> QED
  BY <1>1, <1>2, <1>3, <1>4 DEF WalkStep

\* Where the steps of a copy take one; SYSMEM_IO_WRITE is a single step.
LEMMA CopyControl ==
  ASSUME Control, NEW c \in Cpus, CopyStep(c)
  PROVE  /\ Control'
         /\ \A d \in Cpus : d # c => cpc'[d] = cpc[d]
         /\ cpc[c] \in CopyPoints \cup {"user"}
         /\ cpc'[c] \in CopyPoints \cup {"user"}
<1> USE DEF Points, CopyPoints
<1>1. CASE MemWrite(c)
  BY <1>1 DEF MemWrite, Control
<1>2. CASE SwapBegin(c) \/ SwapRead(c) \/ SwapWrite(c) \/ SwapReturn(c)
  <2>1. \E x, y \in CopyPoints \cup {"user"} : Goto(c, x, y)
    BY <1>2 DEF SwapBegin, Call, SwapRead, SwapWrite, SwapReturn
  <2> QED
    BY <2>1, Went
<1> QED
  BY <1>1, <1>2 DEF CopyStep

\* Where the steps of __alloc, __free and __read take one.
LEMMA LibraryControl ==
  ASSUME Control, NEW c \in Cpus, Library(c)
  PROVE  /\ Control'
         /\ \A d \in Cpus : d # c => cpc'[d] = cpc[d]
         /\ cpc[c] \in ReadPoints \cup LockPoints \cup {"user"}
         /\ cpc'[c] \in ReadPoints \cup LockPoints \cup {"user"}
<1> USE DEF Points, ReadPoints, LockPoints
<1>1. CASE __free(c) \/ __alloc(c) \/ __read(c)
  <2>1. \E x \in {"user", "free_start", "alloc_start", "start_zero"} : Goto(c, "user", x)
    BY <1>1 DEF __free, __alloc, __read, Call
  <2> QED
    BY <2>1, Went
<1>2. CASE FreeStart(c) \/ FreeEnd(c) \/ AllocStart(c) \/ AllocEnd(c)
  <2>1. \E x \in LockPoints, y \in LockPoints \cup {"user"} : Goto(c, x, y)
    BY <1>2 DEF FreeStart, FreeEnd, AllocStart, AllocEnd
  <2> QED
    BY <2>1, Went
<1>3. CASE ReadSum(c, "sum", "bound") \/ ReadSum(c, "address", "getval")
  BY <1>3, Went DEF ReadSum
<1>4. CASE ReadStartZero(c) \/ ReadEndZero(c) \/ ReadBound(c) \/ ReadReturn(c)
  <2>1. /\ cpc[c] \in ReadPoints
        /\ \E x \in {"user", "end_zero", "sum", "address"} : cpc' = Set(cpc, c, x)
    BY <1>4 DEF ReadStartZero, ReadEndZero, ReadBound, ReadReturn, ReadTest
  <2> QED
    BY <2>1, Moved
<1> QED
  BY <1>1, <1>2, <1>3, <1>4 DEF Library

-----------------------------------------------------------------------------
(* Reads *)

\* The read of one CPU, whose share of the invariant mentions its own control
\* and the register only.
ReadOK(c) ==
  /\ BoundKept(c)
  /\ cpc[c] = "getval" /\ ~reassigned[c] =>
       \/ access[c].addr < access[c].end
       \/ Wraps(c) /\ access[c].addr = access[c].offset

\* What is needed of the remainder.
LEMMA ModFacts ==
  ASSUME NEW m \in Nat \ {0}
  PROVE  /\ \A k \in Int : k % m \in 0..(m - 1)
         /\ \A k \in 0..(m - 1) : k % m = k
  OBVIOUS

\* A sum that wraps is an address; one that is an address has not wrapped.
LEMMA AddFacts ==
  ASSUME NEW a \in Addresses, NEW o \in Addresses
  PROVE  /\ Add(a, o) \in Addresses
         /\ a + o <= ADDR_MAX => Add(a, o) = a + o
         /\ Add(0, o) = o
<1> DEFINE m == ADDR_MAX + 1
           k == a + o
<1>1. m \in Nat \ {0} /\ Addresses = 0..(m - 1) /\ k \in Int /\ k >= 0
      /\ o \in 0..(m - 1) /\ 0 + o = o /\ (k <= ADDR_MAX => k \in 0..(m - 1))
  BY BoundsAssumption DEF Addresses
<1>2. Add(a, o) = k % m /\ Add(0, o) = (0 + o) % m
  BY DEF Add
<1> HIDE DEF m, k
<1>3. k % m \in 0..(m - 1) /\ (k \in 0..(m - 1) => k % m = k) /\ o % m = o
  BY <1>1, ModFacts
<1>4. Add(a, o) \in Addresses /\ (k <= ADDR_MAX => Add(a, o) = k) /\ Add(0, o) = o
  BY <1>1, <1>2, <1>3
<1> QED
  BY <1>4 DEF k

\* The second address, of a read whose first one was below the end.
LEMMA SecondSum ==
  ASSUME NEW start \in Addresses, NEW offset \in Addresses, NEW end \in Addresses,
         NEW now \in {start, 0}, NEW addr, addr < end,
         addr = Add(start, offset) \/ (now = 0 /\ addr = offset)
  PROVE  \/ Add(now, offset) < end
         \/ start + offset > ADDR_MAX /\ Add(now, offset) = offset
<1>1. /\ Add(0, offset) = offset
      /\ start + offset <= ADDR_MAX => Add(start, offset) = start + offset
  BY AddFacts
<1>2. start \in Nat /\ offset \in Nat /\ end \in Nat /\ ADDR_MAX \in Nat
  BY BoundsAssumption DEF Addresses
<1>3. CASE Add(now, offset) = addr
  BY <1>3
<1>4. CASE Add(now, offset) # addr
  <2>1. now = 0 /\ addr = Add(start, offset) /\ Add(now, offset) = offset
    BY <1>1, <1>4
  <2>2. CASE start + offset <= ADDR_MAX
    <3>1. addr = start + offset /\ addr < end
      BY <1>1, <2>1, <2>2
    <3>2. offset < end
      BY <1>2, <3>1
    <3> QED
      BY <2>1, <3>2
  <2>3. CASE ~(start + offset <= ADDR_MAX)
    <3>1. start + offset > ADDR_MAX
      BY <1>2, <2>3
    <3> QED
      BY <2>1, <3>1
  <2> QED
    BY <2>2, <2>3
<1> QED
  BY <1>3, <1>4

\* The invariant of the reads, split by CPU.
LEMMA ReadInvParts == ReadInv <=> ReadType /\ \A c \in Cpus : ReadOK(c)
  BY DEF ReadInv, ReadOK, ReadBelowEnd, Wraps

\* The same after a step.
LEMMA ReadInvPartsNext == ReadInv' <=> ReadType' /\ \A c \in Cpus : ReadOK(c)'
  BY DEF ReadInv, ReadOK, ReadBelowEnd, Wraps

\* A step that leaves the register alone leaves the read of every CPU alone that
\* does not move.
LEMMA ReadKept ==
  ASSUME ReadInv, UNCHANGED symrg, NEW d \in Cpus,
         cpc'[d] = cpc[d] \/ cpc'[d] \notin ReadPoints,
         access'[d] = access[d], reassigned'[d] = reassigned[d]
  PROVE  ReadOK(d)'
<1>1. ReadOK(d)
  BY ReadInvParts
<1>2. CASE cpc'[d] \notin ReadPoints
  BY <1>2 DEF ReadOK, BoundKept, Reading, ReadPoints
<1>3. CASE cpc'[d] = cpc[d]
  BY <1>1, <1>3 DEF ReadOK, BoundKept, Reading, Wraps
<1> QED
  BY <1>2, <1>3

\* Nothing outside the library touches the register or a read.
LEMMA ReadFrame ==
  ASSUME ReadInv, UNCHANGED library, Control',
         \A d \in Cpus : cpc'[d] = cpc[d] \/ cpc'[d] \notin ReadPoints
  PROVE  ReadInv'
<1>1. UNCHANGED <<symrg, newrg, access, reassigned>>
  BY DEF library
<1>2. ReadType'
  BY <1>1 DEF ReadInv, ReadType
<1>3. \A d \in Cpus : ReadOK(d)'
  BY <1>1, ReadKept
<1> QED
  BY <1>2, <1>3, ReadInvPartsNext

\* __free only lowers the bounds of the region.
LEMMA ReadFree ==
  ASSUME ReadInv, NEW c \in Cpus, __free(c) \/ FreeStart(c) \/ FreeEnd(c)
  PROVE  ReadInv'
<1>1. ReadType /\ \A d \in Cpus : ReadOK(d)
  BY ReadInvParts
<1>2. UNCHANGED <<newrg, access, reassigned>>
  BY DEF __free, FreeStart, FreeEnd
<1>3. \E x, y \in LockPoints \cup {"user"} : Goto(c, x, y)
  BY DEF __free, FreeStart, FreeEnd, Call, LockPoints
<1>4. Control' /\ \A d \in Cpus : cpc'[d] = cpc[d] \/ cpc'[d] \notin ReadPoints
  BY <1>1, <1>3, Went DEF ReadType, Points, LockPoints, ReadPoints
<1>5. /\ symrg' \in Region
      /\ symrg'.rg_start \in {symrg.rg_start, 0}
      /\ symrg'.rg_end \in {symrg.rg_end, 0}
  BY <1>1, BoundsAssumption DEF ReadType, Region, Addresses, __free, FreeStart, FreeEnd
<1>6. ReadType'
  BY <1>1, <1>2, <1>4, <1>5 DEF ReadType
<1>7. ASSUME NEW d \in Cpus PROVE ReadOK(d)'
  <2>1. CASE cpc'[d] \notin ReadPoints
    BY <2>1 DEF ReadOK, BoundKept, Reading, ReadPoints
  <2>2. CASE cpc'[d] = cpc[d]
    <3>1. ReadOK(d)
      BY <1>1
    <3>2. access'[d] = access[d] /\ reassigned'[d] = reassigned[d]
      BY <1>2
    <3> QED
      BY <2>2, <3>1, <3>2, <1>5 DEF ReadOK, BoundKept, Reading, Wraps
  <2> QED
    BY <1>4, <2>1, <2>2
<1> QED
  BY <1>6, <1>7, ReadInvPartsNext

\* __alloc marks the reads it may mislead.
LEMMA ReadAlloc ==
  ASSUME ReadInv, NEW c \in Cpus, __alloc(c) \/ AllocStart(c) \/ AllocEnd(c)
  PROVE  ReadInv'
<1>1. ReadType /\ \A d \in Cpus : ReadOK(d)
  BY ReadInvParts
<1>2. \E x, y \in LockPoints \cup {"user"} : Goto(c, x, y)
  BY DEF __alloc, AllocStart, AllocEnd, Call, LockPoints
<1>3. /\ Control'
      /\ \A d \in Cpus : \/ cpc'[d] = cpc[d]
                         \/ cpc'[d] \notin ReadPoints
  BY <1>1, <1>2, Went DEF ReadType, Points, LockPoints, ReadPoints
<1>4. UNCHANGED access
  BY DEF __alloc, AllocStart, AllocEnd
<1>5. CASE __alloc(c)
  <2>1. UNCHANGED <<symrg, reassigned>> /\ newrg' \in Region
    BY <1>5, BoundsAssumption DEF __alloc, Region, Addresses
  <2>2. ReadType'
    BY <1>1, <1>3, <1>4, <2>1 DEF ReadType
  <2>3. \A d \in Cpus : ReadOK(d)'
    BY <1>3, <1>4, <2>1, ReadKept
  <2> QED
    BY <2>2, <2>3, ReadInvPartsNext
<1>6. CASE AllocStart(c) \/ AllocEnd(c)
  <2>1. symrg' \in Region /\ newrg' \in Region
    BY <1>1, <1>6, BoundsAssumption
       DEF ReadType, Region, Addresses, AllocStart, AllocEnd, NoRegion
  <2>2. reassigned' = [d \in Cpus |-> Reading(d)]
    BY <1>6 DEF AllocStart, AllocEnd
  <2>3. reassigned' \in [Cpus -> BOOLEAN]
    BY <2>2 DEF Reading
  <2>4. ReadType'
    BY <1>1, <1>3, <1>4, <2>1, <2>3 DEF ReadType
  <2>5. ASSUME NEW d \in Cpus PROVE ReadOK(d)'
    <3>1. CASE cpc'[d] \notin ReadPoints
      BY <3>1 DEF ReadOK, BoundKept, Reading, ReadPoints
    <3>2. CASE cpc'[d] = cpc[d] /\ cpc[d] \in ReadPoints
      <4>1. reassigned'[d]
        BY <2>2, <3>2 DEF Reading, ReadPoints
      <4> QED
        BY <4>1 DEF ReadOK, BoundKept
    <3> QED
      BY <1>3, <3>1, <3>2
  <2> QED
    BY <2>4, <2>5, ReadInvPartsNext
<1> QED
  BY <1>5, <1>6

\* A test that refuses ends the call; one that passes changes the control only.
LEMMA ReadTested ==
  ASSUME ReadInv, NEW c \in Cpus, NEW from, NEW to \in Points, NEW refused \in BOOLEAN,
         ReadTest(c, from, to, refused),
         ~refused => ReadOK(c)'
  PROVE  ReadInv'
<1>1. ReadType /\ \A d \in Cpus : ReadOK(d)
  BY ReadInvParts
<1>2. /\ cpc' = Set(cpc, c, IF refused THEN "user" ELSE to)
      /\ access' = IF refused THEN Set(access, c, NoAccess) ELSE access
      /\ reassigned' = IF refused THEN Set(reassigned, c, FALSE) ELSE reassigned
      /\ UNCHANGED <<symrg, newrg>>
  BY DEF ReadTest
<1>3. (IF refused THEN "user" ELSE to) \in Points
  BY DEF Points
<1>4. /\ Control' /\ (refused => cpc'[c] = "user")
      /\ \A d \in Cpus : d # c => cpc'[d] = cpc[d]
  BY <1>1, <1>2, <1>3, Moved DEF ReadType
<1>5. /\ access' \in [Cpus -> Access]
      /\ reassigned' \in [Cpus -> BOOLEAN]
      /\ \A d \in Cpus : d # c => access'[d] = access[d] /\ reassigned'[d] = reassigned[d]
  <2>1. NoAccess \in Access
    BY BoundsAssumption DEF NoAccess, Access, Addresses
  <2> QED
    BY <1>1, <1>2, <2>1 DEF ReadType, Set
<1>6. ReadType'
  BY <1>1, <1>2, <1>4, <1>5 DEF ReadType
<1>7. ASSUME NEW d \in Cpus PROVE ReadOK(d)'
  <2>1. CASE d # c
    BY <1>2, <1>4, <1>5, <2>1, ReadKept
  <2>2. CASE d = c /\ refused
    BY <1>4, <2>2 DEF ReadOK, BoundKept, Reading
  <2> QED
    BY <2>1, <2>2
<1> QED
  BY <1>6, <1>7, ReadInvPartsNext

\* The steps of __read: what a read holds of the bounds it loaded is still true when
\* it computes the address.
LEMMA ReadReads ==
  ASSUME ReadInv, NEW c \in Cpus,
         \/ __read(c) \/ ReadStartZero(c) \/ ReadEndZero(c)
         \/ ReadSum(c, "sum", "bound") \/ ReadBound(c)
         \/ ReadSum(c, "address", "getval") \/ ReadReturn(c)
  PROVE  ReadInv'
<1>1. ReadType /\ \A d \in Cpus : ReadOK(d)
  BY ReadInvParts
<1>2. /\ access[c] \in Access
      /\ access[c].offset \in Addresses /\ access[c].start \in Addresses
      /\ access[c].addr \in Addresses /\ access[c].end \in Addresses
      /\ symrg.rg_start \in Addresses /\ symrg.rg_end \in Addresses
      /\ Addresses \subseteq Nat
  BY <1>1, BoundsAssumption DEF ReadType, Region, Access, Addresses
<1>3. CASE __read(c)
  <2>1. /\ Control' /\ cpc'[c] = "start_zero"
        /\ \A d \in Cpus : d # c => cpc'[d] = cpc[d]
    BY <1>1, <1>3, Went DEF __read, Call, ReadType, Points, ReadPoints
  <2>2. PICK o \in Offsets :
          access' = Set(access, c, [offset |-> o, addr |-> 0,
                                    start |-> symrg.rg_start, end |-> symrg.rg_end])
    BY <1>3 DEF __read
  <2>3. o \in Addresses /\ 0 \in Addresses /\ UNCHANGED <<symrg, newrg, reassigned>>
    BY <1>3, BoundsAssumption DEF __read, Addresses
  <2>4. /\ access' \in [Cpus -> Access]
        /\ \A d \in Cpus : d # c => access'[d] = access[d]
        /\ access'[c].end = symrg.rg_end /\ access'[c].start = symrg.rg_start
    BY <1>1, <1>2, <2>2, <2>3 DEF ReadType, Set, Access
  <2>5. ReadType'
    BY <1>1, <2>1, <2>3, <2>4 DEF ReadType
  <2>6. ReadOK(c)'
    BY <2>1, <2>3, <2>4 DEF ReadOK, BoundKept
  <2>7. \A d \in Cpus : d # c => ReadOK(d)'
    BY <2>1, <2>3, <2>4, ReadKept
  <2> QED
    BY <2>5, <2>6, <2>7, ReadInvPartsNext
<1>4. CASE ReadStartZero(c)
  <2>1. PICK to \in {"end_zero", "sum"} : ReadTest(c, "start_zero", to, FALSE)
    BY <1>4 DEF ReadStartZero
  <2>2. ReadOK(c)'
    <3>1. cpc[c] = "start_zero" /\ cpc' = Set(cpc, c, to) /\ UNCHANGED <<access, reassigned, symrg>>
      BY <2>1 DEF ReadTest
    <3>2. cpc'[c] = to
      BY <1>1, <3>1 DEF ReadType, Control, Set
    <3> QED
      BY <1>1, <3>1, <3>2 DEF ReadOK, BoundKept, Reading
  <2> QED
    BY <2>1, <2>2, ReadTested DEF Points, ReadPoints
<1>5. CASE ReadEndZero(c)
  <2>1. ReadTest(c, "end_zero", "sum", symrg.rg_end = 0)
    BY <1>5 DEF ReadEndZero
  <2>2. symrg.rg_end # 0 => ReadOK(c)'
    <3> SUFFICES ASSUME symrg.rg_end # 0 PROVE ReadOK(c)'
      OBVIOUS
    <3>1. cpc[c] = "end_zero" /\ cpc' = Set(cpc, c, "sum") /\ UNCHANGED <<access, reassigned, symrg>>
      BY <2>1 DEF ReadTest
    <3>2. cpc'[c] = "sum"
      BY <1>1, <3>1 DEF ReadType, Control, Set
    <3> QED
      BY <1>1, <3>1, <3>2 DEF ReadOK, BoundKept, Reading
  <2>3. "sum" \in Points /\ (symrg.rg_end = 0) \in BOOLEAN
    BY DEF Points, ReadPoints
  <2> QED
    BY <2>1, <2>2, <2>3, ReadTested
<1>6. CASE ReadBound(c)
  <2>1. ReadTest(c, "bound", "address", access[c].addr >= symrg.rg_end)
    BY <1>6 DEF ReadBound
  <2>2. ~(access[c].addr >= symrg.rg_end) => ReadOK(c)'
    <3> SUFFICES ASSUME ~(access[c].addr >= symrg.rg_end) PROVE ReadOK(c)'
      OBVIOUS
    <3>1. cpc[c] = "bound" /\ cpc' = Set(cpc, c, "address") /\ UNCHANGED <<access, reassigned, symrg>>
      BY <2>1 DEF ReadTest
    <3>2. cpc'[c] = "address"
      BY <1>1, <3>1 DEF ReadType, Control, Set
    <3>3. ReadOK(c)
      BY <1>1
    <3>4. symrg.rg_end \in {access[c].end, 0} => access[c].addr < access[c].end
      <4> DEFINE a == access[c].addr
                 e == access[c].end
                 r == symrg.rg_end
      <4>1. a \in Nat /\ e \in Nat /\ r \in Nat /\ ~(a >= r)
        BY <1>2
      <4> HIDE DEF a, e, r
      <4>2. r \in {e, 0} => a < e
        BY <4>1
      <4> QED
        BY <4>2 DEF a, e, r
    <3> QED
      BY <3>1, <3>2, <3>3, <3>4 DEF ReadOK, BoundKept, Reading
  <2>3. "address" \in Points /\ (access[c].addr >= symrg.rg_end) \in BOOLEAN
    BY DEF Points, ReadPoints
  <2> QED
    BY <2>1, <2>2, <2>3, ReadTested
<1>7. CASE ReadReturn(c)
  BY <1>7, ReadTested DEF ReadReturn, Points
<1>8. CASE ReadSum(c, "sum", "bound") \/ ReadSum(c, "address", "getval")
  <2>1. PICK from \in {"sum", "address"}, to \in {"bound", "getval"} :
          ReadSum(c, from, to) /\ (from = "sum" <=> to = "bound")
    BY <1>8
  <2> DEFINE start == symrg.rg_start
             offset == access[c].offset
             sum == Add(start, offset)
  <2>2. /\ access' = [access EXCEPT ![c].addr = sum]
        /\ UNCHANGED <<symrg, newrg, reassigned>>
    BY <2>1 DEF ReadSum
  <2>3. /\ Control' /\ cpc[c] = from /\ cpc'[c] = to
        /\ \A d \in Cpus : d # c => cpc'[d] = cpc[d]
    BY <1>1, <2>1, Went DEF ReadSum, ReadType, Points, ReadPoints
  <2>s. /\ sum \in Addresses /\ (start = 0 => sum = offset)
        /\ Add(access[c].start, offset) \in Addresses
        /\ access[c].start + offset <= ADDR_MAX =>
             Add(access[c].start, offset) = access[c].start + offset
        /\ Add(0, offset) = offset
    BY <1>2, AddFacts
  <2> HIDE DEF sum
  <2>4. /\ access' \in [Cpus -> Access]
        /\ \A d \in Cpus : d # c => access'[d] = access[d]
        /\ access'[c].end = access[c].end /\ access'[c].start = access[c].start
        /\ access'[c].offset = offset /\ access'[c].addr = sum
    BY <1>1, <1>2, <2>2, <2>s DEF ReadType, Access
  <2>5. ReadType'
    BY <1>1, <2>2, <2>3, <2>4 DEF ReadType
  <2>6. ReadOK(c)'
    <3> SUFFICES ASSUME ~reassigned[c] PROVE ReadOK(c)'
      BY <2>2 DEF ReadOK, BoundKept
    <3>1. /\ start \in {access[c].start, 0} /\ symrg.rg_end \in {access[c].end, 0}
          /\ from = "address" =>
               /\ access[c].addr < access[c].end
               /\ \/ access[c].addr = Add(access[c].start, offset)
                  \/ start = 0 /\ access[c].addr = offset
      BY <1>1, <2>3 DEF ReadOK, BoundKept, Reading
    <3>2. sum = Add(access[c].start, offset) \/ (start = 0 /\ sum = offset)
      BY <2>s, <3>1 DEF sum
    <3>3. BoundKept(c)'
      BY <2>1, <2>2, <2>3, <2>4, <3>1, <3>2 DEF BoundKept
    <3>4. ASSUME to = "getval"
          PROVE  \/ sum < access[c].end
                 \/ access[c].start + offset > ADDR_MAX /\ sum = offset
      <4>1. from = "address"
        BY <2>1, <3>4
      <4> QED
        BY <1>2, <3>1, <4>1, SecondSum DEF sum
    <3> QED
      BY <2>3, <2>4, <3>3, <3>4 DEF ReadOK, Wraps
  <2>7. \A d \in Cpus : d # c => ReadOK(d)'
    BY <2>2, <2>3, <2>4, ReadKept
  <2> QED
    BY <2>5, <2>6, <2>7, ReadInvPartsNext
<1> QED
  BY <1>3, <1>4, <1>5, <1>6, <1>7, <1>8

\* The invariant of the reads holds at the start.
LEMMA ReadInvInit == Init => ReadInv
<1>1. NoRegion \in Region /\ NoAccess \in Access
  BY BoundsAssumption DEF Region, Access, Addresses, NoRegion, NoAccess
<1> QED
  BY <1>1 DEF Init, ReadInv, ReadType, Control, Points, BoundKept, Reading, ReadBelowEnd

\* Every step keeps it.
LEMMA ReadInvNext == ReadInv /\ [Next]_vars => ReadInv'
<1> SUFFICES ASSUME ReadInv, [Next]_vars PROVE ReadInv'
  OBVIOUS
<1>0. Control
  BY DEF ReadInv, ReadType
<1>1. CASE UNCHANGED vars
  <2>1. UNCHANGED <<cpc, library>>
    BY <1>1 DEF vars
  <2> QED
    BY <1>0, <2>1, ReadFrame DEF Control
<1>2. CASE Loader /\ UNCHANGED library
  <2>1. UNCHANGED cpc
    BY <1>2 DEF Loader, LoadMalloc, LoadPgd, LoadMmap
  <2> QED
    BY <1>0, <1>2, <2>1, ReadFrame DEF Control
<1>3. ASSUME NEW c \in Cpus, Kernel(c), UNCHANGED library PROVE ReadInv'
  <2>1. Control' /\ \A d \in Cpus : cpc'[d] = cpc[d] \/ cpc'[d] \notin ReadPoints
    BY <1>0, <1>3, KernelSteps, WalkControl, CopyControl
       DEF WalkPoints, CopyPoints, ReadPoints
  <2> QED
    BY <1>3, <2>1, ReadFrame
<1>4. ASSUME NEW c \in Cpus, Library(c) PROVE ReadInv'
  BY <1>4, ReadFree, ReadAlloc, ReadReads DEF Library
<1> QED
  BY <1>1, <1>2, <1>3, <1>4 DEF Next, Step, Terminated

\* However __free and __alloc interleave with it, a read stays below the end its
\* register's region had when the call began, unless __alloc stored a new region
\* meanwhile, or the sum of start and offset wrapped and the offset itself is read
\* after a __free; for every width, region and offset (libmem.c:338, :343).
THEOREM ReadsBelowEnd == Spec => []ReadBelowEnd
<1>1. ReadInv => ReadBelowEnd
  BY DEF ReadInv
<1> QED
  BY ReadInvInit, ReadInvNext, <1>1, PTL DEF Spec

-----------------------------------------------------------------------------
(* Cells *)

\* The cells of the frames of a device are cells of the device.
LEMMA CellsOfFrames ==
  ASSUME NEW n \in Nat, NEW f \in 0..(n - 1), NEW k \in 0..(PAGING_PAGESZ - 1)
  PROVE  Cell(f, k) \in 0..(n * PAGING_PAGESZ - 1)
<1>1. f \in Nat /\ f + 1 <= n
  OBVIOUS
<1>2. (f + 1) * PAGING_PAGESZ <= n * PAGING_PAGESZ
  BY <1>1, PageSizeAssumption
<1>3. (f + 1) * PAGING_PAGESZ = f * PAGING_PAGESZ + PAGING_PAGESZ
  BY <1>1, PageSizeAssumption
<1>4. f * PAGING_PAGESZ \in Nat /\ n * PAGING_PAGESZ \in Nat
  BY <1>1, PageSizeAssumption
<1> QED
  BY <1>2, <1>3, <1>4, PageSizeAssumption DEF Cell

\* A cell belongs to the frame it was computed from.
LEMMA FrameOfCell ==
  ASSUME NEW f \in Nat, NEW k \in 0..(PAGING_PAGESZ - 1)
  PROVE  FrameOf(Cell(f, k)) = f
  BY PageSizeAssumption DEF FrameOf, Cell

\* The cells of a frame are different.
LEMMA CellsDiffer ==
  ASSUME NEW f \in Nat, NEW k \in Nat, NEW l \in Nat, k # l
  PROVE  Cell(f, k) # Cell(f, l)
<1>1. f * PAGING_PAGESZ \in Nat
  BY PageSizeAssumption
<1> QED
  BY <1>1 DEF Cell

-----------------------------------------------------------------------------
(* Copies *)

\* What UndisturbedCopy says of one CPU.
CellsCopied(c) ==
  Copying(c) /\ ~disturbed[c] =>
    \A k \in 0..(copy[c].cell - 1) :
      active_mswp.storage[Cell(copy[c].dst, k)] = mram.storage[Cell(copy[c].src, k)]

CopyOK(c) == WithinFrames(c) /\ ByteInHand(c) /\ CellsCopied(c)

\* The invariant of the copies, split by CPU.
LEMMA CopyInvParts == CopyInv <=> CopyType /\ \A c \in Cpus : CopyOK(c)
  BY DEF CopyInv, CopyOK, UndisturbedCopy, CellsCopied

\* The same after a step.
LEMMA CopyInvPartsNext == CopyInv' <=> CopyType' /\ \A c \in Cpus : CopyOK(c)'
  BY DEF CopyInv, CopyOK, UndisturbedCopy, CellsCopied

\* What MEMPHY_read and MEMPHY_write do with a cell of the device.
LEMMA DeviceWrites ==
  ASSUME CopyType
  PROVE  /\ \A a \in RamCells, v \in Values :
              /\ MEMPHY_write(mram, a, v) \in RamDevice
              /\ MEMPHY_write(mram, a, v).storage = [mram.storage EXCEPT ![a] = v]
         /\ \A a \in SwapCells, v \in Values :
              /\ MEMPHY_write(active_mswp, a, v) \in SwapDevice
              /\ MEMPHY_write(active_mswp, a, v).storage = [active_mswp.storage EXCEPT ![a] = v]
         /\ \A a \in RamCells : /\ MEMPHY_read(mram, a) = mram.storage[a]
                                /\ MEMPHY_read(mram, a) \in Values
<1>1. mram.rdmflg /\ active_mswp.rdmflg
  BY DEF CopyType, RamDevice, SwapDevice
<1>2. ASSUME NEW a \in RamCells, NEW v \in Values
      PROVE  /\ MEMPHY_write(mram, a, v) \in RamDevice
             /\ MEMPHY_write(mram, a, v).storage = [mram.storage EXCEPT ![a] = v]
  BY <1>1 DEF CopyType, RamDevice, MEMPHY_write
<1>3. ASSUME NEW a \in SwapCells, NEW v \in Values
      PROVE  /\ MEMPHY_write(active_mswp, a, v) \in SwapDevice
             /\ MEMPHY_write(active_mswp, a, v).storage = [active_mswp.storage EXCEPT ![a] = v]
  BY <1>1 DEF CopyType, SwapDevice, MEMPHY_write
<1>4. ASSUME NEW a \in RamCells
      PROVE  MEMPHY_read(mram, a) = mram.storage[a] /\ MEMPHY_read(mram, a) \in Values
  BY <1>1 DEF CopyType, RamDevice, MEMPHY_read
<1> QED
  BY <1>2, <1>3, <1>4

\* The cells a copy is at lie on the two devices.
LEMMA CopyCells ==
  ASSUME CopyInv, NEW c \in Cpus, cpc[c] \in {"read", "write"}
  PROVE  /\ Cell(copy[c].src, copy[c].cell) \in RamCells
         /\ Cell(copy[c].dst, copy[c].cell) \in SwapCells
         /\ copy[c].cell \in 0..(PAGING_PAGESZ - 1)
<1>1. WithinFrames(c)
  BY CopyInvParts DEF CopyOK
<1>2. /\ copy[c].src \in 0..(RamFrames - 1) /\ copy[c].dst \in 0..(SwapFrames - 1)
      /\ copy[c].cell \in 0..(PAGING_PAGESZ - 1)
  BY <1>1, PageSizeAssumption DEF WithinFrames, Copying
<1> QED
  BY <1>2, CellsOfFrames, BoundsAssumption DEF RamCells, SwapCells

\* A CPU that is not copying owes nothing.
LEMMA NotCopying ==
  ASSUME NEW d \in Cpus, cpc'[d] \notin CopyPoints
  PROVE  CopyOK(d)'
  BY DEF CopyOK, WithinFrames, ByteInHand, CellsCopied, Copying, CopyPoints

\* A step that leaves the cells a copy has been through and the byte in its hand
\* leaves the copy.
LEMMA CopyKept ==
  ASSUME CopyInv, NEW d \in Cpus, cpc'[d] = cpc[d], copy'[d] = copy[d],
         ~disturbed'[d] => ~disturbed[d],
         Copying(d) /\ ~disturbed'[d] =>
           \A k \in 0..(PAGING_PAGESZ - 1) :
             /\ mram'.storage[Cell(copy[d].src, k)] = mram.storage[Cell(copy[d].src, k)]
             /\ active_mswp'.storage[Cell(copy[d].dst, k)]
                  = active_mswp.storage[Cell(copy[d].dst, k)]
  PROVE  CopyOK(d)'
<1>1. CopyOK(d)
  BY CopyInvParts
<1>2. WithinFrames(d)'
  BY <1>1 DEF CopyOK, WithinFrames, Copying
<1>3. ByteInHand(d)'
  <2> SUFFICES ASSUME cpc[d] = "write", ~disturbed'[d]
               PROVE  copy[d].data = mram'.storage[Cell(copy[d].src, copy[d].cell)]
    BY DEF ByteInHand
  <2>1. copy[d].data = mram.storage[Cell(copy[d].src, copy[d].cell)]
    BY <1>1 DEF CopyOK, ByteInHand
  <2>2. copy[d].cell \in 0..(PAGING_PAGESZ - 1)
    BY CopyCells
  <2> QED
    BY <2>1, <2>2 DEF Copying
<1>4. CellsCopied(d)'
  <2> SUFFICES ASSUME Copying(d), ~disturbed'[d], NEW k \in 0..(copy[d].cell - 1)
               PROVE  active_mswp'.storage[Cell(copy[d].dst, k)]
                        = mram'.storage[Cell(copy[d].src, k)]
    BY DEF CellsCopied, Copying
  <2>1. active_mswp.storage[Cell(copy[d].dst, k)] = mram.storage[Cell(copy[d].src, k)]
    BY <1>1 DEF CopyOK, CellsCopied
  <2>2. k \in 0..(PAGING_PAGESZ - 1)
    BY <1>1, PageSizeAssumption DEF CopyOK, WithinFrames
  <2> QED
    BY <2>1, <2>2
<1> QED
  BY <1>2, <1>3, <1>4 DEF CopyOK

\* Nothing else touches the devices or a copy.
LEMMA CopyFrame ==
  ASSUME CopyInv, UNCHANGED <<devices, copy>>, Control',
         disturbed' \in [Cpus -> BOOLEAN],
         \A d \in Cpus : \/ cpc'[d] = cpc[d] /\ disturbed'[d] = disturbed[d]
                         \/ cpc'[d] \notin CopyPoints
  PROVE  CopyInv'
<1>1. UNCHANGED <<mram, active_mswp, copy>>
  BY DEF devices
<1>2. CopyType'
  BY <1>1 DEF CopyInv, CopyType
<1>3. \A d \in Cpus : CopyOK(d)'
  BY <1>1, CopyKept, NotCopying
<1> QED
  BY <1>2, <1>3, CopyInvPartsNext

\* A write of another CPU either misses the frames of a copy or marks it disturbed.
LEMMA CopyMemWrite ==
  ASSUME CopyInv, NEW c \in Cpus, MemWrite(c)
  PROVE  CopyInv'
<1>1. CopyType /\ \A d \in Cpus : CopyOK(d)
  BY CopyInvParts
<1>2. PICK addr \in RamCells, v \in Values :
        mram' = MEMPHY_write(mram, addr, v) /\ Disturb(c, "src", FrameOf(addr))
  BY DEF MemWrite
<1>3. /\ mram' \in RamDevice /\ mram'.storage = [mram.storage EXCEPT ![addr] = v]
      /\ mram.storage \in [RamCells -> Values]
  BY <1>1, <1>2, DeviceWrites DEF CopyType, RamDevice
<1>4. UNCHANGED <<active_mswp, cpc, copy>> /\ cpc[c] = "user"
  BY DEF MemWrite
<1>5. disturbed' = [d \in Cpus |->
        disturbed[d] \/ (d # c /\ Copying(d) /\ copy[d].src = FrameOf(addr))]
  BY <1>2 DEF Disturb
<1>6. disturbed' \in [Cpus -> BOOLEAN]
  BY <1>5
<1>7. CopyType'
  BY <1>1, <1>3, <1>4, <1>6 DEF CopyType, Control
<1>8. ASSUME NEW d \in Cpus PROVE CopyOK(d)'
  <2>1. ~disturbed'[d] => ~disturbed[d]
    BY <1>5
  <2>2. ASSUME Copying(d), ~disturbed'[d], NEW k \in 0..(PAGING_PAGESZ - 1)
        PROVE  mram'.storage[Cell(copy[d].src, k)] = mram.storage[Cell(copy[d].src, k)]
    <3>1. copy[d].src # FrameOf(addr)
      BY <1>4, <1>5, <2>2 DEF Copying
    <3>2. copy[d].src \in 0..(RamFrames - 1)
      BY <1>1, <2>2 DEF CopyOK, WithinFrames
    <3>3. Cell(copy[d].src, k) # addr
      BY <3>1, <3>2, FrameOfCell
    <3>4. Cell(copy[d].src, k) \in RamCells
      BY <3>2, CellsOfFrames, BoundsAssumption DEF RamCells
    <3> QED
      BY <1>3, <3>3, <3>4
  <2> QED
    BY <1>4, <2>1, <2>2, CopyKept
<1> QED
  BY <1>7, <1>8, CopyInvPartsNext

\* A copy begins with no cell copied.
LEMMA CopySwapBegin ==
  ASSUME CopyInv, NEW c \in Cpus, SwapBegin(c)
  PROVE  CopyInv'
<1>1. CopyType /\ \A d \in Cpus : CopyOK(d)
  BY CopyInvParts
<1>2. PICK f \in 0..(RamFrames - 1), g \in 0..(SwapFrames - 1) :
        copy' = Set(copy, c, [src |-> f, dst |-> g, cell |-> 0, data |-> 0])
  BY DEF SwapBegin
<1>3. /\ Control' /\ cpc'[c] = "read"
      /\ \A d \in Cpus : d # c => cpc'[d] = cpc[d]
  BY <1>1, Went DEF SwapBegin, Call, CopyType, Points, CopyPoints
<1>4. disturbed' = Set(disturbed, c, FALSE) /\ UNCHANGED <<mram, active_mswp>>
  BY DEF SwapBegin, Call, devices
<1>5. /\ copy' \in [Cpus -> [src : Nat, dst : Nat, cell : Nat, data : Values]]
      /\ copy'[c] = [src |-> f, dst |-> g, cell |-> 0, data |-> 0]
      /\ \A d \in Cpus : d # c => copy'[d] = copy[d]
  BY <1>1, <1>2, ValuesAssumption DEF CopyType, Set
<1>6. /\ disturbed' \in [Cpus -> BOOLEAN]
      /\ \A d \in Cpus : d # c => disturbed'[d] = disturbed[d]
  BY <1>1, <1>4 DEF CopyType, Set
<1>7. CopyType'
  BY <1>1, <1>3, <1>4, <1>5, <1>6 DEF CopyType
<1>8. CopyOK(c)'
  BY <1>3, <1>5, PageSizeAssumption DEF CopyOK, WithinFrames, ByteInHand, CellsCopied, Copying
<1>9. \A d \in Cpus : d # c => CopyOK(d)'
  BY <1>3, <1>4, <1>5, <1>6, CopyKept
<1> QED
  BY <1>7, <1>8, <1>9, CopyInvPartsNext

\* The byte in hand is the one in the source cell.
LEMMA CopySwapRead ==
  ASSUME CopyInv, NEW c \in Cpus, SwapRead(c)
  PROVE  CopyInv'
<1>1. CopyType /\ \A d \in Cpus : CopyOK(d)
  BY CopyInvParts
<1>2. /\ Control' /\ cpc[c] = "read" /\ cpc'[c] = "write"
      /\ \A d \in Cpus : d # c => cpc'[d] = cpc[d]
  BY <1>1, Went DEF SwapRead, CopyType, Points, CopyPoints
<1> DEFINE a == Cell(copy[c].src, copy[c].cell)
<1>3. a \in RamCells /\ copy[c].cell \in 0..(PAGING_PAGESZ - 1)
  BY <1>2, CopyCells
<1>4. /\ copy' = [copy EXCEPT ![c].data = mram.storage[a]]
      /\ mram.storage[a] \in Values
      /\ UNCHANGED <<mram, active_mswp, disturbed>>
  BY <1>1, <1>3, DeviceWrites DEF SwapRead, devices
<1> HIDE DEF a
<1>5. /\ copy' \in [Cpus -> [src : Nat, dst : Nat, cell : Nat, data : Values]]
      /\ copy'[c].data = mram.storage[a]
      /\ copy'[c].src = copy[c].src /\ copy'[c].dst = copy[c].dst /\ copy'[c].cell = copy[c].cell
      /\ \A d \in Cpus : d # c => copy'[d] = copy[d]
  BY <1>1, <1>4 DEF CopyType
<1>6. CopyType'
  BY <1>1, <1>2, <1>4, <1>5 DEF CopyType
<1>7. CopyOK(c)'
  <2>1. WithinFrames(c)'
    BY <1>1, <1>2, <1>3, <1>5 DEF CopyOK, WithinFrames, Copying
  <2>2. ByteInHand(c)'
    BY <1>4, <1>5 DEF ByteInHand, a
  <2>3. CellsCopied(c)'
    BY <1>1, <1>2, <1>4, <1>5 DEF CopyOK, CellsCopied, Copying
  <2> QED
    BY <2>1, <2>2, <2>3 DEF CopyOK
<1>8. \A d \in Cpus : d # c => CopyOK(d)'
  BY <1>2, <1>4, <1>5, CopyKept
<1> QED
  BY <1>6, <1>7, <1>8, CopyInvPartsNext

\* A written cell equals its source; a copy into a frame another copy uses marks
\* that one disturbed.
LEMMA CopySwapWrite ==
  ASSUME CopyInv, NEW c \in Cpus, SwapWrite(c)
  PROVE  CopyInv'
<1>1. CopyType /\ \A d \in Cpus : CopyOK(d)
  BY CopyInvParts
<1> DEFINE to == IF copy[c].cell + 1 = PAGING_PAGESZ THEN "copied" ELSE "read"
           a == Cell(copy[c].dst, copy[c].cell)
<1>2. /\ Control' /\ cpc[c] = "write" /\ cpc'[c] = to
      /\ \A d \in Cpus : d # c => cpc'[d] = cpc[d]
  BY <1>1, Went DEF SwapWrite, CopyType, Points, CopyPoints
<1>3. a \in SwapCells /\ copy[c].cell \in 0..(PAGING_PAGESZ - 1)
  BY <1>2, CopyCells
<1>4. /\ copy[c] \in [src : Nat, dst : Nat, cell : Nat, data : Values]
      /\ active_mswp.storage \in [SwapCells -> Values]
  BY <1>1 DEF CopyType, SwapDevice
<1>5. /\ active_mswp' \in SwapDevice
      /\ active_mswp'.storage = [active_mswp.storage EXCEPT ![a] = copy[c].data]
      /\ UNCHANGED mram
  BY <1>1, <1>3, <1>4, DeviceWrites DEF SwapWrite
<1>6. /\ copy' \in [Cpus -> [src : Nat, dst : Nat, cell : Nat, data : Values]]
      /\ copy'[c].src = copy[c].src /\ copy'[c].dst = copy[c].dst
      /\ copy'[c].data = copy[c].data /\ copy'[c].cell = copy[c].cell + 1
      /\ \A d \in Cpus : d # c => copy'[d] = copy[d]
  BY <1>1, <1>4 DEF CopyType, SwapWrite
<1>7. disturbed' = [d \in Cpus |->
        disturbed[d] \/ (d # c /\ Copying(d) /\ copy[d].dst = copy[c].dst)]
  BY DEF SwapWrite, Disturb
<1>8. disturbed' \in [Cpus -> BOOLEAN]
  BY <1>7
<1>9. CopyType'
  BY <1>1, <1>2, <1>5, <1>6, <1>8 DEF CopyType
<1>10. WithinFrames(c) /\ ByteInHand(c) /\ CellsCopied(c)
  BY <1>1 DEF CopyOK
<1>11. CopyOK(c)'
  <2>1. WithinFrames(c)'
    BY <1>2, <1>3, <1>6, <1>10, PageSizeAssumption DEF WithinFrames, Copying
  <2>2. ByteInHand(c)'
    BY <1>2 DEF ByteInHand
  <2>3. CellsCopied(c)'
    <3> SUFFICES ASSUME ~disturbed'[c], NEW k \in 0..copy[c].cell
                 PROVE  active_mswp'.storage[Cell(copy[c].dst, k)]
                          = mram.storage[Cell(copy[c].src, k)]
      BY <1>3, <1>5, <1>6 DEF CellsCopied
    <3>1. ~disturbed[c] /\ Copying(c)
      BY <1>2, <1>7 DEF Copying
    <3>2. CASE k = copy[c].cell
      <4>1. active_mswp'.storage[a] = copy[c].data
        BY <1>3, <1>4, <1>5
      <4> QED
        BY <1>2, <1>10, <3>1, <3>2, <4>1 DEF ByteInHand
    <3>3. CASE k # copy[c].cell
      <4>1. k \in 0..(copy[c].cell - 1) /\ k \in Nat
        BY <1>3, <3>3
      <4>2. Cell(copy[c].dst, k) # a
        BY <1>3, <1>4, <3>3, <4>1, CellsDiffer
      <4>3. active_mswp.storage[Cell(copy[c].dst, k)] = mram.storage[Cell(copy[c].src, k)]
        BY <1>10, <3>1, <4>1 DEF CellsCopied
      <4>4. Cell(copy[c].dst, k) \in SwapCells
        <5>1. k \in 0..(PAGING_PAGESZ - 1) /\ copy[c].dst \in 0..(SwapFrames - 1)
          BY <1>3, <1>10, <3>1, <4>1, PageSizeAssumption DEF WithinFrames
        <5> QED
          BY <5>1, CellsOfFrames, BoundsAssumption DEF SwapCells
      <4> QED
        BY <1>4, <1>5, <4>2, <4>3, <4>4
    <3> QED
      BY <3>2, <3>3
  <2> QED
    BY <2>1, <2>2, <2>3 DEF CopyOK
<1>12. ASSUME NEW d \in Cpus, d # c PROVE CopyOK(d)'
  <2>1. ~disturbed'[d] => ~disturbed[d]
    BY <1>7
  <2>2. ASSUME Copying(d), ~disturbed'[d], NEW k \in 0..(PAGING_PAGESZ - 1)
        PROVE  active_mswp'.storage[Cell(copy[d].dst, k)]
                 = active_mswp.storage[Cell(copy[d].dst, k)]
    <3>1. copy[d].dst # copy[c].dst
      BY <1>7, <1>12, <2>2
    <3>2. copy[d].dst \in 0..(SwapFrames - 1)
      BY <1>1, <2>2 DEF CopyOK, WithinFrames
    <3>3. Cell(copy[d].dst, k) # a
      BY <1>3, <1>4, <3>1, <3>2, FrameOfCell
    <3>4. Cell(copy[d].dst, k) \in SwapCells
      BY <3>2, CellsOfFrames, BoundsAssumption DEF SwapCells
    <3> QED
      BY <1>4, <1>5, <3>3, <3>4
  <2> QED
    BY <1>2, <1>5, <1>6, <1>12, <2>1, <2>2, CopyKept
<1> QED
  BY <1>9, <1>11, <1>12, CopyInvPartsNext

\* A finished copy leaves the devices alone.
LEMMA CopySwapReturn ==
  ASSUME CopyInv, NEW c \in Cpus, SwapReturn(c)
  PROVE  CopyInv'
<1>1. CopyType
  BY DEF CopyInv
<1>2. /\ Control' /\ cpc'[c] = "user"
      /\ \A d \in Cpus : d # c => cpc'[d] = cpc[d]
  BY <1>1, Went DEF SwapReturn, CopyType, Points
<1>3. /\ copy' = Set(copy, c, [src |-> 0, dst |-> 0, cell |-> 0, data |-> 0])
      /\ disturbed' = Set(disturbed, c, FALSE)
      /\ UNCHANGED <<mram, active_mswp>>
  BY DEF SwapReturn, devices
<1>4. /\ copy' \in [Cpus -> [src : Nat, dst : Nat, cell : Nat, data : Values]]
      /\ disturbed' \in [Cpus -> BOOLEAN]
      /\ \A d \in Cpus : d # c => copy'[d] = copy[d] /\ disturbed'[d] = disturbed[d]
  BY <1>1, <1>3, ValuesAssumption DEF CopyType, Set
<1>5. CopyType'
  BY <1>1, <1>2, <1>3, <1>4 DEF CopyType
<1>6. CopyOK(c)'
  BY <1>2, NotCopying DEF CopyPoints
<1>7. \A d \in Cpus : d # c => CopyOK(d)'
  BY <1>2, <1>3, <1>4, CopyKept
<1> QED
  BY <1>5, <1>6, <1>7, CopyInvPartsNext

\* The invariant of the copies holds at the start.
LEMMA CopyInvInit == Init => CopyInv
<1> SUFFICES ASSUME Init PROVE CopyInv
  OBVIOUS
<1>1. mram \in RamDevice /\ active_mswp \in SwapDevice
  BY ValuesAssumption DEF Init, init_memphy, RamDevice, SwapDevice, RamCells, SwapCells
<1>2. CopyType
  BY <1>1, ValuesAssumption DEF Init, CopyType, Control, Points
<1>3. \A c \in Cpus : cpc[c] = "user"
  BY DEF Init
<1> QED
  BY <1>2, <1>3 DEF CopyInv, WithinFrames, ByteInHand, UndisturbedCopy, Copying

\* Every step keeps it.
LEMMA CopyInvNext == CopyInv /\ [Next]_vars => CopyInv'
<1> SUFFICES ASSUME CopyInv, [Next]_vars PROVE CopyInv'
  OBVIOUS
<1>0. CopyType /\ Control
  BY DEF CopyInv, CopyType
<1>1. CASE UNCHANGED vars
  <2>1. UNCHANGED <<cpc, devices, copy, disturbed>>
    BY <1>1 DEF vars
  <2> QED
    BY <1>0, <2>1, CopyFrame DEF Control, CopyType
<1>2. CASE Loader
  <2>1. UNCHANGED <<cpc, devices, copy, disturbed>>
    BY <1>2 DEF Loader, LoadMalloc, LoadPgd, LoadMmap
  <2> QED
    BY <1>0, <2>1, CopyFrame DEF Control, CopyType
<1>3. ASSUME NEW c \in Cpus, WalkStep(c) \/ (Library(c) /\ UNCHANGED <<devices, copy>>)
      PROVE  CopyInv'
  <2>1. UNCHANGED <<devices, copy>>
    BY <1>3 DEF WalkStep, print_pgtbl, vmap_pgd_memset, vmap_nothing, Fault, TestEntry, FillEntry, FollowEntry
  <2>2. disturbed' = disturbed \/ disturbed' = Set(disturbed, c, FALSE)
    <3>1. CASE WalkStep(c)
      BY <3>1 DEF WalkStep, print_pgtbl, vmap_pgd_memset, vmap_nothing, Call, Fault, TestEntry, FillEntry, FollowEntry
    <3>2. CASE Library(c)
      BY <3>2 DEF Library, __free, __alloc, __read, Call, FreeStart, FreeEnd, AllocStart, AllocEnd,
                  ReadStartZero, ReadEndZero, ReadSum, ReadBound, ReadReturn, ReadTest
    <3> QED
      BY <1>3, <3>1, <3>2
  <2>3. /\ disturbed' \in [Cpus -> BOOLEAN]
        /\ \A d \in Cpus : d # c => disturbed'[d] = disturbed[d]
    BY <1>0, <2>2 DEF CopyType, Set
  <2>4. /\ Control' /\ cpc'[c] \notin CopyPoints
        /\ \A d \in Cpus : d # c => cpc'[d] = cpc[d]
    BY <1>0, <1>3, WalkControl, LibraryControl DEF WalkPoints, CopyPoints, ReadPoints, LockPoints
  <2> QED
    BY <2>1, <2>3, <2>4, CopyFrame
<1>4. ASSUME NEW c \in Cpus, CopyStep(c) PROVE CopyInv'
  BY <1>4, CopyMemWrite, CopySwapBegin, CopySwapRead, CopySwapWrite, CopySwapReturn DEF CopyStep
<1> QED
  BY <1>1, <1>2, <1>3, <1>4, KernelSteps DEF Next, Step, Terminated

\* Whatever the other CPUs do, the cells a page copy has been through are equal on
\* both devices unless one of them wrote one of its two frames; and a copy stays
\* within its frames (mm64.c, __swap_cp_page).
THEOREM CopiesUndisturbed == Spec => []UndisturbedCopy
<1>1. CopyInv => UndisturbedCopy
  BY DEF CopyInv
<1> QED
  BY CopyInvInit, CopyInvNext, <1>1, PTL DEF Spec

-----------------------------------------------------------------------------
(* Walks *)

\* The part of one CPU in the invariant of the walks.
WalkOK(c) ==
  /\ PathsLeft(c) /\ PointersHeld(c)
  /\ cpc[c] = "fault" /\ kind[c] = "print" => overlapped[c]

\* The invariant of the walks, split by CPU.
LEMMA WalkInvParts ==
  WalkInv <=> WalkType /\ Pointers /\ Loading /\ \A c \in Cpus : WalkOK(c)
  BY DEF WalkInv, WalkOK, OnlyLoadsFault

\* The same after a step.
LEMMA WalkInvPartsNext ==
  WalkInv' <=> WalkType' /\ Pointers' /\ Loading' /\ \A c \in Cpus : WalkOK(c)'
  BY DEF WalkInv, WalkOK, OnlyLoadsFault

\* A sequence with a length has elements.
LEMMA NotEmpty ==
  ASSUME NEW s, Len(s) # 0
  PROVE  s # <<>>
  OBVIOUS

\* The paths of a range have four indices each.
LEMMA WalksTyped ==
  ASSUME NEW w \in Walks
  PROVE  /\ w \in Seq(Seq(Indices)) /\ w # <<>>
         /\ \A n \in 1..Len(w) : Len(w[n]) = 4
<1>1. w \in Seq([1..4 -> Nat]) /\ w # <<>>
  BY WalksAssumption
<1>2. ASSUME NEW n \in 1..Len(w) PROVE w[n] \in Seq(Indices) /\ Len(w[n]) = 4
  <2>1. w[n] \in [1..4 -> Nat]
    BY <1>1
  <2>2. \A l \in 1..4 : w[n][l] \in Indices
    BY DEF Indices
  <2>3. w[n] \in [1..4 -> Indices]
    BY <2>1, <2>2
  <2>4. \A f \in [1..4 -> Indices] : f \in Seq(Indices) /\ Len(f) = 4
    <3> SUFFICES ASSUME NEW f \in [1..4 -> Indices] PROVE f \in Seq(Indices) /\ Len(f) = 4
      OBVIOUS
    <3>1. f \in Seq(Indices)
      <4>1. f \in UNION {[1..m -> Indices] : m \in Nat}
        OBVIOUS
      <4> QED
        BY <4>1, SeqDef
    <3>2. Len(f) \in Nat /\ 1..4 = 1..Len(f)
      BY <3>1, LenProperties
    <3> QED
      BY <3>1, <3>2
  <2> QED
    BY <2>3, <2>4
<1>3. w \in Seq(Seq(Indices))
  <2>1. w = [n \in 1..Len(w) |-> w[n]] /\ Len(w) \in Nat
    BY <1>1
  <2> QED
    BY <1>2, <2>1
<1> QED
  BY <1>1, <1>2, <1>3

\* The level of a walk by the indices it has left: four at the top, one at the end.
LEMMA Levels ==
  ASSUME NEW n \in 1..4, NEW l, l = 5 - n
  PROVE  (l = 1 <=> n = 4) /\ (l = 4 <=> n = 1)
  OBVIOUS

\* Where a walk is.
LEMMA WalkPlace ==
  ASSUME WalkInv, NEW c \in Cpus, cpc[c] \in WalkPoints
  PROVE  /\ walk[c] \in Seq(Seq(Indices)) /\ Len(walk[c]) \in Nat \ {0}
         /\ Head(walk[c]) = walk[c][1]
         /\ walk[c][1] \in Seq(Indices) /\ Len(walk[c][1]) \in 1..4
         /\ Level(c) = 1 <=> Len(walk[c][1]) = 4
         /\ Level(c) = 4 <=> Len(walk[c][1]) = 1
         /\ Index(c) \in Indices
         /\ mms \in Seq(Space) /\ mm \in Space /\ mm.pgd \in 0..Len(tables)
         /\ Table(c) \in 0..Len(tables)
         /\ ~overlapped[c] => ~Faults(c)
<1>1. walk[c] \in Seq(Seq(Indices)) /\ walk[c] # <<>> /\ Len(walk[c][1]) \in 1..4
  BY WalkInvParts DEF WalkType, WalkOK, PathsLeft
<1>2. Len(walk[c]) \in Nat \ {0} /\ Head(walk[c]) = walk[c][1] /\ walk[c][1] \in Seq(Indices)
  BY <1>1
<1>3. /\ Level(c) = 1 <=> Len(walk[c][1]) = 4
      /\ Level(c) = 4 <=> Len(walk[c][1]) = 1
      /\ Index(c) \in Indices
  <2>1. Level(c) = 5 - Len(walk[c][1]) /\ Index(c) \in Indices
    BY <1>1, <1>2 DEF Level, Index
  <2> QED
    BY <1>1, <2>1, Levels
<1>4. mms \in Seq(Space) /\ Len(mms) \in 1..Len(mms)
  BY DEF WalkInv, WalkType
<1>5. mm \in Space /\ mm.pgd \in 0..Len(tables)
  BY <1>4 DEF mm, WalkInv, Pointers
<1>6. at[c] \in 0..Len(tables)
  BY DEF WalkInv, Pointers
<1>7. Table(c) \in 0..Len(tables)
  BY <1>5, <1>6 DEF Table
<1>8. ~overlapped[c] => ~Faults(c)
  <2> SUFFICES ASSUME ~overlapped[c] PROVE Table(c) # NULL
    BY DEF Faults
  <2>1. lpc = "outside" /\ (Len(walk[c][1]) # 4 => at[c] # NULL)
    BY WalkInvParts DEF WalkOK, PointersHeld
  <2>2. mm.pgd # NULL
    BY <2>1 DEF WalkInv, Loading, NULL, UNSET
  <2> QED
    BY <1>3, <2>1, <2>2 DEF Table
<1> QED
  BY <1>1, <1>2, <1>3, <1>4, <1>5, <1>7, <1>8

\* Tables are added and entries set, and none is ever cleared.
Grown ==
  /\ tables' \in Seq([Indices -> Nat])
  /\ Len(tables') >= Len(tables)
  /\ \A n \in 1..Len(tables') : tables'[n] \in [Indices -> 0..Len(tables')]
  /\ \A n \in 1..Len(tables) : \A x \in Indices :
       tables[n][x] # NULL => tables'[n][x] # NULL

\* A step that adds no table keeps what was entered.
LEMMA GrownUnchanged ==
  ASSUME WalkInv, UNCHANGED tables
  PROVE  Grown
<1>1. tables \in Seq([Indices -> Nat]) /\ Len(tables) \in Nat
  BY DEF WalkInv, WalkType
<1> QED
  BY <1>1 DEF WalkInv, Pointers, Grown

\* A step that adds an empty table.
LEMMA GrownAppend ==
  ASSUME WalkInv, tables' = Append(tables, EmptyTable)
  PROVE  Grown /\ Len(tables') = Len(tables) + 1
<1>1. /\ tables \in Seq([Indices -> Nat]) /\ Len(tables) \in Nat
      /\ \A n \in 1..Len(tables) : tables[n] \in [Indices -> 0..Len(tables)]
  BY DEF WalkInv, WalkType, Pointers
<1>2. EmptyTable \in [Indices -> Nat] /\ EmptyTable \in [Indices -> 0..(Len(tables) + 1)]
  BY <1>1 DEF EmptyTable, NULL
<1>3. /\ tables' \in Seq([Indices -> Nat]) /\ Len(tables') = Len(tables) + 1
      /\ \A n \in 1..Len(tables) : tables'[n] = tables[n]
      /\ tables'[Len(tables) + 1] = EmptyTable
  BY <1>1, <1>2
<1>4. ASSUME NEW n \in 1..Len(tables') PROVE tables'[n] \in [Indices -> 0..Len(tables')]
  <2>1. CASE n \in 1..Len(tables)
    <3>1. tables'[n] = tables[n] /\ tables[n] \in [Indices -> 0..Len(tables)]
      BY <1>1, <1>3, <2>1
    <3> QED
      BY <1>1, <1>3, <3>1
  <2>2. CASE n = Len(tables) + 1
    BY <1>2, <1>3, <2>2
  <2> QED
    BY <1>1, <1>3, <2>1, <2>2
<1> QED
  BY <1>1, <1>3, <1>4 DEF Grown

\* FillEntry sets one entry, to the table it adds.
LEMMA GrownFill ==
  ASSUME WalkInv, NEW t \in 1..Len(tables), NEW x \in Indices,
         tables' = Append([tables EXCEPT ![t][x] = Len(tables) + 1], EmptyTable)
  PROVE  Grown /\ tables'[t][x] # NULL
<1> DEFINE L == Len(tables)
           s == [tables EXCEPT ![t][x] = L + 1]
<1>1. /\ tables \in Seq([Indices -> Nat]) /\ L \in Nat
      /\ \A n \in 1..L : tables[n] \in [Indices -> 0..L]
  BY DEF WalkInv, WalkType, Pointers
<1>2. tables[t] \in [Indices -> 0..L] /\ tables[t] \in [Indices -> Nat]
  BY <1>1
<1> DEFINE e == [tables[t] EXCEPT ![x] = L + 1]
<1>3. s = [tables EXCEPT ![t] = e]
  BY <1>1
<1>4. e \in [Indices -> 0..(L + 1)]
  BY <1>1, <1>2
<1>5. e \in [Indices -> Nat] /\ \A y \in Indices : e[y] = IF y = x THEN L + 1 ELSE tables[t][y]
  BY <1>1, <1>2
<1> HIDE DEF e
<1>6. /\ s \in Seq([Indices -> Nat]) /\ Len(s) = L
      /\ \A n \in 1..L : n # t => s[n] = tables[n]
      /\ s[t] = e
  BY <1>1, <1>3, <1>5, ExceptSeq
<1> HIDE DEF s
<1>7. EmptyTable \in [Indices -> Nat] /\ EmptyTable \in [Indices -> 0..(L + 1)]
  BY <1>1 DEF EmptyTable, NULL
<1>8. tables' = Append(s, EmptyTable)
  BY DEF s
<1>9. /\ tables' \in Seq([Indices -> Nat]) /\ Len(tables') = L + 1
      /\ \A n \in 1..L : tables'[n] = s[n]
      /\ tables'[L + 1] = EmptyTable
  <2> DEFINE S == [Indices -> Nat]
  <2>1. s \in Seq(S) /\ EmptyTable \in S
    BY <1>6, <1>7
  <2> HIDE DEF S
  <2>2. /\ Append(s, EmptyTable) \in Seq(S)
        /\ Len(Append(s, EmptyTable)) = Len(s) + 1
        /\ \A n \in 1..Len(s) : Append(s, EmptyTable)[n] = s[n]
        /\ Append(s, EmptyTable)[Len(s) + 1] = EmptyTable
    BY <2>1, AppendProperties
  <2> QED
    BY <1>6, <1>8, <2>2 DEF S
<1>10. ASSUME NEW n \in 1..Len(tables') PROVE tables'[n] \in [Indices -> 0..(L + 1)]
  <2>1. CASE n = L + 1
    BY <1>7, <1>9, <2>1
  <2>2. CASE n = t
    BY <1>4, <1>6, <1>9, <2>2
  <2>3. CASE n \in 1..L /\ n # t
    <3>1. tables'[n] = tables[n] /\ tables[n] \in [Indices -> 0..L]
      BY <1>1, <1>6, <1>9, <2>3
    <3>2. 0..L \subseteq 0..(L + 1)
      BY <1>1
    <3> QED
      BY <3>1, <3>2
  <2>4. L \in Nat /\ Len(tables') = L + 1
    BY <1>1, <1>9
  <2>5. n = L + 1 \/ n \in 1..L
    BY <2>4
  <2> QED
    BY <2>1, <2>2, <2>3, <2>5
<1>11. ASSUME NEW n \in 1..L, NEW y \in Indices, tables[n][y] # NULL
       PROVE  tables'[n][y] # NULL
  <2>1. CASE n # t
    BY <1>6, <1>9, <1>11, <2>1
  <2>2. CASE n = t
    <3>1. tables'[n][y] = IF y = x THEN L + 1 ELSE tables[n][y]
      BY <1>5, <1>6, <1>9, <2>2
    <3> QED
      BY <1>1, <1>11, <3>1 DEF NULL
  <2> QED
    BY <2>1, <2>2
<1>12. tables'[t][x] # NULL
  <2>1. tables'[t][x] = L + 1
    BY <1>5, <1>6, <1>9
  <2> QED
    BY <1>1, <2>1 DEF NULL
<1>13. Len(tables') >= Len(tables)
  BY <1>1, <1>9
<1>14. \A n \in 1..Len(tables') : tables'[n] \in [Indices -> 0..Len(tables')]
  BY <1>9, <1>10
<1> QED
  BY <1>9, <1>11, <1>12, <1>13, <1>14 DEF Grown

\* A walk whose CPU does not move survives all of this, and every step of a loader
\* that it does not overlap.
LEMMA WalkKept ==
  ASSUME WalkInv, Grown, NEW d \in Cpus,
         cpc'[d] = cpc[d], walk'[d] = walk[d], kind'[d] = kind[d], at'[d] = at[d],
         cpc[d] # "user" =>
           overlapped'[d] \/ (UNCHANGED <<mms, lpc>> /\ overlapped'[d] = overlapped[d])
  PROVE  WalkOK(d)'
<1>1. WalkOK(d)
  BY WalkInvParts
<1>2. PathsLeft(d)'
  BY <1>1 DEF WalkOK, PathsLeft
<1>3. PointersHeld(d)'
  <2> SUFFICES ASSUME cpc[d] \in WalkPoints, ~overlapped'[d]
               PROVE  /\ lpc' = "outside"
                      /\ Len(walk[d][1]) # 4 => at[d] # NULL
                      /\ cpc[d] = "follow" => tables'[Table(d)'][Index(d)'] # NULL
    BY DEF PointersHeld
  <2>1. UNCHANGED <<mms, lpc>> /\ ~overlapped[d]
    BY DEF WalkPoints
  <2>2. Table(d)' = Table(d) /\ Index(d)' = Index(d)
    BY <2>1 DEF Table, Index, Level, mm
  <2>3. Index(d) \in Indices /\ Table(d) \in 1..Len(tables)
    BY <2>1, WalkPlace DEF Faults, NULL
  <2> QED
    BY <1>1, <2>1, <2>2, <2>3 DEF WalkOK, PointersHeld, Grown
<1>4. cpc'[d] = "fault" /\ kind'[d] = "print" => overlapped'[d]
  BY <1>1 DEF WalkOK
<1> QED
  BY <1>2, <1>3, <1>4 DEF WalkOK

\* The typed state of the other CPUs, after a step of one of them.
LEMMA WalkStepped ==
  ASSUME WalkInv, WalkType', Grown, UNCHANGED <<mms, lpc>>, NEW c \in Cpus,
         \A d \in Cpus : d # c =>
           /\ cpc'[d] = cpc[d] /\ walk'[d] = walk[d] /\ kind'[d] = kind[d]
           /\ at'[d] = at[d] /\ overlapped'[d] = overlapped[d],
         at'[c] \in 0..Len(tables'),
         WalkOK(c)'
  PROVE  WalkInv'
<1>1. Len(tables) \in Nat /\ Len(tables') \in Nat /\ Len(tables) <= Len(tables')
  BY DEF WalkInv, WalkType, Grown
<1>2. Pointers'
  <2>1. \A n \in 1..Len(mms) : mms[n].pgd \in 0..Len(tables')
    BY <1>1 DEF WalkInv, Pointers
  <2>2. \A d \in Cpus : at'[d] \in 0..Len(tables')
    BY <1>1 DEF WalkInv, Pointers
  <2> QED
    BY <2>1, <2>2 DEF Pointers, Grown
<1>3. Loading'
  BY DEF WalkInv, Loading, mm
<1>4. \A d \in Cpus : WalkOK(d)'
  BY WalkKept
<1> QED
  BY <1>2, <1>3, <1>4, WalkInvPartsNext

\* The next index is the first of a path.
LEMMA WalkBegun ==
  ASSUME WalkInv, NEW c \in Cpus, print_pgtbl(c) \/ vmap_pgd_memset(c)
  PROVE  WalkInv'
<1>1. WalkType /\ Loading
  BY DEF WalkInv
<1>2. PICK k \in {"print", "map"}, to \in {"test", "fault"} :
        /\ Call(c, to) /\ kind' = Set(kind, c, k)
        /\ to = "fault" => ~mm.mmap
  BY DEF print_pgtbl, vmap_pgd_memset
<1>3. PICK w \in Walks : walk' = Set(walk, c, w) \/ walk' = Set(walk, c, <<Head(w)>>)
  BY DEF print_pgtbl, vmap_pgd_memset
<1>4. UNCHANGED <<mms, tables, lpc>> /\ at' = Set(at, c, NULL)
  BY DEF print_pgtbl, vmap_pgd_memset, spaces
<1>5. overlapped' = Set(overlapped, c, lpc # "outside")
  BY <1>2 DEF Call
<1>6. Control' /\ cpc'[c] = to /\ \A d \in Cpus : d # c => cpc'[d] = cpc[d]
  BY <1>1, <1>2, Went DEF Call, WalkType, Points, WalkPoints
<1>7. /\ walk' \in [Cpus -> Seq(Seq(Indices))]
      /\ walk'[c] # <<>> /\ \A n \in 1..Len(walk'[c]) : Len(walk'[c][n]) = 4
      /\ \A d \in Cpus : d # c => walk'[d] = walk[d]
  <2>1. w \in Seq(Seq(Indices)) /\ w # <<>> /\ \A n \in 1..Len(w) : Len(w[n]) = 4
    BY WalksTyped
  <2>2. /\ <<Head(w)>> \in Seq(Seq(Indices)) /\ <<Head(w)>> # <<>>
        /\ Len(<<Head(w)>>) = 1 /\ <<Head(w)>>[1] = w[1] /\ 1 \in 1..Len(w)
    BY <2>1
  <2>3. \A n \in 1..Len(<<Head(w)>>) : Len(<<Head(w)>>[n]) = 4
    BY <2>1, <2>2
  <2>4. PICK v \in {w, <<Head(w)>>} : walk' = Set(walk, c, v)
    BY <1>3
  <2>5. v \in Seq(Seq(Indices)) /\ v # <<>> /\ \A n \in 1..Len(v) : Len(v[n]) = 4
    BY <2>1, <2>2, <2>3, <2>4
  <2> QED
    BY <1>1, <2>4, <2>5 DEF WalkType, Set
<1>8. /\ kind' \in [Cpus -> {"none", "print", "map"}] /\ at' \in [Cpus -> Nat]
      /\ overlapped' \in [Cpus -> BOOLEAN]
      /\ at'[c] = NULL /\ overlapped'[c] = (lpc # "outside")
      /\ \A d \in Cpus : d # c =>
           kind'[d] = kind[d] /\ at'[d] = at[d] /\ overlapped'[d] = overlapped[d]
  BY <1>1, <1>2, <1>4, <1>5 DEF WalkType, Set, NULL
<1>9. WalkType'
  BY <1>1, <1>4, <1>6, <1>7, <1>8 DEF WalkType
<1>10. Grown
  BY <1>4, GrownUnchanged
<1>11. WalkOK(c)'
  <2>1. Len(walk'[c]) \in Nat \ {0} /\ Len(walk'[c][1]) = 4
    BY <1>7
  <2>2. PathsLeft(c)'
    BY <1>2, <1>6, <1>7, <2>1 DEF PathsLeft
  <2>3. PointersHeld(c)'
    BY <1>2, <1>4, <1>6, <1>8, <2>1 DEF PointersHeld, WalkPoints
  <2>4. cpc'[c] = "fault" => overlapped'[c]
    BY <1>1, <1>2, <1>6, <1>8 DEF Loading
  <2> QED
    BY <2>2, <2>3, <2>4 DEF WalkOK
<1>12. at'[c] \in 0..Len(tables')
  BY <1>8, <1>10 DEF Grown, NULL
<1> QED
  BY <1>4, <1>6, <1>7, <1>8, <1>9, <1>10, <1>11, <1>12, WalkStepped

\* A walk that stops at a pointer never set, or NULL, stops there for good.
LEMMA WalkFault ==
  ASSUME WalkInv, NEW c \in Cpus, Fault(c)
  PROVE  WalkInv'
<1>1. WalkType
  BY DEF WalkInv
<1>2. /\ UNCHANGED <<mms, tables, lpc, walk, kind, at, overlapped>>
      /\ cpc' = Set(cpc, c, "fault")
      /\ cpc[c] \in WalkPoints /\ Faults(c)
  BY DEF Fault, spaces, walks, WalkPoints
<1>3. Control' /\ cpc'[c] = "fault" /\ \A d \in Cpus : d # c => cpc'[d] = cpc[d]
  BY <1>1, <1>2, Moved DEF WalkType, Points
<1>4. WalkType' /\ Grown
  BY <1>1, <1>2, <1>3, GrownUnchanged DEF WalkType
<1>5. overlapped[c]
  BY <1>2, WalkPlace
<1>6. WalkOK(c)'
  BY <1>2, <1>3, <1>5 DEF WalkOK, PathsLeft, PointersHeld, WalkPoints
<1>7. at'[c] \in 0..Len(tables')
  BY <1>2 DEF WalkInv, Pointers
<1> QED
  BY <1>2, <1>3, <1>4, <1>6, <1>7, WalkStepped

\* The entry is there: the walk goes to follow it, or the page is done.
LEMMA WalkEntrySet ==
  ASSUME WalkInv, NEW c \in Cpus, cpc[c] \in {"test", "fill"}, EntrySet(c), Grown,
         UNCHANGED <<mms, lpc, kind>>,
         tables'[Table(c)][Index(c)] # NULL
  PROVE  WalkInv'
<1>1. WalkType /\ WalkOK(c)
  BY WalkInvParts
<1>2. cpc[c] \in WalkPoints
  BY DEF WalkPoints
<1>3. /\ walk[c] \in Seq(Seq(Indices)) /\ Len(walk[c]) \in Nat \ {0}
      /\ Len(walk[c][1]) \in 1..4 /\ (Level(c) = 4 <=> Len(walk[c][1]) = 1)
      /\ \A n \in 2..Len(walk[c]) : Len(walk[c][n]) = 4
  BY <1>1, <1>2, WalkPlace DEF WalkOK, PathsLeft
<1>4. at[c] \in 0..Len(tables) /\ Len(tables) \in Nat /\ Len(tables') \in Nat
  BY DEF WalkInv, WalkType, Pointers, Grown
<1>5. tables' \in Seq([Indices -> Nat]) /\ Len(tables) <= Len(tables')
  BY <1>4 DEF Grown
<1>6. CASE Level(c) # 4
  <2>1. cpc' = Set(cpc, c, "follow") /\ UNCHANGED <<walk, at, overlapped>>
    BY <1>6 DEF EntrySet
  <2>2. Control' /\ cpc'[c] = "follow" /\ \A d \in Cpus : d # c => cpc'[d] = cpc[d]
    BY <1>1, <2>1, Moved DEF WalkType, Points, WalkPoints
  <2>3. WalkType'
    BY <1>1, <1>5, <2>1, <2>2 DEF WalkType
  <2>4. Table(c)' = Table(c) /\ Index(c)' = Index(c)
    BY <2>1 DEF Table, Index, Level, mm
  <2>5. WalkOK(c)'
    <3>1. PathsLeft(c)'
      <4>1. Len(walk[c][1]) # 1
        BY <1>3, <1>6
      <4> QED
        BY <1>1, <1>2, <2>1, <4>1 DEF WalkOK, PathsLeft
    <3>2. PointersHeld(c)'
      BY <1>1, <1>2, <2>1, <2>2, <2>4 DEF WalkOK, PointersHeld
    <3> QED
      BY <2>2, <3>1, <3>2 DEF WalkOK
  <2>6. at'[c] \in 0..Len(tables')
    BY <1>4, <1>5, <2>1
  <2> QED
    BY <2>1, <2>2, <2>3, <2>5, <2>6, WalkStepped
<1>7. CASE Level(c) = 4
  <2> DEFINE to == IF kind[c] = "map" THEN "fault"
                   ELSE IF Len(walk[c]) = 1 THEN "user" ELSE "test"
  <2>1. /\ cpc' = Set(cpc, c, to)
        /\ walk' = Set(walk, c, Tail(walk[c]))
        /\ at' = Set(at, c, NULL)
        /\ overlapped' = IF cpc'[c] = "user" THEN Set(overlapped, c, FALSE) ELSE overlapped
    BY <1>7 DEF EntrySet, PageDone
  <2>2. to \in {"fault", "user", "test"}
    OBVIOUS
  <2>3. Control' /\ cpc'[c] = to /\ \A d \in Cpus : d # c => cpc'[d] = cpc[d]
    BY <1>1, <2>1, <2>2, Moved DEF WalkType, Points, WalkPoints
  <2>4. /\ Tail(walk[c]) \in Seq(Seq(Indices))
        /\ Len(Tail(walk[c])) = Len(walk[c]) - 1
        /\ \A n \in 1..Len(Tail(walk[c])) : Tail(walk[c])[n] = walk[c][n + 1]
    BY <1>3
  <2>5. \A n \in 1..Len(Tail(walk[c])) : Len(Tail(walk[c])[n]) = 4
    BY <1>3, <2>4
  <2>6. /\ walk' \in [Cpus -> Seq(Seq(Indices))] /\ walk'[c] = Tail(walk[c])
        /\ \A d \in Cpus : d # c => walk'[d] = walk[d]
    BY <1>1, <2>1, <2>4 DEF WalkType, Set
  <2>7. /\ at' \in [Cpus -> Nat] /\ overlapped' \in [Cpus -> BOOLEAN]
        /\ at'[c] = NULL
        /\ (to # "user" => overlapped'[c] = overlapped[c])
        /\ \A d \in Cpus : d # c => at'[d] = at[d] /\ overlapped'[d] = overlapped[d]
    BY <1>1, <2>1, <2>3 DEF WalkType, Set, NULL
  <2>8. WalkType'
    BY <1>1, <1>5, <2>3, <2>6, <2>7 DEF WalkType
  <2>9. WalkOK(c)'
    <3>1. CASE to = "test"
      <4>0. Len(walk[c]) # 1
        BY <3>1
      <4>1. Len(walk'[c]) \in Nat \ {0} /\ walk'[c] # <<>>
        <5>1. Len(walk'[c]) = Len(walk[c]) - 1
          BY <2>4, <2>6
        <5>2. Len(walk[c]) \in Nat \ {0}
          BY <1>3
        <5>3. Len(walk'[c]) \in Nat \ {0}
          BY <4>0, <5>1, <5>2
        <5> QED
          BY <5>3, NotEmpty
      <4>2. \A n \in 1..Len(walk'[c]) : Len(walk'[c][n]) = 4
        BY <2>5, <2>6
      <4>3. Len(walk'[c][1]) = 4
        BY <4>1, <4>2
      <4>4. PathsLeft(c)'
        BY <2>3, <3>1, <4>1, <4>2, <4>3 DEF PathsLeft
      <4>5. PointersHeld(c)'
        BY <1>1, <1>2, <2>3, <2>7, <3>1, <4>3 DEF WalkOK, PointersHeld
      <4> QED
        BY <2>3, <3>1, <4>4, <4>5 DEF WalkOK
    <3>2. CASE to # "test"
      <4>1. cpc'[c] \notin WalkPoints /\ (cpc'[c] = "fault" => kind'[c] # "print")
        BY <2>2, <2>3, <3>2 DEF WalkPoints
      <4> QED
        BY <4>1 DEF WalkOK, PathsLeft, PointersHeld
    <3> QED
      BY <3>1, <3>2
  <2>10. at'[c] \in 0..Len(tables')
    BY <1>4, <2>7 DEF NULL
  <2> QED
    BY <2>3, <2>6, <2>7, <2>8, <2>9, <2>10, WalkStepped
<1> QED
  BY <1>6, <1>7

\* The test of an entry of a directory: it is to be filled, or followed.
LEMMA WalkTest ==
  ASSUME WalkInv, NEW c \in Cpus, TestEntry(c)
  PROVE  WalkInv'
<1>1. WalkType /\ WalkOK(c) /\ cpc[c] = "test" /\ cpc[c] \in WalkPoints
  BY WalkInvParts DEF TestEntry, WalkPoints
<1>2. UNCHANGED <<mms, tables, lpc, kind>>
  BY DEF TestEntry, spaces
<1>3. Grown
  BY <1>2, GrownUnchanged
<1>4. CASE tables[Table(c)][Index(c)] # NULL
  BY <1>1, <1>2, <1>3, <1>4, WalkEntrySet DEF TestEntry
<1>5. CASE tables[Table(c)][Index(c)] = NULL
  <2>1. cpc' = Set(cpc, c, "fill") /\ UNCHANGED <<walk, at, overlapped>>
    BY <1>5 DEF TestEntry
  <2>2. Control' /\ cpc'[c] = "fill" /\ \A d \in Cpus : d # c => cpc'[d] = cpc[d]
    BY <1>1, <2>1, Moved DEF WalkType, Points, WalkPoints
  <2>3. WalkType'
    BY <1>1, <1>2, <2>1, <2>2 DEF WalkType
  <2>4. WalkOK(c)'
    <3>1. PathsLeft(c)'
      BY <1>1, <2>1, <2>2 DEF WalkOK, PathsLeft
    <3>2. PointersHeld(c)'
      BY <1>1, <1>2, <2>1, <2>2 DEF WalkOK, PointersHeld
    <3> QED
      BY <2>2, <3>1, <3>2 DEF WalkOK
  <2>5. at'[c] \in 0..Len(tables')
    BY <1>2, <2>1 DEF WalkInv, Pointers
  <2> QED
    BY <1>2, <1>3, <2>1, <2>2, <2>3, <2>4, <2>5, WalkStepped
<1> QED
  BY <1>4, <1>5

\* A missing directory is filled in, over what another walk entered meanwhile.
LEMMA WalkFill ==
  ASSUME WalkInv, NEW c \in Cpus, FillEntry(c)
  PROVE  WalkInv'
<1>1. cpc[c] = "fill" /\ cpc[c] \in WalkPoints /\ ~Faults(c) /\ EntrySet(c)
  BY DEF FillEntry, WalkPoints
<1>2. Table(c) \in 1..Len(tables) /\ Index(c) \in Indices
  BY <1>1, WalkPlace DEF Faults, NULL
<1>3. Grown /\ tables'[Table(c)][Index(c)] # NULL
  BY <1>2, GrownFill DEF FillEntry
<1>4. UNCHANGED <<mms, lpc, kind>>
  BY DEF FillEntry
<1> QED
  BY <1>1, <1>3, <1>4, WalkEntrySet

\* An entry that was tested or filled is followed to the next level, or to the next
\* page.
LEMMA WalkFollow ==
  ASSUME WalkInv, NEW c \in Cpus, FollowEntry(c)
  PROVE  WalkInv'
<1>1. WalkType /\ WalkOK(c) /\ cpc[c] = "follow" /\ cpc[c] \in WalkPoints /\ ~Faults(c)
  BY WalkInvParts DEF FollowEntry, Goto, WalkPoints
<1>2. /\ UNCHANGED <<mms, tables, lpc, kind, overlapped>>
      /\ at' = Set(at, c, tables[Table(c)][Index(c)])
      /\ walk' = [walk EXCEPT ![c][1] = Tail(walk[c][1])]
  BY DEF FollowEntry, spaces
<1>3. /\ walk[c] \in Seq(Seq(Indices)) /\ Len(walk[c]) \in Nat \ {0}
      /\ walk[c][1] \in Seq(Indices) /\ Len(walk[c][1]) \in 2..4
      /\ \A n \in 2..Len(walk[c]) : Len(walk[c][n]) = 4
      /\ Index(c) \in Indices /\ Table(c) \in 1..Len(tables)
  BY <1>1, WalkPlace DEF WalkOK, PathsLeft, Faults, NULL
<1> DEFINE e == tables[Table(c)][Index(c)]
<1>4. Control' /\ cpc'[c] = "test" /\ \A d \in Cpus : d # c => cpc'[d] = cpc[d]
  BY <1>1, Went DEF FollowEntry, WalkType, Points, WalkPoints
<1>5. e \in 0..Len(tables) /\ e \in Nat /\ (~overlapped[c] => e # NULL)
  BY <1>1, <1>3 DEF WalkInv, Pointers, WalkOK, PointersHeld, WalkType
<1>6. /\ at' \in [Cpus -> Nat] /\ at'[c] = e
      /\ \A d \in Cpus : d # c => at'[d] = at[d]
  BY <1>1, <1>2, <1>5 DEF WalkType, Set
<1> HIDE DEF e
<1>7. Tail(walk[c][1]) \in Seq(Indices) /\ Len(Tail(walk[c][1])) \in 1..3
  <2>0. Len(walk[c][1]) \in 2..4
    BY <1>3
  <2>1. walk[c][1] # <<>>
    BY <2>0, NotEmpty
  <2>2. /\ Tail(walk[c][1]) \in Seq(Indices)
        /\ Len(Tail(walk[c][1])) = Len(walk[c][1]) - 1
    BY <1>3, <2>1, HeadTailProperties
  <2> QED
    BY <2>0, <2>2
<1> DEFINE v == [walk[c] EXCEPT ![1] = Tail(walk[c][1])]
<1>8. /\ v \in Seq(Seq(Indices)) /\ Len(v) = Len(walk[c])
      /\ v[1] = Tail(walk[c][1]) /\ \A n \in 2..Len(v) : v[n] = walk[c][n]
  BY <1>3, <1>7, ExceptSeq
<1>9. walk' = [walk EXCEPT ![c] = v]
  BY <1>1, <1>2 DEF WalkType
<1> HIDE DEF v
<1>10. /\ walk' \in [Cpus -> Seq(Seq(Indices))] /\ walk'[c] = v
       /\ \A d \in Cpus : d # c => walk'[d] = walk[d]
  BY <1>1, <1>8, <1>9 DEF WalkType
<1>11. WalkType' /\ Grown
  BY <1>1, <1>2, <1>4, <1>6, <1>10, GrownUnchanged DEF WalkType
<1>12. WalkOK(c)'
  <2>1. PathsLeft(c)'
    <3>1. walk'[c] # <<>>
      BY <1>3, <1>8, <1>10, NotEmpty
    <3>2. Len(walk'[c][1]) \in 1..4
      <4>1. walk'[c][1] = Tail(walk[c][1])
        BY <1>8, <1>10
      <4> QED
        BY <1>7, <4>1
    <3>3. \A n \in 2..Len(walk'[c]) : Len(walk'[c][n]) = 4
      BY <1>3, <1>8, <1>10
    <3> QED
      BY <1>4, <3>1, <3>2, <3>3 DEF PathsLeft
  <2>2. PointersHeld(c)'
    BY <1>1, <1>2, <1>4, <1>5, <1>6 DEF WalkOK, PointersHeld
  <2> QED
    BY <1>4, <2>1, <2>2 DEF WalkOK
<1>13. at'[c] \in 0..Len(tables')
  BY <1>2, <1>5, <1>6
<1> QED
  BY <1>2, <1>4, <1>6, <1>10, <1>11, <1>12, <1>13, WalkStepped

\* Every call that a step of the loader overlaps is marked.
LEMMA WalkLoader ==
  ASSUME WalkInv, LoadMalloc \/ LoadPgd \/ LoadMmap
  PROVE  WalkInv'
<1>1. WalkType /\ Pointers /\ Loading
  BY DEF WalkInv
<1>2. mms \in Seq(Space) /\ Len(mms) \in Nat \ {0} /\ Len(tables) \in Nat
  BY <1>1 DEF WalkType
<1>3. UNCHANGED <<cpc, walk, kind, at>> /\ overlapped' = [c \in Cpus |-> cpc[c] # "user"]
  BY DEF LoadMalloc, LoadPgd, LoadMmap, Touch, walks
<1>4. Grown
  BY GrownUnchanged, GrownAppend DEF LoadMalloc, LoadPgd, LoadMmap
<1>5. /\ mms' \in Seq(Space) /\ Len(mms') \in Nat \ {0}
      /\ \A n \in 1..Len(mms') : mms'[n].pgd \in 0..Len(tables')
      /\ Loading'
  <2>1. \A n \in 1..Len(mms) : mms[n] \in Space /\ mms[n].pgd \in 0..Len(tables)
    BY <1>1, <1>2 DEF Pointers
  <2>2. CASE LoadMalloc
    <3>1. [pgd |-> UNSET, mmap |-> FALSE] \in Space
      BY DEF Space, UNSET
    <3>2. /\ mms' \in Seq(Space) /\ Len(mms') = Len(mms) + 1
          /\ \A n \in 1..Len(mms) : mms'[n] = mms[n]
          /\ mms'[Len(mms) + 1] = [pgd |-> UNSET, mmap |-> FALSE]
      BY <1>2, <2>2, <3>1 DEF LoadMalloc
    <3>3. UNCHANGED tables /\ lpc' = "malloced"
      BY <2>2 DEF LoadMalloc
    <3>4. ASSUME NEW n \in 1..Len(mms') PROVE mms'[n].pgd \in 0..Len(tables')
      <4>1. CASE n \in 1..Len(mms)
        BY <2>1, <3>2, <3>3, <4>1
      <4>2. CASE n = Len(mms) + 1
        BY <1>2, <3>2, <3>3, <4>2 DEF UNSET
      <4> QED
        BY <1>2, <3>2, <4>1, <4>2
    <3> QED
      BY <1>2, <3>2, <3>3, <3>4 DEF Loading
  <2>3. CASE LoadPgd \/ LoadMmap
    <3> DEFINE new == IF LoadPgd THEN [mms[Len(mms)] EXCEPT !.pgd = Len(tables')]
                      ELSE [mms[Len(mms)] EXCEPT !.mmap = TRUE]
    <3>1. Len(tables') \in Nat /\ Len(tables) <= Len(tables')
      BY <1>2, <1>4 DEF Grown
    <3>2. new \in Space /\ new.pgd \in 0..Len(tables')
      <4>1. mms[Len(mms)] \in Space /\ mms[Len(mms)].pgd \in 0..Len(tables)
        BY <1>2, <2>1
      <4>2. CASE LoadPgd
        BY <3>1, <4>1, <4>2 DEF Space
      <4>3. CASE ~LoadPgd
        <5>1. new = [mms[Len(mms)] EXCEPT !.mmap = TRUE]
          BY <4>3
        <5>2. new \in Space /\ new.pgd = mms[Len(mms)].pgd
          BY <4>1, <5>1 DEF Space
        <5> QED
          BY <1>2, <3>1, <4>1, <5>2
      <4> QED
        BY <4>2, <4>3
    <3>3. mms' = [mms EXCEPT ![Len(mms)] = new]
      BY <2>3 DEF LoadPgd, LoadMmap
    <3> HIDE DEF new
    <3>4. /\ mms' \in Seq(Space) /\ Len(mms') = Len(mms)
          /\ \A n \in 1..Len(mms) : n # Len(mms) => mms'[n] = mms[n]
          /\ mms'[Len(mms)] = new
      BY <1>2, <3>2, <3>3, ExceptSeq
    <3>5. ASSUME NEW n \in 1..Len(mms') PROVE mms'[n].pgd \in 0..Len(tables')
      <4>1. CASE n = Len(mms)
        BY <3>2, <3>4, <4>1
      <4>2. CASE n # Len(mms)
        <5>1. mms'[n] = mms[n] /\ mms[n].pgd \in 0..Len(tables)
          BY <2>1, <3>4, <4>2
        <5> QED
          BY <1>2, <3>1, <5>1
      <4> QED
        BY <4>1, <4>2
    <3>6. Loading'
      <4>1. CASE LoadPgd
        <5>1. lpc' = "pgd" /\ Len(tables') = Len(tables) + 1
          BY <4>1, GrownAppend DEF LoadPgd
        <5>2. mms'[Len(mms')].pgd = Len(tables')
          BY <1>2, <2>1, <3>4, <4>1 DEF Space, new
        <5> QED
          BY <1>2, <5>1, <5>2 DEF Loading, mm, UNSET
      <4>2. CASE LoadMmap /\ ~LoadPgd
        <5>1. lpc = "pgd" /\ lpc' = "outside"
          BY <4>2 DEF LoadMmap
        <5>2. mms[Len(mms)].pgd # UNSET /\ mms[Len(mms)] \in Space
          BY <1>1, <1>2, <2>1, <5>1 DEF Loading, mm
        <5>3. mms'[Len(mms')] = [mms[Len(mms)] EXCEPT !.mmap = TRUE]
          BY <3>4, <4>2 DEF new
        <5>4. mms'[Len(mms')].pgd # UNSET /\ mms'[Len(mms')].mmap
          BY <5>2, <5>3 DEF Space
        <5> QED
          BY <5>1, <5>4 DEF Loading, mm
      <4> QED
        BY <2>3, <4>1, <4>2
    <3> QED
      BY <1>2, <3>4, <3>5, <3>6
  <2> QED
    BY <2>2, <2>3
<1>6. overlapped' \in [Cpus -> BOOLEAN]
  BY <1>3
<1>7. WalkType'
  BY <1>1, <1>3, <1>4, <1>5, <1>6 DEF WalkType, Control, Grown
<1>8. Pointers'
  <2>1. Len(tables') \in Nat /\ Len(tables) <= Len(tables')
    BY <1>2, <1>4 DEF Grown
  <2>2. \A c \in Cpus : at'[c] \in 0..Len(tables')
    BY <1>1, <1>2, <1>3, <2>1 DEF Pointers
  <2> QED
    BY <1>4, <1>5, <2>2 DEF Pointers, Grown
<1>9. \A c \in Cpus : WalkOK(c)'
  BY <1>3, <1>4, WalkKept
<1> QED
  BY <1>5, <1>7, <1>8, <1>9, WalkInvPartsNext

\* Copies and reads leave the walks alone.
LEMMA WalkFrame ==
  ASSUME WalkInv, UNCHANGED <<spaces, lpc, walks>>, Control',
         overlapped' \in [Cpus -> BOOLEAN],
         \A d \in Cpus : \/ cpc'[d] = cpc[d] /\ overlapped'[d] = overlapped[d]
                         \/ cpc'[d] \notin WalkPoints \cup {"fault"}
  PROVE  WalkInv'
<1>1. UNCHANGED <<mms, tables, walk, kind, at>>
  BY DEF spaces, walks
<1>2. WalkType' /\ Pointers' /\ Loading'
  BY <1>1 DEF WalkInv, WalkType, Pointers, Loading, mm
<1>3. ASSUME NEW d \in Cpus PROVE WalkOK(d)'
  <2>1. CASE cpc'[d] \notin WalkPoints \cup {"fault"}
    BY <2>1 DEF WalkOK, PathsLeft, PointersHeld
  <2>2. CASE cpc'[d] = cpc[d] /\ overlapped'[d] = overlapped[d]
    BY <1>1, <2>2, GrownUnchanged, WalkKept
  <2> QED
    BY <2>1, <2>2
<1> QED
  BY <1>2, <1>3, WalkInvPartsNext

\* The invariant of the walks holds at the start.
LEMMA WalkInvInit == Init => WalkInv
<1> SUFFICES ASSUME Init PROVE WalkInv
  OBVIOUS
<1>1. mms = <<[pgd |-> 1, mmap |-> TRUE]>> /\ tables = <<EmptyTable>>
  BY DEF Init
<1>2. EmptyTable \in [Indices -> Nat] /\ EmptyTable \in [Indices -> 0..1]
  BY DEF EmptyTable, NULL
<1>3. /\ mms \in Seq(Space) /\ mms # <<>> /\ Len(mms) = 1 /\ mms[1] = [pgd |-> 1, mmap |-> TRUE]
      /\ tables \in Seq([Indices -> Nat]) /\ Len(tables) = 1 /\ tables[1] = EmptyTable
  BY <1>1, <1>2 DEF Space
<1>4. WalkType
  BY <1>3 DEF Init, WalkType, Control, Points, NULL
<1>5. Pointers
  BY <1>2, <1>3 DEF Init, Pointers, NULL
<1>6. Loading
  BY <1>3 DEF Init, Loading, mm, UNSET
<1>7. \A c \in Cpus : cpc[c] = "user"
  BY DEF Init
<1> QED
  BY <1>4, <1>5, <1>6, <1>7 DEF WalkInv, PathsLeft, PointersHeld, WalkPoints, OnlyLoadsFault

\* Every step keeps it.
LEMMA WalkInvNext == WalkInv /\ [Next]_vars => WalkInv'
<1> SUFFICES ASSUME WalkInv, [Next]_vars PROVE WalkInv'
  OBVIOUS
<1>0. WalkType /\ Control
  BY DEF WalkInv, WalkType
<1>1. CASE UNCHANGED vars
  <2>1. UNCHANGED <<cpc, spaces, lpc, walks, overlapped>>
    BY <1>1 DEF vars
  <2> QED
    BY <1>0, <2>1, WalkFrame DEF Control, WalkType
<1>2. CASE Loader
  BY <1>2, WalkLoader DEF Loader
<1>3. ASSUME NEW c \in Cpus, WalkStep(c), ~vmap_nothing(c) PROVE WalkInv'
  BY <1>3, WalkBegun, WalkFault, WalkTest, WalkFill, WalkFollow DEF WalkStep
<1>4. ASSUME NEW c \in Cpus,
             \/ CopyStep(c) \/ vmap_nothing(c)
             \/ Library(c) /\ UNCHANGED <<spaces, lpc, walks>>
      PROVE  WalkInv'
  <2>1. UNCHANGED <<spaces, lpc, walks>>
    BY <1>4 DEF vmap_nothing, CopyStep, MemWrite, SwapBegin, SwapRead, SwapWrite, SwapReturn
  <2>2. overlapped' = overlapped \/ \E v \in BOOLEAN : overlapped' = Set(overlapped, c, v)
    <3>1. CASE CopyStep(c) \/ vmap_nothing(c)
      BY <3>1 DEF CopyStep, MemWrite, SwapBegin, vmap_nothing, Call, SwapRead, SwapWrite,
                  SwapReturn
    <3>2. CASE Library(c)
      BY <3>2 DEF Library, __free, __alloc, __read, Call, FreeStart, FreeEnd, AllocStart, AllocEnd,
                  ReadStartZero, ReadEndZero, ReadSum, ReadBound, ReadReturn, ReadTest
    <3> QED
      BY <1>4, <3>1, <3>2
  <2>3. /\ overlapped' \in [Cpus -> BOOLEAN]
        /\ \A d \in Cpus : d # c => overlapped'[d] = overlapped[d]
    BY <1>0, <2>2 DEF WalkType, Set
  <2>4. /\ Control' /\ cpc'[c] \notin WalkPoints \cup {"fault"}
        /\ \A d \in Cpus : d # c => cpc'[d] = cpc[d]
    <3>1. CASE vmap_nothing(c)
      BY <1>0, <3>1, Went DEF vmap_nothing, Call, Points, WalkPoints
    <3>2. CASE ~vmap_nothing(c)
      BY <1>0, <1>4, <3>2, CopyControl, LibraryControl
         DEF WalkPoints, CopyPoints, ReadPoints, LockPoints
    <3> QED
      BY <3>1, <3>2
  <2> QED
    BY <2>1, <2>3, <2>4, WalkFrame
<1> QED
  BY <1>1, <1>2, <1>3, <1>4, KernelSteps DEF Next, Step, Terminated

\* However the walks of several CPUs overwrite each other's directories, one faults
\* only if krnl->mm was being replaced while it ran (mm64.c, print_pgtbl; os.c,
\* ld_routine).
THEOREM WalksFaultByLoadsOnly == Spec => []OnlyLoadsFault
<1>1. WalkInv => OnlyLoadsFault
  BY DEF WalkInv
<1> QED
  BY WalkInvInit, WalkInvNext, <1>1, PTL DEF Spec

\* Pointers lead to tables that were made, and what is read and written of the
\* devices is on them (mm64.c, mm-memphy.c).
THEOREM SysMemTypes == Spec => []TypeOK
<1>1. WalkInv /\ CopyInv => TypeOK
  <2> SUFFICES ASSUME WalkInv, CopyInv PROVE TypeOK
    OBVIOUS
  <2>1. mram.storage \in [RamCells -> Values] /\ active_mswp.storage \in [SwapCells -> Values]
    BY DEF CopyInv, CopyType, RamDevice, SwapDevice
  <2>2. \A c \in Cpus : cpc[c] \in {"read", "write"} => copy[c].cell < PAGING_PAGESZ
    BY DEF CopyInv, WithinFrames, Copying
  <2> QED
    BY <2>1, <2>2 DEF TypeOK, WalkInv, Pointers
<1> QED
  BY WalkInvInit, WalkInvNext, CopyInvInit, CopyInvNext, <1>1, PTL DEF Spec

=============================================================================
