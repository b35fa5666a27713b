# A TLA+ model of the OS simulator

The repository is a simulator of a small operating system. A configuration
names a time slot, a number of CPUs and a list of processes with their start
times and priorities. `main` (`os.c`) starts one thread per CPU, one loader
thread and one timer thread; the CPUs take processes from a multi-level queue
scheduler, run one instruction per time slot, and the instructions allocate,
free, read and write memory through a paging library that calls the simulated
kernel by system calls.

## Inventory

| part | state | operations | talks to | what makes it correct |
|---|---|---|---|---|
| timer (`timer.c`) | `_time`; list `dev_list`; per device the flags `done`, `fsh`, two mutexes, two condition variables | `attach_event`, `start_timer`, `next_slot`, `detach_event`, `timer_routine`, `stop_timer` | every CPU and the loader, by flags and signals | one turn per device per slot; no lost wakeup; the timer outlives its devices |
| scheduler (`sched.c`) | one ready queue per level, `currentPrio`, `used_slot`, `running_list` (see queue and system calls), a mutex | `get_proc`, `put_proc`, `add_proc` | CPUs, loader | budgets and urgency; no process lost or duplicated |
| queue (`queue.c`) | array and size | `enqueue`, `dequeue`, `empty` | scheduler, system calls | FIFO; intact under concurrent use; what happens when it is full |
| simulator threads (`os.c`) | per CPU `proc`, `time_left`; loader's `i`; `done` | `cpu_routine`, `ld_routine`, `main` | scheduler, timer, kernel | every process runs to its end on one CPU at a time; everybody stops |
| system calls (`syscall.c`, `sys_mem.c`, `sys_xxxhandler.c`, `sys_listsyscall.c`, `libstd.c`) | a mutex of their own | look up the caller in `running_list`; memory operations | queue, memory | the lookup finds the caller and leaves the list as it was |
| virtual memory (`libmem.c`, `mm-vm.c`) | symbol table, free regions, one area with `vm_end` and `sbrk` | `liballoc`, `libfree`, `libread`, `libwrite`, `inc_vma_limit` | system calls, page tables | regions do not overlap; no byte lost; a write is stored |
| page tables (`mm64.c`) | 5-level table, `fifo_pgn` | `pte_set_fpn`, `pte_set_swap`, `pte_get_entry`, mapping | physical memory | an entry reads back what was set |
| physical memory (`mm-memphy.c`) | storage, list of free frames | read, write, get and put a frame | page tables | a frame has one owner |
| cpu, loader (`cpu.c`, `loader.c`) | program counter; next pid | `run`, `load` | all of the above | one instruction per slot |
| legacy (`mem.c`, `paging.c`, `mm.c`) | - | not used by the configured build (`MLQ_SCHED`, `MM_PAGING`, `MM64`) | - | - |

What is hard to test here: all of it runs on threads. The timer's handshake
uses two mutexes for one flag; the scheduler's operations are made of separate
critical sections; `done` and `krnl->mm` are shared without a lock; two mutexes
that share the name `queue_lock` protect, or fail to protect, one list; the free list
of the memory library is edited in place over long call sequences; sizes lose
bits on their way and sums of addresses wrap; and page tables, devices and
regions are walked, copied and read without a lock.
The list of hazards in `PROJECT.json` names each place.

## Modules

```
 SlotBarrier  <--implements--  Timer  <-- TimerProofs (theorems)
      ^ INSTANCE
      |
     OS  --EXTENDS-->  Sched  --EXTENDS-->  Queue  <--EXTENDS--  RunningList
      ^                ^   ^
      |                |   +---- SchedPolicy <--+                VirtMem
      |           SchedLemmas                   |
      |            |   +------------------- SchedProofs (theorems)
      +--------- OSProofs (theorems)

 PageMap  <--implements--  PageTable  --EXTENDS-->  MemPhy  <--EXTENDS--  SysMem

 RunningListProofs, VirtMemProofs, PageTableProofs and SysMemProofs (theorems)
 extend the module they are named after.
```

* **SlotBarrier**: the abstract specification of the timer. A device is
  working, has arrived (is in `next_slot`) or is gone; a tick happens when
  nobody works and releases everybody at once.
* **Timer**: `timer.c` at the level of its mutexes. Taking a mutex is a step,
  the critical section up to the unlock or the `pthread_cond_wait` is the next
  one. Condition variables are control points: a signal moves the waiting thread
  back to where it asks for the mutex, and so may a wakeup without a cause
  (`SpuriousTimer`, `SpuriousDevice`). Container `k` is the `k`-th attached
  device and its `next` is `k - 1`, so the list is its head. A device is either
  `cpu_routine` or `ld_routine`; all the timer sees of them is `next_slot` and
  `detach_event`. `calls` is a history variable.
* **Queue**: `queue.c` as sequences, with the silent refusal of a full queue.
* **Sched**: `sched.c`; an operator per critical section. `Dispatch` is
  `get_mlq_proc` when something is ready, broken into the ideas of its code:
  `Restart` (line 82), `WithinBudget` (87), `nextPrio` (the circular scan).
* **SchedPolicy**: the scheduler used in every possible order, with history
  variables that count dispatches independently of `used_slot`.
* **OS**: `cpu_routine` and `ld_routine`. A step ends where another thread can
  see or change something: at each critical section of the scheduler, at the
  read of `done`, at `next_slot` and `detach_event`. `put_proc` is two steps and
  the `get_proc` after it a third; a CPU that decides to stop has called
  `get_proc` in an earlier step. `freed` records freed pcbs; `mm` is the owner
  of `krnl->mm`. `load` reads a file and touches nothing shared, so it is part
  of the loader's next step. The mutexes themselves are not state here: a
  critical section is one step. What an instruction does to memory and to
  `running_list` (`cpu.c:77-106`) is not state here either: `cpu_routine` looks
  at the program counter only, and neither it nor the scheduler ever reads
  `running_list`. Those effects are in VirtMem, SysMem and RunningList; an
  instruction that ends the simulator (SysMem has such) is outside OS.
* **RunningList**: `running_list` as array and size, where an access to memory
  is a step, as the unoptimised build of the Makefile makes them. Threads in
  `put_proc`/`add_proc` hold the mutex of `sched.c`; threads in `__sys_memmap` or
  `__sys_xxxhandler` (the same search) hold the one of `sys_mem.c`. `list` is
  the sequence the completed calls should have produced (by `Queue`), and `mixed`
  records that a thread took one mutex while the other was held. An access outside
  the array has no defined effect, so the thread stops in front of it (`Undefined`).
* **VirtMem**: one address space between two loads. A library call holds
  `mmvm_lock` throughout and is one action; system call 17 is part of it. The
  linked list of free regions is a sequence. Addresses and sizes are `addr_t`,
  and a sum of them wraps (`Add`, modulo `ADDR_MAX + 1`); `get_free_vmrg_area` and
  `inc_sz` make the size an `int` (`Narrow`, modulo `2 * (INT_MAX + 1)` and signed),
  while the region that extends the area has all of it. `given` and `leaked` count
  bytes for the conservation law; `oversized` counts requests for more than
  `INT_MAX` bytes and `misfit` records that a region of another size than asked
  for was handed out. Two things of the code are constants here: `pt`
  stays NULL after `init_mm`, and the frame list `vm_map_ram` passes on stays
  empty because its call of `alloc_pages_range` is commented out.
* **MemPhy**: a device of `mm-memphy.c` as operators on its cells and its list of
  free frames, used by the two modules below. The cursor is left out: the
  sequential accesses, which alone move it, refuse every device that
  `MEMPHY_read` and `MEMPHY_write` call them for.
* **PageMap**: the abstract specification of a page table: a map from pages to
  "unmapped", "online in a frame" or "swapped to a place"; entering a page
  changes no other.
* **PageTable**: `mm64.c` under `mm64_lock`. A machine word is the set of the
  positions of its one-bits, so the macros of `mm.h` are set operations and exact
  at full width, and the indices of the walk are the real ones. Every function
  that makes an entry is an action, `vmap_page_range` one action per page
  because it takes the lock per page; `alloc_pages_range` with its roll-back,
  `init_pte` with its refusals, `free_pcb_memph`. `alloc_pages_range` takes no lock
  over its loop; the module has one caller of it at a time. `req` is the last entry made and
  belongs to the interface of PageMap; `entered` is a ghost. In the configured
  build nothing calls these functions with frames (`mm64.c:534` is commented
  out), so this module is about the interface as it is offered, called in every
  order. What that means for a program, that no page is ever present, is in
  VirtMem.
* **SysMem**: what CPUs do at the same time outside a common lock, one access to
  shared memory per step. `print_pgtbl` runs after every library call, once
  `mmvm_lock` has been given up, and fills in missing directories: test, fill and
  follow are steps. `SYSMEM_MAP_OP` walks likewise and then faults, because
  `mm->pt` is NULL. The loader replaces `krnl->mm` in three stages. `__swap_cp_page`
  reads and writes cell by cell. `__read` reads the two bounds of a region one by
  one while `__free` and `__alloc` store them. A pointer that is NULL or was never
  set ends the program; `overlapped`, `disturbed` and `reassigned` are ghosts that
  record interference. The sum of a region's start and an offset wraps, and the
  test `offset < 0` is dead, so a negative offset is a large one. A MAP_OP for no
  pages does nothing (`vmap_nothing`). A behaviour chooses one combination of operations (`mix`)
  at the start.
* **TimerProofs**, **SchedLemmas**, **SchedProofs**, **OSProofs**,
  **RunningListProofs**, **VirtMemProofs**, **PageTableProofs**, **SysMemProofs**:
  theorems; see "Proofs". SchedLemmas holds what both users of the scheduler need: what
  `highestPrio` and `nextPrio` find, and what enqueue and dequeue do to a queue's
  contents.
* **MC...**: the modules TLC runs on.

Definitions whose comment begins with "Mutated" are seeded faults used to see
that each property can fail; no specification refers to them.

## Runs

| run | instance | shows |
|---|---|---|
| `timer` | 3 devices, `next_slot` called in slots 0 and 1, then detaching at any time | `Lockstep`: a working device has had exactly one turn per tick; `TimerExitsLast`: the timer leaves after the last device; `BarrierSafe`, `BarrierFair`: it implements `SlotBarrier` with its fairness; `NextSlotReturns`: no wakeup is lost; `MainReturns` |
| `sched_policy` | 3 levels, 3 processes with every assignment of levels | `BudgetBounds`: level l gets at most MAX_PRIO - l dispatches in a row while a less urgent process waits; `UrgentFirst`: a more urgent process is passed over only right after such a run |
| `os` | 2 CPUs, loader, 3 processes of sizes in {0,1,3} at every assignment of 3 levels, quantum 2 | `AtMostOnePlace`: no process is ready twice, ready while it runs, or anywhere once freed; `NoProcLost`; `StopMeansFinished`; `FreshQuantum`; `AllFinish` under fairness: every process runs to its end, also at a level the circular scan passes over |
| `running_list` | two `put_proc` and one system call, or one and two, overlapping, on every list of up to 3 entries in an array of 3 | `KeptUnlessMixed`: the list is intact, full or not, unless both kinds of threads were inside together; `SearchFinds`: until then a search ends with its caller exactly if it is listed, and leaves it listed |
| `page_table` | pages 511, 512 and one that differs from 512 at the top level; 3 frames; requests of 1 or 2 frames; 1 swap type, 2 offsets | `FramesPartitioned`: no frame is lost, doubled or handed out while free, also when a request fails half way; `NoFrameShared`; `ImplementsPageMap`: an entry says what it was set to whatever it held before, and no other entry changes |
| `sys_mem` | 2 CPUs, walks over one or two directories, 2 frames and 1 swap frame of 2 cells, 4 regions, offsets 0, 1 and -1; 2 to 4 calls of the operations that share state | `OnlyLoadsFault`: walks may overwrite each other's directories but follow no unset pointer unless `krnl->mm` is replaced under them; `UndisturbedCopy`: a page copy is exact unless another CPU writes one of its frames; `ReadBelowEnd`: a racing release cannot push a read past the end its region had, only a racing allocation can, or a sum that wrapped when it was tested and then no longer does |
| `virt_mem` | 2 registers, `int` of 0..2 and -3..-1, addresses 0..7, sizes 0, 1, 2, 5 (narrowed to -1) and 6 (narrowed to 0), at most 5 bytes of extensions and one oversized request, lookups that may fail | `FreeListShape`, also after narrowed sizes; `MisfitOnlyOversized`: sizes that fit an `int` get what they ask for; `BytesConserved`: until a region of another size is handed out, no byte is lost or doubled |

Five runs show where the code does not do what a comment says (details under
"findings" in `PROJECT.json`):

| run | violated | because |
|---|---|---|
| `os_termination` | `Termination` | an idle CPU never looks at `done` (`os.c:58`), so `main` never returns |
| `os_address_space` | `OwnAddressSpace` | all processes share the `krnl->mm` the loader replaces (`os.c:125`) |
| `running_list_race` | `QueueStateKept` | the list is accessed under two different mutexes (`sys_mem.c:44`, `sched.c:148`) |
| `virt_mem_overlap` | `NoOverlap` | `sbrk` never moves (`mm-vm.c:143`) |
| `virt_mem_write` | `WriteStores` | `__write` ignores that no page is ever present (`libmem.c:390`) |

### Bounds

* `MaxSlots` (Timer) bounds the slots in which a device may call `next_slot`.
  Two are enough for what spans slots: a device released early that is back in
  `next_slot` before the release walk ends, and one that detaches in another
  slot than its neighbours. Three devices give the walk a first, a middle and
  a last element. The theorems have neither bound.
* OS: 2 CPUs are the least for races between CPUs; 3 processes at 3 levels the
  least with a level that the scan passes over while both more urgent ones are
  ready; size 0 is a program that ends without running, size 1 one that ends
  within its first quantum, size 3 with quantum 2 one that is preempted once and
  ends with time left. All start at time 1, so that the CPUs find nothing at first,
  and are loaded one per slot; short programs leave gaps before the next one.
  The clock stops at the last start time (`LastStart`): it is read only to be
  compared with start times.
* SchedPolicy: three levels are needed to tell "the next level" from "the lowest
  level". `streak` saturates at `MAX_PRIO`.
* RunningList: each thread makes one call; the initial list is arbitrary. Two
  threads of a kind and one of the other are the least that have calls excluding
  each other and calls that do not. The threads of a kind are interchangeable
  (`ThreadSymmetry`).
* PageTable: the neighbours 511 and 512 carry into the next level, the third page
  shares no directory with them, so paths that differ late, early and across a
  carry are all there. Three frames let a request fail with one or none left
  (`MaxRequest` 2) and give frame 0, which `init_pte` refuses. The swap offsets are
  0 and one with bits above and below the frame field's end. The page size
  matters only for the number of frames.
* SysMem: `Mixes` lists which operations may overlap (loader with walks, walks
  alone, writes with copies, reads with allocations and releases) and bounds the
  calls made in all; operations of different mixes share no state, but for the
  loader, whose new `krnl->mm` also has another symbol table. Two walks and a load
  suffice for every pair of accesses to meet; four calls for a register that is
  assigned, released and assigned again around a read. `MaxLoads` is 1. A MAP_OP
  comes no further than its first page. Devices have two cells per frame, the
  least that can be torn.
* SysMem, regions and offsets: addresses are 3 bits wide. One region starts at 0,
  one starts later and ends with it, one follows, and one ends before it starts, as
  VirtMem can produce; the offset 7 is -1. A write or a swap names a cell or a frame
  the device has.
* VirtMem: `MaxGrowth` bounds the bytes obtained by extension and `MaxOversized`
  the requests above `INT_MAX`: each such request can move the start of a free
  region down, and one is enough for every effect of the narrowing. Narrow
  types keep the instance small and have what matters: sizes that become
  negative, that become 0, and that stay; twice the range of an `int` fits into
  an address, as it does in the code. The theorems are for every width.
  Register numbers are in the table.

### What the widths mean

Two of the code's habits with integers are in the models and bound what the
properties can claim.

* A size above 2^31-1 is narrowed by `get_free_vmrg_area` (`libmem.c:490`). With an
  `int` of -3..2: alloc 2, free it, alloc 1, alloc 5. The 5 becomes -1 and finds
  "room" in the free region [1,2); the register gets [1,0) and the free region becomes
  [0,2), beside the register that has [0,1). The program does the same at full
  width with alloc 10, free, alloc 5, alloc 4294967293. So `BytesConserved` claims
  nothing from then on (`misfit`), while `FreeListShape` goes on to hold.
* In `__read` a negative offset is a large `addr_t`, and `offset < 0` is never true
  (`libmem.c:338`). Of the region [1,2), offset 2^64-1 passes the test, because the sum
  wraps to 0, and reads address 0, which is not in the region; after a release in
  between, the address is 2^64-1. `ReadBelowEnd` names this case
  (`Wraps`) beside the one of a register assigned anew.

### Fairness

* Timer: each thread keeps running (weak fairness of its steps, the device's
  work in a slot being bounded), and a mutex that becomes free again and again
  is eventually granted (strong fairness of `TimerLockTimer`, `NextSlotLock`,
  `DetachLock`). POSIX mutexes do not promise that in general; the default
  mutex of Linux under a preemptive scheduler behaves so. Spurious wakeups are
  never assumed.
* OS: each thread keeps running and the barrier ticks; that a tick owed is
  delivered is what `BarrierFair` shows of the timer.

## Proofs

`TimerProofs` proves, for any number of devices and slots, from `NAssumption`
(at least one device) and nothing else about the constants:

* `TypeCorrect`: `Spec => []TypeOK`;
* `LockstepTheorem`: `Spec => []Lockstep`;
* `TimerExitsLastTheorem`: `Spec => []TimerExitsLast`;
* `TimerImplementsBarrier`: `Spec => BarrierSafe`, the refinement of
  `SlotBarrier` (without its fairness).

All rest on one inductive invariant `IInv`. `Lockstep` by itself is not
inductive: whether a device that returns from `next_slot` has counted the right
tick depends on what the timer's walks know of the devices behind and ahead of
`temp`. `Passed` says it: during the first walk every device behind `temp` has
`done` or `fsh`, during the second every device not yet reached still has.
`Flags` ties a device's flags to its control point, so a set `done` means the
device is inside `next_slot`; `InStep` gives the number of its returned calls in
each of these cases; `Counted` says the two counters agree only if all counted
devices have detached; `Setup` relates `main` to both. The refinement maps a
device to "arrived" while its `done` is set, except between the tick and its own
release, when it already belongs to the next slot: so the tick of the abstract
barrier is `TimerTick`, and the releases are invisible.

`SchedProofs` proves, for any number of levels and processes (assumption
`MaxPrioAssumption`: at least one level), about the scheduler used in any order:

* `TypeCorrect`: `Spec => []TypeOK`;
* `BudgetTheorem`: `Spec => []BudgetBounds`;
* `UrgentFirstTheorem`: `Spec => UrgentFirst`.

The properties speak of the history of dispatches (`last`, `streak`, `hogged`),
the code keeps only `currentPrio` and `used_slot`. The invariant `History` ties
the two: `last` is `currentPrio`, and `hogged <= used_slot <= slot[currentPrio]`,
`used_slot <= streak`. The lemma `Choice` says what a dispatch does in these
terms: it goes on with the current level, which has budget left, or it begins
another run; it comes back to the same level with its budget used up only if no
less urgent level has a process (`NextPrio` about the circular scan).

`OSProofs` proves, for any number of CPUs, processes and levels, any quantum,
start times, program sizes and queue size: `TypeCorrect`,
`AtMostOnePlaceTheorem`, `NoProcLostTheorem`, `FreshQuantumTheorem` and
`StopMeansFinishedTheorem`, each `Spec => []P` for the property P the `os` run
checks. `NoProcLost` says that `EveryProcKept` holds if a queue can hold all
processes; in a smaller one `enqueue` drops processes silently (`queue.c:17`). The
inductive invariant has a part for each reason:

* `ReadyShape` and `Places`: queues do not repeat a process and hold it at its own
  level; what is ready or held is loaded and not freed; what a CPU holds is not
  ready. With them a queue that does not yet hold a process has at most
  `NumProcs - 1` entries (`Room`, a pigeonhole argument), so `enqueue` does not
  drop it, which is what `NoProcLost` needs.
* `Quantum`: `time_left` is 0 wherever a CPU is between two processes.
* `Control`: a CPU in `next_slot` is at the top of its loop, a stopped one has
  seen `done`, and `done` is the loader's last step.
* `Attended`: after the slot in which the last process was added, if a process is
  ready then some CPU is not idle. This is what makes the late read of `done`
  harmless: the loader sets `done` one slot after its last `add_proc`, so a CPU
  that saw empty queues before that process came has gone through the top of its
  loop again, and every later process made ready comes from a CPU that then
  calls `get_proc` itself.

`RunningListProofs` proves, for any threads of both kinds, capacity of the queue,
pids and initial list, `KeptUnlessMixedTheorem`, `RunningListTypes` and `FindsListed`:
`Spec => []P` for `KeptUnlessMixed`, `TypeOK` and `SearchFinds`. The theorems assume
nothing about which calls overlap: behaviours in which an enlister and a searcher are inside
together are among those they speak of, and what is claimed is that
nothing else damages the list. That such an overlap does damage it is what
`running_list_race` shows.

* `StructureInv`: until both mutexes are held at once, a thread inside holds its
  mutex and the other is free, hence there is at most one (`Alone`); while there is
  none, array and size are those of `list` (`Kept`). For
  the one inside, `Structure` says how far it is: the array is `Shifted(n)` before the
  `n`-th turn of the loop in `dequeue`, which moves one entry a turn, leaves the last one
  double, and is `list` without its head only once the last slot is cleared
  (`ShiftBegins`, `ShiftTurns`, `ShiftEnds`).
* `SearchInv`: a search holds an entry in hand between its `dequeue` and `enqueue`
  (`InHand`), so "listed" means in the list or in somebody's hand (`Listed`). The
  entries passed over are at the end of the list, and none has the pid looked for
  (`Passed`); after as many turns as there were entries, that is all of them.

`VirtMemProofs` proves, for any widths of `int` and address, table size, register
numbers, sizes and offsets: `VirtMemTypes` (`TypeOK`), `FreeListKeepsShape`
(`FreeListShape`), `SmallSizesFit` (`MisfitOnlyOversized`) and `NoByteLost`,
`RegistersInTable /\ Spec => []BytesConserved`. `FreeListKeepsShape` holds for the
narrowed sizes too: a node is shrunk only to a start below its end, whatever
the sum was. `SmallSizesFit` says that nothing else than a size above `INT_MAX` makes
a region differ from what was asked for: until there is one, no region anywhere reaches
beyond `INT_MAX` (`Low`), so no sum wraps, given that twice the range of an `int`
fits into an address (`MemAssumption`). `RegistersInTable` says that the
programs name registers of the table; `__alloc` tests nothing, and a region stored
past the table is in nobody's account. `Inv` adds the area's fields and that the free list is
never empty: its last node stays, with size 0. Sums over the list and
the table are a recursive function; that it satisfies its recursion (`SumToStep`),
that changing one summand changes the sum by the difference (`SumUpdate`) and
removing one by that one (`SumRemove`) are proved from the least counterexample
(`LeastNumber`, `Induction`, which speak of sets of numbers and not of operators). On
them rest `ReplaceNode`, `RemoveNode`, `PrependNode` and `OverwriteEntry`: what each
edit of the list and of the table does to shape and bytes at once.

`PageTableProofs` proves, for any set of 57-bit page addresses, any number of frames
up to 13 bits, any request size and any swap places: `PageTableTypes` (`TypeOK`),
`FramesStayPartitioned` (`FramesPartitioned`), `FramesNotShared` (`NoFrameShared`)
and the refinement `TableImplementsMap`, `Spec => ImplementsPageMap`. The
invariant `PInv`:

* `TableShape` and `PathsDiffer`: different pages have different paths, because the
  five index fields together hold every bit of the page number; so setting one entry
  leaves the others alone (`SetOneEntry`).
* `Partition`: free, handed out and entered frames are disjoint, without
  repetition, and together all frames. `alloc_pages_range` moves them one by one and
  its roll-back in reverse (`SplitList`, `ReverseElems`). The refinement needs this
  as well: `PageMap` enters pages into frames of the device only.
* `OnlineEntered`: a page is online only in an entered frame. `NoFrameShared` is not
  inductive without it: a frame handed out is fresh only because an entered one
  never is. It also needs that a frame number survives the entry: what is
  read back from the fields is what was put in (`FieldRoundTrip`, `OnlineEntry`,
  `SwappedEntry`, whatever the word held before), and a number of 13 bits is known by
  its one-bits (`BitsDetermine`, by halving thirteen times).
* `VmapHasFrames`: `vmap_page_range` has a frame as long as it has pages to enter.

`free_pcb_memph` leaves all of it alone: it reads entries through `mm->pt`, which
`init_mm` left NULL, sees no page present and gives no frame back.

`SysMemProofs` proves, for any number of CPUs, any walks, frames, page size and
mixes of operations: `ReadsBelowEnd` (`ReadBelowEnd`), `CopiesUndisturbed`
(`UndisturbedCopy`), `WalksFaultByLoadsOnly` (`OnlyLoadsFault`) and `SysMemTypes`
(`TypeOK`). Walks, copies and reads share nothing but the control of the
CPUs, so each has an invariant of its own, and the steps of the other two kinds are
dismissed together (`WalkControl`, `CopyControl`, `LibraryControl`).

* `ReadInv`: as long as no region is assigned, each bound of the register is the one the
  call found or 0 (`BoundKept`). Past the bounds test the start a second load finds is
  therefore the one tested or 0, and the sum the same or the offset itself
  (`SecondSum`), which is below the end as well unless the first sum wrapped.
* `CopyInv`: the byte in hand is still the one in the source cell unless the copy is
  marked disturbed (`ByteInHand`); a write of a cell meets only copies of the same
  frame (`FrameOfCell`, `CellsDiffer`).
* `WalkInv`: every pointer is NULL or leads to a table made (`Pointers`), and tables are
  added and entries set but never cleared (`Grown`). So the entry a walk has tested or
  filled is still set when it follows it, though another walk may have
  filled it again and the two now part ways (`PointersHeld`).

Every safety property and both refinements of the passing runs are thus proved.
Only model-checked are:

* liveness, because fairness and ENABLED are out of the proof system's reach:
  `NextSlotReturns`, `MainReturns` and `BarrierFair` of the timer, `AllFinish` of the
  simulator;
* the five runs that expect a violation: a counterexample is a behaviour, and the
  run is its proof.

The assumptions on constants are the named `ASSUME`s of the modules, which TLC
evaluates in every run. The proofs added two to SysMem: a range to walk has at least one
page, and a page an index at each of the four levels of directories (`WalksAssumption`), and cells
may hold 0, what they are formatted with (`ValuesAssumption`); and one to
RunningList: a thread is either an enlister or a searcher and neither is the value
"free" of a mutex (`ThreadsAssumption`).

## Not modelled

* The non-MLQ scheduler, `queue_empty`, `purgequeue`, `mem.c`, `paging.c`,
  `mm.c`: not compiled, not called, or not effective in the configured build.
* Parsing of configuration and program files; an out-of-range priority or a
  quantum of 0 is excluded by assumptions. Printing.
* `pgread` and `pgwrite` (never called), `MEMPHY_dump` and the `print_list_*`
  functions (they only print).
* The value a read returns: no page is ever present, so `libread` hands back an
  uninitialised byte, which the interpreter drops.
* That addresses are split into pages of 256 bytes by `pg_getval`/`pg_setval` and
  mapped in pages of 4096 bytes by `vmap_page_range`: no run of the program brings
  the two together.
* Overlapping callers of `alloc_pages_range`, which takes frames one by one without
  a lock (`mm64.c:479-507`); it has no caller in this build. A frame counts as entered
  until `free_pcb_memph`, also when its entry is overwritten.
* Addresses and frames that a program's own system call passes unchecked and the
  device does not have (`sys_mem.c:87`, `:94`); what lies there is a matter of memory layout.
* The free list of the swap device, which `free_pcb_memph` would extend if it saw a
  swapped page.
* Devices of fewer than two frames, whose list `MEMPHY_format` leaves without an
  end, and frame numbers of more than 13 bits (`FramesAssumption`).
* The loader's replacement of `krnl->mm` in the middle of a call of `liballoc`,
  `libfree` or `libwrite`, which would then work on two address spaces; its effect
  on the walks is in SysMem, its consequence for the owner in OS
  (`OwnAddressSpace`). The old structure is abandoned, never freed.
* A freed pcb stays in `running_list` (`os.c:66`), and a later system call reads its
  pid. What such a read returns is undefined; RunningList takes entries to be live.
* `vma0->vm_freerg_list` is linked before it is initialised in `init_mm`; the
  model takes fresh heap memory to be zero there.

## What is left

Hazards without a property are listed in `PROJECT.json` with the reasons; most end in
values the language does not define (the index just past the symbol table, freed pcbs,
the list of a device with one frame). A bound on how long a passed-over level waits, in
terms of the lengths of the programs, would say more than `AllFinish` does.
