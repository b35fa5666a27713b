----------------------------- MODULE RunningList -----------------------------
(***************************************************************************)
(* running_list in memory: the array and the size of queue.c, accessed by  *)
(*   - enlisters, threads in put_proc or add_proc, which hold the          *)
(*     queue_lock of sched.c;                                              *)
(*   - searchers, threads in __sys_memmap or __sys_xxxhandler, which look  *)
(*     a pid up by taking the entries out and putting them back, and hold  *)
(*     the queue_lock of sys_mem.c.                                        *)
(* The two mutexes are different objects, so an enlister and a searcher    *)
(* may be inside together; a history variable, mixed, tells whether that   *)
(* has happened.  A step is one access to the shared queue as the          *)
(* unoptimised build makes it: `size++` and `size--` load and then store.  *)
(* Each thread of a group makes one call.  An access outside the array has *)
(* no defined effect: a thread stops in front of it.                       *)
(***************************************************************************)
EXTENDS Queue, Integers

CONSTANTS Enlisters, Searchers,    \* the threads
          Groups,                  \* the sets of threads whose calls may overlap
          Pids,                    \* the processes
          MaxInitial               \* the longest list the calls start from

ASSUME ThreadsAssumption ==
  Enlisters \cap Searchers = {} /\ "free" \notin Enlisters \cup Searchers
ASSUME GroupsAssumption == Groups \subseteq SUBSET (Enlisters \cup Searchers)
ASSUME PidsAssumption == NULL \notin Pids
ASSUME InitialAssumption == MaxInitial \in 0..MAX_QUEUE_SIZE

Threads == Enlisters \cup Searchers
Slots == 0..(MAX_QUEUE_SIZE - 1)

VARIABLES
  size, slots,     \* struct queue_t
  lock,            \* per mutex ("sched" or "sys"), the thread inside or "free"
  tpc,             \* control of each thread
  pid,             \* the process a thread enlists or looks for
  arg,             \* enqueue's argument; dequeue's result
  tmp, idx,        \* a loaded size; dequeue's loop counter
  left, caller,    \* __sys_memmap: iterations left, process found
  list,            \* ghost: the queue as a sequence, updated as calls return
  mixed            \* history: an enlister and a searcher have been inside together

queue == <<size, slots>>
locals == <<arg, tmp, idx, left, caller>>
ghosts == <<list, mixed>>
vars == <<queue, lock, tpc, pid, locals, ghosts>>

Mutexes == {"sched", "sys"}
Mutex(t) == IF t \in Enlisters THEN "sched" ELSE "sys"

\* The array after n calls of enqueue on an empty queue.
ArrayOf(s) == [k \in Slots |-> IF k < Len(s) THEN s[k + 1] ELSE NULL]

Init ==
  /\ \E n \in 0..MaxInitial : list \in [1..n -> Pids]
  /\ size = Len(list)
  /\ slots = ArrayOf(list)
  /\ lock = [m \in Mutexes |-> "free"]
  /\ \E active \in Groups :
       tpc = [t \in Threads |-> IF t \in active THEN "lock" ELSE "idle"]
  /\ pid \in [Threads -> Pids]
  /\ arg = [t \in Threads |-> NULL]
  /\ tmp = [t \in Threads |-> 0]
  /\ idx = [t \in Threads |-> 0]
  /\ left = [t \in Threads |-> 0]
  /\ caller = [t \in Threads |-> NULL]
  /\ mixed = FALSE

Goto(t, from, to) == tpc[t] = from /\ tpc' = [tpc EXCEPT ![t] = to]
Set(f, t, v) == [f EXCEPT ![t] = v]

\* The other mutex is held while t takes its own.
Mixes(t) == \E m \in Mutexes : m # Mutex(t) /\ lock[m] # "free"

\* Mutated: the mutex does not exclude anybody.
LockUnguarded(t) ==
  /\ lock' = [lock EXCEPT ![Mutex(t)] = t]
  /\ IF t \in Enlisters
     THEN /\ Goto(t, "lock", "enqueue")
          /\ arg' = Set(arg, t, pid[t])
          /\ UNCHANGED left
     ELSE /\ Goto(t, "lock", "search")
          /\ left' = Set(left, t, size)
          /\ UNCHANGED arg
  /\ mixed' = (mixed \/ Mixes(t))
  /\ UNCHANGED <<queue, pid, tmp, idx, caller, list>>

\* Mutated: the search leaves out the last entry.
LockShort(t) ==
  /\ lock[Mutex(t)] = "free"
  /\ lock' = [lock EXCEPT ![Mutex(t)] = t]
  /\ Goto(t, "lock", IF t \in Enlisters THEN "enqueue" ELSE "search")
  /\ arg' = Set(arg, t, pid[t])
  /\ left' = Set(left, t, IF size = 0 THEN 0 ELSE size - 1)
  /\ mixed' = (mixed \/ Mixes(t))
  /\ UNCHANGED <<queue, pid, tmp, idx, caller, list>>

\* pthread_mutex_lock; a searcher then reads list_size.
Lock(t) ==
  /\ lock[Mutex(t)] = "free"
  /\ lock' = [lock EXCEPT ![Mutex(t)] = t]
  /\ IF t \in Enlisters
     THEN /\ Goto(t, "lock", "enqueue")
          /\ arg' = Set(arg, t, pid[t])
          /\ UNCHANGED left
     ELSE /\ Goto(t, "lock", "search")
          /\ left' = Set(left, t, size)
          /\ UNCHANGED arg
  /\ mixed' = (mixed \/ Mixes(t))
  /\ UNCHANGED <<queue, pid, tmp, idx, caller, list>>

Unlock(t) ==
  /\ \/ t \in Enlisters
     \/ left[t] = 0 \/ caller[t] # NULL
  /\ Goto(t, IF t \in Enlisters THEN "return" ELSE "search", "end")
  /\ lock' = [lock EXCEPT ![Mutex(t)] = "free"]
  /\ UNCHANGED <<queue, pid, locals, ghosts>>

-----------------------------------------------------------------------------
(* enqueue *)

AfterEnqueue(t) == IF t \in Enlisters THEN "return" ELSE "search"

EnqueueFull(t) ==
  /\ size >= MAX_QUEUE_SIZE
  /\ Goto(t, "enqueue", AfterEnqueue(t))
  /\ UNCHANGED <<queue, lock, pid, locals, ghosts>>

\* Mutated: the size is not compared with MAX_QUEUE_SIZE.
EnqueueUnchecked(t) ==
  /\ Goto(t, "enqueue", "store_proc")
  /\ tmp' = Set(tmp, t, size)
  /\ UNCHANGED <<queue, lock, pid, arg, idx, left, caller, ghosts>>

EnqueueLoadIndex(t) ==
  /\ size < MAX_QUEUE_SIZE
  /\ Goto(t, "enqueue", "store_proc")
  /\ tmp' = Set(tmp, t, size)
  /\ UNCHANGED <<queue, lock, pid, arg, idx, left, caller, ghosts>>

EnqueueStoreProc(t) ==
  /\ tmp[t] \in Slots
  /\ Goto(t, "store_proc", "inc_load")
  /\ slots' = Set(slots, tmp[t], arg[t])
  /\ UNCHANGED <<size, lock, pid, locals, ghosts>>

EnqueueLoadSize(t) ==
  /\ Goto(t, "inc_load", "inc_store")
  /\ tmp' = Set(tmp, t, size)
  /\ UNCHANGED <<queue, lock, pid, arg, idx, left, caller, ghosts>>

EnqueueStoreSize(t) ==
  /\ Goto(t, "inc_store", AfterEnqueue(t))
  /\ size' = tmp[t] + 1
  /\ list' = enqueue(list, arg[t])
  /\ UNCHANGED <<slots, lock, pid, locals, mixed>>

-----------------------------------------------------------------------------
(* dequeue, called once per iteration of the search *)

SearchDequeue(t) ==
  /\ left[t] > 0 /\ caller[t] = NULL
  /\ left' = Set(left, t, left[t] - 1)
  /\ IF size = 0
     THEN /\ Goto(t, "search", "search")
          /\ UNCHANGED <<arg, idx>>
     ELSE /\ Goto(t, "search", "shift")
          /\ arg' = Set(arg, t, slots[0])
          /\ idx' = Set(idx, t, 1)
  /\ UNCHANGED <<queue, lock, pid, tmp, caller, ghosts>>

\* One turn of the loop that moves the entries down.
DequeueShift(t) ==
  /\ idx[t] < size /\ idx[t] \in Slots
  /\ Goto(t, "shift", "shift")
  /\ slots' = Set(slots, idx[t] - 1, slots[idx[t]])
  /\ idx' = Set(idx, t, idx[t] + 1)
  /\ UNCHANGED <<size, lock, pid, arg, tmp, left, caller, ghosts>>

DequeueLoadSize(t) ==
  /\ idx[t] >= size
  /\ Goto(t, "shift", "dec_store")
  /\ tmp' = Set(tmp, t, size)
  /\ UNCHANGED <<queue, lock, pid, arg, idx, left, caller, ghosts>>

DequeueStoreSize(t) ==
  /\ Goto(t, "dec_store", "clear")
  /\ size' = tmp[t] - 1
  /\ UNCHANGED <<slots, lock, pid, locals, ghosts>>

\* Clear the slot that became free; then, in the search, compare the pid and
\* put the process back (a NULL entry is dropped).
DequeueClear(t) ==
  /\ size \in Slots
  /\ Goto(t, "clear", IF arg[t] = NULL THEN "search" ELSE "enqueue")
  /\ slots' = Set(slots, size, NULL)
  /\ list' = dequeue(list)
  /\ caller' = Set(caller, t, IF arg[t] = pid[t] THEN arg[t] ELSE NULL)
  /\ UNCHANGED <<size, lock, pid, arg, tmp, idx, left, mixed>>

-----------------------------------------------------------------------------

Step(t) ==
  \/ Lock(t) \/ Unlock(t)
  \/ EnqueueFull(t) \/ EnqueueLoadIndex(t) \/ EnqueueStoreProc(t)
  \/ EnqueueLoadSize(t) \/ EnqueueStoreSize(t)
  \/ SearchDequeue(t) \/ DequeueShift(t) \/ DequeueLoadSize(t)
  \/ DequeueStoreSize(t) \/ DequeueClear(t)

Terminated == (\A t \in Threads : tpc[t] \in {"end", "idle"}) /\ UNCHANGED vars

\* The next access of t is outside the array.
OutsideNext(t) ==
  \/ tpc[t] = "store_proc" /\ tmp[t] \notin Slots
  \/ tpc[t] = "shift" /\ idx[t] < size /\ idx[t] \notin Slots
  \/ tpc[t] = "clear" /\ size \notin Slots

Undefined == (\E t \in Threads : OutsideNext(t)) /\ UNCHANGED vars

Next == Terminated \/ Undefined \/ \E t \in Threads : Step(t)

Spec == Init /\ [][Next]_vars

-----------------------------------------------------------------------------
(* Properties *)

TypeOK ==
  ~mixed =>
    /\ size \in 0..MAX_QUEUE_SIZE
    /\ slots \in [Slots -> Pids \cup {NULL}]
    /\ lock \in [Mutexes -> Threads \cup {"free"}]
    /\ caller \in [Threads -> Pids \cup {NULL}]
    /\ left \in [Threads -> 0..MAX_QUEUE_SIZE]
    /\ \A t \in Threads : tpc[t] = "store_proc" => tmp[t] \in Slots

Quiet == \A m \in Mutexes : lock[m] = "free"

\* sys_mem.c:65 "Re-enqueue process to maintain queue state", sys_mem.c:27
\* (a mutex "to protect the queues"): whenever nobody is inside, the array and
\* its size hold exactly the sequence of processes the calls made so far should
\* have left in the queue.
QueueStateKept ==
  Quiet => /\ size = Len(list)
           /\ slots = ArrayOf(list)

\* Nothing but an enlister and a searcher inside together can break that: calls
\* that exclude each other, by either mutex or by luck, leave the queue as they
\* should, in any order, full or not (queue.c, sched.c, sys_mem.c).
KeptUnlessMixed == ~mixed => QueueStateKept

SearchOver(t) == tpc[t] = "search" /\ (left[t] = 0 \/ caller[t] # NULL)

\* A search by pid ends with the process exactly if it is listed, and leaves it
\* listed whatever calls follow, unless an enlister and a searcher have been inside
\* together (sys_mem.c, __sys_memmap; sys_xxxhandler.c).
SearchFinds ==
  ~mixed =>
    \A t \in Searchers :
      /\ SearchOver(t) => (caller[t] # NULL <=> InQueue(pid[t], list))
      /\ Quiet /\ tpc[t] = "end" /\ caller[t] # NULL => InQueue(pid[t], list)
=============================================================================
