-------------------------- MODULE RunningListProofs --------------------------
(***************************************************************************)
(* Proofs about running_list in memory, for any queue size, any threads    *)
(* and processes, and any set of calls under either mutex.  The two        *)
(* mutexes are different objects; everything holds until the first time    *)
(* that an enlister and a searcher are inside together, which the history  *)
(* variable mixed tells, and not after it: see the run running_list_race.  *)
(***************************************************************************)
EXTENDS RunningList, SequenceTheorems, TLAPS

-----------------------------------------------------------------------------
(* The inductive invariant *)

EnqueuePoints == {"enqueue", "store_proc", "inc_load", "inc_store"}
DequeuePoints == {"shift", "dec_store", "clear"}
Points == EnqueuePoints \cup DequeuePoints \cup {"idle", "lock", "search", "return", "end"}

\* Between pthread_mutex_lock and pthread_mutex_unlock.
Inside(t) == tpc[t] \notin {"idle", "lock", "end"}

Types ==
  /\ list \in Seq(Pids) /\ Len(list) <= MAX_QUEUE_SIZE
  /\ size \in 0..MAX_QUEUE_SIZE
  /\ slots \in [Slots -> Pids \cup {NULL}]
  /\ lock \in [Mutexes -> Threads \cup {"free"}]
  /\ tpc \in [Threads -> Points]
  /\ pid \in [Threads -> Pids]
  /\ arg \in [Threads -> Pids \cup {NULL}]
  /\ tmp \in [Threads -> Nat] /\ idx \in [Threads -> Nat]
  /\ left \in [Threads -> 0..MAX_QUEUE_SIZE]
  /\ caller \in [Threads -> Pids \cup {NULL}]

\* No enlister and searcher have met inside.
Apart ==
  /\ mixed = FALSE
  /\ \A m, n \in Mutexes : m # n => lock[m] = "free" \/ lock[n] = "free"

\* Enlisters and searchers have the control that is theirs.
Control ==
  /\ \A t \in Enlisters : tpc[t] \in EnqueuePoints \cup {"idle", "lock", "return", "end"}
  /\ \A t \in Searchers : tpc[t] # "return"

Locked == \A t \in Threads : Inside(t) => lock[Mutex(t)] = t

\* The array and the size are those of the sequence.
Kept == size = Len(list) /\ slots = ArrayOf(list)

\* The array while dequeue moves the entries down: the first n - 1 have moved.
Shifted(n) ==
  [k \in Slots |-> IF k < n - 1 THEN list[k + 2]
                   ELSE IF k < Len(list) THEN list[k + 1] ELSE NULL]

\* What enqueue has done.
Enqueuing(t) ==
  /\ tpc[t] \in EnqueuePoints => arg[t] \in Pids
  /\ tpc[t] \in EnqueuePoints /\ (t \in Searchers \/ tpc[t] # "enqueue")
       => Len(list) < MAX_QUEUE_SIZE
  /\ tpc[t] \in {"store_proc", "inc_store"} => tmp[t] = Len(list)
  /\ tpc[t] \in {"inc_load", "inc_store"} =>
       size = Len(list) /\ slots = ArrayOf(Append(list, arg[t]))

\* What dequeue has done.
Dequeuing(t) ==
  /\ tpc[t] \in DequeuePoints =>
       /\ list # <<>> /\ arg[t] = list[1]
       /\ idx[t] \in 1..Len(list) /\ slots = Shifted(idx[t])
  /\ tpc[t] \in {"shift", "dec_store"} => size = Len(list)
  /\ tpc[t] \in {"dec_store", "clear"} => idx[t] = Len(list)
  /\ tpc[t] = "dec_store" => tmp[t] = Len(list)
  /\ tpc[t] = "clear" => size = Len(list) - 1

\* The queue while t is inside.
Holding(t) ==
  /\ tpc[t] \in {"enqueue", "store_proc", "search", "return"} => Kept
  /\ Enqueuing(t) /\ Dequeuing(t)

Structure ==
  /\ (\A t \in Threads : ~Inside(t)) => Kept
  /\ \A t \in Threads : Holding(t)

StructureInv == Types /\ Apart /\ Control /\ Locked /\ Structure

\* The last entries of the list, but for the first n, are not the process a
\* search looks for: it has had them in hand.
Passed(t, n) == \A k \in 1..Len(list) : k > n => list[k] # pid[t]

\* A search that has found nobody so far has passed all it has taken out; one
\* that has found the process has its entry in the list, or in hand.
Searching(t) ==
  /\ tpc[t] = "lock" => caller[t] = NULL
  /\ tpc[t] = "search" =>
       IF caller[t] = NULL THEN left[t] <= Len(list) /\ Passed(t, left[t])
       ELSE InQueue(pid[t], list)
  /\ tpc[t] \in DequeuePoints =>
       caller[t] = NULL /\ left[t] < Len(list) /\ Passed(t, left[t] + 1)
  /\ tpc[t] \in EnqueuePoints =>
       IF arg[t] = pid[t] THEN caller[t] # NULL
       ELSE caller[t] = NULL /\ left[t] <= Len(list) /\ Passed(t, left[t])

\* The process is in the list, or in a search's hand.
Listed(p) ==
  \/ InQueue(p, list)
  \/ \E u \in Searchers : tpc[u] \in EnqueuePoints /\ arg[u] = p

SearchInv ==
  /\ StructureInv
  /\ \A t \in Searchers : /\ Searching(t)
                          /\ tpc[t] = "end" /\ caller[t] # NULL => Listed(pid[t])

-----------------------------------------------------------------------------
(* Arrays and sequences *)

\* enqueue stores behind the last entry.
LEMMA ArrayOfAppended ==
  ASSUME NEW s \in Seq(Pids), NEW p \in Pids, Len(s) < MAX_QUEUE_SIZE
  PROVE  [ArrayOf(s) EXCEPT ![Len(s)] = p] = ArrayOf(Append(s, p))
<1>1. Len(s) \in Slots
  BY QueueSizeAssumption DEF Slots
<1>2. /\ Len(Append(s, p)) = Len(s) + 1 /\ Len(s) \in Nat
      /\ \A k \in 1..Len(s) : Append(s, p)[k] = s[k]
      /\ Append(s, p)[Len(s) + 1] = p
  BY AppendProperties
<1>3. ASSUME NEW k \in Slots
      PROVE  [ArrayOf(s) EXCEPT ![Len(s)] = p][k] = ArrayOf(Append(s, p))[k]
  <2>1. k \in Nat
    BY <1>3, QueueSizeAssumption DEF Slots
  <2>2. CASE k = Len(s)
    BY <1>1, <1>2, <2>2 DEF ArrayOf
  <2>3. CASE k < Len(s)
    <3>1. k + 1 \in 1..Len(s) /\ k < Len(s) + 1
      BY <1>2, <2>1, <2>3
    <3> QED
      BY <1>2, <2>1, <2>3, <3>1 DEF ArrayOf
  <2>4. CASE k > Len(s)
    <3>1. ~(k < Len(s)) /\ ~(k < Len(s) + 1) /\ k # Len(s)
      BY <1>2, <2>1, <2>4
    <3> QED
      BY <1>2, <3>1 DEF ArrayOf
  <2> QED
    BY <1>2, <2>1, <2>2, <2>3, <2>4
<1> QED
  BY <1>3 DEF ArrayOf

\* What Append does to the entries.
LEMMA Appended ==
  ASSUME NEW s \in Seq(Pids), NEW p \in Pids
  PROVE  /\ Append(s, p) \in Seq(Pids) /\ Len(Append(s, p)) = Len(s) + 1
         /\ \A k \in 1..Len(s) : Append(s, p)[k] = s[k]
         /\ Append(s, p)[Len(s) + 1] = p
         /\ \A x : InQueue(x, Append(s, p)) <=> InQueue(x, s) \/ x = p
<1>1. /\ Append(s, p) \in Seq(Pids) /\ Len(Append(s, p)) = Len(s) + 1 /\ Len(s) \in Nat
      /\ \A k \in 1..Len(s) : Append(s, p)[k] = s[k]
      /\ Append(s, p)[Len(s) + 1] = p
  BY AppendProperties
<1>2. 1..(Len(s) + 1) = 1..Len(s) \cup {Len(s) + 1}
  BY <1>1
<1>3. ASSUME NEW x PROVE InQueue(x, Append(s, p)) <=> InQueue(x, s) \/ x = p
  BY <1>1, <1>2 DEF InQueue
<1> QED
  BY <1>1, <1>3

\* ... and Tail.
LEMMA Shortened ==
  ASSUME NEW s \in Seq(Pids), s # <<>>
  PROVE  /\ s[1] \in Pids /\ Len(s) \in Nat \ {0}
         /\ Tail(s) \in Seq(Pids) /\ Len(Tail(s)) = Len(s) - 1
         /\ \A k \in 1..(Len(s) - 1) : Tail(s)[k] = s[k + 1]
         /\ \A x : InQueue(x, s) <=> InQueue(x, Tail(s)) \/ x = s[1]
<1>1. /\ Len(s) \in Nat \ {0}
      /\ Tail(s) \in Seq(Pids) /\ Len(Tail(s)) = Len(s) - 1
      /\ \A k \in 1..Len(Tail(s)) : Tail(s)[k] = s[k + 1]
  BY EmptySeq, HeadTailProperties
<1>2. s[1] \in Pids
  BY <1>1
<1>3. ASSUME NEW x PROVE InQueue(x, s) => InQueue(x, Tail(s)) \/ x = s[1]
  <2> SUFFICES ASSUME NEW k \in 1..Len(s), s[k] = x, x # s[1]
               PROVE  InQueue(x, Tail(s))
    BY DEF InQueue
  <2>1. k - 1 \in 1..(Len(s) - 1) /\ (k - 1) + 1 = k
    BY <1>1
  <2>2. Tail(s)[k - 1] = x
    BY <1>1, <2>1
  <2> QED
    BY <1>1, <2>1, <2>2 DEF InQueue
<1>4. ASSUME NEW x PROVE InQueue(x, Tail(s)) \/ x = s[1] => InQueue(x, s)
  <2>1. CASE x = s[1]
    BY <1>1, <2>1 DEF InQueue
  <2>2. CASE InQueue(x, Tail(s))
    <3>1. PICK k \in 1..(Len(s) - 1) : Tail(s)[k] = x
      BY <1>1, <2>2 DEF InQueue
    <3>2. k + 1 \in 1..Len(s) /\ s[k + 1] = x
      BY <1>1, <3>1
    <3> QED
      BY <3>2 DEF InQueue
  <2> QED
    BY <2>1, <2>2
<1> QED
  BY <1>1, <1>2, <1>3, <1>4

\* The loop of dequeue starts from the array, moves one entry a turn, and leaves
\* the array of the tail once the last slot is cleared.
LEMMA ShiftBegins ==
  ASSUME list \in Seq(Pids), list # <<>>
  PROVE  ArrayOf(list) = Shifted(1)
<1>1. \A k \in Slots : k \in Nat
  BY QueueSizeAssumption DEF Slots
<1>2. \A k \in Slots : ~(k < 1 - 1)
  BY <1>1
<1> QED
  BY <1>2 DEF ArrayOf, Shifted

\* One turn of the loop moves one entry.
LEMMA ShiftTurns ==
  ASSUME list \in Seq(Pids), Len(list) <= MAX_QUEUE_SIZE,
         NEW n \in 1..Len(list), n < Len(list)
  PROVE  [Shifted(n) EXCEPT ![n - 1] = Shifted(n)[n]] = Shifted(n + 1)
<1>1. Len(list) \in Nat /\ n \in Nat /\ n - 1 \in Slots /\ n \in Slots
  BY QueueSizeAssumption DEF Slots
<1>2. Shifted(n)[n] = list[n + 1]
  BY <1>1 DEF Shifted
<1>3. ASSUME NEW k \in Slots
      PROVE  [Shifted(n) EXCEPT ![n - 1] = list[n + 1]][k] = Shifted(n + 1)[k]
  <2>1. k \in Nat
    BY QueueSizeAssumption DEF Slots
  <2>2. CASE k = n - 1
    <3>1. k < (n + 1) - 1 /\ k + 2 = n + 1
      BY <1>1, <2>2
    <3> QED
      BY <1>1, <2>2, <3>1 DEF Shifted
  <2>3. CASE k # n - 1
    <3>1. k < n - 1 <=> k < (n + 1) - 1
      BY <1>1, <2>1, <2>3
    <3> QED
      BY <2>3, <3>1 DEF Shifted
  <2> QED
    BY <2>2, <2>3
<1>4. [Shifted(n) EXCEPT ![n - 1] = list[n + 1]] = Shifted(n + 1)
  BY <1>3 DEF Shifted
<1> QED
  BY <1>2, <1>4

\* Clearing the last slot leaves the array of the tail.
LEMMA ShiftEnds ==
  ASSUME list \in Seq(Pids), list # <<>>, Len(list) <= MAX_QUEUE_SIZE
  PROVE  [Shifted(Len(list)) EXCEPT ![Len(list) - 1] = NULL] = ArrayOf(Tail(list))
<1> DEFINE L == Len(list)
<1>1. /\ Len(list) \in Nat \ {0} /\ Len(Tail(list)) = Len(list) - 1
      /\ \A k \in 1..(Len(list) - 1) : Tail(list)[k] = list[k + 1]
  BY Shortened
<1>2. Len(list) - 1 \in Slots
  BY <1>1, QueueSizeAssumption DEF Slots
<1>n. L \in Nat \ {0}
  BY <1>1
<1> HIDE DEF L
<1>3. ASSUME NEW k \in Slots
      PROVE  [Shifted(Len(list)) EXCEPT ![Len(list) - 1] = NULL][k] = ArrayOf(Tail(list))[k]
  <2>1. k \in Nat
    BY QueueSizeAssumption DEF Slots
  <2>2. CASE k < L - 1
    <3>1. k # L - 1 /\ k + 1 \in 1..(L - 1) /\ (k + 1) + 1 = k + 2
      BY <1>n, <2>1, <2>2
    <3>2. Tail(list)[k + 1] = list[k + 2]
      BY <1>1, <3>1 DEF L
    <3> QED
      BY <1>1, <2>2, <3>1, <3>2 DEF Shifted, ArrayOf, L
  <2>3. CASE k = L - 1
    BY <1>1, <2>3 DEF Shifted, ArrayOf, L
  <2>4. CASE k > L - 1
    <3>1. k # L - 1 /\ ~(k < L - 1) /\ ~(k < L)
      BY <1>n, <2>1, <2>4
    <3> QED
      BY <1>1, <3>1 DEF Shifted, ArrayOf, L
  <2> QED
    BY <1>n, <2>1, <2>2, <2>3, <2>4
<1> QED
  BY <1>3 DEF Shifted, ArrayOf

-----------------------------------------------------------------------------
(* The array and the size *)

\* At most one thread is inside.
LEMMA Alone ==
  ASSUME StructureInv, NEW t \in Threads, NEW u \in Threads, t # u, Inside(t) \/ Quiet
  PROVE  ~Inside(u)
<1> SUFFICES ASSUME Inside(u) PROVE FALSE
  OBVIOUS
<1>1. lock[Mutex(u)] = u /\ Mutex(u) \in Mutexes /\ u # "free"
  BY ThreadsAssumption DEF StructureInv, Locked, Mutex, Mutexes, Threads
<1>2. CASE Inside(t)
  <2>1. lock[Mutex(t)] = t /\ Mutex(t) \in Mutexes /\ t # "free"
    BY <1>2, ThreadsAssumption DEF StructureInv, Locked, Mutex, Mutexes, Threads
  <2> QED
    BY <1>1, <2>1 DEF StructureInv, Apart
<1>3. CASE Quiet
  BY <1>1, <1>3 DEF Quiet
<1> QED
  BY <1>2, <1>3

\* A thread that is not inside owes nothing.
LEMMA NotHolding ==
  ASSUME NEW u \in Threads, ~Inside(u)
  PROVE  Holding(u)
  BY DEF Inside, Holding, Enqueuing, Dequeuing, EnqueuePoints, DequeuePoints

\* A step of the one that is inside, or goes in, has to keep up its own account of
\* the queue, and to leave the queue in order when it goes out.
LEMMA StructureStep ==
  ASSUME StructureInv, NEW t \in Threads, mixed' = FALSE,
         \/ Inside(t) /\ (lock' = lock \/ lock' = [lock EXCEPT ![Mutex(t)] = "free"])
         \/ Quiet /\ lock' = [lock EXCEPT ![Mutex(t)] = t],
         Types', \A u \in Threads : u # t => tpc'[u] = tpc[u],
         IF t \in Enlisters
         THEN tpc'[t] \in EnqueuePoints \cup {"idle", "lock", "return", "end"}
         ELSE tpc'[t] # "return",
         Inside(t)' => lock'[Mutex(t)] = t,
         Holding(t)', ~Inside(t)' => Kept'
  PROVE  StructureInv'
<1>1. \A u \in Threads : u # t => ~Inside(u) /\ ~Inside(u)'
  BY Alone DEF Inside
<1>2. Control' /\ Apart'
  <2>1. Control'
    BY ThreadsAssumption DEF StructureInv, Control, Threads
  <2>2. /\ lock \in [Mutexes -> Threads \cup {"free"}] /\ Mutex(t) \in Mutexes
        /\ \A m, n \in Mutexes : m # n => lock[m] = "free" \/ lock[n] = "free"
    BY DEF StructureInv, Apart, Types, Mutex, Mutexes
  <2>3. CASE lock' = lock \/ lock' = [lock EXCEPT ![Mutex(t)] = "free"]
    BY <2>1, <2>2, <2>3 DEF Apart
  <2>4. CASE Quiet /\ lock' = [lock EXCEPT ![Mutex(t)] = t]
    BY <2>1, <2>2, <2>4 DEF Apart, Quiet
  <2> QED
    BY <2>1, <2>3, <2>4
<1>3. Locked'
  BY <1>1 DEF Locked, Mutex
<1>4. \A u \in Threads : Holding(u)'
  BY <1>1 DEF Inside, Holding, Enqueuing, Dequeuing, EnqueuePoints, DequeuePoints
<1>5. (\A u \in Threads : ~Inside(u)') => Kept'
  OBVIOUS
<1> QED
  BY <1>2, <1>3, <1>4, <1>5 DEF StructureInv, Structure

\* What a thread that goes from one point to another changes of the control.
LEMMA Went ==
  ASSUME Types, NEW t \in Threads, NEW from, NEW to \in Points, Goto(t, from, to)
  PROVE  /\ tpc' \in [Threads -> Points]
         /\ tpc[t] = from /\ tpc'[t] = to
         /\ \A u \in Threads : u # t => tpc'[u] = tpc[u]
  BY DEF Types, Goto

\* The thread that takes the mutex finds the list whole and nobody inside.
LEMMA Locks ==
  ASSUME StructureInv, NEW t \in Threads, Lock(t), mixed' = FALSE
  PROVE  StructureInv' /\ Kept /\ ~Inside(t) /\ Quiet
<1>0. Types /\ tpc[t] = "lock" /\ Quiet
  <2>1. lock[Mutex(t)] = "free" /\ mixed' = (mixed \/ Mixes(t))
    BY DEF Lock
  <2>2. ~Mixes(t)
    BY <2>1
  <2>3. Quiet
    BY <2>1, <2>2 DEF Quiet, Mixes
  <2> QED
    BY <2>3 DEF StructureInv, Lock, Goto
<1>1. Kept /\ ~Inside(t)
  <2>1. \A u \in Threads : ~Inside(u)
    BY <1>0, Alone DEF Inside
  <2> QED
    BY <2>1 DEF StructureInv, Structure
<1>2. UNCHANGED <<size, slots, pid, tmp, idx, caller, list>>
  BY DEF Lock, queue
<1>3. lock' = [lock EXCEPT ![Mutex(t)] = t] /\ Mutex(t) \in Mutexes
  BY DEF Lock, Mutex, Mutexes
<1>4. lock' \in [Mutexes -> Threads \cup {"free"}] /\ lock'[Mutex(t)] = t
  BY <1>0, <1>3 DEF Types
<1>5. Kept'
  BY <1>1, <1>2 DEF Kept, ArrayOf
<1>6. CASE t \in Enlisters
  <2>1. /\ Goto(t, "lock", "enqueue") /\ arg' = Set(arg, t, pid[t]) /\ UNCHANGED left
    BY <1>6 DEF Lock
  <2>2. /\ tpc' \in [Threads -> Points] /\ tpc'[t] = "enqueue"
        /\ \A u \in Threads : u # t => tpc'[u] = tpc[u]
    BY <1>0, <2>1, Went DEF Points, EnqueuePoints
  <2>3. arg' \in [Threads -> Pids \cup {NULL}] /\ arg'[t] \in Pids
    BY <1>0, <2>1 DEF Types, Set
  <2>4. Types'
    BY <1>0, <1>2, <1>4, <2>1, <2>2, <2>3 DEF Types
  <2>5. Holding(t)'
    BY <1>5, <1>6, <2>2, <2>3, ThreadsAssumption
       DEF Holding, Enqueuing, Dequeuing, EnqueuePoints, DequeuePoints
  <2> QED
    BY <1>0, <1>1, <1>3, <1>4, <1>5, <1>6, <2>2, <2>4, <2>5, StructureStep DEF EnqueuePoints
<1>7. CASE t \in Searchers
  <2>1. Goto(t, "lock", "search") /\ left' = Set(left, t, size) /\ UNCHANGED arg
    BY <1>7, ThreadsAssumption DEF Lock
  <2>2. /\ tpc' \in [Threads -> Points] /\ tpc'[t] = "search"
        /\ \A u \in Threads : u # t => tpc'[u] = tpc[u]
    BY <1>0, <2>1, Went DEF Points
  <2>3. left' \in [Threads -> 0..MAX_QUEUE_SIZE]
    BY <1>0, <2>1 DEF Types, Set
  <2>4. Types'
    BY <1>0, <1>2, <1>4, <2>1, <2>2, <2>3 DEF Types
  <2>5. Holding(t)'
    BY <1>5, <2>2 DEF Holding, Enqueuing, Dequeuing, EnqueuePoints, DequeuePoints
  <2> QED
    BY <1>0, <1>1, <1>3, <1>4, <1>5, <1>7, <2>2, <2>4, <2>5, StructureStep, ThreadsAssumption
<1> QED
  BY <1>6, <1>7 DEF Threads

\* The thread that gives the mutex back leaves the list whole.
LEMMA Unlocks ==
  ASSUME StructureInv, NEW t \in Threads, Unlock(t)
  PROVE  StructureInv'
<1>0. Types /\ Control
  BY DEF StructureInv
<1>1. /\ UNCHANGED <<size, slots, pid, arg, tmp, idx, left, caller, list, mixed>>
      /\ lock' = [lock EXCEPT ![Mutex(t)] = "free"]
  BY DEF Unlock, queue, locals, ghosts
<1>2. Goto(t, IF t \in Enlisters THEN "return" ELSE "search", "end")
  BY DEF Unlock
<1>3. /\ tpc[t] \in {"return", "search"} /\ tpc' \in [Threads -> Points] /\ tpc'[t] = "end"
      /\ \A u \in Threads : u # t => tpc'[u] = tpc[u]
  BY <1>0, <1>2, Went DEF Points
<1>4. lock' \in [Mutexes -> Threads \cup {"free"}]
  BY <1>0, <1>1 DEF Types
<1>5. Types'
  BY <1>0, <1>1, <1>3, <1>4 DEF Types
<1>6. Kept'
  BY <1>1, <1>3 DEF StructureInv, Structure, Holding, Kept, ArrayOf
<1>7. Holding(t)' /\ ~Inside(t)' /\ Inside(t)
  BY <1>3 DEF Inside, Holding, Enqueuing, Dequeuing, EnqueuePoints, DequeuePoints
<1>8. mixed' = FALSE
  BY <1>1 DEF StructureInv, Apart
<1> QED
  BY <1>1, <1>3, <1>5, <1>6, <1>7, <1>8, StructureStep

\* enqueue
LEMMA Enqueues ==
  ASSUME StructureInv, NEW t \in Threads,
         \/ EnqueueFull(t) \/ EnqueueLoadIndex(t) \/ EnqueueStoreProc(t)
         \/ EnqueueLoadSize(t) \/ EnqueueStoreSize(t)
  PROVE  StructureInv'
<1>0. Types /\ Control /\ Holding(t) /\ Locked
  BY DEF StructureInv, Structure
<1>1. UNCHANGED <<lock, pid, arg, idx, left, caller, mixed>>
  BY DEF EnqueueFull, EnqueueLoadIndex, EnqueueStoreProc, EnqueueLoadSize, EnqueueStoreSize,
         queue, locals, ghosts
<1>2. PICK to \in EnqueuePoints \cup {"search", "return"} :
        /\ \E from \in EnqueuePoints : Goto(t, from, to)
        /\ t \in Searchers => to # "return"
        /\ t \in Enlisters => to # "search"
  BY ThreadsAssumption
     DEF EnqueueFull, EnqueueLoadIndex, EnqueueStoreProc, EnqueueLoadSize, EnqueueStoreSize,
         AfterEnqueue, EnqueuePoints, Threads
<1>3. /\ tpc[t] \in EnqueuePoints /\ tpc' \in [Threads -> Points] /\ tpc'[t] = to
      /\ \A u \in Threads : u # t => tpc'[u] = tpc[u]
  BY <1>0, <1>2, Went DEF Points
<1>4. Inside(t) /\ Inside(t)' /\ tpc[t] # "idle"
  BY <1>2, <1>3 DEF Inside, EnqueuePoints
<1>5. arg[t] \in Pids /\ lock'[Mutex(t)] = t
  BY <1>0, <1>1, <1>3, <1>4 DEF Holding, Enqueuing, Locked
<1>6. IF t \in Enlisters
      THEN tpc'[t] \in EnqueuePoints \cup {"idle", "lock", "return", "end"}
      ELSE tpc'[t] # "return"
  BY <1>2, <1>3 DEF Threads
<1>7. Types' /\ Holding(t)'
  <2>1. Len(list) \in Nat /\ size \in Nat /\ MAX_QUEUE_SIZE \in Nat /\ tmp \in [Threads -> Nat]
    BY <1>0, QueueSizeAssumption DEF Types
  <2>2. CASE EnqueueFull(t)
    <3>1. /\ UNCHANGED <<size, slots, tmp, list>> /\ size >= MAX_QUEUE_SIZE
          /\ tpc[t] = "enqueue" /\ to = AfterEnqueue(t)
      BY <1>3, <2>2, Went, <1>0 DEF EnqueueFull, queue, locals, ghosts, AfterEnqueue, Points, Goto, Types
    <3>2. Types'
      BY <1>0, <1>1, <1>3, <3>1 DEF Types
    <3>3. Kept'
      BY <1>0, <3>1 DEF Holding, Kept, ArrayOf
    <3> QED
      BY <1>3, <3>1, <3>2, <3>3
         DEF Holding, Enqueuing, Dequeuing, EnqueuePoints, DequeuePoints, AfterEnqueue
  <2>3. CASE EnqueueLoadIndex(t)
    <3>1. /\ UNCHANGED <<size, slots, list>> /\ size < MAX_QUEUE_SIZE
          /\ tmp' = Set(tmp, t, size)
          /\ tpc[t] = "enqueue" /\ tpc'[t] = "store_proc"
      BY <1>0, <2>3, Went DEF EnqueueLoadIndex, queue, ghosts, Points, EnqueuePoints
    <3>2. tmp' \in [Threads -> Nat] /\ tmp'[t] = size
      BY <2>1, <3>1 DEF Set
    <3>3. Types'
      BY <1>0, <1>1, <1>3, <3>1, <3>2 DEF Types
    <3>4. Kept /\ Kept'
      BY <1>0, <3>1 DEF Holding, Kept, ArrayOf
    <3>5. Enqueuing(t)'
      BY <1>1, <1>5, <3>1, <3>2, <3>4 DEF Enqueuing, Kept
    <3> QED
      BY <3>1, <3>3, <3>4, <3>5 DEF Holding, Dequeuing, DequeuePoints
  <2>4. CASE EnqueueStoreProc(t)
    <3>1. /\ UNCHANGED <<size, tmp, list>>
          /\ slots' = Set(slots, tmp[t], arg[t])
          /\ tpc[t] = "store_proc" /\ tpc'[t] = "inc_load"
      BY <1>0, <2>4, Went DEF EnqueueStoreProc, locals, ghosts, Points, EnqueuePoints
    <3>2. Kept /\ tmp[t] = Len(list) /\ Len(list) < MAX_QUEUE_SIZE
      BY <1>0, <3>1 DEF Holding, Enqueuing, EnqueuePoints
    <3>3. slots' = ArrayOf(Append(list, arg[t]))
      BY <1>0, <1>5, <3>1, <3>2, ArrayOfAppended DEF Kept, Types, Set
    <3>4. slots' \in [Slots -> Pids \cup {NULL}]
      BY <1>0, <1>5, <3>1 DEF Types, Set
    <3>5. Types'
      BY <1>0, <1>1, <1>3, <3>1, <3>4 DEF Types
    <3>6. Enqueuing(t)'
      BY <1>1, <1>5, <3>1, <3>2, <3>3 DEF Enqueuing, Kept
    <3> QED
      BY <3>1, <3>5, <3>6 DEF Holding, Dequeuing, DequeuePoints
  <2>5. CASE EnqueueLoadSize(t)
    <3>1. /\ UNCHANGED <<size, slots, list>>
          /\ tmp' = Set(tmp, t, size)
          /\ tpc[t] = "inc_load" /\ tpc'[t] = "inc_store"
      BY <1>0, <2>5, Went DEF EnqueueLoadSize, queue, ghosts, Points, EnqueuePoints
    <3>2. tmp' \in [Threads -> Nat] /\ tmp'[t] = size
      BY <2>1, <3>1 DEF Set
    <3>3. Types'
      BY <1>0, <1>1, <1>3, <3>1, <3>2 DEF Types
    <3>4. /\ Len(list) < MAX_QUEUE_SIZE /\ size = Len(list)
          /\ slots = ArrayOf(Append(list, arg[t]))
      BY <1>0, <3>1 DEF Holding, Enqueuing, EnqueuePoints
    <3>5. Enqueuing(t)'
      BY <1>1, <1>5, <3>1, <3>2, <3>4 DEF Enqueuing, ArrayOf
    <3> QED
      BY <3>1, <3>3, <3>5 DEF Holding, Dequeuing, DequeuePoints
  <2>6. CASE EnqueueStoreSize(t)
    <3>1. /\ UNCHANGED <<slots, tmp>>
          /\ size' = tmp[t] + 1 /\ list' = enqueue(list, arg[t])
          /\ tpc[t] = "inc_store"
      BY <2>6 DEF EnqueueStoreSize, locals, Goto
    <3>2. tpc'[t] \in {"search", "return"}
      BY <1>0, <2>6, Went DEF EnqueueStoreSize, AfterEnqueue, Points
    <3>3. /\ Len(list) < MAX_QUEUE_SIZE /\ tmp[t] = Len(list)
          /\ slots = ArrayOf(Append(list, arg[t]))
      BY <1>0, <3>1 DEF Holding, Enqueuing, EnqueuePoints
    <3>4. list' = Append(list, arg[t])
      BY <1>5, <2>1, <3>1, <3>3, PidsAssumption DEF enqueue
    <3>5. list' \in Seq(Pids) /\ Len(list') = Len(list) + 1
      BY <1>0, <1>5, <3>4, Appended DEF Types
    <3>6. size' = Len(list')
      BY <3>1, <3>3, <3>5
    <3>7. size' \in 0..MAX_QUEUE_SIZE /\ Len(list') <= MAX_QUEUE_SIZE
      BY <2>1, <3>3, <3>5, <3>6
    <3>8. Types'
      BY <1>0, <1>1, <1>3, <3>1, <3>5, <3>7 DEF Types
    <3>9. Kept'
      BY <3>1, <3>3, <3>4, <3>6 DEF Kept
    <3> QED
      BY <3>2, <3>8, <3>9 DEF Holding, Enqueuing, Dequeuing, EnqueuePoints, DequeuePoints
  <2> QED
    BY <2>2, <2>3, <2>4, <2>5, <2>6
<1>8. mixed' = FALSE
  BY <1>1 DEF StructureInv, Apart
<1> QED
  BY <1>1, <1>3, <1>4, <1>5, <1>6, <1>7, <1>8, StructureStep

\* dequeue
LEMMA Dequeues ==
  ASSUME StructureInv, NEW t \in Threads,
         \/ SearchDequeue(t) \/ DequeueShift(t) \/ DequeueLoadSize(t)
         \/ DequeueStoreSize(t) \/ DequeueClear(t)
  PROVE  StructureInv'
<1>0. Types /\ Control /\ Holding(t) /\ Locked
  BY DEF StructureInv, Structure
<1>1. UNCHANGED <<lock, pid, mixed>>
  BY DEF SearchDequeue, DequeueShift, DequeueLoadSize, DequeueStoreSize, DequeueClear, locals, ghosts
<1>2. PICK to \in DequeuePoints \cup {"search", "enqueue"} :
        \E from \in DequeuePoints \cup {"search"} : Goto(t, from, to)
  BY DEF SearchDequeue, DequeueShift, DequeueLoadSize, DequeueStoreSize, DequeueClear, DequeuePoints
<1>3. /\ tpc[t] \in DequeuePoints \cup {"search"} /\ tpc' \in [Threads -> Points] /\ tpc'[t] = to
      /\ \A u \in Threads : u # t => tpc'[u] = tpc[u]
  BY <1>0, <1>2, Went DEF Points, EnqueuePoints
<1>4. Inside(t) /\ Inside(t)' /\ tpc[t] # "idle" /\ t \notin Enlisters
  BY <1>0, <1>2, <1>3 DEF Inside, DequeuePoints, EnqueuePoints, Control
<1>5. lock'[Mutex(t)] = t /\ tpc'[t] # "return"
  BY <1>0, <1>1, <1>2, <1>3, <1>4 DEF Locked, DequeuePoints
<1>6. Len(list) \in Nat /\ size \in Nat /\ MAX_QUEUE_SIZE \in Nat /\ idx \in [Threads -> Nat]
  BY <1>0, QueueSizeAssumption DEF Types
<1>7. Types' /\ Holding(t)'
  <2>1. CASE SearchDequeue(t)
    <3>1. /\ UNCHANGED <<size, slots, tmp, caller, list>> /\ tpc[t] = "search"
          /\ left[t] > 0 /\ left' = Set(left, t, left[t] - 1)
      BY <2>1 DEF SearchDequeue, queue, ghosts, Goto
    <3>2. Kept
      BY <1>0, <3>1 DEF Holding
    <3>3. left' \in [Threads -> 0..MAX_QUEUE_SIZE]
      BY <1>0, <1>6, <3>1 DEF Types, Set
    <3>4. CASE size = 0
      <4>1. tpc'[t] = "search" /\ UNCHANGED <<arg, idx>>
        BY <1>0, <2>1, <3>4, Went DEF SearchDequeue, Points
      <4>2. Types'
        BY <1>0, <1>1, <1>3, <3>1, <3>3, <4>1 DEF Types
      <4>3. Kept'
        BY <3>1, <3>2 DEF Kept, ArrayOf
      <4> QED
        BY <4>1, <4>2, <4>3 DEF Holding, Enqueuing, Dequeuing, EnqueuePoints, DequeuePoints
    <3>5. CASE size # 0
      <4>1. tpc'[t] = "shift" /\ arg' = Set(arg, t, slots[0]) /\ idx' = Set(idx, t, 1)
        BY <1>0, <2>1, <3>5, Went DEF SearchDequeue, Points, DequeuePoints
      <4>2. Len(list) \in Nat \ {0} /\ list # <<>>
        BY <1>6, <3>2, <3>5 DEF Kept
      <4>3. list[1] \in Pids
        BY <1>0, <4>2, Shortened DEF Types
      <4>4. 0 \in Slots /\ 0 < Len(list) /\ 0 + 1 = 1
        BY <4>2, QueueSizeAssumption DEF Slots
      <4>5. slots[0] = list[1]
        BY <3>2, <4>4 DEF Kept, ArrayOf
      <4>6. /\ arg' \in [Threads -> Pids \cup {NULL}] /\ arg'[t] = list[1]
            /\ idx' \in [Threads -> Nat] /\ idx'[t] = 1
        BY <1>0, <4>1, <4>3, <4>5 DEF Types, Set
      <4>7. Types'
        BY <1>0, <1>1, <1>3, <3>1, <3>3, <4>6 DEF Types
      <4>8. slots = Shifted(1)
        BY <1>0, <3>2, <4>2, ShiftBegins DEF Kept, Types
      <4>9. slots' = Shifted(idx[t])'
        BY <3>1, <4>6, <4>8 DEF Shifted
      <4>10. Dequeuing(t)'
        BY <3>1, <3>2, <4>1, <4>2, <4>6, <4>9 DEF Dequeuing, Kept
      <4> QED
        BY <4>1, <4>7, <4>10 DEF Holding, Enqueuing, EnqueuePoints
    <3> QED
      BY <3>4, <3>5
  <2>2. CASE DequeueShift(t)
    <3>1. /\ UNCHANGED <<size, arg, tmp, left, caller, list>>
          /\ tpc[t] = "shift" /\ tpc'[t] = "shift" /\ idx[t] < size
          /\ slots' = Set(slots, idx[t] - 1, slots[idx[t]])
          /\ idx' = Set(idx, t, idx[t] + 1)
      BY <1>0, <2>2, Went DEF DequeueShift, ghosts, Points, DequeuePoints
    <3>2. /\ list # <<>> /\ arg[t] = list[1] /\ size = Len(list)
          /\ idx[t] \in 1..Len(list) /\ slots = Shifted(idx[t])
      BY <1>0, <3>1 DEF Holding, Dequeuing, DequeuePoints
    <3>3. idx[t] \in 1..Len(list) /\ idx[t] < Len(list) /\ Len(list) <= MAX_QUEUE_SIZE
      BY <1>0, <3>1, <3>2 DEF Types
    <3>4. slots' = Shifted(idx[t] + 1)
      BY <1>0, <3>1, <3>2, <3>3, ShiftTurns DEF Types, Set
    <3>5. idx' \in [Threads -> Nat] /\ idx'[t] = idx[t] + 1
      BY <1>6, <3>1 DEF Set
    <3>6. idx[t] + 1 \in 1..Len(list)
      BY <1>6, <3>3
    <3>7. slots' \in [Slots -> Pids \cup {NULL}]
      <4>1. idx[t] \in Slots
        BY <1>6, <3>3 DEF Slots
      <4> QED
        BY <1>0, <3>1, <4>1 DEF Types, Set
    <3>8. Types'
      BY <1>0, <1>1, <1>3, <3>1, <3>5, <3>7 DEF Types
    <3>9. slots' = Shifted(idx[t])'
      BY <3>1, <3>4, <3>5 DEF Shifted
    <3>10. Dequeuing(t)'
      BY <3>1, <3>2, <3>5, <3>6, <3>9 DEF Dequeuing
    <3> QED
      BY <3>1, <3>8, <3>10 DEF Holding, Enqueuing, EnqueuePoints
  <2>3. CASE DequeueLoadSize(t)
    <3>1. /\ UNCHANGED <<size, slots, arg, idx, left, caller, list>>
          /\ tpc[t] = "shift" /\ tpc'[t] = "dec_store" /\ idx[t] >= size
          /\ tmp' = Set(tmp, t, size)
      BY <1>0, <2>3, Went DEF DequeueLoadSize, queue, ghosts, Points, DequeuePoints
    <3>2. /\ list # <<>> /\ arg[t] = list[1] /\ size = Len(list)
          /\ idx[t] \in 1..Len(list) /\ slots = Shifted(idx[t])
      BY <1>0, <3>1 DEF Holding, Dequeuing, DequeuePoints
    <3>3. tmp' \in [Threads -> Nat] /\ tmp'[t] = size
      BY <1>0, <1>6, <3>1 DEF Types, Set
    <3>4. Types'
      BY <1>0, <1>1, <1>3, <3>1, <3>3 DEF Types
    <3>5. idx[t] = Len(list)
      BY <1>6, <3>1, <3>2
    <3>6. slots' = Shifted(idx[t])'
      BY <3>1, <3>2 DEF Shifted
    <3>7. Dequeuing(t)'
      BY <3>1, <3>2, <3>3, <3>5, <3>6 DEF Dequeuing
    <3> QED
      BY <3>1, <3>4, <3>7 DEF Holding, Enqueuing, EnqueuePoints
  <2>4. CASE DequeueStoreSize(t)
    <3>1. /\ UNCHANGED <<slots, arg, tmp, idx, left, caller, list>>
          /\ tpc[t] = "dec_store" /\ tpc'[t] = "clear"
          /\ size' = tmp[t] - 1
      BY <1>0, <2>4, Went DEF DequeueStoreSize, locals, ghosts, Points, DequeuePoints
    <3>2. /\ list # <<>> /\ arg[t] = list[1] /\ tmp[t] = Len(list) /\ idx[t] = Len(list)
          /\ idx[t] \in 1..Len(list) /\ slots = Shifted(idx[t])
      BY <1>0, <3>1 DEF Holding, Dequeuing, DequeuePoints
    <3>3. size' = Len(list) - 1 /\ size' \in 0..MAX_QUEUE_SIZE
      <4>1. Len(list) \in Nat \ {0} /\ Len(list) <= MAX_QUEUE_SIZE
        BY <1>0, <3>2, Shortened DEF Types
      <4> QED
        BY <1>6, <3>1, <3>2, <4>1
    <3>4. Types'
      BY <1>0, <1>1, <1>3, <3>1, <3>3 DEF Types
    <3>5. slots' = Shifted(idx[t])'
      BY <3>1, <3>2 DEF Shifted
    <3>6. Dequeuing(t)'
      BY <3>1, <3>2, <3>3, <3>5 DEF Dequeuing
    <3> QED
      BY <3>1, <3>4, <3>6 DEF Holding, Enqueuing, EnqueuePoints
  <2>5. CASE DequeueClear(t)
    <3>1. /\ list # <<>> /\ arg[t] = list[1] /\ size = Len(list) - 1
          /\ slots = Shifted(Len(list))
      BY <1>0, <2>5 DEF Holding, Dequeuing, DequeuePoints, DequeueClear, Goto
    <3>2. /\ list[1] \in Pids /\ Len(list) \in Nat \ {0}
          /\ Tail(list) \in Seq(Pids) /\ Len(Tail(list)) = Len(list) - 1
      BY <1>0, <3>1, Shortened DEF Types
    <3>3. /\ UNCHANGED <<size, arg, tmp, idx, left>>
          /\ slots' = Set(slots, size, NULL)
          /\ list' = dequeue(list)
          /\ caller' = Set(caller, t, IF arg[t] = pid[t] THEN arg[t] ELSE NULL)
      BY <2>5 DEF DequeueClear
    <3>4. tpc'[t] = "enqueue"
      BY <1>0, <2>5, <3>1, <3>2, Went, PidsAssumption DEF DequeueClear, Points, EnqueuePoints
    <3>5. list' = Tail(list)
      BY <3>2, <3>3 DEF dequeue, empty
    <3>6. Len(list') <= MAX_QUEUE_SIZE /\ Len(list') < MAX_QUEUE_SIZE
      BY <1>0, <1>6, <3>2, <3>5 DEF Types
    <3>7. slots' = ArrayOf(list') /\ size' = Len(list')
      BY <1>0, <3>1, <3>2, <3>3, <3>5, ShiftEnds DEF Types, Set
    <3>8. /\ slots' \in [Slots -> Pids \cup {NULL}]
          /\ caller' \in [Threads -> Pids \cup {NULL}]
      BY <1>0, <3>1, <3>2, <3>3 DEF Types, Set
    <3>9. Types'
      BY <1>0, <1>1, <1>3, <3>2, <3>3, <3>5, <3>6, <3>8 DEF Types
    <3>10. Kept' /\ arg'[t] \in Pids
      BY <3>1, <3>2, <3>3, <3>7 DEF Kept
    <3> QED
      BY <3>4, <3>6, <3>9, <3>10 DEF Holding, Enqueuing, Dequeuing, EnqueuePoints, DequeuePoints
  <2> QED
    BY <2>1, <2>2, <2>3, <2>4, <2>5
<1>8. mixed' = FALSE
  BY <1>1 DEF StructureInv, Apart
<1> QED
  BY <1>1, <1>3, <1>4, <1>5, <1>7, <1>8, StructureStep

\* The structural invariant holds at the start.
LEMMA StructureInit == Init => StructureInv
<1> SUFFICES ASSUME Init PROVE StructureInv
  OBVIOUS
<1>1. PICK n \in 0..MaxInitial : list \in [1..n -> Pids]
  BY DEF Init
<1>2. n \in Nat /\ n <= MAX_QUEUE_SIZE
  BY InitialAssumption, QueueSizeAssumption
<1>3. list \in Seq(Pids) /\ Len(list) = n
  <2>1. list \in UNION {[1..m -> Pids] : m \in Nat}
    BY <1>1, <1>2
  <2>2. list \in Seq(Pids)
    BY <2>1, SeqDef
  <2>3. Len(list) \in Nat /\ 1..n = 1..Len(list)
    BY <1>1, <2>2, LenProperties
  <2> QED
    BY <1>2, <2>2, <2>3
<1>4. Kept
  BY DEF Init, Kept
<1>5. slots \in [Slots -> Pids \cup {NULL}]
  <2>1. ASSUME NEW k \in Slots, k < Len(list) PROVE list[k + 1] \in Pids
    <3>1. k + 1 \in 1..Len(list)
      BY <1>2, <1>3, <2>1, QueueSizeAssumption DEF Slots
    <3> QED
      BY <1>3, <3>1
  <2> QED
    BY <2>1 DEF Init, ArrayOf
<1>6. PICK active \in Groups :
        tpc = [t \in Threads |-> IF t \in active THEN "lock" ELSE "idle"]
  BY DEF Init
<1>7. size \in 0..MAX_QUEUE_SIZE
  BY <1>2, <1>3, <1>4, QueueSizeAssumption DEF Kept
<1>8. Types
  BY <1>2, <1>3, <1>5, <1>6, <1>7, QueueSizeAssumption DEF Init, Types, Points
<1>9. Apart
  BY DEF Init, Apart
<1>10. \A t \in Threads : tpc[t] \in {"lock", "idle"}
  BY <1>6
<1>11. Control
  BY <1>10 DEF Control, Threads
<1>12. \A t \in Threads : ~Inside(t)
  BY <1>10 DEF Inside
<1>13. Structure
  BY <1>4, <1>12, NotHolding DEF Structure
<1> QED
  BY <1>8, <1>9, <1>11, <1>12, <1>13 DEF StructureInv, Locked

\* Every step keeps it, unless an enlister and a searcher meet.
LEMMA StructureNext == StructureInv /\ [Next]_vars /\ mixed' = FALSE => StructureInv'
<1> SUFFICES ASSUME StructureInv, [Next]_vars, mixed' = FALSE PROVE StructureInv'
  OBVIOUS
<1>1. CASE UNCHANGED vars
  <2>1. UNCHANGED <<size, slots, lock, tpc, pid, arg, tmp, idx, left, caller, list>>
    BY <1>1 DEF vars, queue, locals, ghosts
  <2>2. Types' /\ Control' /\ Locked' /\ Apart'
    BY <2>1 DEF StructureInv, Types, Control, Locked, Apart, Inside, Mutex
  <2>3. Structure'
    BY <2>1 DEF StructureInv, Structure, Holding, Enqueuing, Dequeuing, Inside, Kept, ArrayOf, Shifted
  <2> QED
    BY <2>2, <2>3 DEF StructureInv
<1>2. ASSUME NEW t \in Threads, Step(t) PROVE StructureInv'
  BY <1>2, Locks, Unlocks, Enqueues, Dequeues DEF Step
<1> QED
  BY <1>1, <1>2 DEF Next, Terminated, Undefined

\* Nobody is inside when both mutexes are free.
LEMMA QuietOutside ==
  ASSUME StructureInv, Quiet
  PROVE  \A t \in Threads : ~Inside(t)
<1> SUFFICES ASSUME NEW t \in Threads, Inside(t) PROVE FALSE
  OBVIOUS
<1>1. lock[Mutex(t)] = t /\ lock[Mutex(t)] = "free"
  BY DEF StructureInv, Locked, Quiet, Mutex, Mutexes
<1> QED
  BY <1>1, ThreadsAssumption DEF Threads

\* mixed is a Boolean that stays TRUE.
LEMMA MixedStays ==
  ASSUME mixed \in BOOLEAN, [Next]_vars
  PROVE  mixed' \in BOOLEAN /\ (mixed = TRUE => mixed' = TRUE)
<1>1. CASE UNCHANGED mixed
  BY <1>1
<1>2. ASSUME NEW t \in Threads, Lock(t)
      PROVE  mixed' \in BOOLEAN /\ (mixed = TRUE => mixed' = TRUE)
  <2>1. mixed' = (mixed \/ Mixes(t))
    BY <1>2 DEF Lock
  <2> QED
    BY <2>1
<1>3. ASSUME NEW t \in Threads, Step(t), ~Lock(t) PROVE UNCHANGED mixed
  BY <1>3 DEF Step, Unlock, EnqueueFull, EnqueueLoadIndex, EnqueueStoreProc, EnqueueLoadSize,
              EnqueueStoreSize, SearchDequeue, DequeueShift, DequeueLoadSize, DequeueStoreSize,
              DequeueClear, ghosts
<1>4. CASE UNCHANGED vars
  BY <1>1, <1>4 DEF vars, ghosts
<1> QED
  BY <1>1, <1>2, <1>3, <1>4 DEF Next, Terminated, Undefined

\* As long as nobody has met, the structural invariant holds.
LEMMA StructureThroughout == Spec => [](mixed \in BOOLEAN /\ (mixed = FALSE => StructureInv))
<1>1. Init => mixed \in BOOLEAN /\ (mixed = FALSE => StructureInv)
  BY StructureInit DEF Init
<1>2. mixed \in BOOLEAN /\ (mixed = FALSE => StructureInv) /\ [Next]_vars
        => (mixed \in BOOLEAN /\ (mixed = FALSE => StructureInv))'
  BY StructureNext, MixedStays
<1> QED
  BY <1>1, <1>2, PTL DEF Spec

\* Until an enlister and a searcher are inside together, the array and the size are,
\* whenever nobody is inside, those of the sequence that the calls should have left
\* (queue.c; sys_mem.c:65, "Re-enqueue process to maintain queue state").
THEOREM KeptUnlessMixedTheorem == Spec => []KeptUnlessMixed
<1>1. mixed \in BOOLEAN /\ (mixed = FALSE => StructureInv) => KeptUnlessMixed
  BY QuietOutside DEF KeptUnlessMixed, QueueStateKept, StructureInv, Structure, Kept
<1> QED
  BY StructureThroughout, <1>1, PTL

\* ... and enqueue and dequeue stay within the array (queue.c).
THEOREM RunningListTypes == Spec => []TypeOK
<1>1. StructureInv => TypeOK
  <2> SUFFICES ASSUME StructureInv PROVE TypeOK
    OBVIOUS
  <2>1. \A t \in Threads : tpc[t] = "store_proc" => tmp[t] \in Slots
    BY QueueSizeAssumption
       DEF StructureInv, Structure, Holding, Enqueuing, EnqueuePoints, Slots, Types
  <2> QED
    BY <2>1 DEF StructureInv, Types, TypeOK
<1>2. mixed \in BOOLEAN /\ (mixed = FALSE => StructureInv) => TypeOK
  BY <1>1 DEF TypeOK
<1> QED
  BY StructureThroughout, <1>2, PTL

-----------------------------------------------------------------------------
(* Searches *)

\* The entry that thread t has taken out and not put back.
InHand(t, p) == tpc[t] \in EnqueuePoints /\ arg[t] = p

\* Only the one that is inside has an entry in hand.
LEMMA ListedBy ==
  ASSUME NEW t \in Searchers, \A u \in Threads : u # t => ~Inside(u)
  PROVE  \A p : Listed(p) <=> InQueue(p, list) \/ InHand(t, p)
  BY DEF Listed, InHand, Inside, EnqueuePoints, Threads

\* The same after a step.
LEMMA ListedByNext ==
  ASSUME NEW t \in Searchers, \A u \in Threads : u # t => ~Inside(u)'
  PROVE  \A p : Listed(p)' <=> InQueue(p, list') \/ InHand(t, p)'
  BY DEF Listed, InHand, Inside, EnqueuePoints, Threads, InQueue

\* A step inside a search has to keep up its own account, and every entry.
LEMMA SearchStep ==
  ASSUME SearchInv, StructureInv', NEW t \in Searchers,
         Inside(t) \/ Quiet,
         \A u \in Threads : u # t => tpc'[u] = tpc[u] /\ caller'[u] = caller[u],
         UNCHANGED pid,
         \A p : InQueue(p, list') \/ InHand(t, p)' <=> InQueue(p, list) \/ InHand(t, p),
         Searching(t)',
         tpc'[t] = "end" /\ caller'[t] # NULL => InQueue(pid[t], list')
  PROVE  SearchInv'
<1>1. \A u \in Threads : u # t => ~Inside(u) /\ ~Inside(u)'
  BY Alone DEF Inside, SearchInv, Threads
<1>2. \A p : Listed(p)' <=> Listed(p)
  BY <1>1, ListedBy, ListedByNext
<1>3. ASSUME NEW u \in Searchers, u # t
      PROVE  /\ Searching(u)'
             /\ tpc'[u] = "end" /\ caller'[u] # NULL => Listed(pid[u])'
  <2>1. u \in Threads /\ tpc'[u] = tpc[u] /\ caller'[u] = caller[u] /\ pid'[u] = pid[u]
    BY <1>3 DEF Threads
  <2>2. tpc'[u] \in {"idle", "lock", "end"}
    BY <1>1, <1>3, <2>1 DEF Inside
  <2>3. Searching(u)'
    BY <2>1, <2>2 DEF SearchInv, Searching, EnqueuePoints, DequeuePoints
  <2>4. tpc[u] = "end" /\ caller[u] # NULL => Listed(pid[u])
    BY DEF SearchInv
  <2>5. Listed(pid[u])' <=> Listed(pid[u])
    BY <1>2, <2>1
  <2> QED
    BY <2>1, <2>3, <2>4, <2>5
<1>4. ASSUME tpc'[t] = "end", caller'[t] # NULL PROVE Listed(pid[t])'
  <2>1. \A p : Listed(p)' <=> InQueue(p, list') \/ InHand(t, p)'
    BY <1>1, ListedByNext
  <2>2. \A p : ~InHand(t, p)'
    BY <1>4 DEF InHand, EnqueuePoints
  <2>3. Listed(pid[t])' <=> InQueue(pid[t], list')
    BY <2>1, <2>2
  <2> QED
    BY <1>4, <2>3
<1> QED
  BY <1>3, <1>4 DEF SearchInv

\* A search begins with nothing passed over.
LEMMA SearchLocks ==
  ASSUME SearchInv, NEW t \in Searchers, Lock(t), mixed' = FALSE
  PROVE  SearchInv'
<1>1. t \in Threads /\ t \notin Enlisters
  BY ThreadsAssumption DEF Threads
<1>2. StructureInv /\ StructureInv' /\ Kept /\ Quiet /\ Types /\ Searching(t)
  BY <1>1, Locks DEF SearchInv, StructureInv
<1>3. /\ Goto(t, "lock", "search") /\ left' = Set(left, t, size)
      /\ UNCHANGED <<pid, arg, caller, list>>
  BY <1>1 DEF Lock
<1>4. /\ tpc[t] = "lock" /\ tpc'[t] = "search"
      /\ \A u \in Threads : u # t => tpc'[u] = tpc[u]
  BY <1>1, <1>2, <1>3, Went DEF Points
<1>5. left'[t] = Len(list) /\ Len(list) \in Nat
  BY <1>1, <1>2, <1>3 DEF Types, Set, Kept
<1>6. Searching(t)'
  <2>1. caller'[t] = NULL
    BY <1>2, <1>3, <1>4 DEF Searching
  <2>2. Passed(t, left[t])'
    BY <1>3, <1>5 DEF Passed
  <2> QED
    BY <1>3, <1>4, <1>5, <2>1, <2>2 DEF Searching, EnqueuePoints, DequeuePoints
<1>7. \A p : InQueue(p, list') \/ InHand(t, p)' <=> InQueue(p, list) \/ InHand(t, p)
  BY <1>3, <1>4 DEF InHand, EnqueuePoints
<1> QED
  BY <1>2, <1>3, <1>4, <1>6, <1>7, SearchStep

\* A search that gives the mutex back has nothing in hand.
LEMMA SearchUnlocks ==
  ASSUME SearchInv, NEW t \in Searchers, Unlock(t)
  PROVE  SearchInv'
<1>1. t \in Threads /\ t \notin Enlisters
  BY ThreadsAssumption DEF Threads
<1>2. StructureInv /\ StructureInv' /\ Types /\ Searching(t)
  BY <1>1, Unlocks DEF SearchInv, StructureInv
<1>3. /\ Goto(t, "search", "end") /\ (left[t] = 0 \/ caller[t] # NULL)
      /\ UNCHANGED <<pid, caller, list>>
  BY <1>1 DEF Unlock, locals, ghosts
<1>4. /\ tpc[t] = "search" /\ tpc'[t] = "end"
      /\ \A u \in Threads : u # t => tpc'[u] = tpc[u]
  BY <1>1, <1>2, <1>3, Went DEF Points
<1>5. caller[t] # NULL <=> InQueue(pid[t], list)
  <2>1. CASE caller[t] = NULL
    <3>1. Passed(t, 0)
      BY <1>2, <1>3, <1>4, <2>1 DEF Searching
    <3> QED
      BY <2>1, <3>1 DEF Passed, InQueue
  <2>2. CASE caller[t] # NULL
    BY <1>2, <1>4, <2>2 DEF Searching
  <2> QED
    BY <2>1, <2>2
<1>6. Searching(t)' /\ Inside(t)
  BY <1>4 DEF Searching, EnqueuePoints, DequeuePoints, Inside
<1>7. \A p : InQueue(p, list') \/ InHand(t, p)' <=> InQueue(p, list) \/ InHand(t, p)
  BY <1>3, <1>4 DEF InHand, EnqueuePoints
<1> QED
  BY <1>2, <1>3, <1>4, <1>5, <1>6, <1>7, SearchStep

\* The process goes back behind the others.
LEMMA SearchEnqueues ==
  ASSUME SearchInv, NEW t \in Searchers,
         \/ EnqueueFull(t) \/ EnqueueLoadIndex(t) \/ EnqueueStoreProc(t)
         \/ EnqueueLoadSize(t) \/ EnqueueStoreSize(t)
  PROVE  SearchInv'
<1>1. t \in Threads /\ t \notin Enlisters
  BY ThreadsAssumption DEF Threads
<1>2. /\ StructureInv /\ StructureInv' /\ Types /\ Types' /\ Holding(t) /\ Searching(t)
  BY <1>1, Enqueues DEF SearchInv, StructureInv, Structure
<1>3. UNCHANGED <<pid, arg, left, caller>>
  BY DEF EnqueueFull, EnqueueLoadIndex, EnqueueStoreProc, EnqueueLoadSize, EnqueueStoreSize, locals, ghosts
<1>4. ~EnqueueFull(t)
  <2> SUFFICES ASSUME EnqueueFull(t) PROVE FALSE
    OBVIOUS
  <2>1. tpc[t] = "enqueue" /\ size >= MAX_QUEUE_SIZE
    BY DEF EnqueueFull, Goto
  <2>2. Len(list) < MAX_QUEUE_SIZE /\ size = Len(list)
    BY <1>2, <2>1 DEF Holding, Enqueuing, Kept, EnqueuePoints
  <2> QED
    BY <1>2, <2>1, <2>2, QueueSizeAssumption DEF Types
<1>5. CASE EnqueueLoadIndex(t) \/ EnqueueStoreProc(t) \/ EnqueueLoadSize(t)
  <2>1. PICK from \in EnqueuePoints, to \in EnqueuePoints : Goto(t, from, to)
    BY <1>5 DEF EnqueueLoadIndex, EnqueueStoreProc, EnqueueLoadSize, EnqueuePoints
  <2>2. UNCHANGED list
    BY <1>5 DEF EnqueueLoadIndex, EnqueueStoreProc, EnqueueLoadSize, ghosts
  <2>3. /\ tpc[t] \in EnqueuePoints /\ tpc'[t] \in EnqueuePoints
        /\ \A u \in Threads : u # t => tpc'[u] = tpc[u]
    BY <1>1, <1>2, <2>1, Went DEF Points
  <2>4. Inside(t) /\ tpc'[t] # "end"
    BY <2>3 DEF Inside, EnqueuePoints
  <2>5. Searching(t)'
    BY <1>2, <1>3, <2>2, <2>3 DEF Searching, Passed, EnqueuePoints, DequeuePoints
  <2>6. \A p : InQueue(p, list') \/ InHand(t, p)' <=> InQueue(p, list) \/ InHand(t, p)
    BY <1>3, <2>2, <2>3 DEF InHand
  <2> QED
    BY <1>2, <1>3, <2>3, <2>4, <2>5, <2>6, SearchStep
<1>6. CASE EnqueueStoreSize(t)
  <2>1. Goto(t, "inc_store", "search") /\ list' = enqueue(list, arg[t])
    BY <1>1, <1>6 DEF EnqueueStoreSize, AfterEnqueue
  <2>2. /\ tpc[t] = "inc_store" /\ tpc'[t] = "search"
        /\ \A u \in Threads : u # t => tpc'[u] = tpc[u]
    BY <1>1, <1>2, <2>1, Went DEF Points
  <2>3. arg[t] \in Pids /\ Len(list) < MAX_QUEUE_SIZE /\ list \in Seq(Pids) /\ Len(list) \in Nat
    BY <1>2, <2>2 DEF Holding, Enqueuing, EnqueuePoints, Types
  <2>4. list' = Append(list, arg[t])
    BY <2>1, <2>3, QueueSizeAssumption, PidsAssumption DEF enqueue
  <2>5. /\ Len(list') = Len(list) + 1
        /\ \A k \in 1..Len(list) : list'[k] = list[k]
        /\ list'[Len(list) + 1] = arg[t]
        /\ \A x : InQueue(x, list') <=> InQueue(x, list) \/ x = arg[t]
    BY <2>3, <2>4, Appended
  <2>6. Searching(t)'
    <3>1. CASE arg[t] = pid[t]
      <4>1. caller'[t] # NULL /\ InQueue(pid[t], list')
        BY <1>2, <1>3, <2>2, <2>5, <3>1 DEF Searching, EnqueuePoints
      <4> QED
        BY <1>3, <2>2, <4>1 DEF Searching, InQueue, EnqueuePoints, DequeuePoints
    <3>2. CASE arg[t] # pid[t]
      <4>1. caller[t] = NULL /\ left[t] <= Len(list) /\ Passed(t, left[t]) /\ left[t] \in Nat
        BY <1>1, <1>2, <2>2, <3>2 DEF Searching, EnqueuePoints, Types
      <4>2. left'[t] <= Len(list')
        BY <1>3, <2>3, <2>5, <4>1
      <4>3. ASSUME NEW k \in 1..Len(list'), k > left[t] PROVE list'[k] # pid[t]
        <5>1. k \in 1..Len(list) \/ k = Len(list) + 1
          BY <2>3, <2>5, <4>3
        <5> QED
          BY <2>5, <3>2, <4>1, <4>3, <5>1 DEF Passed
      <4>4. Passed(t, left[t])'
        BY <1>3, <4>3 DEF Passed
      <4> QED
        BY <1>3, <2>2, <4>1, <4>2, <4>4 DEF Searching, EnqueuePoints, DequeuePoints
    <3> QED
      BY <3>1, <3>2
  <2>7. \A p : InQueue(p, list') \/ InHand(t, p)' <=> InQueue(p, list) \/ InHand(t, p)
    BY <2>2, <2>5 DEF InHand, EnqueuePoints
  <2>8. Inside(t)
    BY <2>2 DEF Inside
  <2> QED
    BY <1>2, <1>3, <2>2, <2>6, <2>7, <2>8, SearchStep
<1> QED
  BY <1>4, <1>5, <1>6

\* Taking an entry out moves it into the hand of the search.
LEMMA SearchDequeues ==
  ASSUME SearchInv, NEW t \in Searchers,
         \/ SearchDequeue(t) \/ DequeueShift(t) \/ DequeueLoadSize(t)
         \/ DequeueStoreSize(t) \/ DequeueClear(t)
  PROVE  SearchInv'
<1>1. t \in Threads /\ t \notin Enlisters
  BY ThreadsAssumption DEF Threads
<1>2. /\ StructureInv /\ StructureInv' /\ Types /\ Holding(t) /\ Searching(t)
  BY <1>1, Dequeues DEF SearchInv, StructureInv, Structure
<1>3. Len(list) \in Nat /\ left \in [Threads -> 0..MAX_QUEUE_SIZE] /\ left[t] \in Nat
  BY <1>1, <1>2, QueueSizeAssumption DEF Types
<1>4. CASE SearchDequeue(t)
  <2>1. /\ UNCHANGED <<size, pid, caller, list>> /\ tpc[t] = "search"
        /\ left[t] > 0 /\ caller[t] = NULL /\ left' = Set(left, t, left[t] - 1)
    BY <1>4 DEF SearchDequeue, queue, Goto, ghosts
  <2>2. left[t] <= Len(list) /\ Passed(t, left[t]) /\ size = Len(list)
    BY <1>2, <2>1 DEF Searching, Holding, Kept
  <2>3. size # 0
    BY <1>3, <2>1, <2>2
  <2>4. Goto(t, "search", "shift")
    BY <1>4, <2>3 DEF SearchDequeue
  <2>5. tpc'[t] = "shift" /\ \A u \in Threads : u # t => tpc'[u] = tpc[u]
    BY <1>1, <1>2, <2>4, Went DEF Points, DequeuePoints
  <2>6. left'[t] = left[t] - 1 /\ left'[t] + 1 = left[t] /\ left'[t] < Len(list)
    BY <1>1, <1>3, <2>1, <2>2 DEF Set
  <2>7. Passed(t, left[t] + 1)'
    BY <2>1, <2>2, <2>6 DEF Passed
  <2>8. Searching(t)' /\ Inside(t)
    BY <2>1, <2>5, <2>6, <2>7 DEF Searching, EnqueuePoints, DequeuePoints, Inside
  <2>9. \A p : InQueue(p, list') \/ InHand(t, p)' <=> InQueue(p, list) \/ InHand(t, p)
    BY <2>1, <2>5 DEF InHand, EnqueuePoints
  <2> QED
    BY <1>2, <2>1, <2>5, <2>8, <2>9, SearchStep
<1>5. CASE DequeueShift(t) \/ DequeueLoadSize(t) \/ DequeueStoreSize(t)
  <2>1. PICK from \in DequeuePoints, to \in DequeuePoints : Goto(t, from, to)
    BY <1>5 DEF DequeueShift, DequeueLoadSize, DequeueStoreSize, DequeuePoints
  <2>2. UNCHANGED <<pid, arg, left, caller, list>>
    BY <1>5 DEF DequeueShift, DequeueLoadSize, DequeueStoreSize, locals, ghosts
  <2>3. /\ tpc[t] \in DequeuePoints /\ tpc'[t] \in DequeuePoints
        /\ \A u \in Threads : u # t => tpc'[u] = tpc[u]
    BY <1>1, <1>2, <2>1, Went DEF Points
  <2>4. Searching(t)' /\ Inside(t) /\ tpc'[t] # "end"
    BY <1>2, <2>2, <2>3 DEF Searching, Passed, EnqueuePoints, DequeuePoints, Inside
  <2>5. \A p : InQueue(p, list') \/ InHand(t, p)' <=> InQueue(p, list) \/ InHand(t, p)
    BY <2>2, <2>3 DEF InHand, EnqueuePoints, DequeuePoints
  <2> QED
    BY <1>2, <2>2, <2>3, <2>4, <2>5, SearchStep
<1>6. CASE DequeueClear(t)
  <2>1. /\ tpc[t] = "clear" /\ list' = dequeue(list)
        /\ caller' = Set(caller, t, IF arg[t] = pid[t] THEN arg[t] ELSE NULL)
        /\ UNCHANGED <<pid, arg, left>>
    BY <1>6 DEF DequeueClear, Goto
  <2>2. list # <<>> /\ arg[t] = list[1] /\ list \in Seq(Pids)
    BY <1>2, <2>1 DEF Holding, Dequeuing, DequeuePoints, Types
  <2>3. /\ list[1] \in Pids /\ Len(list) \in Nat \ {0}
        /\ Len(Tail(list)) = Len(list) - 1
        /\ \A k \in 1..(Len(list) - 1) : Tail(list)[k] = list[k + 1]
        /\ \A x : InQueue(x, list) <=> InQueue(x, Tail(list)) \/ x = list[1]
    BY <2>2, Shortened
  <2>4. list' = Tail(list)
    BY <2>1, <2>3 DEF dequeue, empty
  <2>5. arg[t] # NULL
    BY <2>2, <2>3, PidsAssumption
  <2>6. tpc'[t] = "enqueue" /\ \A u \in Threads : u # t => tpc'[u] = tpc[u]
    BY <1>1, <1>2, <1>6, <2>5, Went DEF DequeueClear, Points, EnqueuePoints
  <2>7. /\ caller'[t] = IF arg[t] = pid[t] THEN arg[t] ELSE NULL
        /\ \A u \in Threads : u # t => caller'[u] = caller[u]
    BY <1>1, <1>2, <2>1 DEF Types, Set
  <2>8. left[t] < Len(list) /\ Passed(t, left[t] + 1)
    BY <1>2, <2>1 DEF Searching, DequeuePoints
  <2>9. left'[t] <= Len(list')
    BY <1>3, <2>1, <2>3, <2>4, <2>8
  <2>10. Passed(t, left[t])'
    <3> SUFFICES ASSUME NEW k \in 1..Len(list'), k > left[t] PROVE list'[k] # pid[t]
      BY <2>1 DEF Passed
    <3>1. k \in 1..(Len(list) - 1) /\ k + 1 \in 1..Len(list) /\ k + 1 > left[t] + 1
      BY <1>3, <2>3, <2>4
    <3> QED
      BY <2>3, <2>4, <2>8, <3>1 DEF Passed
  <2>11. Searching(t)'
    BY <2>1, <2>5, <2>6, <2>7, <2>9, <2>10 DEF Searching, EnqueuePoints, DequeuePoints
  <2>12. \A p : InQueue(p, list') \/ InHand(t, p)' <=> InQueue(p, list) \/ InHand(t, p)
    BY <2>1, <2>2, <2>3, <2>4, <2>6 DEF InHand, EnqueuePoints
  <2>13. Inside(t)
    BY <2>1 DEF Inside
  <2> QED
    BY <1>2, <2>1, <2>6, <2>7, <2>11, <2>12, <2>13, SearchStep
<1> QED
  BY <1>4, <1>5, <1>6

\* An enlister that is inside, or goes in, leaves every listed process listed.
LEMMA EnlisterSteps ==
  ASSUME SearchInv, NEW t \in Enlisters, Step(t), mixed' = FALSE
  PROVE  SearchInv'
<1>1. t \in Threads /\ t \notin Searchers
  BY ThreadsAssumption DEF Threads
<1>2. StructureInv /\ StructureInv' /\ Types /\ Control /\ Holding(t)
  BY <1>1, Locks, Unlocks, Enqueues, Dequeues DEF SearchInv, StructureInv, Structure, Step
<1>3. tpc[t] \in EnqueuePoints \cup {"idle", "lock", "return", "end"}
  BY <1>2 DEF Control
<1>4. \/ Lock(t) \/ Unlock(t) \/ EnqueueFull(t) \/ EnqueueLoadIndex(t) \/ EnqueueStoreProc(t)
      \/ EnqueueLoadSize(t) \/ EnqueueStoreSize(t)
  BY <1>3 DEF Step, SearchDequeue, DequeueShift, DequeueLoadSize, DequeueStoreSize,
              DequeueClear, Goto, EnqueuePoints
<1>5. UNCHANGED <<pid, caller>> /\ \A u \in Threads : u # t => tpc'[u] = tpc[u]
  BY <1>2, <1>4 DEF Lock, Unlock, EnqueueFull, EnqueueLoadIndex, EnqueueStoreProc,
                    EnqueueLoadSize, EnqueueStoreSize, Goto, Types, locals
<1>6. Inside(t) \/ Quiet
  <2>1. CASE Lock(t)
    BY <1>1, <1>2, <2>1, Locks
  <2>2. CASE ~Lock(t)
    BY <1>4, <2>2 DEF Unlock, EnqueueFull, EnqueueLoadIndex, EnqueueStoreProc,
                      EnqueueLoadSize, EnqueueStoreSize, Goto, Inside
  <2> QED
    BY <2>1, <2>2
<1>7. \A u \in Searchers : u \in Threads /\ u # t /\ ~Inside(u)
  BY <1>1, <1>2, <1>6, Alone DEF Threads
<1>8. \A p : InQueue(p, list) => InQueue(p, list')
  <2>1. CASE EnqueueStoreSize(t)
    <3>1. tpc[t] = "inc_store" /\ list' = enqueue(list, arg[t])
      BY <2>1 DEF EnqueueStoreSize, Goto
    <3>2. arg[t] \in Pids /\ Len(list) < MAX_QUEUE_SIZE /\ list \in Seq(Pids) /\ Len(list) \in Nat
      BY <1>2, <3>1 DEF Holding, Enqueuing, EnqueuePoints, Types
    <3>3. list' = Append(list, arg[t])
      BY <3>1, <3>2, QueueSizeAssumption, PidsAssumption DEF enqueue
    <3> QED
      BY <3>2, <3>3, Appended
  <2>2. CASE ~EnqueueStoreSize(t)
    <3>1. list' = list
      BY <1>4, <2>2 DEF Lock, Unlock, EnqueueFull, EnqueueLoadIndex, EnqueueStoreProc,
                        EnqueueLoadSize, ghosts
    <3> QED
      BY <3>1
  <2> QED
    BY <2>1, <2>2
<1>9. ASSUME NEW u \in Searchers
      PROVE  /\ Searching(u)'
             /\ tpc'[u] = "end" /\ caller'[u] # NULL => Listed(pid[u])'
  <2>1. /\ tpc'[u] = tpc[u] /\ caller'[u] = caller[u] /\ pid'[u] = pid[u]
        /\ tpc[u] \in {"idle", "lock", "end"}
    BY <1>5, <1>7 DEF Inside
  <2>2. Searching(u)'
    BY <2>1 DEF SearchInv, Searching, EnqueuePoints, DequeuePoints
  <2>3. tpc[u] = "end" /\ caller[u] # NULL => InQueue(pid[u], list)
    BY <1>7 DEF SearchInv, Listed, Inside, EnqueuePoints
  <2>4. tpc[u] = "end" /\ caller[u] # NULL => InQueue(pid[u], list')
    BY <1>8, <2>3
  <2>5. tpc[u] = "end" /\ caller[u] # NULL => Listed(pid[u])'
    BY <2>1, <2>4 DEF Listed, InQueue
  <2> QED
    BY <2>1, <2>2, <2>5
<1> QED
  BY <1>2, <1>9 DEF SearchInv

\* The invariant of the searches holds at the start.
LEMMA SearchInit == Init => SearchInv
<1> SUFFICES ASSUME Init PROVE SearchInv
  OBVIOUS
<1>1. StructureInv
  BY StructureInit
<1>2. ASSUME NEW t \in Searchers PROVE tpc[t] \in {"idle", "lock"} /\ caller[t] = NULL
  BY DEF Init, Threads
<1> QED
  BY <1>1, <1>2 DEF SearchInv, Searching, EnqueuePoints, DequeuePoints

\* Every step keeps it, unless an enlister and a searcher meet.
LEMMA SearchNext == SearchInv /\ [Next]_vars /\ mixed' = FALSE => SearchInv'
<1> SUFFICES ASSUME SearchInv, [Next]_vars, mixed' = FALSE PROVE SearchInv'
  OBVIOUS
<1>1. CASE UNCHANGED vars
  <2>1. UNCHANGED <<size, slots, lock, tpc, pid, arg, tmp, idx, left, caller, list>>
    BY <1>1 DEF vars, queue, locals, ghosts
  <2>2. StructureInv'
    BY <1>1, StructureNext DEF SearchInv
  <2> QED
    BY <2>1, <2>2 DEF SearchInv, Searching, Passed, Listed, InQueue
<1>2. ASSUME NEW t \in Searchers, Step(t) PROVE SearchInv'
  BY <1>2, SearchLocks, SearchUnlocks, SearchEnqueues, SearchDequeues DEF Step
<1>3. ASSUME NEW t \in Enlisters, Step(t) PROVE SearchInv'
  BY <1>3, EnlisterSteps
<1> QED
  BY <1>1, <1>2, <1>3 DEF Next, Terminated, Undefined, Threads

\* As long as nobody has met, the invariant of the searches holds.
LEMMA SearchThroughout == Spec => [](mixed \in BOOLEAN /\ (mixed = FALSE => SearchInv))
<1>1. Init => mixed \in BOOLEAN /\ (mixed = FALSE => SearchInv)
  BY SearchInit DEF Init
<1>2. mixed \in BOOLEAN /\ (mixed = FALSE => SearchInv) /\ [Next]_vars
        => (mixed \in BOOLEAN /\ (mixed = FALSE => SearchInv))'
  BY SearchNext, MixedStays
<1> QED
  BY <1>1, <1>2, PTL DEF Spec

\* Until an enlister and a searcher are inside together, a search by pid ends with
\* the process exactly if it is listed and leaves it listed, however many searches
\* rotate the list and calls of put_proc and add_proc append to it (sys_mem.c,
\* __sys_memmap; sys_xxxhandler.c).
THEOREM FindsListed == Spec => []SearchFinds
<1>1. SearchInv => SearchFinds
  <2> SUFFICES ASSUME SearchInv, NEW t \in Searchers
               PROVE  /\ SearchOver(t) => (caller[t] # NULL <=> InQueue(pid[t], list))
                      /\ Quiet /\ tpc[t] = "end" /\ caller[t] # NULL => InQueue(pid[t], list)
    BY DEF SearchFinds
  <2>1. ASSUME SearchOver(t) PROVE caller[t] # NULL <=> InQueue(pid[t], list)
    <3>1. tpc[t] = "search" /\ (left[t] = 0 \/ caller[t] # NULL) /\ Searching(t)
      BY <2>1 DEF SearchOver, SearchInv
    <3>2. CASE caller[t] = NULL
      <4>1. Passed(t, 0)
        BY <3>1, <3>2 DEF Searching
      <4> QED
        BY <3>2, <4>1 DEF Passed, InQueue
    <3>3. CASE caller[t] # NULL
      BY <3>1, <3>3 DEF Searching
    <3> QED
      BY <3>2, <3>3
  <2>2. ASSUME Quiet, tpc[t] = "end", caller[t] # NULL PROVE InQueue(pid[t], list)
    <3>1. \A u \in Threads : ~Inside(u)
      BY <2>2, QuietOutside DEF SearchInv
    <3>2. \A p : Listed(p) <=> InQueue(p, list)
      BY <3>1 DEF Listed, Inside, EnqueuePoints, Threads
    <3> QED
      BY <2>2, <3>2 DEF SearchInv
  <2> QED
    BY <2>1, <2>2
<1>2. mixed \in BOOLEAN /\ (mixed = FALSE => SearchInv) => SearchFinds
  BY <1>1 DEF SearchFinds
<1> QED
  BY SearchThroughout, <1>2, PTL

=============================================================================
