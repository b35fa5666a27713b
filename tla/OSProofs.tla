------------------------------ MODULE OSProofs ------------------------------
(***************************************************************************)
(* Proofs about the simulator's threads, for any number of CPUs, levels    *)
(* and processes, any quantum and any queue size.                          *)
(***************************************************************************)
EXTENDS OS, SchedLemmas, FiniteSetTheorems

-----------------------------------------------------------------------------
(* The inductive invariant *)

\* No queue repeats a process, and a process waits at its own level.
ReadyShape ==
  \A l \in Levels : /\ NoRepeat(mlq_ready_queue[l])
                    /\ \A p \in Procs : InQueue(p, mlq_ready_queue[l]) => prio[p] = l

\* Who may be where; AtMostOnePlace says it of the queues' contents.
Places ==
  /\ \A p \in Procs : IsReady(p) => p \in Loaded /\ p \notin freed
  /\ \A c \in Cpus : \A p \in Procs :
       Held(c) = p => p \in Loaded /\ p \notin freed /\ ~IsReady(p)
  /\ \A c, d \in Cpus : Held(c) = Held(d) /\ Held(c) # NULL => c = d
  /\ freed \subseteq Loaded

\* time_left is 0 wherever a CPU is between two processes.
Quantum ==
  \A c \in Cpus : cpc[c] # "top" \/ proc[c] = NULL => time_left[c] = 0

\* Where the threads are: a CPU in next_slot is at the top of its loop, one that
\* has detached is stopped; a stopped CPU has seen `done` and owns nothing; `done` is set by the loader's
\* last step.
Control ==
  /\ \A c \in Cpus : phase[c] = "arrived" => cpc[c] = "top"
  /\ \A c \in Cpus : phase[c] = "gone" => cpc[c] = "stopped"
  /\ \A c \in Cpus : cpc[c] = "stopped" => done /\ proc[c] = NULL
  /\ done => lpc = "exited"
  /\ lpc = "exited" => i = NumProcs /\ phase[Loader] = "gone"

\* CPU c has found nothing ready and has not gone back to the top since.
Idle(c) == cpc[c] = "stopped" \/ (cpc[c] = "recheck" /\ proc[c] = NULL)

\* After the slot in which the last process was added, a ready process has a
\* CPU that will look for it.
Attended ==
  i = NumProcs /\ phase[Loader] # "arrived" /\ (\E p \in Procs : IsReady(p)) =>
    \E c \in Cpus : ~Idle(c)

IInv ==
  /\ TypeOK /\ ReadyShape /\ Places /\ Quantum /\ Control
  /\ NoProcLost /\ Attended

\* NULL is no process.
LEMMA NullNoProc == NULL \notin Procs
  BY NumProcsAssumption DEF NULL, Procs

-----------------------------------------------------------------------------
(* The ready queues *)

\* get_proc takes a ready process out of the ready queues and leaves the others.
LEMMA DispatchTakes ==
  ASSUME TypeOK, ReadyShape, NEW p, Dispatch(p), UNCHANGED prio
  PROVE  /\ p \in Procs /\ IsReady(p)
         /\ mlq_ready_queue' \in [Levels -> Seq(Procs)]
         /\ currentPrio' \in Levels /\ used_slot' \in 0..MAX_PRIO
         /\ ReadyShape'
         /\ \A x \in Procs : IsReady(x)' <=> IsReady(x) /\ x # p
<1> DEFINE q == mlq_ready_queue[Chosen]
<1>0. currentPrio \in Levels /\ used_slot \in Nat /\ mlq_ready_queue \in [Levels -> Seq(Procs)]
  BY MaxPrioAssumption DEF TypeOK
<1>1. Chosen \in Levels /\ Ready(Chosen) /\ (WithinBudget => Used + 1 \in 0..MAX_PRIO)
  BY <1>0, ChosenReady DEF Dispatch
<1>2. q \in Seq(Procs) /\ ~empty(q)
  BY <1>0, <1>1 DEF Ready
<1>3. /\ p = dequeued(q)
      /\ mlq_ready_queue' = [mlq_ready_queue EXCEPT ![Chosen] = dequeue(q)]
      /\ currentPrio' = Chosen
      /\ used_slot' = IF WithinBudget THEN Used + 1 ELSE 1
  BY Zenon DEF Dispatch
<1>4. p \in Procs /\ dequeue(q) \in Seq(Procs)
  BY <1>2, <1>3, DequeueType
<1>5. currentPrio' \in Levels /\ used_slot' \in 0..MAX_PRIO
  BY <1>1, <1>3, MaxPrioAssumption
<1> HIDE DEF q
<1>6. /\ mlq_ready_queue' \in [Levels -> Seq(Procs)]
      /\ \A l \in Levels : mlq_ready_queue'[l] = IF l = Chosen THEN dequeue(q) ELSE mlq_ready_queue[l]
  BY <1>0, <1>1, <1>3, <1>4
<1>7. \A x : /\ InQueue(dequeued(q), q)
             /\ InQueue(x, dequeue(q)) => InQueue(x, q)
             /\ InQueue(x, q) => InQueue(x, dequeue(q)) \/ x = dequeued(q)
             /\ NoRepeat(q) => NoRepeat(dequeue(q)) /\ ~InQueue(dequeued(q), dequeue(q))
  BY <1>2, DequeueContents
<1>8. NoRepeat(q) /\ prio[p] = Chosen
  BY <1>1, <1>3, <1>4, <1>7 DEF ReadyShape, q
<1>9. \A l \in Levels : \A x \in Procs :
        InQueue(x, mlq_ready_queue'[l]) <=> InQueue(x, mlq_ready_queue[l]) /\ x # p
  <2> SUFFICES ASSUME NEW l \in Levels, NEW x \in Procs
               PROVE  InQueue(x, mlq_ready_queue'[l]) <=> InQueue(x, mlq_ready_queue[l]) /\ x # p
    OBVIOUS
  <2>1. CASE l = Chosen
    <3>1. mlq_ready_queue'[l] = dequeue(q) /\ mlq_ready_queue[l] = q
      BY <2>1, <1>6 DEF q
    <3> QED
      BY <3>1, <1>7, <1>8, <1>3
  <2>2. CASE l # Chosen
    <3>1. mlq_ready_queue'[l] = mlq_ready_queue[l]
      BY <2>2, <1>6
    <3>2. InQueue(x, mlq_ready_queue[l]) => prio[x] = l
      BY DEF ReadyShape
    <3> QED
      BY <3>1, <3>2, <1>8, <2>2
  <2> QED
    BY <2>1, <2>2
<1>10. \A l \in Levels : NoRepeat(mlq_ready_queue'[l])
  BY <1>6, <1>7, <1>8 DEF ReadyShape
<1>11. ReadyShape'
  BY <1>9, <1>10 DEF ReadyShape, NoRepeat, InQueue
<1>12. \A x \in Procs : IsReady(x)' <=> IsReady(x) /\ x # p
  BY <1>9, Zenon DEF IsReady, InQueue
<1>13. IsReady(p)
  BY <1>1, <1>3, <1>7 DEF IsReady, q
<1> QED
  BY <1>4, <1>5, <1>6, <1>11, <1>12, <1>13

\* Below the capacity of a queue there is room for one more process.
LEMMA Room ==
  ASSUME NumProcs <= MAX_QUEUE_SIZE, NEW q \in Seq(Procs), NoRepeat(q),
         NEW p \in Procs, ~InQueue(p, q)
  PROVE  Len(q) < MAX_QUEUE_SIZE
<1> USE NumProcsAssumption, QueueSizeAssumption
<1>0. Len(q) \in Nat /\ DOMAIN q = 1..Len(q)
  BY LenProperties
<1>1. SUFFICES ASSUME Len(q) >= MAX_QUEUE_SIZE PROVE FALSE
  BY <1>0
<1>2. IsFiniteSet(1..Len(q)) /\ Cardinality(1..Len(q)) = Len(q)
  BY <1>0, FS_Interval
<1>3. IsFiniteSet(Procs) /\ Cardinality(Procs) = NumProcs
  BY FS_Interval DEF Procs
<1>4. IsFiniteSet(Procs \ {p}) /\ Cardinality(Procs \ {p}) = NumProcs - 1
  BY <1>3, FS_RemoveElement
<1>5. [k \in 1..Len(q) |-> q[k]] \in [1..Len(q) -> Procs \ {p}]
  <2> SUFFICES ASSUME NEW k \in 1..Len(q) PROVE q[k] \in Procs /\ q[k] # p
    OBVIOUS
  <2>1. q[k] \in Procs
    BY <1>0, ElementOfSeq
  <2> QED
    BY <2>1 DEF InQueue
<1>6. Cardinality(1..Len(q)) > Cardinality(Procs \ {p})
  BY <1>0, <1>1, <1>2, <1>4
<1> DEFINE f == [k \in 1..Len(q) |-> q[k]]
<1>7. PICK x \in 1..Len(q), y \in 1..Len(q) : x # y /\ f[x] = f[y]
  <2> HIDE DEF f
  <2> QED BY <1>2, <1>4, <1>5, <1>6, FS_PigeonHole DEF f
<1> QED
  BY <1>7 DEF NoRepeat

\* put_mlq_proc and add_mlq_proc add a process to the ready queues, unless its
\* queue is full.
LEMMA PutAdds ==
  ASSUME TypeOK, ReadyShape, NEW p \in Procs, ~IsReady(p),
         put_mlq_proc(p), UNCHANGED prio
  PROVE  /\ mlq_ready_queue' \in [Levels -> Seq(Procs)]
         /\ ReadyShape'
         /\ \A x \in Procs : IsReady(x)' => IsReady(x) \/ x = p
         /\ \A x \in Procs : IsReady(x) => IsReady(x)'
         /\ NumProcs <= MAX_QUEUE_SIZE => IsReady(p)'
<1> DEFINE q == mlq_ready_queue[prio[p]]
<1>0. prio[p] \in Levels /\ mlq_ready_queue \in [Levels -> Seq(Procs)]
  BY DEF TypeOK
<1>1. q \in Seq(Procs) /\ enqueue(q, p) \in Seq(Procs)
  BY <1>0, EnqueueType
<1>2. mlq_ready_queue' = [mlq_ready_queue EXCEPT ![prio[p]] = enqueue(q, p)]
  BY Zenon DEF put_mlq_proc
<1>3. ~InQueue(p, q) /\ NoRepeat(q)
  BY <1>0 DEF IsReady, ReadyShape
<1> HIDE DEF q
<1>4. /\ mlq_ready_queue' \in [Levels -> Seq(Procs)]
      /\ \A l \in Levels : mlq_ready_queue'[l] = IF l = prio[p] THEN enqueue(q, p) ELSE mlq_ready_queue[l]
  BY <1>0, <1>1, <1>2
<1>5. \A x : /\ InQueue(x, enqueue(q, p)) => InQueue(x, q) \/ x = p
             /\ InQueue(x, q) => InQueue(x, enqueue(q, p))
             /\ Len(q) < MAX_QUEUE_SIZE => InQueue(p, enqueue(q, p))
             /\ NoRepeat(q) /\ ~InQueue(p, q) => NoRepeat(enqueue(q, p))
  BY <1>1, EnqueueContents
<1>6. \A l \in Levels : NoRepeat(mlq_ready_queue'[l])
  BY <1>3, <1>4, <1>5 DEF ReadyShape
<1>7. \A l \in Levels : \A x \in Procs :
        /\ InQueue(x, mlq_ready_queue'[l]) => InQueue(x, mlq_ready_queue[l]) \/ (x = p /\ l = prio[p])
        /\ InQueue(x, mlq_ready_queue[l]) => InQueue(x, mlq_ready_queue'[l])
  BY <1>4, <1>5 DEF q
<1>8. ReadyShape'
  BY <1>6, <1>7 DEF ReadyShape, NoRepeat, InQueue
<1>9. \A x \in Procs : (IsReady(x)' => IsReady(x) \/ x = p) /\ (IsReady(x) => IsReady(x)')
  BY <1>7, Zenon DEF IsReady, InQueue
<1>10. ASSUME NumProcs <= MAX_QUEUE_SIZE PROVE IsReady(p)'
  <2>1. Len(q) < MAX_QUEUE_SIZE
    BY <1>10, <1>1, <1>3, Room
  <2>2. InQueue(p, mlq_ready_queue'[prio[p]])
    BY <2>1, <1>0, <1>4, <1>5
  <2> QED
    BY <2>2, <1>0 DEF IsReady, InQueue
<1> QED
  BY <1>4, <1>8, <1>9, <1>10

\* get_proc returns a ready process and takes it out of the ready queues, or
\* returns NULL and no process is ready.
LEMMA GetProc ==
  ASSUME TypeOK, ReadyShape, NEW p \in Procs \cup {NULL}, get_proc(p), UNCHANGED prio
  PROVE  /\ mlq_ready_queue' \in [Levels -> Seq(Procs)]
         /\ currentPrio' \in Levels /\ used_slot' \in 0..MAX_PRIO
         /\ ReadyShape'
         /\ p = NULL => \A x \in Procs : ~IsReady(x) /\ ~IsReady(x)'
         /\ p # NULL => p \in Procs /\ IsReady(p)
         /\ \A x \in Procs : IsReady(x)' <=> IsReady(x) /\ x # p
<1>1. CASE p = NULL /\ NoneReady
  <2>1. UNCHANGED <<mlq_ready_queue, currentPrio, used_slot, prio>>
    BY <1>1 DEF NoneReady, readyvars
  <2>2. ASSUME NEW x \in Procs PROVE ~IsReady(x)
    <3> SUFFICES ASSUME NEW l \in Levels, NEW k \in 1..Len(mlq_ready_queue[l]) PROVE FALSE
      BY DEF IsReady, InQueue
    <3>1. Len(mlq_ready_queue[l]) = 0
      BY <1>1 DEF NoneReady, NothingReady, Ready, empty
    <3> QED
      BY <3>1
  <2>3. \A x : IsReady(x)' <=> IsReady(x)
    BY <2>1 DEF IsReady, InQueue
  <2>4. ReadyShape'
    BY <2>1 DEF ReadyShape, InQueue, NoRepeat
  <2> QED
    BY <1>1, <2>1, <2>2, <2>3, <2>4 DEF TypeOK
<1>2. CASE p # NULL /\ Dispatch(p)
  BY <1>2, DispatchTakes
<1> QED
  BY <1>1, <1>2 DEF get_proc

-----------------------------------------------------------------------------
(* Types *)

\* The initial state is well typed.
LEMMA InitTypeOK == Init => TypeOK
<1> SUFFICES ASSUME Init PROVE TypeOK
  OBVIOUS
<1> USE MaxPrioAssumption, NumProcsAssumption, TimeSlotAssumption, ConfigAssumption
<1>1. mlq_ready_queue \in [Levels -> Seq(Procs)]
  BY EmptySeq DEF Init, init_scheduler
<1>2. currentPrio \in Levels /\ used_slot \in 0..MAX_PRIO
  BY DEF Init, init_scheduler, Levels
<1>3. start_time \in [Procs -> Nat] /\ size \in [Procs -> Nat]
  BY DEF Init
<1>4. time \in Nat /\ phase \in [Devices -> Barrier!Phases]
  BY DEF Init, Barrier!BarrierInit, Barrier!Phases
<1>5. pc \in [Procs -> Nat] /\ freed \subseteq Procs /\ prio \in [Procs -> Levels]
  BY DEF Init
<1>6. /\ cpc \in [Cpus -> {"top", "put", "get", "recheck", "stopped"}]
      /\ proc \in [Cpus -> Procs \cup {NULL}]
      /\ \A c \in Cpus : cpc[c] = "put" => proc[c] # NULL
      /\ time_left \in [Cpus -> 0..TimeSlot]
  BY DEF Init
<1>7. /\ lpc \in {"wait", "add", "exited"}
      /\ i \in 0..NumProcs /\ (lpc = "add" => i < NumProcs)
      /\ mm \in Procs \cup {NULL}
  BY DEF Init
<1>8. done \in BOOLEAN
  BY Zenon DEF Init
<1> QED
  BY <1>1, <1>2, <1>3, <1>4, <1>5, <1>6, <1>7, <1>8 DEF TypeOK

\* Every step keeps the state well typed.
LEMMA NextTypeOK ==
  ASSUME IInv, Next
  PROVE  TypeOK'
<1> USE MaxPrioAssumption, NumProcsAssumption, TimeSlotAssumption
<1>0. TypeOK /\ ReadyShape
  BY DEF IInv
<1>1. \A d \in Devices : Barrier!Arrive(d) \/ Barrier!Leave(d) =>
        (time \in Nat /\ phase \in [Devices -> Barrier!Phases])'
  BY <1>0 DEF TypeOK, Barrier!Arrive, Barrier!Leave, Barrier!Phases
<1>2. ASSUME NEW c \in Cpus, GetFirst(c) PROVE TypeOK'
  <2>0. c \in Devices
    BY DEF Devices
  <2>1. PICK p \in Procs \cup {NULL} :
          /\ get_proc(p)
          /\ proc' = [proc EXCEPT ![c] = p]
          /\ IF p = NULL THEN Barrier!Arrive(c) /\ UNCHANGED cpc
                         ELSE Goto(c, "recheck") /\ UNCHANGED barrier
    BY <1>2 DEF GetFirst
  <2>2. At(c, "top") /\ UNCHANGED <<config, pc, freed, time_left, loader>>
    BY <1>2 DEF GetFirst
  <2>3. (mlq_ready_queue \in [Levels -> Seq(Procs)] /\ currentPrio \in Levels /\ used_slot \in 0..MAX_PRIO)'
    BY <2>1, <2>2, <1>0, GetProc DEF config
  <2>4. (time \in Nat /\ phase \in [Devices -> Barrier!Phases])'
    BY <2>0, <2>1, <1>0, <1>1 DEF TypeOK, barrier
  <2>5. /\ (cpc \in [Cpus -> {"top", "put", "get", "recheck", "stopped"}])'
        /\ (proc \in [Cpus -> Procs \cup {NULL}])'
        /\ (\A d \in Cpus : cpc[d] = "put" => proc[d] # NULL)'
    BY <2>1, <2>2, <1>0 DEF TypeOK, Goto, At
  <2> QED
    BY <2>2, <2>3, <2>4, <2>5, <1>0 DEF TypeOK, config, loader
<1>3. ASSUME NEW c \in Cpus, Finish(c) PROVE TypeOK'
  BY <1>3, <1>0 DEF TypeOK, Finish, At, Goto, config, barrier, readyvars, loader
<1>4. ASSUME NEW c \in Cpus, PutProcEnlist(c) PROVE TypeOK'
  BY <1>4, <1>0 DEF TypeOK, PutProcEnlist, Preempted, At, Goto, config, barrier, readyvars, loader
<1>5. ASSUME NEW c \in Cpus, PutProcReady(c) PROVE TypeOK'
  <2>0. proc[c] \in Procs /\ prio[proc[c]] \in Levels
    BY <1>5, <1>0 DEF TypeOK, PutProcReady, At
  <2>1. mlq_ready_queue' \in [Levels -> Seq(Procs)]
    BY <1>5, <2>0, <1>0, EnqueueType DEF TypeOK, PutProcReady, put_mlq_proc
  <2> QED
    BY <1>5, <2>1, <1>0 DEF TypeOK, PutProcReady, put_mlq_proc, At, Goto, config, barrier, loader
<1>6. ASSUME NEW c \in Cpus, GetNext(c) PROVE TypeOK'
  <2>1. PICK p \in Procs \cup {NULL} : get_proc(p) /\ proc' = [proc EXCEPT ![c] = p]
    BY <1>6 DEF GetNext
  <2>2. Goto(c, "recheck") /\ UNCHANGED <<config, barrier, pc, freed, time_left, loader>>
    BY <1>6 DEF GetNext
  <2>3. (mlq_ready_queue \in [Levels -> Seq(Procs)] /\ currentPrio \in Levels /\ used_slot \in 0..MAX_PRIO)'
    BY <2>1, <2>2, <1>0, GetProc DEF config
  <2>5. /\ (cpc \in [Cpus -> {"top", "put", "get", "recheck", "stopped"}])'
        /\ (proc \in [Cpus -> Procs \cup {NULL}])'
        /\ (\A d \in Cpus : cpc[d] = "put" => proc[d] # NULL)'
    BY <2>1, <2>2, <1>0 DEF TypeOK, Goto
  <2> QED
    BY <2>2, <2>3, <2>5, <1>0 DEF TypeOK, config, barrier, loader
<1>7. ASSUME NEW c \in Cpus, Stop(c) \/ Skip(c) PROVE TypeOK'
  <2>1. (time \in Nat /\ phase \in [Devices -> Barrier!Phases])'
    BY <1>7, <1>1 DEF Stop, Skip, Devices
  <2> QED
    BY <1>7, <2>1, <1>0 DEF TypeOK, Stop, Skip, Goto, config, readyvars, loader
<1>8. ASSUME NEW c \in Cpus, Run(c) PROVE TypeOK'
  <2>1. (time \in Nat /\ phase \in [Devices -> Barrier!Phases])'
    BY <1>8, <1>1 DEF Run, Devices
  <2>2. (pc \in [Procs -> Nat])'
    BY <1>8, <1>0 DEF TypeOK, Run, run
  <2>3. (time_left \in [Cpus -> 0..TimeSlot])'
    BY <1>8, <1>0 DEF TypeOK, Run
  <2> QED
    BY <1>8, <2>1, <2>2, <2>3, <1>0 DEF TypeOK, Run, Goto, config, readyvars, loader
<1>9. ASSUME LoaderStep PROVE TypeOK'
  <2>1. CASE LoaderWait
    BY <2>1, <1>0, <1>1 DEF TypeOK, LoaderWait, Devices, config, readyvars, cpu, loader
  <2>2. CASE AddProcEnlist
    <3>1. i + 1 \in Procs
      BY <2>2, <1>0 DEF TypeOK, AddProcEnlist, Procs
    <3> QED
      BY <2>2, <3>1, <1>0 DEF TypeOK, AddProcEnlist, config, barrier, readyvars, cpu
  <2>3. CASE AddProcReady
    <3>1. i + 1 \in Procs /\ i + 1 \in 0..NumProcs
      BY <2>3, <1>0 DEF TypeOK, AddProcReady, LoaderAt, Procs
    <3>2. mlq_ready_queue' \in [Levels -> Seq(Procs)]
      BY <2>3, <3>1, <1>0, EnqueueType DEF TypeOK, AddProcReady, put_mlq_proc
    <3>3. (time \in Nat /\ phase \in [Devices -> Barrier!Phases])'
      BY <2>3, <1>1 DEF AddProcReady, Devices
    <3> QED
      BY <2>3, <3>1, <3>2, <3>3, <1>0 DEF TypeOK, AddProcReady, put_mlq_proc, config, cpu
  <2>4. CASE LoaderExit
    BY <2>4, <1>0, <1>1 DEF TypeOK, LoaderExit, Devices, config, readyvars, cpu
  <2> QED
    BY <1>9, <2>1, <2>2, <2>3, <2>4 DEF LoaderStep
<1>10. ASSUME SlotEnds PROVE TypeOK'
  BY <1>10, <1>0 DEF TypeOK, SlotEnds, Barrier!Release, Barrier!Phases, config, readyvars, cpu, loader
<1>11. ASSUME Terminated PROVE TypeOK'
  BY <1>11, <1>0 DEF TypeOK, Terminated, vars, config, barrier, readyvars, cpu, loader, Barrier!Phases
<1> QED
  BY <1>2, <1>3, <1>4, <1>5, <1>6, <1>7, <1>8, <1>9, <1>10, <1>11 DEF Next, CpuStep

-----------------------------------------------------------------------------
(* Control and quantum *)

\* Every step preserves Quantum: the two ways out of a process leave time_left
\* at 0, and only Run sets it.
LEMMA NextQuantum ==
  ASSUME IInv, Next
  PROVE  Quantum'
<1>0. TypeOK /\ Quantum
  BY DEF IInv
<1>1. ASSUME NEW c \in Cpus, CpuStep(c) PROVE Quantum'
  <2>1. CASE GetFirst(c)
    BY <2>1, <1>0 DEF TypeOK, Quantum, GetFirst, At, Goto
  <2>2. CASE Finish(c)
    BY <2>2, <1>0 DEF TypeOK, Quantum, Finish, At, Goto
  <2>3. CASE PutProcEnlist(c)
    BY <2>3, <1>0 DEF TypeOK, Quantum, PutProcEnlist, Preempted, At, Goto
  <2>4. CASE PutProcReady(c)
    BY <2>4, <1>0 DEF TypeOK, Quantum, PutProcReady, At, Goto
  <2>5. CASE GetNext(c)
    BY <2>5, <1>0 DEF TypeOK, Quantum, GetNext, At, Goto
  <2>6. CASE Stop(c) \/ Skip(c)
    BY <2>6, <1>0 DEF TypeOK, Quantum, Stop, Skip, At, Goto
  <2>7. CASE Run(c)
    BY <2>7, <1>0 DEF TypeOK, Quantum, Run, At, Goto
  <2> QED
    BY <1>1, <2>1, <2>2, <2>3, <2>4, <2>5, <2>6, <2>7 DEF CpuStep
<1>2. ASSUME LoaderStep \/ SlotEnds \/ Terminated PROVE Quantum'
  <2>1. UNCHANGED cpu
    BY <1>2 DEF LoaderStep, LoaderWait, AddProcEnlist, AddProcReady, LoaderExit,
                SlotEnds, Terminated, vars
  <2> QED
    BY <2>1, <1>0 DEF Quantum, cpu
<1> QED
  BY <1>1, <1>2 DEF Next

\* Every step preserves Control.
LEMMA NextControl ==
  ASSUME IInv, Next
  PROVE  Control'
<1>0. TypeOK /\ Control
  BY DEF IInv
<1>00. \A c \in Cpus : c \in Devices /\ c # Loader
  BY DEF Devices, Cpus, Loader
<1>1. ASSUME NEW c \in Cpus, CpuStep(c) PROVE Control'
  <2>0. c \in Devices /\ c # Loader
    BY <1>00
  <2>1. CASE GetFirst(c)
    BY <2>1, <2>0, <1>0 DEF TypeOK, Control, GetFirst, At, Goto, Barrier!Arrive, barrier, loader, Devices
  <2>2. CASE Finish(c)
    BY <2>2, <2>0, <1>0 DEF TypeOK, Control, Finish, At, Goto, barrier, loader
  <2>3. CASE PutProcEnlist(c)
    BY <2>3, <2>0, <1>0 DEF TypeOK, Control, PutProcEnlist, At, Goto, barrier, loader
  <2>4. CASE PutProcReady(c)
    BY <2>4, <2>0, <1>0 DEF TypeOK, Control, PutProcReady, At, Goto, barrier, loader
  <2>5. CASE GetNext(c)
    BY <2>5, <2>0, <1>0 DEF TypeOK, Control, GetNext, At, Goto, barrier, loader
  <2>6. CASE Stop(c)
    BY <2>6, <2>0, <1>0 DEF TypeOK, Control, Stop, At, Goto, Barrier!Leave, loader, Devices
  <2>7. CASE Skip(c)
    BY <2>7, <2>0, <1>0 DEF TypeOK, Control, Skip, At, Goto, Barrier!Arrive, loader, Devices
  <2>8. CASE Run(c)
    BY <2>8, <2>0, <1>0 DEF TypeOK, Control, Run, At, Goto, Barrier!Arrive, loader, Devices
  <2> QED
    BY <1>1, <2>1, <2>2, <2>3, <2>4, <2>5, <2>6, <2>7, <2>8 DEF CpuStep
<1>2. ASSUME LoaderStep PROVE Control'
  <2>1. CASE LoaderWait
    BY <2>1, <1>0, <1>00 DEF TypeOK, Control, LoaderWait, LoaderAt, Barrier!Arrive, cpu, loader, Devices
  <2>2. CASE AddProcEnlist
    BY <2>2, <1>0 DEF TypeOK, Control, AddProcEnlist, LoaderAt, barrier, cpu
  <2>3. CASE AddProcReady
    BY <2>3, <1>0, <1>00 DEF TypeOK, Control, AddProcReady, LoaderAt, Barrier!Arrive, cpu, Devices
  <2>4. CASE LoaderExit
    BY <2>4, <1>0, <1>00 DEF TypeOK, Control, LoaderExit, LoaderAt, Barrier!Leave, cpu, Devices
  <2> QED
    BY <1>2, <2>1, <2>2, <2>3, <2>4 DEF LoaderStep
<1>3. ASSUME SlotEnds PROVE Control'
  BY <1>3, <1>0, <1>00 DEF TypeOK, Control, SlotEnds, Barrier!Release, cpu, loader, Devices
<1>4. ASSUME Terminated PROVE Control'
  BY <1>4, <1>0 DEF Control, Terminated, vars, barrier, cpu, loader
<1> QED
  BY <1>1, <1>2, <1>3, <1>4 DEF Next

-----------------------------------------------------------------------------
(* Places *)

\* A step that moves no process keeps everything said about places.
LEMMA NothingMoves ==
  ASSUME IInv, UNCHANGED <<mlq_ready_queue, prio, freed, i, size>>,
         \A c \in Cpus : Held(c)' = Held(c),
         \A p \in Procs : pc[p] = size[p] => pc'[p] = pc[p]
  PROVE  /\ ReadyShape' /\ Places' /\ NoProcLost'
         /\ \A p \in Procs : (IsReady(p)' <=> IsReady(p)) /\ (IsHeld(p)' <=> IsHeld(p))
<1>1. \A p \in Procs : (IsReady(p)' <=> IsReady(p)) /\ (IsHeld(p)' <=> IsHeld(p))
  BY DEF IsReady, InQueue, IsHeld
<1>2. ReadyShape'
  BY DEF IInv, ReadyShape, NoRepeat, InQueue
<1>3. Places'
  BY <1>1 DEF IInv, Places, Loaded
<1>4. NoProcLost'
  <2>1. Loaded' = Loaded /\ Loaded \subseteq Procs
    BY NumProcsAssumption DEF IInv, TypeOK, Loaded, Procs
  <2> QED
    BY <1>1, <2>1 DEF IInv, NoProcLost, EveryProcKept
<1> QED
  BY <1>1, <1>2, <1>3, <1>4

\* A CPU that owns nothing gets what get_proc returns.
LEMMA TakeMoves ==
  ASSUME IInv, NEW c \in Cpus, NEW p \in Procs \cup {NULL}, get_proc(p),
         Held(c) = NULL, Held(c)' = p,
         \A d \in Cpus \ {c} : Held(d)' = Held(d),
         UNCHANGED <<prio, freed, i, size, pc>>
  PROVE  /\ ReadyShape' /\ Places' /\ NoProcLost'
         /\ \A x \in Procs : IsReady(x)' \/ IsHeld(x)' => IsReady(x) \/ IsHeld(x)
<1>0. TypeOK /\ ReadyShape /\ Places /\ NULL \notin Procs
  BY NullNoProc DEF IInv
<1>1. /\ ReadyShape'
      /\ p # NULL => p \in Procs /\ IsReady(p)
      /\ \A x \in Procs : IsReady(x)' <=> IsReady(x) /\ x # p
  BY <1>0, GetProc
<1>2. \A x \in Procs : IsHeld(x)' <=> IsHeld(x) \/ x = p
  BY <1>0 DEF IsHeld
<1>3. Places'
  <2>1. \A x \in Procs : IsReady(x)' => (x \in Loaded /\ x \notin freed)'
    BY <1>0, <1>1 DEF Places, Loaded
  <2>2. \A d \in Cpus : \A x \in Procs :
          Held(d)' = x => (x \in Loaded /\ x \notin freed /\ ~IsReady(x))'
    BY <1>0, <1>1 DEF Places, Loaded
  <2>3. \A d \in Cpus \ {c} : Held(d) # p \/ p = NULL
    BY <1>0, <1>1 DEF Places
  <2>4. (\A d, e \in Cpus : Held(d) = Held(e) /\ Held(d) # NULL => d = e)'
    BY <2>3, <1>0 DEF Places
  <2> QED
    BY <1>0, <2>1, <2>2, <2>4 DEF Places, Loaded
<1>4. NoProcLost'
  <2>1. Loaded' = Loaded /\ Loaded \subseteq Procs
    BY <1>0, NumProcsAssumption DEF TypeOK, Loaded, Procs
  <2> QED
    BY <1>1, <1>2, <2>1 DEF IInv, NoProcLost, EveryProcKept
<1> QED
  BY <1>0, <1>1, <1>2, <1>3, <1>4

\* A CPU hands the process it owns to put_mlq_proc.
LEMMA GiveMoves ==
  ASSUME IInv, NEW c \in Cpus, NEW p \in Procs, put_mlq_proc(p),
         Held(c) = p, Held(c)' = NULL,
         \A d \in Cpus \ {c} : Held(d)' = Held(d),
         UNCHANGED <<prio, freed, i, size, pc>>
  PROVE  /\ ReadyShape' /\ Places' /\ NoProcLost'
         /\ \A x \in Procs : IsReady(x)' \/ IsHeld(x)' => IsReady(x) \/ IsHeld(x)
<1>0. TypeOK /\ ReadyShape /\ Places /\ NULL \notin Procs
  BY NullNoProc DEF IInv
<1>1. ~IsReady(p) /\ p \in Loaded /\ p \notin freed
  BY <1>0 DEF Places
<1>2. /\ ReadyShape'
      /\ \A x \in Procs : IsReady(x)' => IsReady(x) \/ x = p
      /\ \A x \in Procs : IsReady(x) => IsReady(x)'
      /\ NumProcs <= MAX_QUEUE_SIZE => IsReady(p)'
  BY <1>0, <1>1, PutAdds
<1>3. /\ \A x \in Procs : IsHeld(x)' => IsHeld(x)
      /\ \A x \in Procs : IsHeld(x) => IsHeld(x)' \/ x = p
      /\ IsHeld(p)
  BY <1>0 DEF IsHeld
<1>4. Places'
  <2>1. \A x \in Procs : IsReady(x)' => (x \in Loaded /\ x \notin freed)'
    BY <1>0, <1>1, <1>2 DEF Places, Loaded
  <2>2. \A d \in Cpus \ {c} : Held(d) # p
    BY <1>0 DEF Places
  <2>3. \A d \in Cpus : \A x \in Procs :
          Held(d)' = x => (x \in Loaded /\ x \notin freed /\ ~IsReady(x))'
    BY <1>0, <1>2, <2>2 DEF Places, Loaded
  <2>4. (\A d, e \in Cpus : Held(d) = Held(e) /\ Held(d) # NULL => d = e)'
    BY <1>0 DEF Places
  <2> QED
    BY <1>0, <2>1, <2>3, <2>4 DEF Places, Loaded
<1>5. NoProcLost'
  <2>1. Loaded' = Loaded /\ Loaded \subseteq Procs
    BY <1>0, NumProcsAssumption DEF TypeOK, Loaded, Procs
  <2> QED
    BY <1>2, <1>3, <2>1 DEF IInv, NoProcLost, EveryProcKept
<1> QED
  BY <1>2, <1>3, <1>4, <1>5

\* A CPU frees the finished process it owns.
LEMMA FreeMoves ==
  ASSUME IInv, NEW c \in Cpus, NEW p \in Procs, pc[p] = size[p],
         Held(c) = p, Held(c)' = NULL,
         \A d \in Cpus \ {c} : Held(d)' = Held(d),
         freed' = freed \cup {p},
         UNCHANGED <<mlq_ready_queue, prio, i, size, pc>>
  PROVE  /\ ReadyShape' /\ Places' /\ NoProcLost'
         /\ \A x \in Procs : IsReady(x)' \/ IsHeld(x)' => IsReady(x) \/ IsHeld(x)
<1>0. TypeOK /\ ReadyShape /\ Places /\ NULL \notin Procs
  BY NullNoProc DEF IInv
<1>1. ~IsReady(p) /\ p \in Loaded
  BY <1>0 DEF Places
<1>2. \A x \in Procs : IsReady(x)' <=> IsReady(x)
  BY DEF IsReady, InQueue
<1>3. /\ \A x \in Procs : IsHeld(x)' => IsHeld(x)
      /\ \A x \in Procs : IsHeld(x) => IsHeld(x)' \/ x = p
  BY <1>0 DEF IsHeld
<1>4. ReadyShape'
  BY <1>0 DEF ReadyShape, NoRepeat, InQueue
<1>5. Places'
  <2>1. \A d \in Cpus \ {c} : Held(d) # p
    BY <1>0 DEF Places
  <2>2. \A x \in Procs : IsReady(x)' => (x \in Loaded /\ x \notin freed)'
    BY <1>0, <1>1, <1>2 DEF Places, Loaded
  <2>3. \A d \in Cpus : \A x \in Procs :
          Held(d)' = x => (x \in Loaded /\ x \notin freed /\ ~IsReady(x))'
    BY <1>0, <1>2, <2>1 DEF Places, Loaded
  <2>4. (\A d, e \in Cpus : Held(d) = Held(e) /\ Held(d) # NULL => d = e)'
    BY <1>0 DEF Places
  <2>5. (freed \subseteq Loaded)'
    BY <1>0, <1>1 DEF Places, Loaded
  <2> QED
    BY <2>2, <2>3, <2>4, <2>5 DEF Places
<1>6. NoProcLost'
  <2>1. Loaded' = Loaded /\ Loaded \subseteq Procs
    BY <1>0, NumProcsAssumption DEF TypeOK, Loaded, Procs
  <2> QED
    BY <1>2, <1>3, <2>1 DEF IInv, NoProcLost, EveryProcKept
<1> QED
  BY <1>2, <1>3, <1>4, <1>5, <1>6

\* The loader makes the next process ready.
LEMMA AddMoves ==
  ASSUME IInv, NEW p \in Procs, p = i + 1, put_mlq_proc(p), i' = p,
         \A c \in Cpus : Held(c)' = Held(c),
         UNCHANGED <<prio, freed, size, pc>>
  PROVE  /\ ReadyShape' /\ Places' /\ NoProcLost'
         /\ \A x \in Procs : IsReady(x)' \/ IsHeld(x)' => IsReady(x) \/ IsHeld(x) \/ x = p
<1>0. TypeOK /\ ReadyShape /\ Places /\ NULL \notin Procs
  BY NullNoProc DEF IInv
<1>1. /\ p \notin Loaded
      /\ Loaded \subseteq Procs
      /\ \A x \in Procs : x \in Loaded' <=> x \in Loaded \/ x = p
      /\ Loaded' \subseteq Procs
  <2>1. i \in Nat /\ i < NumProcs
    BY <1>0, NumProcsAssumption DEF TypeOK, Procs
  <2> QED
    BY <2>1, NumProcsAssumption DEF Loaded, Procs
<1>2. ~IsReady(p) /\ p \notin freed /\ (\A c \in Cpus : Held(c) # p)
  BY <1>0, <1>1 DEF Places
<1>3. /\ ReadyShape'
      /\ \A x \in Procs : IsReady(x)' => IsReady(x) \/ x = p
      /\ \A x \in Procs : IsReady(x) => IsReady(x)'
      /\ NumProcs <= MAX_QUEUE_SIZE => IsReady(p)'
  BY <1>0, <1>2, PutAdds
<1>4. \A x \in Procs : IsHeld(x)' <=> IsHeld(x)
  BY DEF IsHeld
<1>5. Places'
  <2>1. \A x \in Procs : IsReady(x)' => (x \in Loaded /\ x \notin freed)'
    BY <1>0, <1>1, <1>2, <1>3 DEF Places
  <2>2. \A d \in Cpus : \A x \in Procs :
          Held(d)' = x => (x \in Loaded /\ x \notin freed /\ ~IsReady(x))'
    BY <1>0, <1>1, <1>2, <1>3 DEF Places
  <2>3. (\A d, e \in Cpus : Held(d) = Held(e) /\ Held(d) # NULL => d = e)'
    BY <1>0 DEF Places
  <2>4. (freed \subseteq Loaded)'
    BY <1>0, <1>1 DEF Places, TypeOK
  <2> QED
    BY <2>1, <2>2, <2>3, <2>4 DEF Places
<1>6. NoProcLost'
  BY <1>1, <1>3, <1>4 DEF IInv, NoProcLost, EveryProcKept
<1> QED
  BY <1>3, <1>4, <1>5, <1>6

-----------------------------------------------------------------------------
(* The actions *)

\* The parts of the invariant that speak of where processes are.
Located == ReadyShape /\ Places /\ NoProcLost

\* get_proc, from the top of the loop or after a process.
LEMMA GetLocated ==
  ASSUME IInv, NEW c \in Cpus, GetFirst(c) \/ GetNext(c)
  PROVE  Located'
<1>0. TypeOK
  BY DEF IInv
<1>1. PICK p \in Procs \cup {NULL} :
        /\ get_proc(p) /\ proc' = [proc EXCEPT ![c] = p]
        /\ \/ cpc' = [cpc EXCEPT ![c] = "recheck"]
           \/ cpc' = cpc /\ cpc[c] # "get"
  BY DEF GetFirst, GetNext, At, Goto
<1>2. UNCHANGED <<prio, freed, i, size, pc, lpc>>
  BY DEF GetFirst, GetNext, config, loader
<1>3. Held(c) = NULL
  BY DEF GetFirst, GetNext, At, Held
<1>4. Held(c)' = p /\ \A d \in Cpus \ {c} : Held(d)' = Held(d)
  BY <1>0, <1>1 DEF TypeOK, Held
<1>5. /\ ReadyShape' /\ Places' /\ NoProcLost'
  BY <1>1, <1>2, <1>3, <1>4, TakeMoves
<1> QED
  BY <1>5 DEF Located

\* A process is freed.
LEMMA FinishLocated ==
  ASSUME IInv, NEW c \in Cpus, Finish(c)
  PROVE  Located'
<1>0. TypeOK
  BY DEF IInv
<1>1. proc[c] \in Procs /\ pc[proc[c]] = size[proc[c]] /\ Held(c) = proc[c]
  BY <1>0 DEF TypeOK, Finish, At, Held
<1>2. UNCHANGED <<mlq_ready_queue, prio, i, size, pc, lpc>> /\ freed' = freed \cup {proc[c]}
  BY DEF Finish, config, readyvars, loader
<1>3. Held(c)' = NULL /\ \A d \in Cpus \ {c} : Held(d)' = Held(d)
  BY <1>0 DEF TypeOK, Finish, Goto, Held
<1>4. PICK p \in Procs : p = proc[c]
  BY <1>1
<1>5. /\ ReadyShape' /\ Places' /\ NoProcLost'
  BY <1>1, <1>2, <1>3, <1>4, FreeMoves
<1> QED
  BY <1>5 DEF Located

\* put_proc's second critical section.
LEMMA PutLocated ==
  ASSUME IInv, NEW c \in Cpus, PutProcReady(c)
  PROVE  Located'
<1>0. TypeOK
  BY DEF IInv
<1>1. proc[c] \in Procs /\ put_mlq_proc(proc[c]) /\ Held(c) = proc[c]
  BY <1>0 DEF TypeOK, PutProcReady, At, Held
<1>2. UNCHANGED <<prio, freed, i, size, pc, lpc>>
  BY DEF PutProcReady, config, loader
<1>3. Held(c)' = NULL /\ \A d \in Cpus \ {c} : Held(d)' = Held(d)
  BY <1>0 DEF TypeOK, PutProcReady, Goto, Held
<1>4. PICK p \in Procs : p = proc[c]
  BY <1>1
<1>5. /\ ReadyShape' /\ Places' /\ NoProcLost'
  BY <1>1, <1>2, <1>3, <1>4, GiveMoves
<1> QED
  BY <1>5 DEF Located

\* add_proc's second critical section.
LEMMA AddLocated ==
  ASSUME IInv, AddProcReady
  PROVE  Located'
<1>0. TypeOK
  BY DEF IInv
<1>1. i + 1 \in Procs /\ put_mlq_proc(i + 1) /\ lpc = "add" /\ lpc' = "wait" /\ i' = i + 1
  BY <1>0, NumProcsAssumption DEF TypeOK, AddProcReady, LoaderAt, Procs
<1>2. UNCHANGED <<prio, freed, size, pc, cpc, proc>>
  BY DEF AddProcReady, config, cpu
<1>3. \A d \in Cpus : Held(d)' = Held(d)
  BY <1>2 DEF Held
<1>4. PICK p \in Procs : p = i + 1
  BY <1>1
<1>5. /\ ReadyShape' /\ Places' /\ NoProcLost'
      /\ \A x \in Procs : IsReady(x)' \/ IsHeld(x)' => IsReady(x) \/ IsHeld(x) \/ x = p
  BY <1>1, <1>2, <1>3, <1>4, AddMoves
<1> QED
  BY <1>5 DEF Located

\* The steps that move no process.
LEMMA OtherLocated ==
  ASSUME IInv,
         \/ SlotEnds \/ LoaderWait \/ AddProcEnlist \/ LoaderExit \/ UNCHANGED vars
         \/ \E c \in Cpus : PutProcEnlist(c) \/ Stop(c) \/ Skip(c) \/ Run(c)
  PROVE  Located'
<1>0. TypeOK /\ NULL \notin Procs
  BY NullNoProc DEF IInv
<1>1. UNCHANGED <<mlq_ready_queue, prio, freed, i, size>>
  BY DEF SlotEnds, LoaderWait, AddProcEnlist, LoaderExit, vars, PutProcEnlist,
         Stop, Skip, Run, config, readyvars, loader
<1>2. \A d \in Cpus : Held(d)' = Held(d)
  <2>1. CASE UNCHANGED <<cpc, proc>>
    BY <2>1 DEF Held
  <2>2. ASSUME NEW c \in Cpus, PutProcEnlist(c) \/ Stop(c) \/ Skip(c) \/ Run(c)
        PROVE  \A d \in Cpus : Held(d)' = Held(d)
    BY <2>2, <1>0 DEF TypeOK, PutProcEnlist, Stop, Skip, Run, At, Goto, Held
  <2> QED
    BY <2>1, <2>2 DEF SlotEnds, LoaderWait, AddProcEnlist, LoaderExit, vars, cpu
<1>3. \A p \in Procs : pc[p] = size[p] => pc'[p] = pc[p]
  <2>1. ASSUME NEW c \in Cpus, Run(c)
        PROVE  \A p \in Procs : pc[p] = size[p] => pc'[p] = pc[p]
    BY <2>1, <1>0 DEF TypeOK, Run, run
  <2>2. CASE UNCHANGED pc
    BY <2>2
  <2> QED
    BY <2>1, <2>2 DEF SlotEnds, LoaderWait, AddProcEnlist, LoaderExit, vars, PutProcEnlist, Stop, Skip
<1>4. /\ ReadyShape' /\ Places' /\ NoProcLost'
      /\ \A p \in Procs : (IsReady(p)' <=> IsReady(p)) /\ (IsHeld(p)' <=> IsHeld(p))
  BY <1>1, <1>2, <1>3, NothingMoves
<1> QED
  BY <1>4 DEF Located

\* Every step keeps every process in its one place.
LEMMA NextLocated ==
  ASSUME IInv, Next
  PROVE  Located'
  BY GetLocated, FinishLocated, PutLocated, AddLocated, OtherLocated
     DEF Next, LoaderStep, CpuStep, Terminated

-----------------------------------------------------------------------------
(* Stopping *)

\* Every step preserves Attended.  A CPU that has just given a process away, or
\* run one, is not idle; one becomes idle only when nothing is ready; and when
\* the slot of the last process ends, no CPU has stopped yet.
LEMMA NextAttended ==
  ASSUME IInv, Next
  PROVE  Attended'
<1>0. TypeOK /\ ReadyShape /\ Control /\ Attended
  BY DEF IInv
<1>1. ASSUME NEW c \in Cpus, cpc' = [cpc EXCEPT ![c] = "top"] \/ cpc' = [cpc EXCEPT ![c] = "put"]
                              \/ cpc' = [cpc EXCEPT ![c] = "get"]
      PROVE  Attended'
  BY <1>1, <1>0 DEF TypeOK, Attended, Idle
<1>2. ASSUME NEW c \in Cpus, GetFirst(c) \/ GetNext(c) PROVE Attended'
  <2>1. PICK p \in Procs \cup {NULL} :
          /\ get_proc(p) /\ proc' = [proc EXCEPT ![c] = p]
          /\ p # NULL => cpc' = [cpc EXCEPT ![c] = "recheck"]
    BY <1>2 DEF GetFirst, GetNext, Goto
  <2>2. UNCHANGED prio
    BY <1>2 DEF GetFirst, GetNext, config
  <2>3. CASE p = NULL
    <3>1. \A x \in Procs : ~IsReady(x)'
      BY <2>1, <2>2, <2>3, <1>0, GetProc
    <3> QED
      BY <3>1 DEF Attended
  <2>4. CASE p # NULL
    <3>1. ~Idle(c)'
      BY <2>1, <2>4, <1>0 DEF TypeOK, Idle
    <3> QED
      BY <3>1 DEF Attended
  <2> QED
    BY <2>3, <2>4
<1>3. ASSUME NEW c \in Cpus, Stop(c) PROVE Attended'
  <2>1. \A d \in Cpus : Idle(d)' <=> Idle(d)
    BY <1>3, <1>0 DEF TypeOK, Stop, At, Goto, Idle
  <2>2. \A p \in Procs : IsReady(p)' <=> IsReady(p)
    BY <1>3 DEF Stop, readyvars, IsReady, InQueue
  <2>3. UNCHANGED i /\ phase'[Loader] = phase[Loader]
    BY <1>3, <1>0 DEF TypeOK, Stop, Barrier!Leave, loader, Devices, Cpus, Loader
  <2> QED
    BY <2>1, <2>2, <2>3, <1>0 DEF Attended
<1>4. ASSUME NEW c \in Cpus, CpuStep(c) PROVE Attended'
  BY <1>1, <1>2, <1>3, <1>4 DEF CpuStep, Finish, PutProcEnlist, PutProcReady, Skip, Run, Goto
<1>5. ASSUME LoaderWait \/ AddProcEnlist PROVE Attended'
  <2>1. i < NumProcs /\ i' = i
    BY <1>5 DEF LoaderWait, AddProcEnlist, loader
  <2> QED
    BY <2>1, <1>0, NumProcsAssumption DEF TypeOK, Attended
<1>6. ASSUME AddProcReady PROVE Attended'
  <2>1. phase'[Loader] = "arrived"
    BY <1>6, <1>0 DEF TypeOK, AddProcReady, Barrier!Arrive, Devices
  <2> QED
    BY <2>1 DEF Attended
<1>7. ASSUME \/ LoaderExit \/ Terminated
             \/ SlotEnds /\ phase[Loader] # "arrived"
      PROVE  Attended'
  <2>1. UNCHANGED <<i, mlq_ready_queue, cpc, proc>>
    BY <1>7 DEF LoaderExit, SlotEnds, Terminated, vars, loader, readyvars, cpu
  <2>2. phase[Loader] # "arrived"
    BY <1>7, <1>0 DEF LoaderExit, LoaderAt, Terminated, AllStopped, Control
  <2>3. \A p \in Procs : IsReady(p)' <=> IsReady(p)
    BY <2>1 DEF IsReady, InQueue
  <2>4. \A d \in Cpus : Idle(d)' <=> Idle(d)
    BY <2>1 DEF Idle
  <2> QED
    BY <2>1, <2>2, <2>3, <2>4, <1>0 DEF Attended
<1>8. ASSUME SlotEnds, phase[Loader] = "arrived" PROVE Attended'
  <2>1. 1 \in Cpus /\ 1 \in Devices
    BY NumCpusAssumption DEF Cpus, Devices
  <2>2. phase[1] # "working" /\ UNCHANGED <<cpc, proc>>
    BY <1>8, <2>1 DEF SlotEnds, Barrier!SlotOver, cpu
  <2>3. cpc[1] # "stopped"
    BY <1>8, <1>0, <2>1 DEF Control
  <2>4. cpc[1] = "top"
    BY <2>1, <2>2, <2>3, <1>0 DEF TypeOK, Control, Barrier!Phases
  <2> QED
    BY <2>1, <2>2, <2>4 DEF Attended, Idle
<1> QED
  BY <1>4, <1>5, <1>6, <1>7, <1>8 DEF Next, LoaderStep

-----------------------------------------------------------------------------
(* Theorems *)

\* main establishes the invariant.
LEMMA InitIInv == Init => IInv
<1> SUFFICES ASSUME Init PROVE IInv
  OBVIOUS
<1>0. TypeOK /\ NULL \notin Procs
  BY InitTypeOK, NullNoProc
<1>1. /\ \A l \in Levels : mlq_ready_queue[l] = << >>
      /\ \A c \in Cpus : cpc[c] = "top" /\ proc[c] = NULL /\ time_left[c] = 0
      /\ \A d \in Devices : phase[d] = "working"
      /\ i = 0 /\ freed = {} /\ lpc = "wait"
  BY DEF Init, init_scheduler, Barrier!BarrierInit
<1>2. ~done
  BY Zenon DEF Init
<1>3. Loaded = {}
  BY <1>1 DEF Loaded
<1>4. \A p \in Procs : ~IsReady(p) /\ ~IsHeld(p)
  BY <1>0, <1>1 DEF IsReady, InQueue, IsHeld, Held
<1>5. ReadyShape
  BY <1>1 DEF ReadyShape, NoRepeat, InQueue
<1>6. Places
  BY <1>0, <1>1, <1>3, <1>4 DEF Places, Held
<1>7. Quantum
  BY <1>1 DEF Quantum
<1>8. Control
  BY <1>1, <1>2 DEF Control, Devices
<1>9. NoProcLost
  BY <1>3 DEF NoProcLost, EveryProcKept
<1>10. Attended
  BY <1>4 DEF Attended
<1> QED
  BY <1>0, <1>5, <1>6, <1>7, <1>8, <1>9, <1>10 DEF IInv

\* Every step of the threads preserves the invariant.
LEMMA NextIInv == IInv /\ [Next]_vars => IInv'
<1> SUFFICES ASSUME IInv, [Next]_vars PROVE IInv'
  OBVIOUS
<1>1. CASE Next
  BY <1>1, NextTypeOK, NextQuantum, NextControl, NextLocated, NextAttended DEF IInv, Located
<1>2. CASE UNCHANGED vars
  <2>1. Located'
    BY <1>2, OtherLocated
  <2>2. TypeOK'
    BY <1>2 DEF IInv, TypeOK, vars, config, barrier, readyvars, cpu, loader, Barrier!Phases
  <2>3. Quantum' /\ Control'
    BY <1>2 DEF IInv, Quantum, Control, vars, barrier, cpu, loader
  <2>4. Attended'
    BY <1>2 DEF IInv, Attended, Idle, IsReady, InQueue, vars, barrier, readyvars, cpu, loader
  <2> QED
    BY <2>1, <2>2, <2>3, <2>4 DEF IInv, Located
<1> QED
  BY <1>1, <1>2

\* The invariant holds throughout.
THEOREM Invariance == Spec => []IInv
  BY InitIInv, NextIInv, PTL DEF Spec

\* The simulator's state is well typed; in particular put_proc is never called
\* with NULL and time_left never goes below 0.
THEOREM TypeCorrect == Spec => []TypeOK
<1>1. IInv => TypeOK
  BY DEF IInv
<1> QED
  BY <1>1, Invariance, PTL

\* No process is in two places, and no CPU is given a freed pcb, for any number of
\* CPUs, processes and levels and any queue size (cpu_routine, sched.c).
THEOREM AtMostOnePlaceTheorem == Spec => []AtMostOnePlace
<1>1. IInv => AtMostOnePlace
  <2> SUFFICES ASSUME IInv PROVE AtMostOnePlace
    OBVIOUS
  <2>1. \A l \in Levels : \A k \in 1..Len(mlq_ready_queue[l]) :
          mlq_ready_queue[l][k] \in Procs
    BY ElementOfSeq, LenProperties DEF IInv, TypeOK
  <2>2. \A l \in Levels : \A k \in 1..Len(mlq_ready_queue[l]) :
          prio[mlq_ready_queue[l][k]] = l
    BY <2>1 DEF IInv, ReadyShape, InQueue
  <2>3. \A l \in Levels : NoRepeat(mlq_ready_queue[l])
    BY DEF IInv, ReadyShape
  <2>4. /\ \A p \in Procs : IsReady(p) => ~IsHeld(p) /\ p \in Loaded /\ p \notin freed
        /\ \A p \in Procs : IsHeld(p) => p \in Loaded /\ p \notin freed
        /\ \A c, d \in Cpus : Held(c) = Held(d) /\ Held(c) # NULL => c = d
    BY DEF IInv, Places, IsHeld
  <2> QED
    BY <2>2, <2>3, <2>4 DEF AtMostOnePlace, NoRepeat
<1> QED
  BY <1>1, Invariance, PTL

\* With queues large enough for all the processes, none is ever lost.
THEOREM NoProcLostTheorem == Spec => []NoProcLost
<1>1. IInv => NoProcLost
  BY DEF IInv
<1> QED
  BY <1>1, Invariance, PTL

\* A process that has just been dispatched starts with a fresh quantum.
THEOREM FreshQuantumTheorem == Spec => []FreshQuantum
<1>1. IInv => FreshQuantum
  BY DEF IInv, Quantum, FreshQuantum
<1> QED
  BY <1>1, Invariance, PTL

\* When all threads have detached, every process has run to its end, although a
\* CPU reads `done` after get_proc has returned NULL (cpu_routine).
THEOREM StopMeansFinishedTheorem == Spec => []StopMeansFinished
<1>1. IInv => StopMeansFinished
  <2> SUFFICES ASSUME IInv, NumProcs <= MAX_QUEUE_SIZE, AllStopped PROVE freed = Procs
    BY DEF StopMeansFinished
  <2>1. i = NumProcs /\ phase[Loader] = "gone" /\ \A c \in Cpus : Held(c) = NULL
    BY DEF IInv, Control, AllStopped, Held
  <2>2. \A p \in Procs : ~IsReady(p)
    BY <2>1 DEF IInv, Attended, AllStopped, Idle
  <2>3. \A p \in Procs : ~IsHeld(p)
    BY <2>1, NullNoProc DEF IsHeld
  <2>4. Loaded = Procs
    BY <2>1 DEF Loaded, Procs
  <2> QED
    BY <2>2, <2>3, <2>4 DEF IInv, NoProcLost, EveryProcKept, TypeOK
<1> QED
  BY <1>1, Invariance, PTL
=============================================================================
