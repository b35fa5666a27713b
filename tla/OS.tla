--------------------------------- MODULE OS ---------------------------------
(***************************************************************************)
(* os.c: the loader thread and the CPU threads of the simulator, on top of *)
(* the scheduler (Sched) and of the slot barrier the timer implements      *)
(* (SlotBarrier; Timer is shown to implement it).                          *)
(*                                                                         *)
(* A step is what a thread does between two accesses to state another      *)
(* thread can see: a critical section of the scheduler, a read or write of *)
(* `done`, or the call of next_slot or detach_event that ends its turn.    *)
(* A process is a program of `size` instructions.  An instruction moves    *)
(* its own pc and, when it is one of memory or a system call, memory and   *)
(* running_list, neither of which this module holds: no thread of os.c or  *)
(* sched.c looks at them.  They are the business of the modules VirtMem,   *)
(* SysMem and RunningList.  No instruction stops the simulator here (SysMem*)
(* has the one that can).                                                  *)
(***************************************************************************)
EXTENDS Sched

CONSTANTS NumCpus,      \* num_cpus
          TimeSlot,     \* time_slot
          StartTimes,   \* the start times a configuration may give a process
          Sizes         \* the program sizes it may have

ASSUME NumCpusAssumption == NumCpus \in Nat \ {0}
ASSUME TimeSlotAssumption == TimeSlot \in Nat \ {0}
ASSUME ConfigAssumption == StartTimes \subseteq Nat /\ Sizes \subseteq Nat

Cpus == 1..NumCpus
Loader == 0
Devices == Cpus \cup {Loader}

VARIABLES
  time, phase,              \* the slot barrier
  start_time, size,         \* ld_processes and code->size
  pc,                       \* pcb field
  freed,                    \* the processes whose pcb has been freed
  mm,                       \* krnl->mm, known by the process it was made for
  cpc, proc, time_left,     \* cpu_routine: control and locals, per CPU
  lpc, i,                   \* ld_routine: control, and processes loaded so far
  done                      \* no process is left to load

Barrier == INSTANCE SlotBarrier

config == <<start_time, size, prio>>
barrier == <<time, phase>>
cpu == <<cpc, proc, time_left>>
loader == <<lpc, i, mm, done>>
vars == <<config, barrier, readyvars, pc, freed, cpu, loader>>

\* read_config, load, and main up to the creation of the threads.
Init ==
  /\ start_time \in [Procs -> StartTimes]
  /\ size \in [Procs -> Sizes]
  /\ prio \in [Procs -> Levels]
  /\ Barrier!BarrierInit
  /\ init_scheduler
  /\ pc = [p \in Procs |-> 0]
  /\ freed = {}
  /\ mm = NULL
  /\ cpc = [c \in Cpus |-> "top"]
  /\ proc = [c \in Cpus |-> NULL]
  /\ time_left = [c \in Cpus |-> 0]
  /\ lpc = "wait"
  /\ i = 0
  /\ done = FALSE

-----------------------------------------------------------------------------
(* cpu_routine *)

At(c, label) == cpc[c] = label /\ phase[c] = "working"
Goto(c, label) == cpc' = [cpc EXCEPT ![c] = label]

\* `proc == NULL` at the top of the loop: take a process; with none, the slot
\* is over and the loop starts again.
GetFirst(c) ==
  /\ At(c, "top")
  /\ proc[c] = NULL
  /\ \E p \in Procs \cup {NULL} :
       /\ get_proc(p)
       /\ proc' = [proc EXCEPT ![c] = p]
       /\ IF p = NULL THEN Barrier!Arrive(c) /\ UNCHANGED cpc
                      ELSE Goto(c, "recheck") /\ UNCHANGED barrier
  /\ UNCHANGED <<config, pc, freed, time_left, loader>>

\* Mutated: time_left is not reset when a process finishes.
FinishKeepsQuantum(c) ==
  /\ At(c, "top")
  /\ proc[c] # NULL
  /\ pc[proc[c]] = size[proc[c]]
  /\ freed' = freed \cup {proc[c]}
  /\ Goto(c, "get")
  /\ UNCHANGED <<config, barrier, readyvars, pc, proc, time_left, loader>>

\* The process has run its last instruction: free its pcb.
Finish(c) ==
  /\ At(c, "top")
  /\ proc[c] # NULL
  /\ pc[proc[c]] = size[proc[c]]
  /\ freed' = freed \cup {proc[c]}
  /\ time_left' = [time_left EXCEPT ![c] = 0]
  /\ Goto(c, "get")
  /\ UNCHANGED <<config, barrier, readyvars, pc, proc, loader>>

\* The quantum is used up: put_proc, in two critical sections, of which the first
\* touches only running_list.
Preempted(c) ==
  /\ proc[c] # NULL
  /\ pc[proc[c]] # size[proc[c]]
  /\ time_left[c] = 0

\* Mutated: put_proc forgets the ready queue.
PutProcEnlistOnly(c) ==
  /\ At(c, "top")
  /\ Preempted(c)
  /\ Goto(c, "get")
  /\ UNCHANGED <<config, barrier, readyvars, pc, freed, proc, time_left, loader>>

PutProcEnlist(c) ==
  /\ At(c, "top")
  /\ Preempted(c)
  /\ Goto(c, "put")
  /\ UNCHANGED <<config, barrier, readyvars, pc, freed, proc, time_left, loader>>

\* Mutated: no get_proc after put_proc; the CPU goes on with the process.
PutProcKeepsProc(c) ==
  /\ At(c, "put")
  /\ put_mlq_proc(proc[c])
  /\ Goto(c, "recheck")
  /\ UNCHANGED <<config, barrier, pc, freed, proc, time_left, loader>>

PutProcReady(c) ==
  /\ At(c, "put")
  /\ put_mlq_proc(proc[c])
  /\ Goto(c, "get")
  /\ UNCHANGED <<config, barrier, pc, freed, proc, time_left, loader>>

\* get_proc after a finished or preempted process.
GetNext(c) ==
  /\ At(c, "get")
  /\ \E p \in Procs \cup {NULL} :
       /\ get_proc(p)
       /\ proc' = [proc EXCEPT ![c] = p]
  /\ Goto(c, "recheck")
  /\ UNCHANGED <<config, barrier, pc, freed, time_left, loader>>

\* Mutated: the CPU stops without looking at `done`.
StopUndone(c) ==
  /\ At(c, "recheck")
  /\ proc[c] = NULL
  /\ Goto(c, "stopped")
  /\ Barrier!Leave(c)
  /\ UNCHANGED <<config, readyvars, pc, freed, proc, time_left, loader>>

\* `proc == NULL && done`: leave the loop and detach.
Stop(c) ==
  /\ At(c, "recheck")
  /\ proc[c] = NULL
  /\ done
  /\ Goto(c, "stopped")
  /\ Barrier!Leave(c)
  /\ UNCHANGED <<config, readyvars, pc, freed, proc, time_left, loader>>

\* `proc == NULL`: nothing to run in this slot.
Skip(c) ==
  /\ At(c, "recheck")
  /\ proc[c] = NULL
  /\ ~done
  /\ Goto(c, "top")
  /\ Barrier!Arrive(c)
  /\ UNCHANGED <<config, readyvars, pc, freed, proc, time_left, loader>>

\* run: the next instruction, if there is one.  Whatever it does to memory and to
\* running_list, and whether it fails or not, cpu_routine goes on alike.
run(p) == pc' = [pc EXCEPT ![p] = IF @ >= size[p] THEN @ ELSE @ + 1]

\* Mutated: a new process gets no quantum.
RunWithoutQuantum(c) ==
  /\ \/ At(c, "recheck") /\ proc[c] # NULL
     \/ /\ At(c, "top")
        /\ proc[c] # NULL
        /\ pc[proc[c]] # size[proc[c]]
        /\ time_left[c] # 0
  /\ time_left' = [time_left EXCEPT ![c] = @ - 1]
  /\ run(proc[c])
  /\ Goto(c, "top")
  /\ Barrier!Arrive(c)
  /\ UNCHANGED <<config, readyvars, freed, proc, loader>>

\* A process just dispatched gets a quantum; the current one goes on with its
\* own.  One instruction, and the slot is over.
Run(c) ==
  /\ \/ At(c, "recheck") /\ proc[c] # NULL
     \/ /\ At(c, "top")
        /\ proc[c] # NULL
        /\ pc[proc[c]] # size[proc[c]]
        /\ time_left[c] # 0
  /\ time_left' = [time_left EXCEPT ![c] = (IF @ = 0 THEN TimeSlot ELSE @) - 1]
  /\ run(proc[c])
  /\ Goto(c, "top")
  /\ Barrier!Arrive(c)
  /\ UNCHANGED <<config, readyvars, freed, proc, loader>>

CpuStep(c) ==
  \/ GetFirst(c) \/ Finish(c) \/ PutProcEnlist(c) \/ PutProcReady(c)
  \/ GetNext(c) \/ Stop(c) \/ Skip(c) \/ Run(c)

-----------------------------------------------------------------------------
(* ld_routine *)

LoaderAt(label) == lpc = label /\ phase[Loader] = "working"

\* It is too early for the next process.
LoaderWait ==
  /\ LoaderAt("wait")
  /\ i < NumProcs
  /\ time < start_time[i + 1]
  /\ Barrier!Arrive(Loader)
  /\ UNCHANGED <<config, readyvars, pc, freed, cpu, loader>>

\* The kernel's one krnl->mm is made anew for the process; then the first critical
\* section of add_proc, which touches only running_list.
AddProcEnlist ==
  /\ LoaderAt("wait")
  /\ i < NumProcs
  /\ time >= start_time[i + 1]
  /\ mm' = i + 1
  /\ lpc' = "add"
  /\ UNCHANGED <<config, barrier, readyvars, pc, freed, cpu, i, done>>

\* Mutated: the loader sets `done` with the last process, not a slot later.
AddProcDoneEarly ==
  /\ LoaderAt("add")
  /\ put_mlq_proc(i + 1)
  /\ i' = i + 1
  /\ done' = (i + 1 = NumProcs)
  /\ lpc' = "wait"
  /\ Barrier!Arrive(Loader)
  /\ UNCHANGED <<config, pc, freed, cpu, mm>>

AddProcReady ==
  /\ LoaderAt("add")
  /\ put_mlq_proc(i + 1)
  /\ i' = i + 1
  /\ lpc' = "wait"
  /\ Barrier!Arrive(Loader)
  /\ UNCHANGED <<config, pc, freed, cpu, mm, done>>

LoaderExit ==
  /\ LoaderAt("wait")
  /\ i = NumProcs
  /\ done' = TRUE
  /\ lpc' = "exited"
  /\ Barrier!Leave(Loader)
  /\ UNCHANGED <<config, readyvars, pc, freed, cpu, mm, i>>

LoaderStep == LoaderWait \/ AddProcEnlist \/ AddProcReady \/ LoaderExit

-----------------------------------------------------------------------------
(* the timer *)

\* The clock is only ever compared with the start times, so it stops at the
\* last of them.
LastStart == CHOOSE t \in StartTimes : \A s \in StartTimes : s <= t

SlotEnds ==
  /\ Barrier!SlotOver
  /\ \E d \in Devices : phase[d] = "arrived"
  /\ Barrier!Release
  /\ time' = IF time < LastStart THEN time + 1 ELSE time
  /\ UNCHANGED <<config, readyvars, pc, freed, cpu, loader>>

\* Every thread has detached: main joins them and returns.
AllStopped == lpc = "exited" /\ \A c \in Cpus : cpc[c] = "stopped"

Terminated == AllStopped /\ UNCHANGED vars

Next == SlotEnds \/ LoaderStep \/ (\E c \in Cpus : CpuStep(c)) \/ Terminated

Spec == Init /\ [][Next]_vars

\* Every thread keeps running; the barrier ticks (Timer, BarrierFair).
Fairness ==
  /\ WF_vars(SlotEnds)
  /\ WF_vars(LoaderStep)
  /\ \A c \in Cpus : WF_vars(CpuStep(c))

FairSpec == Spec /\ Fairness
-----------------------------------------------------------------------------
(* Properties *)

TypeOK ==
  /\ mlq_ready_queue \in [Levels -> Seq(Procs)]
  /\ currentPrio \in Levels /\ used_slot \in 0..MAX_PRIO
  /\ prio \in [Procs -> Levels]
  /\ start_time \in [Procs -> Nat] /\ size \in [Procs -> Nat]
  /\ time \in Nat /\ phase \in [Devices -> Barrier!Phases]
  /\ pc \in [Procs -> Nat] /\ freed \subseteq Procs
  /\ cpc \in [Cpus -> {"top", "put", "get", "recheck", "stopped"}]
  /\ proc \in [Cpus -> Procs \cup {NULL}]
  /\ \A c \in Cpus : cpc[c] = "put" => proc[c] # NULL
  /\ time_left \in [Cpus -> 0..TimeSlot]
  /\ lpc \in {"wait", "add", "exited"}
  /\ i \in 0..NumProcs /\ (lpc = "add" => i < NumProcs)
  /\ mm \in Procs \cup {NULL} /\ done \in BOOLEAN

\* The process CPU c owns.  While c is in get_proc its variable proc still
\* points to the process it has just given away or freed.
Held(c) == IF cpc[c] = "get" THEN NULL ELSE proc[c]

IsReady(p) == \E l \in Levels : InQueue(p, mlq_ready_queue[l])
IsHeld(p) == \E c \in Cpus : Held(c) = p
Loaded == 1..i

\* No process is in two places: not twice in the ready queues, not ready while
\* a CPU runs it, not on two CPUs, and nowhere at all before it is loaded or
\* after its pcb is freed.  So no two CPUs run one pcb and no CPU is given freed
\* memory, although put_proc and get_proc take the lock separately (os.c,
\* cpu_routine; sched.c).
AtMostOnePlace ==
  /\ \A l \in Levels : \A j, k \in 1..Len(mlq_ready_queue[l]) :
       mlq_ready_queue[l][j] = mlq_ready_queue[l][k] => j = k
  /\ \A l \in Levels : \A k \in 1..Len(mlq_ready_queue[l]) :
       prio[mlq_ready_queue[l][k]] = l
  /\ \A p \in Procs : IsReady(p) => ~IsHeld(p) /\ p \in Loaded /\ p \notin freed
  /\ \A p \in Procs : IsHeld(p) => p \in Loaded /\ p \notin freed
  /\ \A c, d \in Cpus : Held(c) = Held(d) /\ Held(c) # NULL => c = d

\* queue.c:14 "put a new process to queue [q]": no process is forgotten, a loaded
\* one is ready, on a CPU, or freed because it has finished.
EveryProcKept ==
  \A p \in Loaded : IsReady(p) \/ IsHeld(p) \/ (p \in freed /\ pc[p] = size[p])

\* No process is forgotten between the critical sections of the threads, as long
\* as the queues are large enough for all the processes; enqueue drops a process
\* silently when they are not (queue.c, enqueue; os.c, cpu_routine).
NoProcLost == NumProcs <= MAX_QUEUE_SIZE => EveryProcKept

\* The CPUs do not stop too early: when every thread has detached, every process
\* has run to its end.  A CPU decides to stop in two steps (get_proc returned
\* NULL, then it reads `done`), between which the loader may add a process and
\* other CPUs may put theirs back (os.c, cpu_routine).
StopMeansFinished ==
  NumProcs <= MAX_QUEUE_SIZE /\ AllStopped => freed = Procs

\* A process that has just been dispatched never runs on what is left of its
\* predecessor's quantum (os.c, cpu_routine).
FreshQuantum ==
  \A c \in Cpus : cpc[c] = "recheck" => time_left[c] = 0

\* Every process eventually finishes, whatever the priorities, the number of
\* CPUs and the order in which threads run (os.c, sched.c).
AllFinish == <>(freed = Procs)

\* os.c:79 "No process to run, exit": the CPUs stop once there is nothing to
\* run, and main, which waits "for CPU and loader finishing" (os.c:264), returns.
Termination == <>AllStopped

\* mm64.c:576 "@caller: mm owner": the address space a running process uses,
\* krnl->mm, is the one that was made for it.
OwnAddressSpace ==
  \A c \in Cpus : cpc[c] = "recheck" /\ proc[c] # NULL => mm = proc[c]
=============================================================================
