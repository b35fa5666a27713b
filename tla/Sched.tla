-------------------------------- MODULE Sched --------------------------------
(***************************************************************************)
(* sched.c, compiled with MLQ_SCHED: one ready queue per priority level    *)
(* (0 is the most urgent) and a budget of MAX_PRIO - l dispatches in a row *)
(* for level l.  Each operator below is one critical section under the     *)
(* file's queue_lock.  put_proc and add_proc first enter the process in    *)
(* running_list in a critical section of its own; the list is no part of   *)
(* the policy and its contents are the subject of module RunningList.      *)
(***************************************************************************)
EXTENDS Queue, Integers

CONSTANTS NumProcs,    \* num_processes
          MAX_PRIO

ASSUME NumProcsAssumption == NumProcs \in Nat
ASSUME MaxPrioAssumption == MAX_PRIO \in Nat \ {0}

Procs == 1..NumProcs          \* a process is known by its pid
Levels == 0..(MAX_PRIO - 1)

VARIABLES
  mlq_ready_queue,            \* a queue per level
  currentPrio, used_slot,     \* get_mlq_proc's static variables
  prio                        \* pcb field: the level of each process

readyvars == <<mlq_ready_queue, currentPrio, used_slot>>

\* slot[]: how many dispatches in a row a level may have.
slot == [l \in Levels |-> MAX_PRIO - l]

init_scheduler ==
  /\ mlq_ready_queue = [l \in Levels |-> <<>>]
  /\ currentPrio = 0
  /\ used_slot = 0

Ready(l) == ~empty(mlq_ready_queue[l])

NothingReady == \A l \in Levels : ~Ready(l)

\* highestPrio: the first level with a ready process.
highestPrio == CHOOSE l \in Levels : Ready(l) /\ \A k \in 0..(l - 1) : ~Ready(k)

\* The first ready level after l, going round and coming back to l last.
nextPrio(l) ==
  LET at(n) == (l + n) % MAX_PRIO
      i == CHOOSE n \in 1..MAX_PRIO : /\ Ready(at(n))
                                      /\ \A m \in 1..(n - 1) : ~Ready(at(m))
  IN at(i)

\* get_mlq_proc finds nothing ready: it returns NULL.
NoneReady == NothingReady /\ UNCHANGED readyvars

\* Mutated: a more urgent process does not bring the turn back to its level.
RestartWhenDrained == ~Ready(currentPrio)

\* The static state is for a level that is drained or overtaken: start afresh
\* at the highest level.
Restart == ~Ready(currentPrio) \/ highestPrio < currentPrio
Level == IF Restart THEN highestPrio ELSE currentPrio
Used == IF Restart THEN 0 ELSE used_slot

\* Mutated: off by one.
WithinBudgetPlusOne == Used <= slot[Level]

WithinBudget == Used < slot[Level]

\* The level has budget left, or the turn goes to the next ready level.
Chosen == IF WithinBudget THEN Level ELSE nextPrio(Level)

\* Mutated: the budget is counted down from 0.
DispatchCountsDown(p) ==
  /\ ~NothingReady
  /\ p = dequeued(mlq_ready_queue[Chosen])
  /\ mlq_ready_queue' = [mlq_ready_queue EXCEPT ![Chosen] = dequeue(@)]
  /\ currentPrio' = Chosen
  /\ used_slot' = IF WithinBudget THEN Used - 1 ELSE 1

\* get_mlq_proc returns p.
Dispatch(p) ==
  /\ ~NothingReady
  /\ p = dequeued(mlq_ready_queue[Chosen])
  /\ mlq_ready_queue' = [mlq_ready_queue EXCEPT ![Chosen] = dequeue(@)]
  /\ currentPrio' = Chosen
  /\ used_slot' = IF WithinBudget THEN Used + 1 ELSE 1

get_proc(p) == (p = NULL /\ NoneReady) \/ (p # NULL /\ Dispatch(p))

\* put_mlq_proc and add_mlq_proc.
put_mlq_proc(p) ==
  /\ mlq_ready_queue' = [mlq_ready_queue EXCEPT ![prio[p]] = enqueue(@, p)]
  /\ UNCHANGED <<currentPrio, used_slot>>
=============================================================================
