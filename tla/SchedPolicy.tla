----------------------------- MODULE SchedPolicy -----------------------------
(***************************************************************************)
(* The policy of the multi-level queue scheduler, under every possible use *)
(* of it: any thread may at any time take a process or hand one in.  The   *)
(* threads of module OS use the scheduler in a subset of these ways.  Two  *)
(* history variables count what was dispatched, independently of the       *)
(* scheduler's own used_slot.                                              *)
(***************************************************************************)
EXTENDS Sched

VARIABLES
  held,      \* the processes the threads have in their hands
  last,      \* history: the level of the last dispatch, MAX_PRIO before any
  streak,    \* history: the dispatches in a row from that level
  hogged     \* history: those in a row made while a less urgent level waited

history == <<last, streak, hogged>>
vars == <<readyvars, prio, held, history>>

Init ==
  /\ prio \in [Procs -> Levels]
  /\ init_scheduler
  /\ held = Procs
  /\ last = MAX_PRIO
  /\ streak = 0
  /\ hogged = 0

\* put_proc or add_proc, from the critical section of put_mlq_proc or add_mlq_proc
\* on; the one before it touches only running_list.
Put(p) ==
  /\ p \in held
  /\ put_mlq_proc(p)
  /\ held' = held \ {p}
  /\ UNCHANGED <<prio, history>>

\* Some level less urgent than l has a ready process.
LessUrgentWaits(l) == \E k \in Levels : k > l /\ Ready(k)

Get(p) ==
  /\ Dispatch(p)
  /\ held' = held \cup {p}
  /\ last' = Chosen
  /\ streak' = IF Chosen # last THEN 1
               ELSE IF streak < MAX_PRIO THEN streak + 1 ELSE streak
  /\ hogged' = IF ~LessUrgentWaits(Chosen) THEN 0
               ELSE IF Chosen = last THEN hogged + 1 ELSE 1
  /\ UNCHANGED prio

Next == \E p \in Procs : Put(p) \/ Get(p)

Spec == Init /\ [][Next]_vars

-----------------------------------------------------------------------------

TypeOK ==
  /\ mlq_ready_queue \in [Levels -> Seq(Procs)]
  /\ currentPrio \in Levels /\ used_slot \in Nat
  /\ prio \in [Procs -> Levels]
  /\ held \subseteq Procs
  /\ last \in 0..MAX_PRIO /\ streak \in 0..MAX_PRIO /\ hogged \in Nat

\* sched.c:57 "curr_slot = 0..(MAX_PRIO - prio)": a level's budget bounds the
\* dispatches it gets in a row while a less urgent process is ready, even when
\* other threads drain and refill its queue in between.
BudgetBounds == last # MAX_PRIO => hogged <= slot[last]

\* A process is dispatched past a more urgent ready one only when the most
\* urgent ready level has just had its whole budget of dispatches in a row; two
\* such dispatches never follow each other (sched.c, get_mlq_proc).
UrgentFirst ==
  [][(\E p \in Procs : Get(p)) /\ last' > highestPrio =>
       last = highestPrio /\ streak >= slot[last]]_vars
=============================================================================
