---------------------------- MODULE SchedProofs ----------------------------
(***************************************************************************)
(* Proofs about the scheduler's policy, for any number of levels and of    *)
(* processes.  BudgetBounds speaks of the history of dispatches; the       *)
(* invariant ties that history to the two static variables of              *)
(* get_mlq_proc: hogged is at most used_slot, used_slot is at most the     *)
(* budget of currentPrio and at most the streak.                           *)
(***************************************************************************)
EXTENDS SchedPolicy, SchedLemmas

-----------------------------------------------------------------------------
(* The inductive invariant *)

\* The history against get_mlq_proc's static variables.
History ==
  /\ used_slot <= slot[currentPrio]
  /\ last # MAX_PRIO => last = currentPrio
  /\ last = MAX_PRIO => used_slot = 0
  /\ hogged <= used_slot
  /\ used_slot <= streak

IInv == TypeOK /\ History

\* What a dispatch does, in terms of the level it serves: it goes on with a level
\* that has budget left, or begins a new run at another one.
LEMMA Choice ==
  ASSUME IInv, ~NothingReady
  PROVE  /\ Chosen \in Levels
         /\ Ready(Chosen)
         /\ \/ /\ Chosen = currentPrio
               /\ WithinBudget
               /\ Used = used_slot
               /\ used_slot < slot[currentPrio]
               /\ highestPrio = currentPrio
            \/ /\ Chosen # currentPrio \/ ~LessUrgentWaits(Chosen)
               /\ WithinBudget => Used = 0 /\ Chosen = highestPrio
               /\ ~WithinBudget => /\ highestPrio = currentPrio
                                   /\ used_slot >= slot[currentPrio]
<1> USE MaxPrioAssumption
<1>0. currentPrio \in Levels /\ used_slot \in Nat
  BY DEF IInv, TypeOK
<1>1. \A l \in Levels : slot[l] = MAX_PRIO - l /\ slot[l] >= 1
  BY DEF slot, Levels
<1>2. /\ highestPrio \in Levels
      /\ Ready(highestPrio)
      /\ \A k \in Levels : Ready(k) => highestPrio <= k
  BY HighestPrio
<1>3. CASE Restart
  <2>0. Level = highestPrio /\ Used = 0
    BY <1>3 DEF Level, Used
  <2>1. Level = highestPrio /\ Used = 0 /\ WithinBudget
    BY <2>0, <1>1, <1>2 DEF WithinBudget, Levels
  <2>2. Chosen = highestPrio /\ highestPrio # currentPrio
    BY <2>1, <1>2, <1>3, <1>0 DEF Chosen, Restart, Levels
  <2> QED
    BY <2>1, <2>2, <1>2
<1>4. CASE ~Restart /\ WithinBudget
  <2>1. Level = currentPrio /\ Used = used_slot /\ Chosen = currentPrio
    BY <1>4 DEF Level, Used, Chosen
  <2>2. Ready(currentPrio) /\ highestPrio = currentPrio
    BY <1>4, <1>2, <1>0 DEF Restart, Levels
  <2> QED
    BY <2>1, <2>2, <1>4, <1>0 DEF WithinBudget
<1>5. CASE ~Restart /\ ~WithinBudget
  <2>1. Level = currentPrio /\ Used = used_slot /\ Chosen = nextPrio(currentPrio)
    BY <1>5 DEF Level, Used, Chosen
  <2>2. Ready(currentPrio) /\ highestPrio = currentPrio
    BY <1>5, <1>2, <1>0 DEF Restart, Levels
  <2>3. /\ Chosen \in Levels /\ Ready(Chosen)
        /\ LessUrgentWaits(currentPrio) => Chosen # currentPrio
    BY <2>1, <2>2, <1>0, NextPrio DEF LessUrgentWaits
  <2>4. used_slot >= slot[currentPrio]
    BY <2>1, <1>5, <1>0, <1>1 DEF WithinBudget, Levels
  <2> QED
    BY <2>1, <2>2, <2>3, <2>4, <1>5
<1> QED
  BY <1>3, <1>4, <1>5

\* init_scheduler establishes the invariant.
LEMMA InitIInv == Init => IInv
<1> SUFFICES ASSUME Init PROVE IInv
  OBVIOUS
<1> USE MaxPrioAssumption DEF Init, init_scheduler
<1>1. TypeOK
  <2>1. mlq_ready_queue \in [Levels -> Seq(Procs)]
    BY EmptySeq
  <2> QED
    BY <2>1 DEF TypeOK, Levels
<1>2. History
  BY DEF History, slot, Levels
<1> QED
  BY <1>1, <1>2 DEF IInv

\* put_proc and add_proc preserve it: they only append to two queues.
LEMMA PutIInv ==
  ASSUME NEW p \in Procs, IInv, Put(p)
  PROVE  IInv'
<1> USE DEF IInv
<1>1. TypeOK'
  <2>1. prio[p] \in Levels
    BY DEF TypeOK
  <2>2. enqueue(mlq_ready_queue[prio[p]], p) \in Seq(Procs)
    BY <2>1, EnqueueType DEF TypeOK
  <2>3. (mlq_ready_queue \in [Levels -> Seq(Procs)])'
    BY <2>1, <2>2 DEF TypeOK, Put, put_mlq_proc
  <2> QED
    BY <2>3 DEF TypeOK, Put, put_mlq_proc, history
<1>2. History'
  BY DEF History, Put, put_mlq_proc, history
<1> QED
  BY <1>1, <1>2

\* get_proc preserves it: going on with a level uses one more of its budget,
\* and another level begins with used_slot = 1 and a streak of 1.
LEMMA GetIInv ==
  ASSUME NEW p \in Procs, IInv, Get(p)
  PROVE  IInv'
<1> USE MaxPrioAssumption
<1>0. ~NothingReady
  BY DEF Get, Dispatch
<1>1. /\ Chosen \in Levels
      /\ Ready(Chosen)
      /\ \/ /\ Chosen = currentPrio
            /\ WithinBudget
            /\ Used = used_slot
            /\ used_slot < slot[currentPrio]
            /\ highestPrio = currentPrio
         \/ /\ Chosen # currentPrio \/ ~LessUrgentWaits(Chosen)
            /\ WithinBudget => Used = 0 /\ Chosen = highestPrio
            /\ ~WithinBudget => /\ highestPrio = currentPrio
                                /\ used_slot >= slot[currentPrio]
  BY <1>0, Choice
<1>2. /\ currentPrio' = Chosen
      /\ used_slot' = IF WithinBudget THEN Used + 1 ELSE 1
      /\ last' = Chosen
      /\ streak' = IF Chosen # last THEN 1
                   ELSE IF streak < MAX_PRIO THEN streak + 1 ELSE streak
      /\ hogged' = IF ~LessUrgentWaits(Chosen) THEN 0
                   ELSE IF Chosen = last THEN hogged + 1 ELSE 1
  BY Zenon DEF Get, Dispatch
<1>3. /\ currentPrio \in 0..(MAX_PRIO - 1) /\ Chosen \in 0..(MAX_PRIO - 1)
      /\ used_slot \in Nat /\ hogged \in Nat
      /\ last \in 0..MAX_PRIO /\ streak \in 0..MAX_PRIO
  BY <1>1 DEF IInv, TypeOK, Levels
<1>4. \A l \in Levels : slot[l] = MAX_PRIO - l
  BY DEF slot, Levels
<1>5. slot[currentPrio] = MAX_PRIO - currentPrio /\ slot[Chosen] = MAX_PRIO - Chosen
  BY <1>1, <1>3, <1>4 DEF Levels
<1> HIDE DEF LessUrgentWaits, WithinBudget, Used, Chosen
<1>6. /\ used_slot' \in Nat /\ streak' \in 0..MAX_PRIO /\ hogged' \in Nat
      /\ used_slot' <= MAX_PRIO - Chosen
      /\ hogged' <= used_slot'
      /\ used_slot' <= streak'
  <2> USE <1>2, <1>3, <1>5 DEF IInv, History
  <2>1. CASE Chosen = currentPrio /\ WithinBudget /\ Used = used_slot /\ used_slot < slot[currentPrio]
    BY <2>1
  <2>2. CASE /\ Chosen # currentPrio \/ ~LessUrgentWaits(Chosen)
             /\ WithinBudget => Used = 0
    BY <2>2
  <2> QED
    BY <1>1, <2>1, <2>2
<1>7. History'
  <2>1. slot[Chosen] = slot'[Chosen]
    BY DEF slot
  <2> QED
    BY <1>2, <1>3, <1>5, <1>6, <2>1 DEF History
<1>8. TypeOK'
  <2>1. mlq_ready_queue[Chosen] \in Seq(Procs) /\ ~empty(mlq_ready_queue[Chosen])
    BY <1>1 DEF IInv, TypeOK, Ready
  <2>2. dequeue(mlq_ready_queue[Chosen]) \in Seq(Procs)
    BY <2>1, DequeueType
  <2>3. (mlq_ready_queue \in [Levels -> Seq(Procs)])'
    BY <1>1, <2>2 DEF IInv, TypeOK, Get, Dispatch
  <2>4. UNCHANGED prio /\ held' = held \cup {p}
    BY DEF Get
  <2>5. currentPrio' \in Levels /\ last' \in 0..MAX_PRIO
    BY <1>1, <1>2, <1>3 DEF Levels
  <2>6. prio' \in [Procs -> Levels] /\ held' \subseteq Procs
    BY <2>4 DEF IInv, TypeOK
  <2> QED
    BY <1>6, <2>3, <2>5, <2>6 DEF TypeOK
<1> QED
  BY <1>7, <1>8 DEF IInv

\* Every step of the scheduler's users preserves the invariant.
LEMMA NextIInv == IInv /\ [Next]_vars => IInv'
<1> SUFFICES ASSUME IInv, [Next]_vars PROVE IInv'
  OBVIOUS
<1>1. CASE Next
  BY <1>1, PutIInv, GetIInv DEF Next
<1>2. CASE UNCHANGED vars
  BY <1>2 DEF IInv, TypeOK, History, vars, readyvars, history, slot
<1> QED
  BY <1>1, <1>2

\* The invariant holds throughout.
THEOREM Invariance == Spec => []IInv
  BY InitIInv, NextIInv, PTL DEF Spec

\* The scheduler's state is well typed: in particular currentPrio always indexes
\* an existing queue, wherever the circular scan of get_mlq_proc ends.
THEOREM TypeCorrect == Spec => []TypeOK
<1>1. IInv => TypeOK
  BY DEF IInv
<1> QED
  BY <1>1, Invariance, PTL

\* A level gets at most its budget of dispatches in a row while a less urgent
\* process is ready, for any number of levels and processes and any use of
\* get_proc, put_proc and add_proc.
THEOREM BudgetTheorem == Spec => []BudgetBounds
<1>1. IInv => BudgetBounds
  <2> SUFFICES ASSUME IInv, last # MAX_PRIO PROVE hogged <= slot[last]
    BY DEF BudgetBounds
  <2>1. slot[last] \in Int /\ last = currentPrio
    BY MaxPrioAssumption DEF IInv, TypeOK, History, slot, Levels
  <2> QED
    BY <2>1 DEF IInv, TypeOK, History
<1> QED
  BY <1>1, Invariance, PTL

\* A process is dispatched past a more urgent ready one only right after the
\* most urgent ready level has had its whole budget (get_mlq_proc).
THEOREM UrgentFirstTheorem == Spec => UrgentFirst
<1> DEFINE Past == (\E p \in Procs : Get(p)) /\ last' > highestPrio =>
                      last = highestPrio /\ streak >= slot[last]
<1>1. IInv /\ [Next]_vars => [Past]_vars
  <2> SUFFICES ASSUME IInv, NEW p \in Procs, Get(p), last' > highestPrio
               PROVE  last = highestPrio /\ streak >= slot[last]
    OBVIOUS
  <2>1. ~NothingReady /\ last' = Chosen
    BY DEF Get, Dispatch
  <2>2. highestPrio \in Levels
    BY <2>1, HighestPrio
  <2>3. highestPrio = currentPrio /\ used_slot >= slot[currentPrio]
    BY <2>1, <2>2, Choice, MaxPrioAssumption DEF Levels
  <2>4. slot[currentPrio] \in Nat \ {0}
    BY MaxPrioAssumption DEF IInv, TypeOK, slot, Levels
  <2> QED
    BY <2>3, <2>4, MaxPrioAssumption DEF IInv, TypeOK, History
<1> QED
  BY <1>1, Invariance, PTL DEF Spec, UrgentFirst
=============================================================================
