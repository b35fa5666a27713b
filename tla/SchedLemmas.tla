---------------------------- MODULE SchedLemmas ----------------------------
(***************************************************************************)
(* Facts about the operators of Queue and Sched that the proofs about the  *)
(* policy (SchedProofs) and about the simulator (OSProofs) rest on.        *)
(***************************************************************************)
EXTENDS Sched, SequenceTheorems, WellFoundedInduction, TLAPS

\* A set of natural numbers has a least element.
LEMMA Least ==
  ASSUME NEW S, S \subseteq Nat, S # {}
  PROVE  \E x \in S : \A y \in S : x <= y
<1> DEFINE R == {ss \in Nat \X Nat : ss[1] < ss[2]}
<1>1. IsWellFoundedOn(R, Nat)
  BY NatLessThanWellFounded, Zenon DEF OpToRel
<1> HIDE DEF R
<1>2. PICK x \in S : \A y \in S : ~(<<y, x>> \in R)
  BY <1>1, WFMin, Zenon
<1>3. \A y \in S : ~(y < x)
  BY <1>2 DEF R
<1> QED
  BY <1>3

\* What is needed of the remainder in nextPrio's circular scan.
LEMMA ModFacts ==
  ASSUME NEW m \in Nat \ {0}
  PROVE  /\ \A k \in 0..(m - 1) : k % m = k
         /\ \A k \in Nat : k % m \in 0..(m - 1)
         /\ \A k \in 0..(m - 1) : (k + m) % m = k
  OBVIOUS

-----------------------------------------------------------------------------
(* The searches of get_mlq_proc *)

\* The first loop finds the most urgent level that has a ready process.
LEMMA HighestPrio ==
  ASSUME ~NothingReady
  PROVE  /\ highestPrio \in Levels
         /\ Ready(highestPrio)
         /\ \A k \in Levels : Ready(k) => highestPrio <= k
<1> DEFINE S == {l \in Levels : Ready(l)}
<1>1. S \subseteq Nat /\ S # {}
  BY DEF NothingReady, Levels
<1>2. PICK x \in S : \A y \in S : x <= y
  BY <1>1, Least
<1>3. x \in Levels /\ Ready(x) /\ \A k \in 0..(x - 1) : ~Ready(k)
  BY <1>2, MaxPrioAssumption DEF Levels
<1>4. /\ highestPrio \in Levels
      /\ Ready(highestPrio)
      /\ \A k \in 0..(highestPrio - 1) : ~Ready(k)
  BY <1>3, Zenon DEF highestPrio
<1> QED
  BY <1>4, MaxPrioAssumption DEF Levels

\* The circular scan from a ready level finds a ready level; it comes back to
\* where it started only if no less urgent level has a ready process.
LEMMA NextPrio ==
  ASSUME NEW l \in Levels, Ready(l)
  PROVE  /\ nextPrio(l) \in Levels
         /\ Ready(nextPrio(l))
         /\ (\E k \in Levels : k > l /\ Ready(k)) => nextPrio(l) # l
<1> DEFINE at(n) == (l + n) % MAX_PRIO
           T == {n \in 1..MAX_PRIO : Ready(at(n))}
           i == CHOOSE n \in 1..MAX_PRIO : /\ Ready(at(n))
                                           /\ \A m \in 1..(n - 1) : ~Ready(at(m))
<1>0. nextPrio(l) = at(i)
  BY DEF nextPrio
<1>1. \A n \in Nat : at(n) \in Levels
  BY ModFacts, MaxPrioAssumption DEF Levels
<1>2. at(MAX_PRIO) = l
  BY ModFacts, MaxPrioAssumption DEF Levels
<1>3. MAX_PRIO \in T /\ T \subseteq Nat
  BY <1>2, MaxPrioAssumption
<1>4. PICK x \in T : \A y \in T : x <= y
  BY <1>3, Least
<1>5. x \in 1..MAX_PRIO /\ Ready(at(x)) /\ \A m \in 1..(x - 1) : ~Ready(at(m))
  BY <1>4, MaxPrioAssumption
<1>6. i \in 1..MAX_PRIO /\ Ready(at(i)) /\ \A m \in 1..(i - 1) : ~Ready(at(m))
  BY <1>5, Zenon
<1>m. \A k \in 0..(MAX_PRIO - 1) : k % MAX_PRIO = k
  BY ModFacts, MaxPrioAssumption
<1> HIDE DEF i
<1>7. ASSUME \E k \in Levels : k > l /\ Ready(k)
      PROVE  at(i) # l
  <2>1. PICK k \in Levels : k > l /\ Ready(k)
    BY <1>7
  <2>2. k - l \in 1..MAX_PRIO /\ at(k - l) = k
    <3>1. l + (k - l) = k /\ k - l \in 1..MAX_PRIO /\ k \in 0..(MAX_PRIO - 1)
      BY <2>1, MaxPrioAssumption DEF Levels
    <3> QED
      BY <3>1, <1>m
  <2>3. i <= k - l
    BY <1>6, <2>1, <2>2, MaxPrioAssumption DEF Levels
  <2>4. at(i) = l + i
    <3>1. l + i \in 0..(MAX_PRIO - 1)
      BY <2>3, <1>6, <2>1, MaxPrioAssumption DEF Levels
    <3> QED
      BY <3>1, <1>m
  <2> QED
    BY <2>4, <1>6, MaxPrioAssumption DEF Levels
<1> QED
  BY <1>0, <1>1, <1>6, <1>7, MaxPrioAssumption

\* get_mlq_proc finds a process whenever one is ready, and keeps its static
\* variables in range.
LEMMA ChosenReady ==
  ASSUME currentPrio \in Levels, used_slot \in Nat, ~NothingReady
  PROVE  /\ Chosen \in Levels
         /\ Ready(Chosen)
         /\ WithinBudget => Used + 1 \in 0..MAX_PRIO
<1> USE MaxPrioAssumption
<1>1. /\ highestPrio \in Levels
      /\ Ready(highestPrio)
  BY HighestPrio
<1>2. Level \in Levels /\ Ready(Level) /\ Used \in Nat
  BY <1>1 DEF Level, Used, Restart
<1>3. nextPrio(Level) \in Levels /\ Ready(nextPrio(Level))
  BY <1>2, NextPrio
<1>4. slot[Level] \in 1..MAX_PRIO
  BY <1>2 DEF slot, Levels
<1> QED
  BY <1>2, <1>3, <1>4 DEF Chosen, WithinBudget

-----------------------------------------------------------------------------
(* Queues *)
\* enqueue keeps a queue of processes one.
LEMMA EnqueueType ==
  ASSUME NEW q \in Seq(Procs), NEW p \in Procs
  PROVE  enqueue(q, p) \in Seq(Procs)
<1>1. Append(q, p) \in Seq(Procs)
  BY AppendProperties
<1> QED
  BY <1>1, Zenon DEF enqueue

\* dequeue returns a process and keeps a queue of processes one.
LEMMA DequeueType ==
  ASSUME NEW q \in Seq(Procs), ~empty(q)
  PROVE  dequeued(q) \in Procs /\ dequeue(q) \in Seq(Procs)
<1>1. q # << >>
  BY EmptySeq DEF empty
<1>2. Head(q) \in Procs /\ Tail(q) \in Seq(Procs)
  BY <1>1, HeadTailProperties
<1> QED
  BY <1>2, Zenon DEF dequeued, dequeue

\* A queue without repetitions.
NoRepeat(q) == \A j, k \in 1..Len(q) : q[j] = q[k] => j = k

\* What is in a queue after enqueue.
LEMMA EnqueueContents ==
  ASSUME NEW q \in Seq(Procs), NEW p \in Procs, NEW x
  PROVE  /\ InQueue(x, enqueue(q, p)) => InQueue(x, q) \/ x = p
         /\ InQueue(x, q) => InQueue(x, enqueue(q, p))
         /\ Len(q) < MAX_QUEUE_SIZE => InQueue(p, enqueue(q, p))
         /\ Len(q) <= Len(enqueue(q, p))
         /\ NoRepeat(q) /\ ~InQueue(p, q) => NoRepeat(enqueue(q, p))
<1> USE QueueSizeAssumption
<1>1. CASE Len(q) >= MAX_QUEUE_SIZE
  <2>1. enqueue(q, p) = q
    BY <1>1, Zenon DEF enqueue
  <2> QED
    BY <1>1, <2>1
<1>2. CASE Len(q) < MAX_QUEUE_SIZE
  <2>1. enqueue(q, p) = Append(q, p)
    BY <1>2 DEF enqueue, Procs, NULL
  <2>2. /\ Len(Append(q, p)) = Len(q) + 1
        /\ \A k \in 1..Len(q) : Append(q, p)[k] = q[k]
        /\ Append(q, p)[Len(q) + 1] = p
        /\ Len(q) \in Nat
    BY AppendProperties, LenProperties
  <2> QED
    BY <2>1, <2>2 DEF InQueue, NoRepeat
<1> QED
  BY <1>1, <1>2

\* What is in a queue after dequeue.
LEMMA DequeueContents ==
  ASSUME NEW q \in Seq(Procs), ~empty(q), NEW x
  PROVE  /\ InQueue(dequeued(q), q)
         /\ InQueue(x, dequeue(q)) => InQueue(x, q)
         /\ InQueue(x, q) => InQueue(x, dequeue(q)) \/ x = dequeued(q)
         /\ NoRepeat(q) => NoRepeat(dequeue(q)) /\ ~InQueue(dequeued(q), dequeue(q))
<1>1. q # << >>
  BY EmptySeq DEF empty
<1>2. dequeued(q) = Head(q) /\ dequeue(q) = Tail(q)
  BY Zenon DEF dequeued, dequeue
<1>3. /\ Len(q) \in Nat \ {0}
      /\ Len(Tail(q)) = Len(q) - 1
      /\ Head(q) = q[1]
      /\ \A k \in 1..(Len(q) - 1) : Tail(q)[k] = q[k + 1]
  BY <1>1, HeadTailProperties, LenProperties, EmptySeq
<1>4. \A k \in 1..Len(q) : k = 1 \/ (k - 1 \in 1..(Len(q) - 1) /\ Tail(q)[k - 1] = q[k])
  BY <1>3
<1>5. InQueue(Head(q), q)
  BY <1>3 DEF InQueue
<1>6. InQueue(x, Tail(q)) => InQueue(x, q)
  BY <1>3 DEF InQueue
<1>7. InQueue(x, q) => InQueue(x, Tail(q)) \/ x = Head(q)
  BY <1>3, <1>4 DEF InQueue
<1>8. ASSUME NoRepeat(q) PROVE NoRepeat(Tail(q)) /\ ~InQueue(Head(q), Tail(q))
  <2>1. NoRepeat(Tail(q))
    <3> SUFFICES ASSUME NEW j \in 1..(Len(q) - 1), NEW k \in 1..(Len(q) - 1),
                        Tail(q)[j] = Tail(q)[k]
                 PROVE  j = k
      BY <1>3 DEF NoRepeat
    <3>1. j + 1 \in 1..Len(q) /\ k + 1 \in 1..Len(q) /\ q[j + 1] = q[k + 1]
      BY <1>3
    <3> QED
      BY <3>1, <1>8 DEF NoRepeat
  <2>2. ~InQueue(Head(q), Tail(q))
    <3> SUFFICES ASSUME NEW k \in 1..(Len(q) - 1), Tail(q)[k] = Head(q)
                 PROVE  FALSE
      BY <1>3 DEF InQueue
    <3>1. 1 \in 1..Len(q) /\ k + 1 \in 1..Len(q) /\ q[k + 1] = q[1]
      BY <1>3
    <3> QED
      BY <3>1, <1>8 DEF NoRepeat
  <2> QED
    BY <2>1, <2>2
<1> QED
  BY <1>2, <1>5, <1>6, <1>7, <1>8
=============================================================================
