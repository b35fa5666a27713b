-------------------------------- MODULE Queue --------------------------------
(***************************************************************************)
(* queue.c: a bounded queue of processes, here a sequence.  enqueue on a   *)
(* full queue (or of NULL) and dequeue of an empty one do nothing, and say *)
(* nothing.  Module RunningList has the same operations at the level of    *)
(* the array and its size.                                                 *)
(***************************************************************************)
EXTENDS Naturals, Sequences

CONSTANT MAX_QUEUE_SIZE

ASSUME QueueSizeAssumption == MAX_QUEUE_SIZE \in Nat \ {0}

NULL == 0     \* no process

empty(q) == Len(q) = 0

enqueue(q, proc) ==
  IF proc = NULL \/ Len(q) >= MAX_QUEUE_SIZE THEN q ELSE Append(q, proc)

\* What dequeue returns, and what it leaves in the queue.
dequeued(q) == IF empty(q) THEN NULL ELSE Head(q)
dequeue(q)  == IF empty(q) THEN q ELSE Tail(q)

InQueue(proc, q) == \E k \in 1..Len(q) : q[k] = proc
=============================================================================
