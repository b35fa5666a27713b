-------------------------------- MODULE Timer --------------------------------
(***************************************************************************)
(* timer.c, with the calls main, cpu_routine and ld_routine (os.c) make to *)
(* it.  The timer thread and the N devices (num_cpus CPUs and the loader)  *)
(* share, per device, two flags, two mutexes and two condition variables:  *)
(* `done` is set by the device under event_lock and reset by the timer     *)
(* under timer_lock.  Taking a mutex is one step, the critical section up  *)
(* to its unlock or its cond_wait is the next one.                         *)
(*                                                                         *)
(* Devices are named in the order they attach.  attach_event puts a new    *)
(* container in front of dev_list, so container k's next is k - 1 and the  *)
(* list is known by its head.                                              *)
(***************************************************************************)
EXTENDS Naturals

CONSTANTS N,          \* the number of attached devices: num_cpus + 1
          MaxSlots    \* a device calls next_slot only in slots before this one

ASSUME NAssumption == N \in Nat \ {0}
ASSUME MaxSlotsAssumption == MaxSlots \in Nat

Devices == 1..N
NULL == 0

VARIABLES
  dev_list,       \* head of the list of containers
  timer_started, timer_stop,
  time,           \* _time
  done, fsh,      \* the flags of each device
  event_lock, timer_lock,    \* who holds each device's mutexes
  tpc, temp, nfsh, nevent,   \* timer_routine: control and its locals
  dpc,            \* control of each device's thread
  mpc,            \* control of main
  calls           \* history: calls of next_slot that returned, per device

flags == <<done, fsh>>
locks == <<event_lock, timer_lock>>
timer == <<tpc, temp, nfsh, nevent>>
setup == <<dev_list, timer_started, timer_stop, mpc>>
vars == <<setup, time, flags, locks, timer, dpc, calls>>

Holders == {"free", "timer", "device"}

TimerPcs == {"off", "check", "lock_event", "test_event", "event_wait", "tick",
             "lock_timer", "release", "exit"}

DevicePcs == {"new", "work",
              "next_event", "set_done", "next_timer", "test_done", "timer_wait",
              "detach_event", "set_fsh", "gone"}

MainPcs == {"attach", "create", "join", "join_timer", "free", "exit"}

\* Where temp, the timer's loop variable, points to a container.
Visiting == {"lock_event", "test_event", "event_wait", "lock_timer", "release"}

Init ==
  /\ dev_list = NULL
  /\ timer_started = FALSE
  /\ timer_stop = FALSE
  /\ time = 0
  /\ done = [d \in Devices |-> FALSE]
  /\ fsh = [d \in Devices |-> FALSE]
  /\ event_lock = [d \in Devices |-> "free"]
  /\ timer_lock = [d \in Devices |-> "free"]
  /\ tpc = "off"
  /\ temp = NULL
  /\ nfsh = 0
  /\ nevent = 0
  /\ dpc = [d \in Devices |-> "new"]
  /\ mpc = "attach"
  /\ calls = [d \in Devices |-> 0]

-----------------------------------------------------------------------------
(* main *)

\* attach_event, refused once the timer runs.  The new container's flags and
\* mutexes are as Init leaves them.
AttachEvent ==
  /\ mpc = "attach"
  /\ ~timer_started
  /\ dev_list < N
  /\ dev_list' = dev_list + 1
  /\ UNCHANGED <<timer_started, timer_stop, mpc, time, flags, locks, timer, dpc, calls>>

StartTimer ==
  /\ mpc = "attach"
  /\ dev_list = N
  /\ timer_started' = TRUE
  /\ tpc' = "check"
  /\ mpc' = "create"
  /\ UNCHANGED <<dev_list, timer_stop, time, flags, locks, temp, nfsh, nevent, dpc, calls>>

\* The loader (attached last) is created first, then the CPUs in order.
CreateThread(d) ==
  /\ mpc = "create"
  /\ dpc[d] = "new"
  /\ d # N => /\ dpc[N] # "new"
              /\ \A e \in 1..(d-1) : dpc[e] # "new"
  /\ dpc' = [dpc EXCEPT ![d] = "work"]
  /\ UNCHANGED <<setup, time, flags, locks, timer, calls>>

AllCreated ==
  /\ mpc = "create"
  /\ \A d \in Devices : dpc[d] # "new"
  /\ mpc' = "join"
  /\ UNCHANGED <<dev_list, timer_started, timer_stop, time, flags, locks, timer, dpc, calls>>

\* pthread_join of every CPU and of the loader, then stop_timer.
StopTimer ==
  /\ mpc = "join"
  /\ \A d \in Devices : dpc[d] = "gone"
  /\ timer_stop' = TRUE
  /\ mpc' = "join_timer"
  /\ UNCHANGED <<dev_list, timer_started, time, flags, locks, timer, dpc, calls>>

JoinTimer ==
  /\ mpc = "join_timer"
  /\ tpc = "exit"
  /\ mpc' = "free"
  /\ UNCHANGED <<dev_list, timer_started, timer_stop, time, flags, locks, timer, dpc, calls>>

\* One turn of stop_timer's loop: unlink the head, destroy and free it.
FreeContainer ==
  /\ mpc = "free"
  /\ dev_list # NULL
  /\ dev_list' = dev_list - 1
  /\ mpc' = IF dev_list' = NULL THEN "exit" ELSE "free"
  /\ UNCHANGED <<timer_started, timer_stop, time, flags, locks, timer, dpc, calls>>

MainStep ==
  \/ AttachEvent \/ StartTimer \/ AllCreated
  \/ StopTimer \/ JoinTimer \/ FreeContainer
  \/ \E d \in Devices : CreateThread(d)

-----------------------------------------------------------------------------
(* timer_routine *)

\* Mutated: fsh is not reset for the new slot.
TimerCheckKeepsFsh ==
  /\ tpc = "check"
  /\ IF timer_stop
     THEN /\ tpc' = "exit"
          /\ UNCHANGED <<temp, nfsh, nevent>>
     ELSE /\ nevent' = 0
          /\ temp' = dev_list
          /\ tpc' = "lock_event"
          /\ UNCHANGED nfsh
  /\ UNCHANGED <<setup, time, flags, locks, dpc, calls>>

\* The loop's test and the start of the walk that waits for every device.
TimerCheck ==
  /\ tpc = "check"
  /\ IF timer_stop
     THEN /\ tpc' = "exit"
          /\ UNCHANGED <<temp, nfsh, nevent>>
     ELSE /\ nfsh' = 0
          /\ nevent' = 0
          /\ temp' = dev_list
          /\ tpc' = "lock_event"
  /\ UNCHANGED <<setup, time, flags, locks, dpc, calls>>

TimerLockEvent ==
  /\ tpc = "lock_event"
  /\ event_lock[temp] = "free"
  /\ event_lock' = [event_lock EXCEPT ![temp] = "timer"]
  /\ tpc' = "test_event"
  /\ UNCHANGED <<setup, time, flags, timer_lock, temp, nfsh, nevent, dpc, calls>>

\* Mutated: the walk does not notice the end of the list.
TimerCountPastEnd ==
  /\ tpc = "test_event"
  /\ done[temp] \/ fsh[temp]
  /\ nfsh' = IF fsh[temp] THEN nfsh + 1 ELSE nfsh
  /\ nevent' = nevent + 1
  /\ event_lock' = [event_lock EXCEPT ![temp] = "free"]
  /\ temp' = temp - 1
  /\ tpc' = "lock_event"
  /\ UNCHANGED <<setup, time, flags, timer_lock, dpc, calls>>

\* Mutated: an `if` in place of the while loop; a wakeup is taken for an answer.
TimerCountUntested ==
  /\ tpc = "test_event"
  /\ nfsh' = IF fsh[temp] THEN nfsh + 1 ELSE nfsh
  /\ nevent' = nevent + 1
  /\ event_lock' = [event_lock EXCEPT ![temp] = "free"]
  /\ temp' = temp - 1
  /\ tpc' = IF temp' = NULL THEN "tick" ELSE "lock_event"
  /\ UNCHANGED <<setup, time, flags, timer_lock, dpc, calls>>

\* Mutated: attach_event does not link the older containers.
TimerCountUnlinked ==
  /\ tpc = "test_event"
  /\ done[temp] \/ fsh[temp]
  /\ nfsh' = IF fsh[temp] THEN nfsh + 1 ELSE nfsh
  /\ nevent' = nevent + 1
  /\ event_lock' = [event_lock EXCEPT ![temp] = "free"]
  /\ temp' = NULL
  /\ tpc' = "tick"
  /\ UNCHANGED <<setup, time, flags, timer_lock, dpc, calls>>

\* The while loop's test fails: count the device, unlock, go to the next one.
TimerCount ==
  /\ tpc = "test_event"
  /\ done[temp] \/ fsh[temp]
  /\ nfsh' = IF fsh[temp] THEN nfsh + 1 ELSE nfsh
  /\ nevent' = nevent + 1
  /\ event_lock' = [event_lock EXCEPT ![temp] = "free"]
  /\ temp' = temp - 1
  /\ tpc' = IF temp' = NULL THEN "tick" ELSE "lock_event"
  /\ UNCHANGED <<setup, time, flags, timer_lock, dpc, calls>>

\* The while loop's test holds: pthread_cond_wait on event_cond.
TimerBlock ==
  /\ tpc = "test_event"
  /\ ~done[temp] /\ ~fsh[temp]
  /\ event_lock' = [event_lock EXCEPT ![temp] = "free"]
  /\ tpc' = "event_wait"
  /\ UNCHANGED <<setup, time, flags, timer_lock, temp, nfsh, nevent, dpc, calls>>

TimerTick ==
  /\ tpc = "tick"
  /\ time' = time + 1
  /\ temp' = dev_list
  /\ tpc' = "lock_timer"
  /\ UNCHANGED <<setup, flags, locks, nfsh, nevent, dpc, calls>>

TimerLockTimer ==
  /\ tpc = "lock_timer"
  /\ timer_lock[temp] = "free"
  /\ timer_lock' = [timer_lock EXCEPT ![temp] = "timer"]
  /\ tpc' = "release"
  /\ UNCHANGED <<setup, time, flags, event_lock, temp, nfsh, nevent, dpc, calls>>

\* Who waits on timer_cond of d wakes up and has to take timer_lock again.
SignalDevice(d) ==
  dpc' = [dpc EXCEPT ![d] = IF @ = "timer_wait" THEN "next_timer" ELSE @]

TimerRelease ==
  /\ tpc = "release"
  /\ done' = [done EXCEPT ![temp] = FALSE]
  /\ SignalDevice(temp)
  /\ timer_lock' = [timer_lock EXCEPT ![temp] = "free"]
  /\ temp' = temp - 1
  /\ tpc' = CASE temp' # NULL -> "lock_timer"
              [] temp' = NULL /\ nfsh = nevent -> "exit"
              [] OTHER -> "check"
  /\ UNCHANGED <<setup, time, fsh, event_lock, nfsh, nevent, calls>>

TimerStep ==
  \/ TimerCheck \/ TimerLockEvent \/ TimerCount \/ TimerBlock
  \/ TimerTick \/ TimerLockTimer \/ TimerRelease

-----------------------------------------------------------------------------
(* a device: cpu_routine or ld_routine seen from the timer *)

\* next_slot is called.  MaxSlots bounds the exploration.
NextSlot(d) ==
  /\ dpc[d] = "work"
  /\ time < MaxSlots
  /\ dpc' = [dpc EXCEPT ![d] = "next_event"]
  /\ UNCHANGED <<setup, time, flags, locks, timer, calls>>

LockEvent(d, from, to) ==
  /\ dpc[d] = from
  /\ event_lock[d] = "free"
  /\ event_lock' = [event_lock EXCEPT ![d] = "device"]
  /\ dpc' = [dpc EXCEPT ![d] = to]
  /\ UNCHANGED <<setup, time, flags, timer_lock, timer, calls>>

NextSlotLock(d) == LockEvent(d, "next_event", "set_done")

\* Mutated: the signal goes to a condition variable nobody waits on.
SignalNobody(d) == UNCHANGED timer

\* The timer, if it waits on event_cond of d, wakes up and locks again.
SignalTimer(d) ==
  /\ tpc' = IF tpc = "event_wait" /\ temp = d THEN "lock_event" ELSE tpc
  /\ UNCHANGED <<temp, nfsh, nevent>>

\* Mutated: no signal after done = 1.
SetDoneSilent(d) ==
  /\ dpc[d] = "set_done"
  /\ done' = [done EXCEPT ![d] = TRUE]
  /\ event_lock' = [event_lock EXCEPT ![d] = "free"]
  /\ dpc' = [dpc EXCEPT ![d] = "next_timer"]
  /\ UNCHANGED <<setup, time, fsh, timer_lock, timer, calls>>

SetDone(d) ==
  /\ dpc[d] = "set_done"
  /\ done' = [done EXCEPT ![d] = TRUE]
  /\ SignalTimer(d)
  /\ event_lock' = [event_lock EXCEPT ![d] = "free"]
  /\ dpc' = [dpc EXCEPT ![d] = "next_timer"]
  /\ UNCHANGED <<setup, time, fsh, timer_lock, calls>>

LockTimer(d) ==
  /\ dpc[d] = "next_timer"
  /\ timer_lock[d] = "free"
  /\ timer_lock' = [timer_lock EXCEPT ![d] = "device"]
  /\ dpc' = [dpc EXCEPT ![d] = "test_done"]
  /\ UNCHANGED <<setup, time, flags, event_lock, timer, calls>>

\* `while (timer_id->done)`: wait, or return from next_slot.
TestDone(d) ==
  /\ dpc[d] = "test_done"
  /\ timer_lock' = [timer_lock EXCEPT ![d] = "free"]
  /\ IF done[d]
     THEN /\ dpc' = [dpc EXCEPT ![d] = "timer_wait"]
          /\ UNCHANGED calls
     ELSE /\ dpc' = [dpc EXCEPT ![d] = "work"]
          /\ calls' = [calls EXCEPT ![d] = @ + 1]
  /\ UNCHANGED <<setup, time, flags, event_lock, timer>>

\* detach_event is called, on the way out of the thread.
Detach(d) ==
  /\ dpc[d] = "work"
  /\ dpc' = [dpc EXCEPT ![d] = "detach_event"]
  /\ UNCHANGED <<setup, time, flags, locks, timer, calls>>

DetachLock(d) == LockEvent(d, "detach_event", "set_fsh")

\* Mutated: no signal after fsh = 1.
SetFshSilent(d) ==
  /\ dpc[d] = "set_fsh"
  /\ fsh' = [fsh EXCEPT ![d] = TRUE]
  /\ event_lock' = [event_lock EXCEPT ![d] = "free"]
  /\ dpc' = [dpc EXCEPT ![d] = "gone"]
  /\ UNCHANGED <<setup, time, done, timer_lock, timer, calls>>

SetFsh(d) ==
  /\ dpc[d] = "set_fsh"
  /\ fsh' = [fsh EXCEPT ![d] = TRUE]
  /\ SignalTimer(d)
  /\ event_lock' = [event_lock EXCEPT ![d] = "free"]
  /\ dpc' = [dpc EXCEPT ![d] = "gone"]
  /\ UNCHANGED <<setup, time, done, timer_lock, calls>>

DeviceStep(d) ==
  \/ NextSlot(d) \/ NextSlotLock(d) \/ SetDone(d) \/ LockTimer(d) \/ TestDone(d)
  \/ Detach(d) \/ DetachLock(d) \/ SetFsh(d)

-----------------------------------------------------------------------------
(* pthread_cond_wait may also return without a signal *)

SpuriousTimer ==
  /\ tpc = "event_wait"
  /\ tpc' = "lock_event"
  /\ UNCHANGED <<setup, time, flags, locks, temp, nfsh, nevent, dpc, calls>>

SpuriousDevice(d) ==
  /\ dpc[d] = "timer_wait"
  /\ SignalDevice(d)
  /\ UNCHANGED <<setup, time, flags, locks, timer, calls>>

Terminated == mpc = "exit" /\ UNCHANGED vars

Next ==
  \/ MainStep
  \/ TimerStep
  \/ \E d \in Devices : DeviceStep(d) \/ SpuriousDevice(d)
  \/ SpuriousTimer
  \/ Terminated

Spec == Init /\ [][Next]_vars

(***************************************************************************)
(* Every thread keeps running, and a mutex that is free again and again is *)
(* eventually given to the thread that asks for it.  A device's work in a  *)
(* slot is a bounded piece of code, so it also ends.  Nothing is assumed   *)
(* of the wakeups that no signal caused.                                   *)
(***************************************************************************)
Fairness ==
  /\ WF_vars(MainStep)
  /\ WF_vars(TimerStep)
  /\ SF_vars(TimerLockTimer)
  /\ \A d \in Devices : /\ WF_vars(DeviceStep(d))
                        /\ SF_vars(NextSlotLock(d))
                        /\ SF_vars(DetachLock(d))

FairSpec == Spec /\ Fairness
-----------------------------------------------------------------------------
(* Properties *)

TypeOK ==
  /\ dev_list \in 0..N
  /\ timer_started \in BOOLEAN /\ timer_stop \in BOOLEAN
  /\ time \in Nat
  /\ done \in [Devices -> BOOLEAN] /\ fsh \in [Devices -> BOOLEAN]
  /\ event_lock \in [Devices -> Holders] /\ timer_lock \in [Devices -> Holders]
  /\ tpc \in TimerPcs
  /\ temp \in 0..N
  /\ tpc \in Visiting => temp \in Devices
  /\ nfsh \in Nat /\ nevent \in Nat
  /\ dpc \in [Devices -> DevicePcs]
  /\ mpc \in MainPcs
  /\ calls \in [Devices -> Nat]

\* Control points of a device that has not yet reported the end of its slot.
InSlot == {"new", "work", "next_event", "set_done", "detach_event", "set_fsh"}

\* The threads run in lockstep: in every slot each device gets exactly one turn.
\* A device that works in a slot has returned from next_slot exactly once per
\* tick of _time, however the timer's two walks over dev_list interleave with
\* fast devices that are already back in next_slot (timer.c, timer_routine and
\* next_slot).
Lockstep == \A d \in Devices : dpc[d] \in InSlot => calls[d] = time

\* timer_routine leaves its loop (fsh == event) only when every device has
\* detached, so no next_slot is left waiting for a timer that is gone, and
\* stop_timer destroys no mutex a thread still uses.
TimerExitsLast == tpc = "exit" => \A d \in Devices : dpc[d] = "gone"

\* next_slot returns: no wakeup is lost between the timer's walks and the
\* device's two critical sections (timer.c, next_slot).
NextSlotReturns ==
  \A d \in Devices : (dpc[d] = "next_event") ~> (dpc[d] = "work")

\* Once every device has detached, the timer thread ends, stop_timer can join
\* it, and main returns (os.c, main; timer.c, stop_timer).
MainReturns == (\A d \in Devices : dpc[d] = "gone") ~> (mpc = "exit")

\* The refinement mapping.  A device the timer has ticked for but not yet
\* released (its done flag is still set while the release walk is before it)
\* is already in its next slot.
NotYetReleased(d) == tpc \in {"lock_timer", "release"} /\ d <= temp

phase ==
  [d \in Devices |-> IF fsh[d] THEN "gone"
                     ELSE IF done[d] /\ ~NotYetReleased(d) THEN "arrived"
                     ELSE "working"]

Barrier == INSTANCE SlotBarrier WITH
  Devices <- Devices, time <- time, phase <- phase

\* timer.c implements the barrier: _time advances only when no attached device
\* is working, and then releases all of them at once.
BarrierSafe == Barrier!BarrierSpec

\* ... and a device that waits in next_slot is owed a tick the timer delivers.
BarrierFair == Barrier!FairBarrierSpec
=============================================================================
