----------------------------- MODULE TimerProofs -----------------------------
(***************************************************************************)
(* Proofs about Timer, for any number of devices and any number of slots.  *)
(* Lockstep and TimerExitsLast are not inductive: the invariant also has   *)
(* to say what the timer's walks know of the devices they have passed      *)
(* (Passed, Counted) and how far a waiting device is behind the clock      *)
(* (InStep).                                                               *)
(***************************************************************************)
EXTENDS Timer, TLAPS

Collecting == {"lock_event", "test_event", "event_wait", "tick"}
Releasing == {"lock_timer", "release"}
InNextSlot == {"next_timer", "test_done", "timer_wait"}

\* Where main is, against the list and the timer thread.
Setup ==
  /\ mpc = "attach" <=> tpc = "off"
  /\ mpc \notin {"attach", "free", "exit"} => dev_list = N
  /\ mpc \in {"free", "exit"} => tpc = "exit"
  /\ timer_stop => \A d \in Devices : fsh[d]
  /\ tpc = "tick" => temp = NULL

\* A device's flags, from its control point.
Flags ==
  \A d \in Devices : /\ fsh[d] <=> dpc[d] = "gone"
                     /\ done[d] => dpc[d] \in InNextSlot

\* The first walk has seen the devices after temp; the second one still has to
\* release the devices up to temp.
Passed ==
  /\ tpc \in Collecting => \A d \in Devices : d > temp => done[d] \/ fsh[d]
  /\ tpc \in Releasing => \A d \in Devices : d <= temp => done[d] \/ fsh[d]

\* The counters agree only if every counted device has finished.
Counted ==
  /\ tpc \in Collecting =>
       /\ nevent + temp = N
       /\ nfsh <= nevent
       /\ nfsh = nevent => \A d \in Devices : d > temp => fsh[d]
  /\ tpc \in Releasing /\ nfsh = nevent => \A d \in Devices : fsh[d]
  /\ tpc = "exit" => \A d \in Devices : fsh[d]

\* A device inside next_slot is in the slot of the clock until the tick, and
\* one behind it until it returns.
InStep ==
  \A d \in Devices :
    /\ dpc[d] \in InSlot => calls[d] = time
    /\ dpc[d] \in InNextSlot =>
         IF done[d] /\ ~NotYetReleased(d) THEN calls[d] = time
                                          ELSE calls[d] + 1 = time

IInv == TypeOK /\ Setup /\ Flags /\ Passed /\ Counted /\ InStep

\* The initial state satisfies the inductive invariant.
LEMMA InitIInv == Init => IInv
<1> SUFFICES ASSUME Init PROVE IInv
  OBVIOUS
<1> USE NAssumption DEF Init, Devices, NULL
<1>1. TypeOK
  <2>1. done \in [Devices -> BOOLEAN] /\ fsh \in [Devices -> BOOLEAN]
    BY Zenon
  <2>2. /\ event_lock \in [Devices -> Holders]
        /\ timer_lock \in [Devices -> Holders]
        /\ dpc \in [Devices -> DevicePcs]
        /\ calls \in [Devices -> Nat]
    BY DEF Holders, DevicePcs
  <2>3. /\ dev_list \in 0..N /\ temp \in 0..N
        /\ time \in Nat /\ nfsh \in Nat /\ nevent \in Nat
        /\ tpc \in TimerPcs /\ tpc \notin Visiting /\ mpc \in MainPcs
    BY DEF Visiting, TimerPcs, MainPcs
  <2>4. timer_started \in BOOLEAN /\ timer_stop \in BOOLEAN
    BY Zenon
  <2> HIDE DEF Init
  <2> QED
    BY <2>1, <2>2, <2>3, <2>4 DEF TypeOK
<1>2. Setup /\ Passed /\ Counted
  BY DEF Setup, Passed, Counted, Collecting, Releasing
<1>3. Flags /\ InStep
  BY DEF Flags, InStep, InNextSlot, InSlot
<1> QED
  BY <1>1, <1>2, <1>3 DEF IInv

\* The steps of main preserve the inductive invariant.
LEMMA MainIInv == IInv /\ MainStep => IInv'
<1> SUFFICES ASSUME IInv, MainStep PROVE IInv'
  OBVIOUS
<1> USE NAssumption DEF IInv, TypeOK, Setup, Flags, Passed, Counted, InStep,
      Collecting, Releasing, InNextSlot, InSlot, Visiting, Devices, NULL, Holders,
      TimerPcs, DevicePcs, MainPcs, NotYetReleased, flags, locks, timer, setup
<1>1. CASE AttachEvent
  BY <1>1, SMTT(30) DEF AttachEvent
<1>2. CASE StartTimer
  BY <1>2, SMTT(30) DEF StartTimer
<1>3. ASSUME NEW d \in Devices, CreateThread(d) PROVE IInv'
  <2>1. TypeOK'
    BY <1>3, SMTT(30) DEF CreateThread
  <2>2. Setup' /\ Passed' /\ Counted'
    BY <1>3, SMTT(30) DEF CreateThread
  <2>3. Flags'
    <3> SUFFICES ASSUME NEW e \in Devices
                 PROVE  (fsh[e] <=> dpc[e] = "gone")' /\ (done[e] => dpc[e] \in InNextSlot)'
      BY Zenon DEF Flags
    <3>1. fsh'[e] = fsh[e] /\ done'[e] = done[e]
      BY <1>3 DEF CreateThread
    <3>2. dpc'[e] = dpc[e] \/ (dpc[e] \in {"new", "work"} /\ dpc'[e] \in {"work", "next_event", "detach_event"})
      BY <1>3 DEF CreateThread
    <3> QED
      BY <3>1, <3>2
  <2>4. InStep'
    BY <1>3, SMTT(30) DEF CreateThread
  <2> QED
    BY <2>1, <2>2, <2>3, <2>4 DEF IInv
<1>4. CASE AllCreated
  BY <1>4, SMTT(30) DEF AllCreated
<1>5. CASE StopTimer
  BY <1>5, SMTT(30) DEF StopTimer
<1>6. CASE JoinTimer
  BY <1>6, SMTT(30) DEF JoinTimer
<1>7. CASE FreeContainer
  BY <1>7, SMTT(30) DEF FreeContainer
<1> QED
  BY <1>1, <1>2, <1>3, <1>4, <1>5, <1>6, <1>7 DEF MainStep

\* The steps of the timer thread preserve the inductive invariant.
LEMMA TimerIInv == IInv /\ TimerStep => IInv'
<1> SUFFICES ASSUME IInv, TimerStep PROVE IInv'
  OBVIOUS
<1> USE NAssumption DEF IInv, TypeOK, Setup, Flags, Passed, Counted, InStep,
      Collecting, Releasing, InNextSlot, InSlot, Visiting, Devices, NULL, Holders,
      TimerPcs, DevicePcs, MainPcs, NotYetReleased, flags, locks, timer, setup
<1>1. CASE TimerCheck
  BY <1>1, SMTT(30) DEF TimerCheck
<1>2. CASE TimerLockEvent
  BY <1>2, SMTT(30) DEF TimerLockEvent
<1>3. CASE TimerCount
  BY <1>3, SMTT(30) DEF TimerCount
<1>4. CASE TimerBlock
  BY <1>4, SMTT(30) DEF TimerBlock
<1>5. CASE TimerTick
  BY <1>5, SMTT(30) DEF TimerTick
<1>6. CASE TimerLockTimer
  BY <1>6, SMTT(30) DEF TimerLockTimer
<1>7. CASE TimerRelease
  BY <1>7, SMTT(30) DEF TimerRelease, SignalDevice
<1> QED
  BY <1>1, <1>2, <1>3, <1>4, <1>5, <1>6, <1>7 DEF TimerStep

\* The steps of a device, spurious wakeups included, preserve it.
LEMMA DeviceIInv ==
  ASSUME NEW d \in Devices, IInv, DeviceStep(d) \/ SpuriousDevice(d)
  PROVE  IInv'
<1> USE NAssumption DEF IInv, TypeOK, Setup, Flags, Passed, Counted, InStep,
      Collecting, Releasing, InNextSlot, InSlot, Visiting, Devices, NULL, Holders,
      TimerPcs, DevicePcs, MainPcs, NotYetReleased, flags, locks, timer, setup
<1>1. CASE NextSlot(d)
  <2>1. TypeOK'
    BY <1>1, SMTT(30) DEF NextSlot
  <2>2. Setup' /\ Passed' /\ Counted'
    BY <1>1, SMTT(30) DEF NextSlot
  <2>3. Flags'
    BY <1>1, SMTT(30) DEF NextSlot
  <2>4. InStep'
    BY <1>1, SMTT(30) DEF NextSlot
  <2> QED
    BY <2>1, <2>2, <2>3, <2>4 DEF IInv
<1>2. CASE NextSlotLock(d)
  BY <1>2, SMTT(30) DEF NextSlotLock, LockEvent
<1>3. CASE SetDone(d)
  BY <1>3, SMTT(30) DEF SetDone, SignalTimer
<1>4. CASE LockTimer(d)
  BY <1>4, SMTT(30) DEF LockTimer
<1>5. CASE TestDone(d)
  <2>1. TypeOK'
    <3>1. calls' \in [Devices -> Nat]
      BY <1>5 DEF TestDone
    <3>2. dpc' \in [Devices -> DevicePcs]
      BY <1>5 DEF TestDone
    <3>3. timer_lock' \in [Devices -> Holders]
      BY <1>5 DEF TestDone
    <3> QED
      BY <1>5, <3>1, <3>2, <3>3, SMTT(30) DEF TestDone
  <2>2. Setup' /\ Passed' /\ Counted'
    BY <1>5, SMTT(30) DEF TestDone
  <2>3. Flags'
    BY <1>5, SMTT(30) DEF TestDone
  <2>4. InStep'
    BY <1>5, SMTT(30) DEF TestDone
  <2> QED
    BY <2>1, <2>2, <2>3, <2>4 DEF IInv
<1>6. CASE Detach(d)
  <2>1. TypeOK'
    BY <1>6, SMTT(30) DEF Detach
  <2>2. Setup' /\ Passed' /\ Counted'
    BY <1>6, SMTT(30) DEF Detach
  <2>3. Flags'
    <3> SUFFICES ASSUME NEW e \in Devices
                 PROVE  (fsh[e] <=> dpc[e] = "gone")' /\ (done[e] => dpc[e] \in InNextSlot)'
      BY Zenon DEF Flags
    <3>1. fsh'[e] = fsh[e] /\ done'[e] = done[e]
      BY <1>6 DEF Detach
    <3>2. dpc'[e] = dpc[e] \/ (dpc[e] \in {"new", "work"} /\ dpc'[e] \in {"work", "next_event", "detach_event"})
      BY <1>6 DEF Detach
    <3> QED
      BY <3>1, <3>2
  <2>4. InStep'
    BY <1>6, SMTT(30) DEF Detach
  <2> QED
    BY <2>1, <2>2, <2>3, <2>4 DEF IInv
<1>7. CASE DetachLock(d)
  BY <1>7, SMTT(30) DEF DetachLock, LockEvent
<1>8. CASE SetFsh(d)
  <2>1. TypeOK'
    BY <1>8, SMTT(30) DEF SetFsh, SignalTimer
  <2>2. Setup' /\ Passed' /\ Counted'
    BY <1>8, SMTT(30) DEF SetFsh, SignalTimer
  <2>3. Flags'
    BY <1>8, SMTT(30) DEF SetFsh, SignalTimer
  <2>4. InStep'
    BY <1>8, SMTT(30) DEF SetFsh, SignalTimer
  <2> QED
    BY <2>1, <2>2, <2>3, <2>4 DEF IInv
<1>9. CASE SpuriousDevice(d)
  BY <1>9, SMTT(30) DEF SpuriousDevice, SignalDevice
<1> QED
  BY <1>1, <1>2, <1>3, <1>4, <1>5, <1>6, <1>7, <1>8, <1>9 DEF DeviceStep

\* Every step preserves the inductive invariant.
LEMMA NextIInv == IInv /\ [Next]_vars => IInv'
<1> SUFFICES ASSUME IInv, [Next]_vars PROVE IInv'
  OBVIOUS
<1>1. CASE SpuriousTimer
  BY <1>1, NAssumption, SMTT(30)
  DEF SpuriousTimer, IInv, TypeOK, Setup, Flags, Passed, Counted, InStep,
      Collecting, Releasing, Visiting, Devices, TimerPcs, NotYetReleased, flags,
      locks, setup
<1>2. CASE UNCHANGED vars
  BY <1>2
  DEF vars, IInv, TypeOK, Setup, Flags, Passed, Counted, InStep, NotYetReleased,
      flags, locks, timer, setup
<1> QED
  BY <1>1, <1>2, MainIInv, TimerIInv, DeviceIInv DEF Next, Terminated

\* The invariant holds in every reachable state.
THEOREM Invariance == Spec => []IInv
  BY InitIInv, NextIInv, PTL DEF Spec

\* Type correctness: in particular temp, the timer's list cursor, points to a
\* container whenever the timer dereferences it.
THEOREM TypeCorrect == Spec => []TypeOK
<1>1. IInv => TypeOK
  BY DEF IInv
<1> QED
  BY <1>1, Invariance, PTL

\* In every slot each device gets exactly one turn.
THEOREM LockstepTheorem == Spec => []Lockstep
<1>1. IInv => Lockstep
  BY DEF IInv, InStep, Lockstep
<1> QED
  BY <1>1, Invariance, PTL

\* The timer thread ends after every device's thread has detached.
THEOREM TimerExitsLastTheorem == Spec => []TimerExitsLast
<1>1. IInv => TimerExitsLast
  BY DEF IInv, Counted, Flags, TimerExitsLast
<1> QED
  BY <1>1, Invariance, PTL

-----------------------------------------------------------------------------
(* timer.c implements the slot barrier. *)

\* Steps that leave the flags, the clock and the position of the release walk
\* alone are invisible to the barrier.
LEMMA Invisible ==
  ASSUME UNCHANGED <<time, flags>>,
         \A d \in Devices : NotYetReleased(d)' = NotYetReleased(d)
  PROVE  UNCHANGED <<time, phase>>
  BY DEF flags, phase

\* Every step of the timer thread is a tick or invisible.
LEMMA TimerRefines == IInv /\ IInv' /\ TimerStep => Barrier!Tick \/ UNCHANGED <<time, phase>>
<1> SUFFICES ASSUME IInv, IInv', TimerStep
             PROVE  Barrier!Tick \/ UNCHANGED <<time, phase>>
  OBVIOUS
<1>1. CASE TimerCheck \/ TimerLockEvent \/ TimerCount \/ TimerBlock
  <2>1. tpc \notin Releasing /\ tpc' \notin Releasing /\ UNCHANGED <<time, flags>>
    BY <1>1 DEF TimerCheck, TimerLockEvent, TimerCount, TimerBlock, Releasing
  <2>2. \A d \in Devices : NotYetReleased(d)' = NotYetReleased(d)
    BY <2>1 DEF NotYetReleased, Releasing
  <2> QED
    BY <2>1, <2>2, Invisible
<1>2. CASE TimerLockTimer
  <2>1. /\ tpc \in Releasing /\ tpc' \in Releasing
        /\ UNCHANGED <<time, flags>> /\ temp' = temp
    BY <1>2 DEF TimerLockTimer, Releasing
  <2>2. \A d \in Devices : NotYetReleased(d)' = NotYetReleased(d)
    BY <2>1 DEF NotYetReleased, Releasing
  <2> QED
    BY <2>1, <2>2, Invisible
<1>3. CASE TimerTick
  <2>1. \A d \in Devices : done[d] \/ fsh[d]
    BY <1>3 DEF TimerTick, IInv, TypeOK, Setup, Passed, Collecting, Devices, NULL
  <2>2. \A d \in Devices : ~NotYetReleased(d)
    BY <1>3 DEF TimerTick, NotYetReleased
  <2>3. \A d \in Devices : NotYetReleased(d)'
    BY <1>3 DEF TimerTick, NotYetReleased, IInv, TypeOK, Setup, Devices
  <2>4. phase = [d \in Devices |-> IF fsh[d] THEN "gone" ELSE "arrived"]
    BY <2>1, <2>2 DEF phase
  <2>5. phase' = [d \in Devices |-> IF fsh[d] THEN "gone" ELSE "working"]
    BY <1>3, <2>3 DEF phase, TimerTick, flags
  <2> QED
    BY <1>3, <2>4, <2>5 DEF TimerTick, Barrier!Tick, Barrier!SlotOver, Barrier!Release
<1>4. CASE TimerRelease
  <2>1. time' = time /\ fsh' = fsh
    BY <1>4 DEF TimerRelease
  <2>2. ASSUME NEW d \in Devices PROVE phase'[d] = phase[d]
    <3>1. CASE d = temp
      <4>1. NotYetReleased(d) /\ ~done'[d]
        BY <1>4, <3>1 DEF TimerRelease, NotYetReleased, IInv, TypeOK, Devices
      <4> QED
        BY <2>1, <4>1 DEF phase
    <3>2. CASE d # temp
      <4>1. done'[d] = done[d]
        BY <1>4, <3>2 DEF TimerRelease, IInv, TypeOK
      <4>2. NotYetReleased(d)' = NotYetReleased(d)
        BY <1>4, <3>2, SMTT(30)
        DEF TimerRelease, NotYetReleased, IInv, TypeOK, Devices, NULL, Visiting
      <4> QED
        BY <2>1, <4>1, <4>2 DEF phase
    <3> QED
      BY <3>1, <3>2
  <2> QED
    BY <2>1, <2>2 DEF phase
<1> QED
  BY <1>1, <1>2, <1>3, <1>4 DEF TimerStep

\* Every step of device d is its arrival, its departure, or invisible.
LEMMA DeviceRefines ==
  ASSUME NEW d \in Devices, IInv, IInv', DeviceStep(d) \/ SpuriousDevice(d)
  PROVE  Barrier!Arrive(d) \/ Barrier!Leave(d) \/ UNCHANGED <<time, phase>>
<1>1. \A e \in Devices : NotYetReleased(e)' = NotYetReleased(e)
  BY DEF DeviceStep, SpuriousDevice, NextSlot, NextSlotLock, LockEvent, SetDone,
         SignalTimer, LockTimer, TestDone, Detach, DetachLock, SetFsh, timer,
         NotYetReleased
<1>2. CASE SetDone(d)
  <2>1. ~fsh[d] /\ ~done[d] /\ ~NotYetReleased(d)
    BY <1>2 DEF SetDone, IInv, Flags, Passed, Releasing, NotYetReleased, InNextSlot
  <2>2. /\ fsh' = fsh /\ time' = time
        /\ done'[d] /\ \A e \in Devices \ {d} : done'[e] = done[e]
    BY <1>2 DEF SetDone, IInv, TypeOK
  <2>3. phase[d] = "working" /\ phase'[d] = "arrived"
    BY <1>1, <2>1, <2>2 DEF phase
  <2>4. \A e \in Devices \ {d} : phase'[e] = phase[e]
    BY <1>1, <2>2 DEF phase
  <2> QED
    BY <2>2, <2>3, <2>4 DEF Barrier!Arrive, phase
<1>3. CASE SetFsh(d)
  <2>1. ~fsh[d] /\ ~done[d]
    BY <1>3 DEF SetFsh, IInv, Flags, InNextSlot
  <2>2. /\ done' = done /\ time' = time
        /\ fsh'[d] /\ \A e \in Devices \ {d} : fsh'[e] = fsh[e]
    BY <1>3 DEF SetFsh, IInv, TypeOK
  <2>3. phase[d] = "working" /\ phase'[d] = "gone"
    BY <2>1, <2>2 DEF phase
  <2>4. \A e \in Devices \ {d} : phase'[e] = phase[e]
    BY <1>1, <2>2 DEF phase
  <2> QED
    BY <2>2, <2>3, <2>4 DEF Barrier!Leave, phase
<1>4. CASE ~SetDone(d) /\ ~SetFsh(d)
  <2>1. UNCHANGED <<time, flags>>
    BY <1>4 DEF DeviceStep, SpuriousDevice, NextSlot, NextSlotLock, LockEvent,
                LockTimer, TestDone, Detach, DetachLock
  <2> QED
    BY <1>1, <2>1, Invisible
<1> QED
  BY <1>2, <1>3, <1>4

\* timer.c implements the barrier: the clock advances only when no attached
\* device is working in the slot, and releases all the waiting ones at once.
THEOREM TimerImplementsBarrier == Spec => BarrierSafe
<1>1. Init => Barrier!BarrierInit
  BY Zenon DEF Init, Barrier!BarrierInit, phase
<1>2. IInv /\ IInv' /\ [Next]_vars => [Barrier!BarrierNext]_<<time, phase>>
  <2> SUFFICES ASSUME IInv, IInv', [Next]_vars
               PROVE  Barrier!BarrierNext \/ UNCHANGED <<time, phase>>
    OBVIOUS
  <2>1. CASE MainStep
    <3>1. UNCHANGED <<time, flags>>
      BY <2>1 DEF MainStep, AttachEvent, StartTimer, CreateThread, AllCreated,
                  StopTimer, JoinTimer, FreeContainer
    <3>2. \A d \in Devices : NotYetReleased(d)' = NotYetReleased(d)
      BY <2>1 DEF MainStep, AttachEvent, StartTimer, CreateThread, AllCreated,
                  StopTimer, JoinTimer, FreeContainer, timer, NotYetReleased,
                  IInv, Setup
    <3> QED
      BY <3>1, <3>2, Invisible
  <2>2. CASE SpuriousTimer \/ UNCHANGED vars
    <3>1. UNCHANGED <<time, flags>>
      BY <2>2 DEF SpuriousTimer, vars
    <3>2. \A d \in Devices : NotYetReleased(d)' = NotYetReleased(d)
      BY <2>2 DEF SpuriousTimer, vars, timer, NotYetReleased
    <3> QED
      BY <3>1, <3>2, Invisible
  <2> QED
    BY <2>1, <2>2, TimerRefines, DeviceRefines
    DEF Next, Terminated, Barrier!BarrierNext
<1> QED
  BY <1>1, <1>2, Invariance, PTL
  DEF Spec, BarrierSafe, Barrier!BarrierSpec, Barrier!bvars
=============================================================================
