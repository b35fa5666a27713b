----------------------------- MODULE SlotBarrier -----------------------------
(***************************************************************************)
(* What the timer promises to the threads that attach to it (the CPUs and  *)
(* the loader): a barrier per time slot.  A device works in its slot until *)
(* it calls next_slot (it has then "arrived") or detach_event (it is       *)
(* "gone" for good).  The slot ends, for everybody at once, only when no   *)
(* device is still working.                                                *)
(*                                                                         *)
(* Timer is the lock-level specification that implements this one; the     *)
(* simulator of module OS is built on top of this one.                     *)
(***************************************************************************)
EXTENDS Naturals

CONSTANT Devices     \* the attached devices

VARIABLES time,      \* the number of the current slot
          phase      \* per device: "working", "arrived" or "gone"

bvars == <<time, phase>>

Phases == {"working", "arrived", "gone"}

BarrierTypeOK ==
  /\ time \in Nat
  /\ phase \in [Devices -> Phases]

SlotOver == \A d \in Devices : phase[d] # "working"

BarrierInit ==
  /\ time = 0
  /\ phase = [d \in Devices |-> "working"]

\* next_slot(d) is called: d has done its work of this slot.
Arrive(d) ==
  /\ phase[d] = "working"
  /\ phase' = [phase EXCEPT ![d] = "arrived"]
  /\ UNCHANGED time

\* detach_event(d): the barrier no longer waits for d.
Leave(d) ==
  /\ phase[d] = "working"
  /\ phase' = [phase EXCEPT ![d] = "gone"]
  /\ UNCHANGED time

\* The pending calls of next_slot return.
Release ==
  phase' = [d \in Devices |->
              IF phase[d] = "arrived" THEN "working" ELSE phase[d]]

\* The timer ends the slot.
Tick ==
  /\ SlotOver
  /\ time' = time + 1
  /\ Release

BarrierNext == Tick \/ \E d \in Devices : Arrive(d) \/ Leave(d)

BarrierSpec == BarrierInit /\ [][BarrierNext]_bvars

\* The timer owes a tick to every device that waits for one.
OwedTick == Tick /\ \E d \in Devices : phase[d] = "arrived"

FairBarrierSpec == BarrierSpec /\ WF_bvars(OwedTick)
=============================================================================
