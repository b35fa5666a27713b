CONSTANTS
  N = 3
  MaxSlots = 2
SPECIFICATION FairSpec
INVARIANTS TypeOK Lockstep TimerExitsLast
PROPERTIES BarrierSafe NextSlotReturns MainReturns BarrierFair
