CONSTANTS
  MAX_QUEUE_SIZE = 50
  NumProcs = 2
  MAX_PRIO = 2
  NumCpus = 2
  TimeSlot = 2
  StartTimes = {0, 1}
  Sizes = {0, 3}
SPECIFICATION Spec
INVARIANTS OwnAddressSpace
