CONSTANTS
  MAX_QUEUE_SIZE = 2
  NumProcs = 2
  MAX_PRIO = 1
  NumCpus = 1
  TimeSlot = 2
  StartTimes = {0, 1}
  Sizes = {0, 3}
SPECIFICATION FairSpec
PROPERTIES Termination
