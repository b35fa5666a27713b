CONSTANTS
  MAX_QUEUE_SIZE = 4
  NumProcs = 3
  MAX_PRIO = 3
  NumCpus = 2
  TimeSlot = 2
  StartTimes = {1}
  Sizes = {0, 1, 3}
SPECIFICATION FairSpec
INVARIANTS TypeOK AtMostOnePlace NoProcLost StopMeansFinished FreshQuantum
PROPERTIES AllFinish
