CONSTANTS
  MAX_QUEUE_SIZE = 3
  NumProcs = 3
  MAX_PRIO = 3
SPECIFICATION Spec
INVARIANTS TypeOK BudgetBounds
PROPERTIES UrgentFirst
