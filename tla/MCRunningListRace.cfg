CONSTANTS
  MAX_QUEUE_SIZE = 3
  Pids = {1, 2}
  MaxInitial = 3
  Enlisters = {e1, e2}
  Searchers = {s1, s2}
  Groups = {{e1, s1}}
SPECIFICATION Spec
INVARIANTS QueueStateKept
