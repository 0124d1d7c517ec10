CONSTANTS
  Tasks = {1, 2}
  Workers = {w1, w2}
  MaxRuns = 2
  Timeout = 1
  Retention = 2
  TriggerGap = 1
  MaxNow = 4
  MaxUpsets = 2
SPECIFICATION Spec
INVARIANTS
  TypeOK
  RunsOwned
PROPERTIES
  ImplementsHistory
  NothingPendingForever
CHECK_DEADLOCK FALSE
