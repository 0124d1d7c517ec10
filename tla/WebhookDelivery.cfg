\* Safety and refinement: one delivery, two workers that may hold it at once.
CONSTANTS
  Hooks = {h1}
  Workers = {w1, w2}
  Senders = {s1}
  MaxDeliveries = 1
  MaxAttempts = 2
  QueueCap = 2
  BatchSize = 1
  MaxUpsets = 2

SPECIFICATION Spec
SYMMETRY WorkerSymmetry

INVARIANTS
  TypeOK
  DeliveredWasAcked
  NoEarlyGiveUp
  RowsHaveHook
  AttemptsBounded

PROPERTY ImplementsContract

\* Everything may be settled, deleted and idle.
CHECK_DEADLOCK FALSE
