\* The documented maximum of attempts, with no fault and no administrator.
CONSTANTS
  Hooks = {h1}
  Workers = {w1, w2}
  Senders = {s1}
  MaxDeliveries = 1
  MaxAttempts = 2
  QueueCap = 2
  BatchSize = 1
  MaxUpsets = 0

SPECIFICATION Spec

INVARIANT AtMostMaxAttempts

CHECK_DEADLOCK FALSE
