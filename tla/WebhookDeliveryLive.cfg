\* Liveness: two deliveries compete for a queue of one and batches of one.
CONSTANTS
  Hooks = {h1}
  Workers = {w1}
  Senders = {s1}
  MaxDeliveries = 2
  MaxAttempts = 2
  QueueCap = 1
  BatchSize = 1
  MaxUpsets = 1

SPECIFICATION LiveSpec

PROPERTIES
  EveryDeliverySettles
  StopCompletes

CHECK_DEADLOCK FALSE
