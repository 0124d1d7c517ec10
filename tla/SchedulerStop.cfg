\* Two requests at once, nothing fails.
CONSTANTS
  MaxTasks = 1
  Requests = {r1, r2}
  Schedules = {s1}
  MaxOps = 5
  MaxUpsets = 0

SPECIFICATION Spec

INVARIANT StoppedMeansStopped

CHECK_DEADLOCK FALSE
