\* One task, two administrators.
CONSTANTS
  MaxTasks = 1
  Requests = {r1, r2}
  Schedules = {s1, s2}
  MaxOps = 5
  MaxUpsets = 2

SPECIFICATION Spec

INVARIANTS
  TypeOK
  RegistryMatchesTable
  Agreement

PROPERTY OverridesSurvive

\* The bound on the requests is reached.
CHECK_DEADLOCK FALSE
