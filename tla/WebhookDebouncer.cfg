CONSTANTS
  Keys = {k1, k2}
  Interval = 2
  MaxWait = 3
  MaxPending = 1
  MaxEvents = 4

SPECIFICATION LiveSpec

INVARIANTS
  TypeOK
  EntriesLeaveInTime
  WithinCapacity
  LostOnlyToFailures

PROPERTIES
  ImplementsEvents
  LatestGetsThrough

CHECK_DEADLOCK FALSE
