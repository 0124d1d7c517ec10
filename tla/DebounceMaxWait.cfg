\* The longest wait, as documented: 1 s and 5 s in units of half a second.
CONSTANTS
  Keys = {k1}
  Interval = 2
  MaxWait = 10
  MaxPending = 1
  MaxEvents = 7

SPECIFICATION Spec

INVARIANT DispatchedWithinMaxWait

CHECK_DEADLOCK FALSE
