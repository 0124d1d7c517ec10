\* The shutdown of the debouncer, as the comment on Flush describes it.
CONSTANTS
  Keys = {k1}
  Interval = 2
  MaxWait = 3
  MaxPending = 1
  MaxEvents = 2

SPECIFICATION LiveSpec

PROPERTY FlushKeepsEvents

CHECK_DEADLOCK FALSE
