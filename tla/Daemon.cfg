SPECIFICATION Spec
CONSTANTS
  None = None
  Gaps = {4, 5, 8}
  Nominal = 4
  MinInterval = 3
  MaxInterval = 6
  Samples = 2
  Close = 1
  Idle = 2
  Margin = 1
  MinAge = 1
  MaxAge = 4
  PurgeFloor = 1
  Delay = 1
  Every = 6
  Retry = 2
  MaxNow = 12
  MaxFaults = 2
INVARIANTS CapturedSoon EdgeIsFresh MaintenanceIsTimely
CHECK_DEADLOCK FALSE
