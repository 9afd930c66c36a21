\* A day of 2 and a week of 4 units, up to 6 cycles 1 or 5 units apart, so that
\* an outage may outlast the day or the week.
SPECIFICATION WindowSpec
CONSTANTS
  Day = 2
  WeekSpan = 4
  WeekOffset = 3
  MaxSlots = 2
  Gaps = {1, 5}
  Deltas = {1}
  MaxCycles = 6
INVARIANTS
  WindowsAreTheirSums
  BaselineIsTheDayBefore
  RestartKeepsFigures
CHECK_DEADLOCK FALSE
