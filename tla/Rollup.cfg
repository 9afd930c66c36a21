\* Days of 2 and months of 4 units; a cycle is at most as late as raw deltas are
\* kept, so that compaction just does not reach its day or its month.
SPECIFICATION Spec
CONSTANTS
  Ids = {1, 2}
  DayLength = 2
  MonthLength = 2
  CompactAfter = 2
  KeepDaily = 5
  MaxLag = 2
  MaxNow = 8
INVARIANTS
  DailyIsWhole
  MonthlyIsWhole
  ProjectIsTheSumOfTeams
CHECK_DEADLOCK FALSE
