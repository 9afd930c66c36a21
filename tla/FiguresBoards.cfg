\* The instance of MCFigures.cfg; the one board property is that of the columns.
SPECIFICATION Spec
CONSTANTS
  m1 = m1
  m2 = m2
  m3 = m3
  t1 = t1
  t2 = t2
  Score = Score
  Work = Work
  Absent = Absent
  Members = {m1, m2, m3}
  Teams = {t1, t2}
  TeamOf <- MCTeamOf
  Counters = {Score, Work}
  WarnAt = 0
  Tolerance = 1
  MaxSum = 4
  Base = 3
  Digits = 3
  PseudoIdentityTeams = 2
  Day = 2
  Broad = 1
  DefaultPerPage = 2
  MaxPerPage = 3
  MaxEmbeddedTeams = 2
  MaxChangesWindow = 2
  MaxActivityMembers = 1
  OvertakeHorizonDays = 6
  Horizons = {1, 3}
  RecentWindowDays = 3
  MaxHistoryTeams = 2
  RateWindow = 3
  Unasked = Unasked
  BadRequest = BadRequest
  NotFound = NotFound
  Never = Never
  NoRecent = NoRecent
  Pending = Pending
INVARIANTS
  BoardsAreBestFirst
CHECK_DEADLOCK FALSE
