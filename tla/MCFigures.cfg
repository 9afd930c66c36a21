\* Three rows on two teams with sums up to 4; four members, three names and two
\* teams, scores up to 4 with sums below 27 (three passes of base 3); a day of
\* two units, pages of one to three rows, one candidate per result.
SPECIFICATION Spec
CONSTANTS
  m1 = m1
  m2 = m2
  m3 = m3
  t1 = t1
  t2 = t2
  Score = Score
  Work = Work
  Absent = Absent
  Members = {m1, m2, m3}
  Teams = {t1, t2}
  TeamOf <- MCTeamOf
  Counters = {Score, Work}
  WarnAt = 0
  Tolerance = 1
  MaxSum = 4
  Base = 3
  Digits = 3
  PseudoIdentityTeams = 2
  Day = 2
  Broad = 1
  DefaultPerPage = 2
  MaxPerPage = 3
  MaxEmbeddedTeams = 2
  MaxChangesWindow = 2
  MaxActivityMembers = 1
  OvertakeHorizonDays = 6
  Horizons = {1, 3}
  RecentWindowDays = 3
  MaxHistoryTeams = 2
  RateWindow = 3
  Unasked = Unasked
  BadRequest = BadRequest
  NotFound = NotFound
  Never = Never
  NoRecent = NoRecent
  Pending = Pending
INVARIANTS
  OnlyTheTeamFileRejects
  ForgeryIsCapped
  HonestTeamsAreKept
  RanksAreHonest
  ListsAreComplete
  SearchFindsTheBest
  ProjectionsMeet
  TrailingFiguresAreWhole
CHECK_DEADLOCK FALSE
