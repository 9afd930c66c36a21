\* One request at a time, two faults, three publishes.
SPECIFICATION Spec
CONSTANTS
  ann = ann
  bob = bob
  team = team
  r1 = r1
  r2 = r2
  Members = {ann, bob}
  Teams = {team}
  TeamOf <- MCTeamOf
  Score = Score
  Counters = {Score}
  Absent = Absent
  WarnAt = 0
  Tolerance = 0
  MaxSum = 9
  Times = {1, 2, 4}
  Grace = 2
  TeamFiles <- MCTeamFiles
  UserFiles <- MCUserFiles
  Corrupt = Corrupt
  Readers = {r1}
  Nil = Nil
  NoSlot = NoSlot
  MaxFaults = 2
INVARIANTS
  ReadersSeeOneCycle
  MemoryIsDurable
  RestartLoads
  ProductionIsTheDifference
PROPERTIES
  AnswersAdvance
  ImplementsCycleLog
CHECK_DEADLOCK FALSE
