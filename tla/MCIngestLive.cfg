\* One request at a time, one fault, three publishes.
SPECIFICATION FairSpec
CONSTANTS
  ann = ann
  team = team
  r1 = r1
  Members = {ann}
  Teams = {team}
  TeamOf <- MCTeamOf
  Score = Score
  Counters = {Score}
  Absent = Absent
  WarnAt = 0
  Tolerance = 0
  MaxSum = 9
  Times = {1, 4, 5}
  Grace = 2
  TeamFiles <- MCTeamFiles
  UserFiles <- MCUserFiles
  Corrupt = Corrupt
  Readers = {r1}
  Nil = Nil
  NoSlot = NoSlot
  MaxFaults = 1
CHECK_DEADLOCK FALSE
PROPERTIES
  ReadyPairsAreIngested
  RequestsEnd
