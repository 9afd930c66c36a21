SPECIFICATION FairSpec
CONSTANTS
  Feeds <- MCUser
  Ahead <- MCAhead
  Waits <- MCWaits
  MaxVersions = 2
  Grace = 1
  Day = 2
  Keep = 1
  NoHeader = NoHeader
  Nothing = Nothing
  MaxNow = 3
  Horizon = 6
  MaxFaults = 2
INVARIANTS ListedReadBack ShadowIsShort ThinnedDayStays
PROPERTIES PublishIsArchived ThinnedIsReclaimed
CHECK_DEADLOCK FALSE
