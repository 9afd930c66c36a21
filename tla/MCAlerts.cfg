SPECIFICATION FairSpec
CONSTANTS
  Alerts = {a1}
  Nothing = Nothing
  Readings <- MCReadings
  IdleHours = 1
  DailyHour = 1
  DayHours = 2
  MaxLevel = 1
  MaxPerChannel = 1
  MaxFaults = 3
PROPERTIES StrikesAreInARow NoRepeat DueIsSeen
CHECK_DEADLOCK FALSE
