SPECIFICATION FairSpec
CONSTANTS
  Keys = {k1, k2}
  None = None
  Watch = watch
  Cmds = {c1}
  MaxCommands = 1
  MaxChanges = 1
  MaxFaults = 2
  MaxWait = 1
PROPERTIES ComesBack ListenersGetTheState PageCatchesUp
CHECK_DEADLOCK FALSE
