SPECIFICATION Spec
CONSTANTS
  Keys = {k1}
  None = None
  Watch = watch
  Cmds = {c1}
  MaxCommands = 0
  MaxChanges = 0
  MaxFaults = 1
  MaxWait = 1
INVARIANTS GivesUpOnlyWhenRefused
CHECK_DEADLOCK FALSE
