SPECIFICATION Spec
CONSTANTS
  r1 = r1
  r2 = r2
  startup = startup
  old = old
  Requests = {r1}
  OldRows = {old}
  Startup = startup
  Environments <- Few
  MaxStarts = 1
INVARIANT ShutdownDrains
CHECK_DEADLOCK FALSE
