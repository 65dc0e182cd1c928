SPECIFICATION FairSpec
CONSTANTS
  r1 = r1
  r2 = r2
  startup = startup
  old = old
  Requests = {r1, r2}
  OldRows = {old}
  Startup = startup
  Environments <- OneOff
  MaxStarts = 2
INVARIANTS  ServesOnSchema RowsSurvive CleanExit
PROPERTIES SignalEndsProcess RetentionEnforced
CHECK_DEADLOCK FALSE
