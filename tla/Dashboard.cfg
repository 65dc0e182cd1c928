SPECIFICATION FairSpec
CONSTANTS
  d0 = d0
  d1 = d1
  MaxTasks = 3
  Ranges = {d0, d1}
  DefaultRange = d0
  MaxDepth = 2
INVARIANTS StackIsWalk RowsMatchPage
PROPERTY ControlsReturn
CHECK_DEADLOCK FALSE
