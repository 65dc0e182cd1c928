SPECIFICATION Spec
CONSTANTS
  Calls = {c1, c2}
  Resets = {r1}
  Counted = {"exchange"}
  Uncounted = {"admin"}
  Marker = "reset"
  Times <- MCTimes
  RetentionDays = 1
  DefaultLimit = 1
  MaxLimit = 2
  Limits = {0, 3}
  Filters <- MCFilters
  Queries <- MCQueries
CONSTRAINT OneReader
SYMMETRY Symmetry
INVARIANTS TypeOK NoRowTwice WalkComplete LegacyWalkComplete MetricsAddUp 
CHECK_DEADLOCK FALSE
