SPECIFICATION Spec
CONSTANTS
  c1 = c1
  c2 = c2
  c3 = c3
  f1 = f1
  r1 = r1
  k1 = k1
  k2 = k2
  Calls = {c1, c2}
  Flushers = {}
  Resetters = {}
  Closers = {}
  Decisions <- NormalDecisions
  ChannelSize = 1
  BatchSize = 3
  RetryMaxAttempts = 1
  DropOnFull = TRUE
  Atomic = TRUE
  AmbiguousLimit = 0
PROPERTY OnlyBestEffortDroppedAtOnce
CHECK_DEADLOCK FALSE
