SPECIFICATION Spec
CONSTANTS
  c1 = c1
  c2 = c2
  c3 = c3
  f1 = f1
  r1 = r1
  k1 = k1
  k2 = k2
  Calls = {c1, c2}
  Flushers = {}
  Resetters = {}
  Closers = {}
  Decisions <- MCDecisions
  ChannelSize = 2
  BatchSize = 2
  RetryMaxAttempts = 1
  DropOnFull = TRUE
  Atomic = TRUE
  AmbiguousLimit = 0
INVARIANT BatchWithinLimit
CHECK_DEADLOCK FALSE
