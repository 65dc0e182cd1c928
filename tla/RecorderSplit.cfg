SPECIFICATION Spec
CONSTANTS
  c1 = c1
  c2 = c2
  c3 = c3
  f1 = f1
  r1 = r1
  k1 = k1
  k2 = k2
  Calls = {c1, c2}
  Flushers = {r1}
  Resetters = {r1}
  Closers = {k1, k2}
  Decisions <- MCDecisions
  ChannelSize = 2
  BatchSize = 2
  RetryMaxAttempts = 2
  DropOnFull = FALSE
  Atomic = FALSE
  AmbiguousLimit = 1
INVARIANTS CloseCovers FlushCovers ResetErases
SYMMETRY CallSymmetry
CHECK_DEADLOCK FALSE
