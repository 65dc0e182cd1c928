SPECIFICATION FairSpec
CONSTANTS
  c1 = c1
  c2 = c2
  c3 = c3
  f1 = f1
  r1 = r1
  k1 = k1
  k2 = k2
  Calls = {c1}
  Flushers = {f1}
  Resetters = {}
  Closers = {k1, k2}
  Decisions <- OnlyCritical
  ChannelSize = 1
  BatchSize = 3
  RetryMaxAttempts = 2
  DropOnFull = FALSE
  Atomic = FALSE
  AmbiguousLimit = 0
PROPERTIES FlushAnswered CloseReturns WorkerStops EventuallyKept
CHECK_DEADLOCK FALSE
