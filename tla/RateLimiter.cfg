SPECIFICATION Spec
CONSTANTS
  ka = ka
  kb = kb
  NumRequests = 4
  Keys = {ka, kb}
  Window = 2
  RequestsPerWindow = 2
  MaxDelay = 2
  MaxTime = 6
INVARIANTS TypeOK AtMostPerWindow WindowsApart DeniedOnlyWhenBusy BurstBound MemoryBounded
CHECK_DEADLOCK FALSE
