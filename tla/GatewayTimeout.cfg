SPECIFICATION FairSpec
CONSTANTS
  q1 = q1
  q2 = q2
  t1 = t1
  t2 = t2
  Requests = {q1, q2}
  Tokens = {t1, t2}
  Configs <- Defaults
PROPERTY TimeoutEndsExchange
CHECK_DEADLOCK FALSE
