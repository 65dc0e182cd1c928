SPECIFICATION AnsweringSpec
CONSTANTS
  q1 = q1
  q2 = q2
  t1 = t1
  t2 = t2
  Requests = {q1, q2}
  Tokens = {t1, t2}
  Configs <- MCConfigs
INVARIANTS TypeOK IssuedOnlyToVerified OneIssuePerToken CountedOnce FailuresOnTrail
PROPERTIES Answered
CHECK_DEADLOCK FALSE
