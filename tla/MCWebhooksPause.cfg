\* The claim that the breaker probes for recovery.
CONSTANTS
  e1 = e1
  e2 = e2
  w1 = w1
  w2 = w2
  NoJob = NoJob
  Events = {e1, e2}
  Workers = {w1, w2}
  Threshold = 2
  MaxRetries = 2
  MaxExtra = 0
SPECIFICATION FairSpec
PROPERTIES
  PauseRecovers
CHECK_DEADLOCK FALSE
