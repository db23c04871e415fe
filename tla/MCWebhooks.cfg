\* One event on two workers, with manual retries and stalled reruns.
CONSTANTS
  e1 = e1
  w1 = w1
  w2 = w2
  NoJob = NoJob
  Events = {e1}
  Workers = {w1, w2}
  Threshold = 2
  MaxRetries = 3
  MaxExtra = 1
SPECIFICATION FairSpec
INVARIANTS
  TypeOK
  NoAmplification
  AttemptsBounded
  
  
  HalfOpenTakesTraffic
PROPERTIES
  OpenIsProbed
  
CHECK_DEADLOCK FALSE
