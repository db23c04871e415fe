\* Two calls in one tab or in two, one of which may get 401 from its handler.
SPECIFICATION LiveSpec
CONSTANTS
  Tabs = {t1, t2}
  Calls = {c1, c2}
  Wrong = {c2}
  Web = TRUE
  None = None
  MaxRetries = 1
  MaxSessions = 1
  MaxNumber = 2
INVARIANTS
  TypeOK
  PresentsCurrent
  OneRefreshPerTab
  RunsPerAttempt

  
