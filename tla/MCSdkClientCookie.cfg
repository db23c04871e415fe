\* One tab: the cookie goes when the access token does.
SPECIFICATION Spec
CONSTANTS
  Tabs = {t1}
  Calls = {c1}
  Wrong = {}
  Web = TRUE
  None = None
  MaxRetries = 1
  MaxSessions = 1
  MaxNumber = 2
INVARIANT
  RefreshWorksFromCookie
