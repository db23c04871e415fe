\* Two sessions of the user, one of them refreshed up to twice and expiring, two requests.
CONSTANTS
  s1 = s1
  s2 = s2
  r1 = r1
  r2 = r2
  NoSession = NoSession
  Sessions = {s1, s2}
  Requests = {r1, r2}
  MaxTokens = 3
  Refreshed = {s1}
SPECIFICATION Spec
SYMMETRY Symmetry
INVARIANTS
  TypeOK
  
  
  StoredBeforeDelivered
  NoTokenRevival
PROPERTIES
  
  KeepsContract
