\* The claim about replayed refresh tokens.
CONSTANTS
  s1 = s1
  r1 = r1
  r2 = r2
  NoSession = NoSession
  Sessions = {s1}
  Requests = {r1, r2}
  MaxTokens = 3
  Refreshed = {s1}
SPECIFICATION Spec
SYMMETRY Symmetry
PROPERTIES
  ReplayRevokesFamily
