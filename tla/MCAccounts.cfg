\* Two requests at a time, two reset links, and guesses past the threshold.
SPECIFICATION Spec
CONSTANTS
  Requests = {r1, r2}
  Links = {l1, l2}
  NoLink = NoLink
  Threshold = 2
  MaxFailed = 4
  MaxPasswords = 3
  MaxMissed = 1
SYMMETRY Symmetry
INVARIANTS
  TypeOK
  
  
  LinkUsedOnce
PROPERTY
  TimedLockHolds
