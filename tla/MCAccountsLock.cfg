\* The claim of LockUserDto, which a login refutes.
SPECIFICATION Spec
CONSTANTS
  Requests = {r1, r2}
  Links = {l1}
  NoLink = NoLink
  Threshold = 2
  MaxFailed = 3
  MaxPasswords = 2
  MaxMissed = 1
PROPERTY
  IndefiniteLockHolds
