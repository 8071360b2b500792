CONSTANTS
  a1 = a1
  a2 = a2
  p1 = p1
  p2 = p2
  Apps = {a1, a2}
  Passwords = {p1}
  Ids = {1, 2}
  MaxSalt = 2
  Faults = {"write", "crash", "wizard"}
  NoKey = NoKey
  NoApp = NoApp
SPECIFICATION Spec
CHECK_DEADLOCK FALSE
INVARIANT TypeOK
INVARIANT ScanOwnsDatabase
PROPERTY SuccessIsTruthful
