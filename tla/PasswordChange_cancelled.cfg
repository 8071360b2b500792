CONSTANTS
  a1 = a1
  a2 = a2
  p1 = p1
  p2 = p2
  Apps = {a1}
  Passwords = {p1, p2}
  Ids = {1, 2}
  MaxSalt = 3
  Faults = {}
  NoKey = NoKey
  NoApp = NoApp
SPECIFICATION Spec
CHECK_DEADLOCK FALSE
INVARIANT CancelledChangeKeepsPassword
