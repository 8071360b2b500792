CONSTANTS
  MaxTimeout = 6
  DefaultTimeout = 4
  WarnLead = 2
  SavePeriod = 2
  Settings = {0, 2, 6}
  MaxCopies = 2
  Faults = {"crash", "db"}
SPECIFICATION Spec
CHECK_DEADLOCK FALSE
INVARIANT TypeOK
INVARIANT TimerKeepsPromise
PROPERTY CopiedTextIsCleared
