CONSTANTS
  AutoLock = 2
  MaxFailures = 1
  MaxChanges = 1
  Faults = {}
SPECIFICATION Spec
PROPERTY ChangesNeedSession
