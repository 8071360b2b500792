CONSTANTS
  AutoLock = 3
  MaxFailures = 5
  MaxChanges = 1
  Faults = {"db"}
SPECIFICATION Spec
INVARIANT TypeOK
INVARIANT SessionExpires
INVARIANT TableFollowsSession
INVARIANT BackoffHolds
PROPERTY IdleSessionLocks
