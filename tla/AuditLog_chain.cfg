CONSTANTS
  a1 = a1
  a2 = a2
  copied = copied
  cleared = cleared
  Apps = {a1}
  Data = {copied, cleared}
  Cleared = cleared
  MaxRows = 4
  Faults = {"write", "crash", "damage"}
  NoRow = NoRow
SPECIFICATION Spec
CHECK_DEADLOCK FALSE
INVARIANT TypeOK
INVARIANT HonestLogIsAccepted
INVARIANT ValidMeansUntouched
