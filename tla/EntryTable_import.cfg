CONSTANTS
  oldPassword = oldPassword
  newPassword = newPassword
  Names <- TwoLogins
  Passwords = {oldPassword, newPassword}
  NoPassword = NoPassword
  NoEntry = NoEntry
  MaxRowid = 3
  Vaults <- LoginVaults
  Typed <- TypedLogins
  Files <- LoginFiles
  MaxChanges = 3
  Faults = {"write"}
SPECIFICATION Spec
CHECK_DEADLOCK FALSE
INVARIANT TypeOK
INVARIANT CacheFollowsEdits
INVARIANT ImportKeepsOthers
INVARIANT ImportIsComplete
