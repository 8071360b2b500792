CONSTANTS
  oldPassword = oldPassword
  newPassword = newPassword
  Names <- TwoTitles
  Passwords = {oldPassword, newPassword}
  NoPassword = NoPassword
  NoEntry = NoEntry
  MaxRowid = 3
  Vaults <- TitleVaults
  Typed = {}
  Files <- TitleFiles
  MaxChanges = 3
  Faults = {}
SPECIFICATION Spec
CHECK_DEADLOCK FALSE
PROPERTY DeleteMeansTheRow
