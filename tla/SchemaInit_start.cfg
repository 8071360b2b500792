CONSTANTS
  a1 = a1
  a2 = a2
  Apps = {a1, a2}
  NSettings = 2
  Files = {"none", "v1"}
  Faults = {"crash", "busy", "version", "setting"}
SPECIFICATION Spec
INVARIANT TypeOK
INVARIANT KeyStoreComesLast
INVARIANT QuietStartCompletes
PROPERTY KeyStoreStays
PROPERTY QuietStartKeepsSettings
