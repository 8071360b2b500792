SPECIFICATION Spec
CONSTANTS
  ann = ann
  bob = bob
  Users = {ann, bob}
  Passwords = {"p"}
  Lifetimes = {1}
  MaxTime = 1
  MaxPairs = 2
  MaxContacts <- MCMaxContacts
  ReadsMayFail = TRUE
  Entries <- MCEntries
  Batches <- MCBatches
  Offered <- MCOffered
  Selected <- MCSelected
  Zone <- MCZone
INVARIANTS
  TypeOK
  PreviewIsOfLoaded
  ShareIsForShown
  ReadBack
  TruncatedIsWritten
