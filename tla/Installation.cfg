SPECIFICATION Spec
CONSTANTS
  u1 = u1
  u2 = u2
  Accounts <- MCAccounts
  MaxRoots = 4
  MaxBoots = 2
  GcEnabled = TRUE
CHECK_DEADLOCK TRUE
INVARIANTS
  
  RunsOnlyTrusted
PROPERTIES
  GcSparesRunning
