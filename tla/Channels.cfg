SPECIFICATION FairSpec
CONSTANTS
  Users = {u1}
  Pausing = TRUE
  MaxCalls = 3
  MaxIn = 2
  Platforms = {"linux", "windows"}
INVARIANTS
  Balance
  NoUseAfterFree
  ServedOnce
PROPERTIES
  KeepsContract
  Deleted
CHECK_DEADLOCK FALSE
