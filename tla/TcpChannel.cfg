SPECIFICATION FairSpec
CONSTANTS
  Users = {u1}
  DirectWrites = {"on_connected", "on_read"}
  Pausing = TRUE
  AsyncErrors = TRUE
  MaxCalls = 3
  MaxIn = 2
  MaxRoom = 2
INVARIANTS
  RefBalance
  NoUseAfterFree
  LinkedOnce
  WatchedForWork
PROPERTIES
  KeepsContract
  Deleted
CHECK_DEADLOCK FALSE
