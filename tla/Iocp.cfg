CONSTANTS
  Threads = {t1, t2}
  Loop = loop
  PostFails = TRUE
  MaxCalls = 4
  Leftover = {0}
  MaxIn = 2
SPECIFICATION MCSpec
INVARIANTS NoLostWakeup ClosesAlone OneSend
PROPERTIES TasksAreTaken Closes
CHECK_DEADLOCK FALSE
