CONSTANTS
  Platforms = {"linux", "windows"}
  NAddr = 3
  TimeOut = TRUE
  RegisterFails = TRUE
  Retry = {"on_connect_fail", "on_closed"}
  MaxRequests = 4
SPECIFICATION FairSpec
INVARIANTS HandleBalance OneAnswer FailsOnlyAfterAll
PROPERTIES ClosesOnlyItsOwn Answered
CHECK_DEADLOCK FALSE
