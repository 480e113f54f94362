CONSTANTS
  Platforms = {"linux"}
  NAddr = 2
  TimeOut = TRUE
  RegisterFails = FALSE
  Retry = {"on_connect_fail"}
  MaxRequests = 2
SPECIFICATION Spec
PROPERTY ConnectedIsConnected
CHECK_DEADLOCK FALSE
