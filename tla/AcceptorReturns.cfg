CONSTANTS
  Platforms = {"linux"}
  Kept = 0
  Closes = FALSE
  SocketFails = FALSE
  MaxArrivals = 1
  MaxFailures = 0
SPECIFICATION Spec
INVARIANT OpenKeepsLoop
CHECK_DEADLOCK FALSE
