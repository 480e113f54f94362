CONSTANTS
  Platforms = {"linux", "windows"}
  Kept = 5
  Closes = TRUE
  SocketFails = TRUE
  MaxArrivals = 3
  MaxFailures = 3
SPECIFICATION FairSpec
INVARIANT HandleBalance
PROPERTY Answered
CHECK_DEADLOCK FALSE
