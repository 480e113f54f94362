SPECIFICATION Spec
CONSTANTS
  Users = {}
  DirectWrites = {}
  Pausing = TRUE
  AsyncErrors = FALSE
  MaxCalls = 2
  MaxIn = 1
  MaxRoom = 1
PROPERTIES
  ContinueReadResumes
CHECK_DEADLOCK FALSE
