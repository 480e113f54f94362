CONSTANTS
  Slots = 3
  Lengths = {1, 2}
  Room = 2
  Refills = TRUE
  MaxMessages = 2
SPECIFICATION Spec
INVARIANT InOrder
CHECK_DEADLOCK FALSE
