SPECIFICATION MCSpec
CONSTANTS
  Slots = 2
  Lengths = {1, 2, 3}
  Room = 4
  Refills = TRUE
  MaxMessages = 3
  Holders = {h1, h2, h3}
  Buffers = {1, 2, 3, 4, 5, 6}
  Sizes = {1, 2}
  MaxSize = 2
  MaxWrite = 2
  MaxCalls = 5
INVARIANTS Conserved CountsHolders
PROPERTIES KeepsOrder Sent BlocksAreValues
CHECK_DEADLOCK FALSE
