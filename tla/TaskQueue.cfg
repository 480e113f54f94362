SPECIFICATION QueueSpec
CONSTANTS
  Threads = {t1, t2, t3}
  Operation = {o1, o2, o3}
  None = None
  MaxDispatch = 6
  LoopThread = main
  Task = {k1}
  Timer = {m1}
  IdleWait = 0
  MaxNow = 0
  MaxCalls = 0
  MaxHeld = 0
INVARIANTS
  MutualExclusion
  NothingStranded
PROPERTIES
  QueueImplementsExecutor
CHECK_DEADLOCK FALSE
