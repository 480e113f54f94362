SPECIFICATION LoopSpec
CONSTANTS
  Threads = {t1}
  LoopThread = main
  Task = {k1, k2}
  Timer = {m1, m2}
  None = None
  IdleWait = 10
  MaxNow = 1
  MaxCalls = 3
  MaxHeld = 1
  Operation = {o1}
  MaxDispatch = 0
INVARIANTS
  HandleBalance
  NoLostWakeup
  SchedulerConfined
  SleepCoversTimers
PROPERTIES
  ReturnsOnlyDrained
  FiresEarliest
  TimerIsSettled
  RunReturns
  ImplementsExecutor
