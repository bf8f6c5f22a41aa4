CONSTANTS
  t1 = t1
  t2 = t2
  t3 = t3
  t4 = t4
  GuestThreads = {t1, t2, t3}
  NoThread = NoThread
  NoKey = NoKey
  Mutexes = {1, 2}
  Keys = {k}
  InitPriority <- MCPriority
  NewPriorities = {4}
  Terminatable = {t2}
  ExitHolding = FALSE
  MaxSvcCalls = 6
SPECIFICATION CvSpec
INVARIANT MutexWordIsTrue
INVARIANT PriorityInherited
INVARIANT FlagCoversWaiters
INVARIANT WaitsAreTidy
CHECK_DEADLOCK FALSE
