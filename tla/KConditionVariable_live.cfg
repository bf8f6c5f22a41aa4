CONSTANTS
  t1 = t1
  t2 = t2
  t3 = t3
  t4 = t4
  GuestThreads = {t1, t2, t3}
  NoThread = NoThread
  NoKey = NoKey
  Mutexes = {1}
  Keys = {k}
  InitPriority <- MCPriority
  NewPriorities = {}
  Terminatable = {}
  ExitHolding = FALSE
  MaxSvcCalls = 4
SPECIFICATION CvFairSpec
PROPERTY MutexWaitEnds
CHECK_DEADLOCK FALSE
