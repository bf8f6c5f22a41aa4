CONSTANTS
  t1 = t1
  t2 = t2
  t3 = t3
  t4 = t4
  GuestThreads = {t1, t2, t3}
  NoThread = NoThread
  NoKey = NoKey
  Mutexes = {1}
  Keys = {k}
  InitPriority <- MCPriority
  NewPriorities = {2}
  Terminatable = {}
  ExitHolding = TRUE
  MaxSvcCalls = 4
SPECIFICATION CvSpec
CHECK_DEADLOCK FALSE
INVARIANT OwnerOutlivesWait
