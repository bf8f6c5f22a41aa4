SPECIFICATION Spec
CONSTANTS
  Threads = {t1, t2, t3}
  NoThread = NoThread
  Resources = {thread}
  Amounts = {1, 2}
  Limits = {1, 3}
  FirstLimit = 2
  WordBits = 3
  Timeout = 1
  MaxTick = 1
  MaxCalls = 5
  MaxLateCalls = 3
  MaxWaiters = 1
  Terminatable = {t1}
INVARIANTS
  Accounted
  NoSleepWithRoom
PROPERTIES
  LimitCallsReturn
CHECK_DEADLOCK FALSE
