CONSTANTS
  NumCores = 2
  Threads = {t1, t2}
  Guests <- AllThreads
  Process <- OneProcess
  LowestPriority = 1
  MigrationLimit = 1
  PreemptPriority <- PreemptLowest
  Pinnable = {t1}
  Contended = {}
  Masks <- AllMasks
  NoThread = NoThread
SPECIFICATION PriorityQueueSpec
INVARIANT EveryCallerHasACore
