CONSTANTS
  NumCores = 2
  Threads = {t1, t2}
  Guests <- AllThreads
  Process <- OwnProcesses
  LowestPriority = 1
  MigrationLimit = 1
  PreemptPriority <- PreemptLowest
  Pinnable = {}
  Contended = {}
  Masks <- AllMasks
  NoThread = NoThread
SPECIFICATION PriorityQueueSpec
INVARIANT NothingToYieldTo
