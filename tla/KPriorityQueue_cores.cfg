CONSTANTS
  NumCores = 3
  Threads = {t1, t2, t3}
  Guests <- AllThreads
  Process <- OneProcess
  LowestPriority = 1
  MigrationLimit = 1
  PreemptPriority <- PreemptLowest
  Pinnable = {}
  Contended = {}
  Masks <- AllMasks
  NoThread = NoThread
SYMMETRY ThreadSymmetry
SPECIFICATION PriorityQueueSpec
INVARIANT EveryIdleCoreIsSettled
