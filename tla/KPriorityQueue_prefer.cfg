CONSTANTS
  NumCores = 2
  Threads = {t1, t2, t3}
  Guests <- AllThreads
  Process <- OneProcess
  LowestPriority = 0
  MigrationLimit = 0
  PreemptPriority <- PreemptLowest
  Pinnable = {t1}
  Contended = {t3}
  Masks <- AllMasks
  NoThread = NoThread
SPECIFICATION PriorityQueueSpec
INVARIANT PinnedIsPreferred
