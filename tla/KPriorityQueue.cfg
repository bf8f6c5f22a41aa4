CONSTANTS
  NumCores = 2
  Threads = {t1, t2, t3, pinner, waited}
  Guests <- EqualOrPinning
  Process <- OneProcess
  LowestPriority = 1
  MigrationLimit = 1
  PreemptPriority <- PreemptLowest
  Pinnable = {pinner}
  Contended = {waited}
  Masks <- AllMasks
  NoThread = NoThread
SYMMETRY ThreadSymmetry
SPECIFICATION PriorityQueueSpec
INVARIANT QueuesMatch
INVARIANT ChoicesAreRight
INVARIANT YieldsAreRight
