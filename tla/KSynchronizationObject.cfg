CONSTANTS
  Threads = {t1, t2}
  Objects = {o1, o2}
  MaxObjects = 2
  NULL = NULL
SPECIFICATION Spec
INVARIANT ListsAreSound
INVARIANT WaitsKeepPromises
PROPERTY FirstComeFirstServed
PROPERTY ImplementsWaitSynchronization
