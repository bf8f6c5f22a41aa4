CONSTANTS
  t1 = t1
  t2 = t2
  t3 = t3
  Threads = {t1, t2, t3}
  Locks = {1, 2}
  NoThread = NoThread
  Suspendable = {t1}
  Terminatable = {t2}
  MaxLocks = 2
SPECIFICATION FairSpec
INVARIANT TagIsTrue
INVARIANT SuspendExact
PROPERTY WaiterProceeds
