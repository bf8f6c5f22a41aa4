CONSTANTS
  t1 = t1
  t2 = t2
  t3 = t3
  Threads = {t1, t2, t3}
  Locks = {1}
  NoThread = NoThread
  Suspendable = {}
  Terminatable = {t2}
  MaxLocks = 1
SPECIFICATION Spec
INVARIANT LockMeansOwned
