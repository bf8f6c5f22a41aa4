CONSTANTS
  Tasks = {t1, t2, t3}
  MaxTime = 4
  Horizon = 3
  NULL = NULL
SPECIFICATION FairTimerSpec
INVARIANT InterruptCovers
PROPERTY DueTaskHandled
