CONSTANTS
  NumCores = 2
  Threads = {t1}
  Host = Host
  Main = Main
  Nobody = Nobody
SPECIFICATION FairSpec
INVARIANT OneCorePerThread
INVARIANT RescheduleNotLost
INVARIANT ExitNeverReturns
INVARIANT TerminatedIsGone
PROPERTY CoresFollow
