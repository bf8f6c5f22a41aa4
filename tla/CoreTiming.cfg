CONSTANTS
  OneShot = {once}
  Looping = {loop}
  SelfSched = {}
  Nobody = Nobody
  Delays = {1}
  MaxEvents = 2
  MaxPauses = 2
  Horizon = 1
SPECIFICATION FairSpec
INVARIANT NoLostWakeup
INVARIANT AnswersHold
PROPERTY TimingThreadProceeds
CHECK_DEADLOCK FALSE
