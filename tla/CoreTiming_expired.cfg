CONSTANTS
  OneShot = {}
  Looping = {}
  SelfSched = {self}
  Nobody = Nobody
  Delays = {0, 1}
  MaxEvents = 1
  MaxPauses = 1
  Horizon = 2
SPECIFICATION Spec
INVARIANT NoExpiredEvent
CHECK_DEADLOCK FALSE
