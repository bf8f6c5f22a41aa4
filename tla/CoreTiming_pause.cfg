CONSTANTS
  OneShot = {once}
  Looping = {}
  SelfSched = {}
  Nobody = Nobody
  Delays = {0, 1}
  MaxEvents = 1
  MaxPauses = 2
  Horizon = 1
SPECIFICATION Spec
INVARIANT PauseReturnsPaused
CHECK_DEADLOCK FALSE
