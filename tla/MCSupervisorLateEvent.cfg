\* A callback that runs after its slot has drained its events.
CONSTANTS
  k1 = k1
  Slots <- MCOneSlot
  MaxAttempts = 1
  Connecting = {1}
  InitialBackoff = 10
  MaxBackoff = 35
  Tick = 1
  StableSession = 5
  RelayTimes <- MCShort
  Percents <- MCHundred
SPECIFICATION Spec
INVARIANT
  NoEventLost
CHECK_DEADLOCK FALSE
