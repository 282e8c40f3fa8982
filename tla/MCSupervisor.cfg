\* One slot, long enough for the backoff to reach its maximum (10, 20, 35) and
\* to be reset, while the callbacks of the first session go on.
CONSTANTS
  k1 = k1
  Slots <- MCOneSlot
  MaxAttempts = 3
  Connecting = {1}
  InitialBackoff = 10
  MaxBackoff = 35
  Tick = 1
  StableSession = 5
  RelayTimes <- MCRelayTimes
  Percents <- MCPercents
SPECIFICATION FairSpec
INVARIANTS
  RetryBounded
  ReportsMatchSummary
PROPERTIES
  AttemptsAccounted
  OnlyStableSessionsReset
  ShutdownCompletes
\* The pool returns once it is cancelled; attempts are bounded.
CHECK_DEADLOCK FALSE
