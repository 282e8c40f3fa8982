\* Two consumers, one of which tries twice, and two peers.
CONSTANTS
  k1 = k1
  k2 = k2
  p1 = p1
  p2 = p2
  None = None
  Consumers = {k1, k2}
  Peers = {p1, p2}
  Attempts <- MCAttempts
  Gathered = {"Udp", "Tcp"}
  MaxFaults = 1
SPECIFICATION Spec
INVARIANTS
  MatchedPair
  SessionSurvivesPeers
PROPERTIES
  PairCompletes
  SignallingEnds
\* All attempts and sessions are over.
CHECK_DEADLOCK FALSE
