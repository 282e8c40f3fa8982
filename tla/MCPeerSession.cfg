\* Long enough for a connection to come, go, come back and fail, and for a
\* second DataChannel to open.
CONSTANTS
  MaxChanges = 5
  MaxOpens = 2
  SessionIds <- MCSessionIds
SPECIFICATION FairSpec
INVARIANTS
  DisconnectReportedOnce
  RelayHasPeer
  EgressKnowsConsumer
PROPERTIES
  ImplementsContract
  TraversalEnds
\* A session ends.
CHECK_DEADLOCK FALSE
