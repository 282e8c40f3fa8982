\* The consumer connects with the answer alone.
CONSTANTS
  MaxChanges = 2
  MaxOpens = 0
  SessionIds <- MCSessionIds
SPECIFICATION Spec
INVARIANT
  ConnectedHasSessionId
CHECK_DEADLOCK FALSE
