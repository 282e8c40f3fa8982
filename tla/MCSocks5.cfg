CONSTANTS
  Conns = {1, 2}
  Dials = {1}
  None = None
  Targets <- MCTargets
  Replies <- MCReplies
  App <- MCApp
SPECIFICATION Spec
CHECK_DEADLOCK FALSE
INVARIANTS OnlyServedIsPublished NoSpin CancelSurfaces StreamReady RequestFramed
PROPERTIES NoMissedConnection CancelEndsDial StopReleasesDials
