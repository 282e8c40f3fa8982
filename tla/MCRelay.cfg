CONSTANTS
  Capacity = 2
  InboxSize = 2
  Tracked = 3
SPECIFICATION Spec
CHECK_DEADLOCK FALSE
INVARIANTS PacketsConserved OrderlyEnd
PROPERTIES HangupEndsRelay
