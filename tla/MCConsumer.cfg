\* One worker, three attempts over an address space of two: replacement of
\* paths, exhaustion of the addresses, packets of two sources.
CONSTANTS
  w1 = w1
  w2 = w2
  s1 = s1
  Workers = {w1}
  Senders = {s1}
  Addrs = {1, 2, 3, 4}
  MaxPaths = 3
  Lengths = {1}
  QuinnLengths = {1}
  Mtu = 1
  BufLen = 1
  IncomingCap = 1
  OutgoingCap = 1
  MaxAttempts = 3
  CgnatHosts = 4
  Sources = {"", "egress1", "egress2"}
  DcCap = 1
SPECIFICATION FairConsumerSpec
INVARIANTS
  RoutesMatchTasks
  SourcePinned
  RepliesOnly
PROPERTIES
  AttemptsAccounted
  CancelStops
  HangupEndsPath
CHECK_DEADLOCK FALSE
