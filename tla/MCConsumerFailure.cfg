\* One worker whose peer's connection fails after the channel has opened.
CONSTANTS
  w1 = w1
  w2 = w2
  s1 = s1
  Workers = {w1}
  Senders = {s1}
  Addrs = {1, 2, 3}
  MaxPaths = 2
  Lengths = {1}
  QuinnLengths = {1}
  Mtu = 1
  BufLen = 1
  IncomingCap = 1
  OutgoingCap = 1
  MaxAttempts = 1
  CgnatHosts = 3
  Sources = {"", "egress1"}
  DcCap = 1
SPECIFICATION FairConsumerSpec
PROPERTIES
  PeerFailureEndsPath
CHECK_DEADLOCK FALSE
