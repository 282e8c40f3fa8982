\* Two workers that share the socket and the allocator, two attempts
\* each, and carry no datagrams.
CONSTANTS
  w1 = w1
  w2 = w2
  s1 = s1
  Workers = {w1, w2}
  Senders = {s1}
  Addrs = {1, 2, 3, 4}
  MaxPaths = 3
  Lengths = {}
  QuinnLengths = {}
  Mtu = 1
  BufLen = 1
  IncomingCap = 1
  OutgoingCap = 1
  MaxAttempts = 2
  CgnatHosts = 4
  Sources = {"", "egress1"}
  DcCap = 1
SPECIFICATION ConsumerSpec
SYMMETRY MCSymmetry
INVARIANTS
  FreshAddresses
CHECK_DEADLOCK FALSE
