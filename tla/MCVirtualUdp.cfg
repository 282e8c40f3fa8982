CONSTANTS
  s1 = s1
  s2 = s2
  Addrs = {2, 3}
  Senders <- MCSenders
  MaxPaths = 3
  Lengths = {2, 3}
  Mtu = 2
  BufLen = 2
  IncomingCap = 1
  OutgoingCap = 1
SPECIFICATION Spec
SYMMETRY MCSymmetry
INVARIANTS
  TypeOK
  NewestPathRouted
  SocketNeverBreaks
  NothingTruncated
PROPERTY
  ImplementsService
CHECK_DEADLOCK FALSE
