CONSTANTS
  Conn = {c1, c2, c3}
  User = {u1, u2}
  Closer = {k1, k2}
  Ctor = ctor
  NoConn = none
  InitialCap = 1
  MaxCap = 1
SPECIFICATION FairSpec
INVARIANTS
  TypeOK
  NoSendOnClosed
  ExclusiveOwnership
  LiveSockets
  NoLostSocket
  NoStrandedSocket
PROPERTIES
  ClosedPoolReleasesAll
  AtomicSpec
