CONSTANTS
  n1 = n1
  Node = {n1, n2}
  User = {u1, u2, u3}
  Conn = {s1, s2, s3}
  Disc = {}
  Workers = 2
  InitialCap = 1
  MaxCap = 1
  ChanCap = 2
  IsSql = FALSE
  Boot <- TwoLookups
  Unborn = unborn
  Idle = idle
  Closed = closed
  NoNode = none
SPECIFICATION Spec
SYMMETRY Alike
INVARIANTS
  TypeOK
  EveryNodeOnce
  TokensBounded
  SocketsBounded
  ShutdownPanicsOnly
PROPERTIES
  TokenLostByGetOnly
