CONSTANTS
  n1 = n1
  Node = {n1, n2, n3}
  User = {u1, u2}
  Conn = {s1}
  Disc = {v4}
  Workers = 1
  InitialCap = 1
  MaxCap = 1
  ChanCap = 1
  IsSql = TRUE
  Boot <- OneSeed
  Unborn = unborn
  Idle = idle
  Closed = closed
  NoNode = none
SPECIFICATION Spec
SYMMETRY Alike
INVARIANTS
  DaemonCanAdd
