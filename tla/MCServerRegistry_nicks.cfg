\* Two clients that share, take over and change nicks.
CONSTANTS
  Fd = {f1, f2}
  Conn = {c1, c2}
  Id = {i1, i2}
  Nick = {k1, k2}
  Main = main
  Chan = {main}
  None = None
  SocketsCap = 8
  IntSize = 4
  MaxPending = 1
  MaxBacklog = 1
  MaxCopies = 2
  MaxStarts = 1
SPECIFICATION Spec
SYMMETRY Symmetry
INVARIANT NickLookupLive
PROPERTIES
  IdNotStolen
  EndsByItsOwnSocket
CHECK_DEADLOCK FALSE
