\* The array of sockets grows: four sockets and a first capacity of four, for eight of each.
CONSTANTS
  Fd = {f1, f2, f3, f4}
  Conn = {c1}
  Id = {i1}
  Nick = {k1}
  Main = main
  Chan = {main}
  None = None
  SocketsCap = 4
  IntSize = 4
  MaxPending = 1
  MaxBacklog = 1
  MaxCopies = 2
  MaxStarts = 1
SPECIFICATION Spec
SYMMETRY Symmetry
INVARIANT SocketsFit
CHECK_DEADLOCK FALSE
