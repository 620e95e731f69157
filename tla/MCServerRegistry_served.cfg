\* The server is stopped and started again.
CONSTANTS
  Fd = {f1, f2}
  Conn = {c1, c2}
  Id = {i1}
  Nick = {k1}
  Main = main
  Chan = {main}
  None = None
  SocketsCap = 8
  IntSize = 4
  MaxPending = 1
  MaxBacklog = 1
  MaxCopies = 2
  MaxStarts = 2
SPECIFICATION FairSpec
INVARIANT ClientsArePolled
PROPERTY ServedInFirstRun
CHECK_DEADLOCK FALSE
