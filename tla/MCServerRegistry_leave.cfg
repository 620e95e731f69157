\* One client leaves a channel.
CONSTANTS
  Fd = {f1, f2}
  Conn = {c1, c2}
  Id = {i1, i2}
  Nick = {k1}
  Main = main
  Chan = {main, x}
  None = None
  SocketsCap = 8
  IntSize = 4
  MaxPending = 1
  MaxBacklog = 1
  MaxCopies = 2
  MaxStarts = 1
SPECIFICATION Spec
INVARIANT ListedIsJoined
CHECK_DEADLOCK FALSE
