SPECIFICATION FairSpec
CONSTANTS
  Sender = {worker, app}
  None = none
  Header = 2
  MaxLen = 4
  Lengths = {2, 4}
  MaxFrames = 2
  Window = 3
INVARIANT TypeOK
INVARIANT LockedNeverTear
INVARIANT HeldInside
PROPERTY ImplementsQueue
CHECK_DEADLOCK FALSE
PROPERTY SendReturns
PROPERTY FramesArrive
