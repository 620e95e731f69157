\* One start is enough to lose RUNNING.
CONSTANTS
  App = app
  Worker = {w1, w2}
  None = None
SPECIFICATION Spec
INVARIANT LeavesLoopWhenStopped
CHECK_DEADLOCK FALSE
