\* Two successful starts: a worker can be cancelled and replaced.
CONSTANTS
  App = app
  Worker = {w1, w2}
  None = None
SPECIFICATION FairSpec
INVARIANTS
  TypeOK
  NoForgottenWorker
  ClientsFreedAlone
  LoopHasListener
PROPERTIES
  StopLeavesNothing
  ImplementsService
  StopReturns
CHECK_DEADLOCK FALSE

