SPECIFICATION Spec
CONSTANTS
  MaxStarts = 3
  MaxWatches = 2
  AwaitsStarted = TRUE
  UsesSetStop = FALSE
  MayTimeOut = FALSE
  EditsWhileWatching = FALSE
INVARIANTS
  StopMeansStopped
  NoFutureError
  PauseKept
PROPERTIES
  StopReturns
  ServiceSpec
