SPECIFICATION Spec
CONSTANTS
  MaxStarts = 2
  MaxWatches = 1
  AwaitsStarted = TRUE
  UsesSetStop = TRUE
  MayTimeOut = FALSE
  EditsWhileWatching = FALSE
INVARIANTS
  NoFutureError
