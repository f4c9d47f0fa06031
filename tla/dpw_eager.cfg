SPECIFICATION Spec
CONSTANTS
  MaxStarts = 2
  MaxWatches = 2
  AwaitsStarted = FALSE
  UsesSetStop = TRUE
  MayTimeOut = TRUE
  EditsWhileWatching = TRUE
INVARIANTS
  RestartableUnlessTimedOut
  WatchingMeansLive
