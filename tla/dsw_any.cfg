SPECIFICATION Spec
CONSTANTS
  MaxStarts = 2
  MaxSyncs = 1
INVARIANTS
  StopMeansStopped
  CallbacksAgree
PROPERTIES
  EveryPairChecked
  StopReturns
  ServiceSpec
