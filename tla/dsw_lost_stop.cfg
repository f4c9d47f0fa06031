SPECIFICATION Spec
CONSTANTS
  MaxStarts = 1
  MaxSyncs = 1
PROPERTIES
  StopAlwaysReturns
