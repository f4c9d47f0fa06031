SPECIFICATION Spec
CONSTANTS
  Names = {a, b}
  MaxChanges = 2
  MaxStops = 1
PROPERTIES
  CatchesUpByCheck
