SPECIFICATION Spec
CONSTANTS
  Names = {a, b}
  MaxChanges = 3
  MaxStops = 1
PROPERTIES
  NoneMeansSame
  NoFalseAlarm
  CatchesUpUnlessStopped
