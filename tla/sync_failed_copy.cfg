SPECIFICATION Spec
CONSTANTS
  MaxTime = 5
  MaxContent = 2
  TicksPerSecond = 1
  SafeModes = {FALSE}
  Writes = {"source"}
  Removes = {}
  Users <- OnlyUnlucky
PROPERTIES
  NoNeedMeansSame
