SPECIFICATION Spec
CONSTANTS
  MaxTime = 7
  MaxContent = 3
  TicksPerSecond = 2
  SafeModes = {TRUE, FALSE}
  Writes = {"source"}
  Removes = {"source", "dest"}
  Users <- BusyOrPatient
PROPERTIES
  EntrySpec
  SourceUntouched
  DoneMeansCopied
  NoNeedIfOrderly
  AliasUntouched
  Converges
