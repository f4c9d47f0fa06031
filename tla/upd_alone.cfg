SPECIFICATION Spec
CONSTANTS
  Slots = {s1}
  Versions <- MCVersions
  Lists <- MCLists
  Modifies = {"none", "set", "bad"}
  MaxInt = 99
  MaxTroubles = 2
INVARIANTS OneRelease NoUnwantedLoop
PROPERTIES NeverOlder MarkMeansDone UpToDate
CHECK_DEADLOCK FALSE
