SPECIFICATION Spec
CONSTANTS
  Slots = {s1, s2}
  Versions <- MCVersions
  Lists <- MCLists
  Modifies = {"set"}
  MaxInt = 99
  MaxTroubles = 1
INVARIANTS NothingLost
CHECK_DEADLOCK FALSE
SYMMETRY MCSlots
