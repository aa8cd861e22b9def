\* A restore ends.
SPECIFICATION Spec
CONSTANTS
  ChonkSize = 4
  Images = {8}
  Junk = Junk
INVARIANT Restored
CHECK_DEADLOCK FALSE
