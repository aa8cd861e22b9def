\* The process ends with NearInFile.
SPECIFICATION FairSpec
CONSTANTS
  e1 = e1
  e2 = e2
  e3 = e3
  p1 = p1
  p2 = p2
  i1 = i1
  i2 = i2
  a = a
  b = b
  c = c
  x = x
  MaxThreads = 1
  Databases <- MCDatabases
  FullMatch = 2
  MaxFaults = 1
  None = None
INVARIANTS
  ResultOfEverything
  PlacesOnce
  CountedRight
PROPERTIES
  NearEnds
CHECK_DEADLOCK FALSE
