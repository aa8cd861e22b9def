\* The process ends with its search.
SPECIFICATION FairSpec
CONSTANTS
  e1 = e1
  e2 = e2
  p1 = p1
  i1 = i1
  u = u
  v = v
  w = w
  x = x
  y = y
  z = z
  ChonkSize = 4
  MaxThreads = 1
  Databases <- MCDatabases
  Queries <- MCQueries
  MaxFaults = 1
  Junk = Junk
  None = None
INVARIANTS
  ReportOfEverything
  CountsRight
  ReportConsistent
PROPERTIES
  SearchEnds
CHECK_DEADLOCK FALSE
