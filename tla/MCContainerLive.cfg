\* A session ends for good here; MCContainer checks that nothing else blocks.
SPECIFICATION FairSpec
CONSTANTS
  w1 = w1
  w2 = w2
  w3 = w3
  small = small
  large = large
  Workers = {w1, w2, w3}
  Chunks = {small, large}
  Size <- MCSize
  MaxContainerSize = 2
  QueueCap = 1
  MaxIndex = 3
  MaxSessions = 1
  MaxFaults = 1
  MaxCrashes = 0
  Nil = Nil
  Err = Err
PROPERTIES
  EveryCallReturns
  CloseReturns
CHECK_DEADLOCK FALSE
