SPECIFICATION Spec
CONSTANTS
  w1 = w1
  w2 = w2
  w3 = w3
  small = small
  large = large
  Workers = {w1, w2}
  Chunks = {small, large}
  Size <- MCSize
  MaxContainerSize = 2
  QueueCap = 1
  MaxIndex = 2
  MaxSessions = 2
  MaxFaults = 0
  MaxCrashes = 0
  Nil = Nil
  Err = Err
INVARIANT EveryAckReadable
