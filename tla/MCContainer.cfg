SPECIFICATION Spec
CONSTANTS
  w1 = w1
  w2 = w2
  w3 = w3
  small = small
  large = large
  Workers = {w1, w2, w3}
  Chunks = {small, large}
  Size <- MCSize
  MaxContainerSize = 2
  QueueCap = 1
  MaxIndex = 3
  MaxSessions = 2
  MaxFaults = 1
  MaxCrashes = 1
  Nil = Nil
  Err = Err
SYMMETRY WorkerSymmetry
INVARIANTS
  AcksReadable
  NoSendOnClosedQueue
  DrainedAtExit
  CleanCloseCompresses
PROPERTIES
  ImplementsLog
