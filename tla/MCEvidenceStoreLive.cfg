\* An operation ends for good here.
SPECIFICATION FairSpec
CONSTANTS
  o1 = o1
  o2 = o2
  f = f
  g = g
  n1 = n1
  n2 = n2
  a = a
  b = b
  c = c
  Ops = {o1}
  Files = {f}
  Names = {n1}
  Chunks = {a, b, c}
  Content <- MCDistinct
  MaxThreads = 1
  Settings <- MCTrouble
  None = None
PROPERTIES
  OperationsEnd
  WorkersEnd
CHECK_DEADLOCK FALSE
