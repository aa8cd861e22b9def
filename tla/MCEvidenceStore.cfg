SPECIFICATION Spec
CONSTANTS
  o1 = o1
  o2 = o2
  f = f
  g = g
  n1 = n1
  n2 = n2
  a = a
  b = b
  c = c
  Ops = {o1, o2}
  Files = {f, g}
  Names = {n1, n2}
  Chunks = {a, b}
  Content <- MCShared
  MaxThreads = 1
  Settings <- MCSettings
  None = None
SYMMETRY Symmetry
INVARIANTS
  Restorable
  ChunkNodesBacked
  RevRelsComplete
  NamesRecorded
PROPERTIES
  NothingForgotten
