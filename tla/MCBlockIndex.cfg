SPECIFICATION Spec
CONSTANTS
  o1 = o1
  o2 = o2
  a = a
  b = b
  c = c
  d = d
  x = x
  y = y
  Ops = {o1, o2}
  Chunks = {a, b, c, d}
  Content <- MCContent
  Blocks = {x, y}
  BlockOf <- MCBlockOf
  ChunksPerBlock = 2
  MaxConcurrent = 2
  MaxFaults = 1
  MaxCrashes = 1
  None = None
INVARIANTS
  Indexed
  AddedKept
  TornByTroubleOnly
