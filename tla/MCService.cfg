\* The server may be down for good, with every request answered or dead.
SPECIFICATION Spec
CONSTANTS
  r1 = r1
  r2 = r2
  h1 = h1
  h2 = h2
  p1 = p1
  t1 = t1
  Requests = {r1, r2}
  Calls <- MCCalls
  Earlier <- MCEarlier
  Hashes = {h1, h2}
  Common = {h2}
  Spoilt <- MCSpoilt
  Paths = {p1}
  Types = {t1}
  MaxFaults = 1
  MaxStarts = 2
  None = None
INVARIANTS
  CompletedStored
  ToldStaysTrue
  ErrorsHaveCause
  StopSpares
CHECK_DEADLOCK FALSE
