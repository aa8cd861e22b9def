\* A restore ends.
SPECIFICATION CachedSpec
CONSTANTS
  c1 = c1
  c2 = c2
  c3 = c3
  ChonkSize = 3
  Images = {1, 2, 3, 4, 5, 6, 7, 8, 9, 10, 11, 12, 13}
  Junk = Junk
  Paths = {c1, c2, c3}
  Layouts <- MCLayouts
  MaxSizes = {2, 3}
  MaxTime = 2
  None = None
INVARIANTS
  RegularRestored
  NothingLost
  CacheBounded
PROPERTIES
  RestoresAlike
  TempFilesGone
CHECK_DEADLOCK FALSE
