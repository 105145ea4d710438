SPECIFICATION Spec
CHECK_DEADLOCK FALSE
CONSTANTS
  p1 = p1
  p2 = p2
  p3 = p3
  Migrators <- Current
  HeadVersion <- CurrentRelease
  DirectGroups <- GroupFour
  Installed <- FarAhead
  Prefixes <- MixedPrefix
  MaxCalls = 1
INVARIANTS AheadRejected
