SPECIFICATION FairSpec
CHECK_DEADLOCK FALSE
CONSTANTS
  p1 = p1
  p2 = p2
  p3 = p3
  Migrators <- Rolling
  HeadVersion <- Releases
  DirectGroups <- GroupFour
  Installed <- FreshOrSkewed
  Prefixes <- PlainPrefixes
  MaxCalls = 3
INVARIANTS TypeOK VersionsContiguous RecordedIsApplied OkMeansComplete AheadRejected
PROPERTIES KindsNeverNarrow Returns
