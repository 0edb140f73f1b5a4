CONSTANTS
  c1 = c1
  c2 = c2
  Conns <- TwoConns
  NumRoutes = 2
  Platforms = {"linux", "macos"}
SPECIFICATION FairSpec
INVARIANTS TypeOK CommandServed
PROPERTIES Answered RunReleases ConnectionsEnd
CHECK_DEADLOCK FALSE
