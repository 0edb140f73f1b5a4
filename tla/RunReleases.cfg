CONSTANTS
  c1 = c1
  c2 = c2
  Conns <- OneConn
  NumRoutes = 2
  Platforms = {"linux", "macos"}
SPECIFICATION FairSpec
PROPERTIES EveryExitReleases
CHECK_DEADLOCK FALSE
