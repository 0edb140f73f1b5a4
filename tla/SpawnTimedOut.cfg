CONSTANTS
  c = c
  d1 = d1
  d2 = d2
  Child <- c
  Descendants <- OneDescendant
  Kinds <- OnlyLandlock
  Caps = {1}
  ExitCodes <- AllStatuses
  Faulty = {}
  Timeouts = {TRUE}
  PipeCap = 1
  MaxBytes = 1
SPECIFICATION Spec
INVARIANT TimedOutMeansKilled
CHECK_DEADLOCK FALSE
