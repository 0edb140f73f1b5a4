CONSTANTS
  c = c
  d1 = d1
  d2 = d2
  Child <- c
  Descendants <- TwoDescendants
  Kinds <- OnlyProxied
  Caps = {1}
  ExitCodes = {"exit"}
  Faulty = {}
  Timeouts = {TRUE}
  PipeCap = 1
  MaxBytes = 2
SPECIFICATION FairSpec
PROPERTIES FullPipeDrains ContainedReturns DetachedReadersEnd NoChildLeft
CHECK_DEADLOCK FALSE
