\* Every spawn kind, uncapped, capped below and at the bytes written; a pipe
\* smaller than the output, so writers block and the cap is reached while
\* bytes are still buffered.
CONSTANTS
  c = c
  d1 = d1
  d2 = d2
  Child <- c
  Descendants <- OneDescendant
  Kinds <- AllKinds
  Caps = {0, 1}
  ExitCodes <- AllStatuses
  Faulty = {"stdout"}
  Timeouts = {TRUE}
  PipeCap = 2
  MaxBytes = 2
SPECIFICATION Spec
INVARIANTS TypeOK CapturedIsPrefix NoSigPipe StatusIsOwn SetupFailureNotAResult
PROPERTY ImplementsCommand
CHECK_DEADLOCK FALSE
