CONSTANTS
  Ending <- MCEnding
  Class <- MCClass
  Pasted <- MCPasted
  AsChars <- MCAsChars
  Unlistable <- MCUnlistable
  Tree <- MCTree
  Base <- MCBase
  Policies <- MCPolicies
  Platforms = {"linux", "macos", "none"}
  Cwds <- MCCwds
  MAX_DENY_READ_GLOB_MATCHES = 2
SPECIFICATION Spec
INVARIANTS
  TypeOK
  WritesConfined
  WritesGranted
  PlainSecretsHidden
  MarkerMatchesNetwork
CHECK_DEADLOCK FALSE
