CONSTANTS
  Ending <- MCEnding
  Class <- MCClass
  Pasted <- MCPasted
  AsChars <- MCAsChars
  Unlistable <- MCUnlistable
  Tree <- MCTree
  Base <- MCBase
  Policies <- MCGlobPolicies
  Platforms = {"linux"}
  Cwds <- Bracketed
  MAX_DENY_READ_GLOB_MATCHES = 2
SPECIFICATION Spec
INVARIANTS
  SecretsHidden
CHECK_DEADLOCK FALSE
