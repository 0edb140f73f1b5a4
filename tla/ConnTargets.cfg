CONSTANTS
  Lower <- MCLower
  Ports <- MCPorts
  Rules <- ExactRule
  Targets <- BracketTargets
  Sizes <- BracketSizes
  Methods = {"CONNECT"}
  MaxPayload <- NoPayload
  READ_MAX = 4
  HEADER_CAP = 5
SPECIFICATION Spec
INVARIANTS
  OnlyAllowedHosts
CHECK_DEADLOCK FALSE
