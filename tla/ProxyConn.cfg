CONSTANTS
  Lower <- MCLower
  Ports <- MCPorts
  Rules <- MCRules
  Targets <- MCTargets
  Sizes <- MCSizes
  Methods = {"CONNECT", "GET"}
  MaxPayload <- MCMaxPayload
  READ_MAX = 3
  HEADER_CAP = 5
SPECIFICATION Spec
INVARIANTS
  TypeOK
  DecisionAsMeant
  AddressRefused
  PayloadIntact
  AnsweredOnce
PROPERTIES
  HeaderRecognised
CHECK_DEADLOCK FALSE
