CONSTANTS
  Routes <- TwoRoutes
  Ports <- ThreePorts
  Networks <- AllNetworks
SPECIFICATION FairSpec
INVARIANTS TypeOK StageRecognised BridgeUnfiltered RoutesAdvertised SetupStatus
PROPERTIES ImplementsEnforcement Settles BridgeReaped
CHECK_DEADLOCK FALSE
