CONSTANTS
  Setups <- MCSetups
  LinkCap = 1
  HandCap = 1
SPECIFICATION Spec
INVARIANTS
  TypeOK
  EofWaitsForBoth
PROPERTIES
  ImplementsChannel
  DirectionsIndependent
  EofCrosses
  TunnelEnds
CHECK_DEADLOCK FALSE
