SPECIFICATION Spec
CONSTANTS
  TransitionScans <- MCTransitionScans
  DefaultSpeed = 50
  MinimumSpeed = 5
  MaximumSpeed = 150
  ManualMaxSpeed = 40
  MaintenanceMaxSpeed = 15
  StationInputs <- MCStationInputs
INVARIANTS
  
  RunEnableIsPermitted
  HandFireOutsideRuns
PROPERTIES
  
  ImplementsPackML
