SPECIFICATION CellSpec
CONSTANTS
  QueueSize = 4
  RegisterPosition = 2
  ExitMargin = 3
  DefaultGeometry <- MCDefaultGeometry
  xUseRoutePulses = TRUE
  TimeCap = 0
  TransitionScans = 5
  DefaultSpeed = 50
  MinimumSpeed = 5
  MaximumSpeed = 150
  ManualMaxSpeed = 40
  MaintenanceMaxSpeed = 15
  ExtendScans = 4
  RetractScans = 4
  DwellScans = 1
  VerificationScans = 10
  ManualHoldScans = 10
  RequireHomeBeforeFire = TRUE
  RequireVerification = TRUE
  Horizon = 10
  OperatorCommands <- OperateAndHold
  Layout <- MCLayout
  Stroke = 2
  ExitScans = 3
  Pitches = {10, 17}
  MaxPackages = 2
  ScannerIsTriggered = FALSE
INVARIANTS
  TrackedInStep
