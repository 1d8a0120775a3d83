SPECIFICATION BenchSpec
CONSTANTS
  ExtendScans = 4
  RetractScans = 4
  DwellScans = 1
  VerificationScans = 3
  ManualHoldScans = 3
  RequireHomeBeforeFire = TRUE
  RequireVerification = TRUE
  Horizon = 4
  Stroke = 2
  StuckPosition = 1
  DiverterInputs <- MCDiverterInputs
INVARIANTS
  SolenoidOnTimeBounded
  RetractSupervised
PROPERTY
  StrokesBeginAtHome
