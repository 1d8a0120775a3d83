SPECIFICATION TwinSpec
CONSTANTS
  TransitionTicks = 3
  HoldTicks = 2
  JamTicks = 4
  ClearTicks = 4
  SpawnTicks = 7
  ExitTicks = 2
  CylinderTicks = 2
  StartFrom = 1
  StartUntil = 3
  InjectFrom = 18
  InjectUntil = 19
  Width = 1
  PE1_POS = 1
  PE2_POS = 5
  SCANNER_POS = 6
  DIV1_POS = 11
  DIV2_POS = 16
  PE6_POS = 20
  ScanReach = 0
  DivReach = 2
  NominalSpeed = 1
  Speeds = {0, 1, 2}
  MaxPackages = 3
  MaxCalls = 2
INVARIANTS
  TwinTypeOK
  EachCountedOnce
  MissedOnlyUnattended
  JamCountedOnce
PROPERTIES
  TransientsEnd
  UnattendedRecovery
