SPECIFICATION RecoverySpec
CONSTANTS
  RecipeBook <- MCRecipeBook
  DefaultRecipe <- MCDefaultRecipe
  FallbackSpeed = 4
  MinimumTargetSpeed = 1
  MaximumTargetSpeed = 8
  ReferenceSpeed = 4
  BaseJamLimit = 4
  MaximumJamLimit = 7
  WarningPercent = 80
  BeltSensors = {2}
  RampDivisor = 2
  StopDivisor = 2
  JamScans = 4
  Barriers = {2}
  TransitionScans = 2
  DefaultSpeed = 4
  MinimumSpeed = 1
  MaximumSpeed = 8
  ManualMaxSpeed = 3
  MaintenanceMaxSpeed = 1
  Scenes <- MCScenes
  MaxJams = 1
INVARIANTS
  NeverPushedTooLong
  StoppedUntilStarted
PROPERTIES
  
  TransitionsEnd
