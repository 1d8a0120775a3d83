SPECIFICATION AlarmHistorySpec
CONSTANTS
  Capacity = 2
  SequenceModulus = 5
  FlashScans = 1
  SampleScans = 2
  HeartbeatScans = 2
  MaxMissedHeartbeats = 2
  UintModulus = 3
  Scenes <- MCScenes
  MaxSilence = 7
  MaxPending = 3
INVARIANTS
  
  NothingWaitsWhenHealthy
PROPERTIES
  ImplementsLog
  AckIsFresh
  SounderNotForgotten
