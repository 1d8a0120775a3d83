SPECIFICATION HistorianSpec
CONSTANTS
  NodeSpecs <- MCNodeSpecs
  Measurement <- MCMeasurement
  SensorFields = {"PE1_Blocked"}
  MaxBatchSize = 11
  MaxBufferSize = 16
  FlushInterval = 2
  KpiWindow = 2
  QueryWindows = {2, 3}
  MaxTime = 3
  MaxChanges = 3
  Events = {"LastSequence"}
  Limits = {0, 2}
  MaxEvents = 1
  MaxFailures = 1
INVARIANTS
  NothingDropped
  LedgerKept
  BufferIsFresh
  KpisNotOverReported
  ApiAgrees
  
  EdgesNotInvented
CHECK_DEADLOCK FALSE
