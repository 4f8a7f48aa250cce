CONSTANTS
  NoDevice = NoDevice
  Devices = {d1, d2, d3}
  SlowKinds = {"audio"}
  SlowDevices = {d1}
  Used = {d1, d2}
  MaxLate = 1
  NoLimit = NoLimit
  Limits = {NoLimit, 0, 2}
  BatchSizes = {0, 1, 3}
  Overlap = FALSE
  MaxRecordings = 2
  MaxStages = 2
  MaxEdits = 3
  MaxWritten = 3
SPECIFICATION MCSpec
INVARIANTS FocusIsConsistent AudioFollowsDemod StartFindsSlotFree ShutdownAsksEveryThread
  PipelinesReflectConfig ClosedRecordingIsKept
PROPERTIES RefocusesMostRecent LimitedRecordingEnds
\* After shutdown nothing is left to do, nor when nothing is recorded and no edit is coming.
CHECK_DEADLOCK FALSE
