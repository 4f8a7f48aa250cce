CONSTANTS
  NoLimit = NoLimit
  Limits = {NoLimit, 2}
  BatchSizes = {1}
  Overlap = TRUE
  MaxRecordings = 2
  MaxStages = 2
  MaxEdits = 3
  MaxWritten = 2
SPECIFICATION RecordingSpec
INVARIANT PipelinesReflectConfig
CHECK_DEADLOCK FALSE
