CONSTANTS
  Stations = {"p", "q"}
  DropAfter = 2
  Window = 3
  WrongPercent = 40
  Acquired = 2
  Retunes = 1
  Falses = 1
  MaxContinuation = 5
  Confidence = 3
  VoiceTimeout = 4
  Timeslots = 2
  Sources = {"SCH/F"}
  MaxMisses = 1
  MaxFailures = 2
  Interval = 1
  FragTimeout = 1
  CallTtl = 1
  ActiveWindow = 1
  SwitchHold = 1
  Events = {"refresh", "end"}
SPECIFICATION MCSpec
INVARIANT SyncIsAligned
