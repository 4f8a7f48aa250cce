SPECIFICATION MCSpec
CONSTANTS
  NoConfig = NoConfig
  Freqs = {1, 2}
  Gains = {1, 2}
  Updaters = {"ui", "pipeline", "io"}
  CtlMax = 1
  StgMax = 1
  MaxEdits = 2
INVARIANTS SettledHardware LabelIsTuned
PROPERTY HardwareFollows
