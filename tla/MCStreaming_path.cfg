\* Blocks of two frames and batches of three, so that every second batch leaves a residual.
CONSTANTS
  Modes <- MCModes
  Wants <- MCWants
  Off = "off"
  SampleCap = 1
  AudioCap = 2
  ControlCap = 2
  BatchFrames = 3
  BlockFrames = 2
  DepthFactor = 1
  MaxReads = 3
  MaxOps = 2
SPECIFICATION MCFairSpec
INVARIANTS SamplesAccounted PathInOrder FlushIsComplete OldModeEnds
PROPERTY OutputIsServed
CHECK_DEADLOCK FALSE
