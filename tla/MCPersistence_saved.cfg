CONSTANTS
  GainControl = TRUE
  MaxEvents = 3
  Torn = Torn
SPECIFICATION FairSpec
INVARIANTS UnsavedIsScheduled ExitSaves TornIsExplained
PROPERTY ChangesReachDisk
\* The program may have exited for good.
CHECK_DEADLOCK FALSE
