\* Two sessions whose stop may time out; capacities 0, 1 and 3, reads of 2, chunks up to 2 bytes of two values.
CONSTANTS
  Rates = {0, 1}
  Prefills = {1, 3}
  Counts = {2}
  Values = {0, 1}
  MaxChunk = 2
  MaxSessions = 2
  JoinMayTimeOut = TRUE
SPECIFICATION FairSpec
INVARIANT NoLostWakeup
PROPERTIES ImplementsFifo ReadReturns
