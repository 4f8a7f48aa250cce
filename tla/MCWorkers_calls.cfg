CONSTANTS
  Ids = {i1, i2}
  Threads = {t1, t2}
  Callers = {c1, c2}
  Sole = c1
  Common = i1
  MayTimeout = TRUE
  None = None
SPECIFICATION MCSpec
INVARIANTS SlotNeverHeldByEndedThread AloneLiveIsRegistered
PROPERTY FairStopEventuallyExits
