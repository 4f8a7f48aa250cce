CONSTANTS
  MaxSessions = 2
  MaxMessages = 2
  MaxLate = 1
  Infos <- MCInfos
  Syncs <- MCSyncs
  Rates = {4, 13}
  SpySessions = 2
  SpyMessages = 2
  Hosts = {h1, h2}
  Off = off
  MaxSets = 3
SPECIFICATION MCFairSpec
INVARIANTS OwnSessionOnly FreshSession CapabilitiesAreNewest CallIsNoticed
PROPERTIES LossIsNoticed WarningIsAcked
CHECK_DEADLOCK FALSE
