CONSTANTS
  Nothing = Nothing
  Layout <- MCLayout
  Panels = {"stats", "demod"}
  Kinds = {"rds"}
  OnePerFrame = TRUE
  MaxCallbacks = 1
SPECIFICATION FairSpec
INVARIANT SettledScreen
PROPERTY ChangesReachScreen
\* Nothing is left to do once the user has stopped and the screen is drawn.
CHECK_DEADLOCK FALSE
