CONSTANTS
  Versions <- MCVersions
  Good <- MCGood
  Broken <- MCBroken
  Updates <- MCUpdates
  Updater = "fallback"
  Latest = 3
  Attempts = 2
  Torn = Torn
  None = None
SPECIFICATION Spec
PROPERTY
  ServingIsHealthy
CHECK_DEADLOCK FALSE
