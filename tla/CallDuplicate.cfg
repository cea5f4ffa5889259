SPECIFICATION ServiceSpec
CONSTANTS
  WifiLockEnforced = TRUE
  Orientations = {"horizontal"}
  NCalls = 1
  SessionIds = {1}
  MaxIntents = 2
PROPERTY DuplicateIgnored
CHECK_DEADLOCK FALSE
