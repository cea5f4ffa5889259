SPECIFICATION Spec
CONSTANTS
  NoSecret = NoSecret
  MaxCalls = 5
  Half = 8
  MaxAge = 3
  MaxSilence = 4
  MaxPackets = 36
  WifiLockEnforced = TRUE
  Orientations = {"horizontal"}
  NCalls = 2
  SessionIds = {1}
  MaxIntents = 3
CHECK_DEADLOCK FALSE
INVARIANTS
  SharedSecretSurvives
  VerifiedHasLineage
  AudioIsRecovered
  RestIsClean
PROPERTIES
  KeystreamIsFresh
  ReplacedOnlyInWindow
