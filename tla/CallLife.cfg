\* A caller and a callee, each with one call; fairness as FairSpec states.
\* A call that is over and reported stops.
SPECIFICATION FairSpec
CONSTANT Roles = {"Initiator", "Responder"}
CHECK_DEADLOCK FALSE
PROPERTIES
  NoAudioAfterTerminate
  ManagerEnds
  AudioIsReleased
  CancelIsSignalled
