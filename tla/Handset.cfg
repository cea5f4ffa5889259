\* Jitter buffer: six sequence numbers and a buffer of two, so that gaps,
\* overflow, late frames and duplicates of played frames all occur.  Reader: two
\* signals, cut anywhere.  Connector: three addresses.  Microphone: five reads,
\* a backlog of two frames.  Registration: two attempts.
SPECIFICATION HandsetSpec
CONSTANTS
  MaxSequence = 5
  MaxArrivals = 4
  MaxPlayhead = 8
  MaxBuffer = 2
  MaxGap = 1
  BigStart = 2
  DesiredDelays = {0, 1}
  Bodies <- SmallBodies
  MaxSignals = 2
  Addresses = {a1, a2, a3}
  Chunks = {1, 2, 3, 4, 5}
  Backlog = 2
  MaxReads = 5
  MaxAttempts = 2
INVARIANTS
  SignalsAsSent
  FirstAnswerWins
  SpeechInOrder
  MicIsOff
  NoLostChallenge
PROPERTIES
  PlayedInOrder
  HeldFramesLeave
  SignalsAreRead
CHECK_DEADLOCK FALSE
