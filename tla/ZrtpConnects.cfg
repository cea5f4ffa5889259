SPECIFICATION PromptSpec
CONSTANTS
  NoSecret = NoSecret
  chainI = chainI
  chainR = chainR
  oldI = oldI
  oldR = oldR
  s1 = s1
  s2 = s2
  Secrets = {s1}
  Chain <- MCChain
  StalePackets <- MCNoStale
  MaxRetransmitCount = 2
  MaxLosses = 2
PROPERTIES
  BothConnect
CHECK_DEADLOCK FALSE
