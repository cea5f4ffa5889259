SPECIFICATION FairSpec
CONSTANTS
  NoSecret = NoSecret
  chainI = chainI
  chainR = chainR
  oldI = oldI
  oldR = oldR
  s1 = s1
  s2 = s2
  Secrets = {}
  Chain <- MCChain
  StalePackets <- MCNoStale
  MaxRetransmitCount = 1
  MaxLosses = 1
INVARIANTS
  TypeOK
  InitiatorCompletesLast
PROPERTIES
  NegotiationEnds
CHECK_DEADLOCK FALSE
