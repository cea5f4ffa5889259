SPECIFICATION Spec
CONSTANTS
  NoSecret = NoSecret
  chainI = chainI
  chainR = chainR
  oldI = oldI
  oldR = oldR
  s1 = s1
  s2 = s2
  Secrets = {s1}
  Chain <- MCChain
  StalePackets <- MCStale
  MaxRetransmitCount = 0
  MaxLosses = 0
INVARIANTS
  KeyAgreement
  RetainedIsShared
  ConnectedShareKey
CHECK_DEADLOCK FALSE
