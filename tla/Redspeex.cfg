SPECIFICATION Spec
CONSTANTS
  Fields <- MCFields
  Reads = {2, 7}
  BufferSizes = {1, 2}
  MaxPacked = 15
  Qualities = {0, 1, 2, 6, 8, 10}
  VbrModes = {5}
  HighModes = {0, 4}
  VbrMaxes = {0, 3000}
  DtxRefresh = 2
  FramesPerPacket = 2
  MaxLost = 1
  MaxRequests = 1
  ShortestPeriod = 2
  LongestPeriod = 3
  Comps = {1, 3}
  Lengths = {4, 9}
  PLC_HISTORY_LEN = 12
  PLC_PITCH_MAX = 4
  PLC_PITCH_MIN = 8
  Fade = 9
  Blocks = {2, 5, 13}
  SenderLen = 2
  Stamps = {0, 2, 4}
  BufferLengths <- MCBufferLengths
  MaxQueue = 3
  MaxDue = 6
  MaxRewind = 6
  StepMax = 4
  SoonAfter = 1
  LongAfter = 2
  Half = 32
  CorrScale = 4
  Candidates = 3
  ListLen = 2
  RawCorrs <- MCRawCorrs
  RawEnergies = {0, 5, 62}
  Complexities = {1, 3}
  Subvectors = 3
  CodeEnergy <- MCCodeEnergy
  Corrs <- MCCorrs
  TargetEnergies = {0, 2}
  VERY_LARGE32 = 1000
INVARIANTS
  InBuffer
  PackedIntact
  PacketDecodes
  FreshAgrees
  DtxMeansSilence
  SamplesConserved
  BufferHolds
  GapRepeatsHistory
  PitchesAreBest
  IndicesFollowTarget
  ContinuationsAreBest
PROPERTIES
  StreamIsQueue
  WriteReturns
  CallReturns
  PlayoutInOrder
