\* The application's numbers: 8000 samples a second, blocks of 160.
SPECIFICATION TimeScaleSpec
CONSTANTS
  ShortestPeriod = 32
  LongestPeriod = 133
  Comps = {20}
  Lengths = {160}
INVARIANT OutputBounded
CHECK_DEADLOCK FALSE
