SPECIFICATION FairSpec
CONSTANTS
  None = None
  Producer = {reader, notice}
  MaxBytes = 4
  MaxChunk = 2
  RingChunks = 2
  TailBytes = 3
  MaxFailures = 1
INVARIANTS
  ScreenIsARun
  ScreenReachesBack
PROPERTIES
  ScreenCatchesUp
CHECK_DEADLOCK FALSE
