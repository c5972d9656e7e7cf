CONSTANTS
  REQUIRED_SAMPLES = 1
  Backdate = 2
  FrameInterval = 1
  ImuPeriod = 1
  RegularImu = TRUE
  Unset = {0}
  MaxTime = 6
SPECIFICATION Spec
INVARIANT BaseFound
CHECK_DEADLOCK FALSE
