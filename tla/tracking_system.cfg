CONSTANTS
  REQUIRED_SAMPLES = 2
  Backdate = 1
  FrameInterval = 1
  ImuPeriod = 1
  RegularImu = TRUE
  Unset = {0, 9}
  MaxTime = 6
SPECIFICATION Spec
INVARIANTS CalibratedWhileStill OneSideAveraged AppliedInOrder
  ReplayComplete NoneForgotten BaseFound
PROPERTY ImplementsFusion
CHECK_DEADLOCK FALSE
