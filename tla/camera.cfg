SPECIFICATION FairSpec
CONSTANTS
  MaxPictures = 5
  MaxQueued = 3
  Revisions = {0, 5, 6, 7, 8}
INVARIANTS
  SampleHeld
  ConsumedBeforeNext
  QueueIsLatest
PROPERTIES
  KeepsContract
  CallbackReturns
CHECK_DEADLOCK FALSE
