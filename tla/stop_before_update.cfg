SPECIFICATION FairSpec
CONSTANTS
  hmd = hmd
  controller = controller
  Bodies <- AllBodies
  ImuBodies <- BodyWithImu
  QueueCapacity = 2
  MayThrow = FALSE
  RetrieveOutcomes <- DefaultRetrieve
  StopBeforeUpdate = TRUE
PROPERTIES
  StopReturns
CHECK_DEADLOCK FALSE
