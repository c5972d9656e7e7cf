SPECIFICATION Spec
CONSTANTS
  hmd = hmd
  controller = controller
  Bodies <- AllBodies
  ImuBodies <- BodyWithImu
  QueueCapacity = 2
  MayThrow = FALSE
  RetrieveOutcomes <- DefaultRetrieve
  StopBeforeUpdate = FALSE
INVARIANTS
  ImuNotMissed
