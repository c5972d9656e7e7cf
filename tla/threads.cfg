SPECIFICATION FairSpec
CONSTANTS
  hmd = hmd
  controller = controller
  Bodies <- AllBodies
  ImuBodies <- BodyWithImu
  QueueCapacity = 2
  MayThrow = TRUE
  RetrieveOutcomes <- AllOutcomes
  StopBeforeUpdate = FALSE
INVARIANTS
  ExclusiveHandover
  NoStaleResult
  CompletionNotMissed
  StopsAfterCurrentFrame
  ReportsCaughtUp
PROPERTIES
  StopReturns
  FramesFinish
  ImuTaken
  RoomReachesReports
  ImplementsExchange
