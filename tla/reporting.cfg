SPECIFICATION Spec
CONSTANTS
  Capacity = 2
  BufferImu = FALSE
  Positions <- FewPositions
  Velocities <- FewVelocities
  Room <- ATransform
  AdditionalPrediction = 1
  MaxUpdates = 4
  MaxTime = 2
INVARIANTS NewestKept PoseAtTimestamp RoomFromFirstFrame
PROPERTIES ReportsMoveForward CallDelivers
