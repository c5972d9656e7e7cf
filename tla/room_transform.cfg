SPECIFICATION Spec
CONSTANTS
  Capacity = 2
  BufferImu = FALSE
  Positions <- FewPositions
  Velocities <- FewVelocities
  Room <- ATransform
  AdditionalPrediction = 1
  MaxUpdates = 3
  MaxTime = 1
INVARIANTS RoomApplied
