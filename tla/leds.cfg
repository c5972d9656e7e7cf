SPECIFICATION Spec
CONSTANTS
  Patterns <- ThreePatterns
  TODO_MIN_BRIGHTNESS_DIFF = 1
  NumBeacons = {1, 3}
  blobMoveThreshold = 1
  Dim = 2
  Bright = 4
  CalmScenes <- FarApart
  RoughScenes <- Crowded
  MaxMove = 1
INVARIANTS
  BlobsFollowed
  ClosestFirst
  IdentifiedRight
  RecognizedInTime
  IdentifiedOnEvidence
