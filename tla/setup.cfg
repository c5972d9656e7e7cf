CONSTANTS
  OwnData <- SmallData
  Roots <- ManyRoots
SPECIFICATION Spec
INVARIANTS
  ErrorsAreExact
  CleanIsBuildable
  HdkAsBuilt
  RecognizedAsItself
CHECK_DEADLOCK FALSE
