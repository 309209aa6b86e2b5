SPECIFICATION FairSpec
CONSTANTS
  MaxFaults = 3
  MaxCrashes = 3
INVARIANTS
  ServedFromImage
  LoopReleased
PROPERTIES
  DataSurvives
  WholeImageServed
CHECK_DEADLOCK FALSE
