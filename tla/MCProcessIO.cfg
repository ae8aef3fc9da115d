CONSTANTS
  Null = Null
  Limits <- MCLimits
  PipeSize = 2
SPECIFICATION FairSpec
CHECK_DEADLOCK FALSE
INVARIANTS
  CallInvariant
  UnstoppedIsComplete
PROPERTIES
  ReturnsUnlessFlooded
