CONSTANTS
  Null = Null
  Names <- MCNames
  SystemPaths <- MCSystemPaths
  StateDirectory <- MCStateDirectory
  Requests <- MCUsual
  Endings <- MCTwoEndings
  Profiles = {TRUE}
SPECIFICATION Spec
CHECK_DEADLOCK FALSE
INVARIANT CancellationKeepsStatus
