CONSTANTS
  Null = Null
  Names <- MCNames
  SystemPaths <- MCSystemPaths
  StateDirectory <- MCStateDirectory
  Requests <- MCUsual
  Endings <- MCTwoEndings
  Profiles = {TRUE, FALSE}
SPECIFICATION FairSpec
CHECK_DEADLOCK FALSE
PROPERTY Returns
