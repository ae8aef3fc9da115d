CONSTANTS
  Null = Null
  Names <- MCNames
  SystemPaths <- MCSystemPaths
  StateDirectory <- MCStateDirectory
  Requests <- MCAllRequests
  Endings <- MCEndings
  Profiles = {TRUE, FALSE}
SPECIFICATION Spec
CHECK_DEADLOCK FALSE
INVARIANTS
  ExecutionInvariant
  SuccessIsReal
  CollectsWhatWasWritten
PROPERTIES
  KeepsContract
