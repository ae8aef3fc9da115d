CONSTANTS
  Null = Null
  Stray = Stray
  Required = 2
  Arguments = {a, b}
  MaxRuns = 2
  Observations <- MCObservations
SYMMETRY MCSymmetry
SPECIFICATION Spec
CHECK_DEADLOCK FALSE
INVARIANTS
  HostInvariant
  ExecutedIsReal
  NoWriterAfterVerify
  
  AnsweredOnce
  StartsOnce
