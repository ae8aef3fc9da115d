CONSTANTS
  Null = Null
  Stray = Stray
  Required = 1
  Arguments = {a}
  MaxRuns = 2
  Observations <- MCObservations
SPECIFICATION FairSpec
CHECK_DEADLOCK FALSE
PROPERTY Closes
