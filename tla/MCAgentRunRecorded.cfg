CONSTANTS
  Null = Null
  Malformed = Malformed
  s0 = s0
  s1 = s1
  Meters <- MCMeters
  MaxSafe <- MCMaxSafe
  Subjects <- MCSubjects
  Configs <- MCConfigs
  Effects <- MCEffects
  PortUsages <- MCPortUsages
  Observations <- MCObservations
  LostEvidence <- MCLostEvidence
  Reports <- MCReports
  Cells = {"agent_cell", "executor_cell"}
  AtomicCells = {"agent_cell"}
  CellOf <- Separate
SPECIFICATION Spec
INVARIANT
  EveryDispatchRecorded
