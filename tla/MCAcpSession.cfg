CONSTANT MaxRequests = 2
SPECIFICATION FairSpec
INVARIANTS
  SessionInvariant
  ToldOnlyExecuted
  FinishHasNoOpenWork
  CancelStepExplicit
PROPERTIES
  ClaimsAttended
  Terminates
