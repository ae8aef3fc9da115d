CONSTANTS
  Null = Null
  Malformed = Malformed
  s0 = s0
  s1 = s1
  Meters <- MCMeters
  MaxSafe = 6
  Subjects <- MCSubjects
  Effects <- MCEffects
  MaxGeneration = 2
  MaxAttempts = 2
SPECIFICATION FairSpec
INVARIANTS
  SessionInvariant
  NotDispatchedNeverWritten
  WrittenAtMostOnce
  NoFirstByteAfterDrift
  ExecutedUndisturbed
  ObservationsSeal
PROPERTIES
  Answered
