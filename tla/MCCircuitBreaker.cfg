SPECIFICATION FairBreakerSpec
CONSTANTS
  c1 = c1
  c2 = c2
  c3 = c3
  Calls = {c1, c2, c3}
  CallersMayForget = TRUE
  FailureThreshold = 2
  RecoveryTimeout = 2
  HalfOpenMaxCalls = 2
INVARIANTS CountersConsistent AdmissionsAccounted
PROPERTIES ClosesOnlyOnSuccesses StuckOnlyIfForgotten
