SPECIFICATION FairSpec
CONSTANTS
  None = None
  r1 = r1
  r2 = r2
  Keys = {"e", "b"}
  Requests = {r1, r2}
  Asked <- MCAsked
  Configs <- MCConfigs
  Permits <- MCPermits
  Averages = {1, 99}
  Lookups <- MCLookups
  UpstreamOutcomes <- Executed
  ClientsMayDisconnect = TRUE
  FailureThreshold = 1
  RecoveryTimeout = 1
  HalfOpenMaxCalls = 1
INVARIANT FailoverExhaustive
PROPERTIES OpensOnlyOnOutage RequestsFinish
