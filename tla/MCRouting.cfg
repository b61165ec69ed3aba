SPECIFICATION Spec
CONSTANTS
  m1 = m1
  e1 = e1
  e2 = e2
  env = env
  Models = {m1}
  Endpoints = {e1, e2}
  ModelOf <- AllOfOneModel
  Unbuildable = {}
  Keyless = {e2}
  EnvTargets = {env}
  Admins = {a1, a2}
  Requests = {r1}
  Documents <- EnvOrSaved
  StoresMayFail = TRUE
  MaxOps = 4
  MaxRacing = 3
SYMMETRY SameCalls
CHECK_DEADLOCK FALSE
INVARIANTS RoutingInSync SurvivorsServable HistoryFaithful
PROPERTY EnvNeverWiped
