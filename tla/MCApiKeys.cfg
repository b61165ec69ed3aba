SPECIFICATION Spec
CONSTANTS
  Ids = {k1}
  NoId = NoId
  Admins = {a1, a2}
  Validators = {v1}
  MaxSecrets = 3
  MaxUses = 1
  Backends <- MCBackends
  SqlMayFail = TRUE
INVARIANT RowsHonest
PROPERTIES RevocationHolds ImplementsContract
CHECK_DEADLOCK FALSE
SYMMETRY Alike
