SPECIFICATION Spec
CONSTANTS
  None = None
  Unset = Unset
  Models = {m1}
  Endpoints = {e1}
  Admins = {a1, a2}
  Backends = {"sqlite", "postgres"}
  Ciphers = {"k1", "k2"}
  Creates <- MCCreates
  Updates <- MCUpdates
  LegacyRows <- MCLegacy
  Forbidden = {"inner"}
  MaxCalls = 4
  MaxBoots = 2
SYMMETRY Symmetry
INVARIANTS RowsSound LastWordHolds KeySurvives
CHECK_DEADLOCK FALSE
