SPECIFICATION WindowSpec
CONSTANTS
  t1 = t1
  t2 = t2
  t3 = t3
  k1 = k1
  k2 = k2
  Callers = {t1, t2, t3}
  Keys = {k1, k2}
  MaxRequests = 2
  MaxKeys = 1
  MaxWindow = 2
SYMMETRY Symmetry
INVARIANT LimitUnlessSetBack
PROPERTY NoLostConsumption
