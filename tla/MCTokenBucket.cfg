SPECIFICATION Spec
CONSTANTS
  t1 = t1
  t2 = t2
  Threads = {t1, t2}
  Rate = 2
  Unit = 3
  Capacity = 2
  Costs = {1, 2}
  MaxTime = 7
SYMMETRY ThreadSymmetry
INVARIANTS NoDoubleCredit CreditWithinRate
PROPERTY ImplementsContract
