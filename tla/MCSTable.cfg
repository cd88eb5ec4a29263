CONSTANTS
  t1 = t1
  t2 = t2
  a = a
  b = b
  UserThread = {t1, t2}
  Name = {a, b}
  SemVal <- InitialValues
  MAX_SEMAPHORE = 2
  MaxCalls = 3
SPECIFICATION TableSpec
CHECK_DEADLOCK FALSE
SYMMETRY Symmetry
INVARIANT STableInv
PROPERTY SemaphoresStay
PROPERTY ErrorMeansMissing
