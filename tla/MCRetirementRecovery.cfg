SPECIFICATION LedgerSpec
CONSTANTS
  k1 = k1
  k2 = k2
  n1 = n1
  n2 = n2
  n3 = n3
  Keys = {k1, k2}
  Auths = {n1, n2, n3}
  Prices = {1, 2}
  perRetirementUsdc = 2
  dailyUsdc = 3
  Day = 1
  Validity = 1
  ExpiredOnly = FALSE
  MaxRecords = 4
  MaxTime = 2
SYMMETRY Interchangeable
INVARIANT AtMostOneRetirement
CHECK_DEADLOCK FALSE
