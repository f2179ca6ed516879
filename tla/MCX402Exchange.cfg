SPECIFICATION ExchangeSpec
CONSTANTS
  k1 = k1
  k2 = k2
  n1 = n1
  n2 = n2
  p1 = p1
  Keys = {k1, k2}
  Auths = {n1, n2}
  Prices = {1, 2}
  perRetirementUsdc = 2
  dailyUsdc = 3
  Day = 1
  Validity = 1
  ExpiredOnly = TRUE
  MaxRecords = 4
  MaxTime = 2
  Askers = {p1}
  Attempts = 2
SYMMETRY Interchangeable
INVARIANTS AtMostOneRetirement LiveAuthorizationOnRecord SettledIsSpent DailyCapHolds 
PROPERTY LedgerSpec
CHECK_DEADLOCK FALSE
