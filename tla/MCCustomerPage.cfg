SPECIFICATION PageFairSpec
CONSTANTS
  o1 = o1
  o2 = o2
  t1 = t1
  t2 = t2
  r1 = r1
  r2 = r2
  a1 = a1
  a2 = a2
  None = None
  Orders = {o1}
  Tokens = {t1, t2}
  Works = {"w1"}
  Requests = {r1, r2}
  Auths = {a1, a2}
  Expiry = FALSE
  MaxFailures = 1
INVARIANT PaidOnce
PROPERTIES DepositSettles CustomerServed
CHECK_DEADLOCK FALSE
