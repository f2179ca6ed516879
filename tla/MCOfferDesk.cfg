SPECIFICATION OffersFairSpec
CONSTANTS
  c1 = c1
  c2 = c2
  l1 = l1
  l2 = l2
  None = None
  Lane = "carbon"
  Classes = {c1}
  Own = {c1}
  Supply = 2
  Loads = {l1, l2}
  MaxMoves = 4
  MaxFailures = 1
INVARIANT ShownIsSaleable
PROPERTIES ListedStaysListed 
CHECK_DEADLOCK FALSE
