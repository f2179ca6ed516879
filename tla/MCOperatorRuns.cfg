SPECIFICATION RunsFairSpec
CONSTANTS
    Works = {w1, w2}
    None = None
    Price = 1
    Collateral = 1
    Payout = 1
    Wealth = 3
    MaxTokens = 2
    MaxJobs = 2
    MaxFailures = 2
CHECK_DEADLOCK FALSE
INVARIANTS
    
    
    CompleteMeansSquare
    RetiredAsBound
PROPERTIES
    LeasedNeverClosed
    RunEnds
