SPECIFICATION ResaleSpec
CONSTANTS
    c1 = c1
    Classes = {c1}
    Accounts = {a1, a2}
    NoOne = NoOne
    NoClass = NoClass
    Hashes = {h1, h2}
    NoHash = NoHash
    validUntil <- MCValidUntil
    MaxTokens = 1
    MaxTime = 1
    MaxAttempts = 2
    Prices = {1, 2}
    Wealth = 2
CHECK_DEADLOCK FALSE
INVARIANTS
    VerdictMatchesState
    EvidenceOnlyForApproved
PROPERTIES
    
    MoneyMovesWithToken
