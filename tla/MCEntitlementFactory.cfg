SPECIFICATION FactorySpec
CONSTANTS
    c1 = c1
    bob = bob
    usdc = usdc
    Classes = {c1}
    NoClass = NoClass
    Accounts = {alice}
    NoOne = NoOne
    Issuers = {bob}
    Assets = {usdc}
    StrategyAsset = usdc
    validUntil <- MCValidUntil
    Issuer <- MCIssuer
    Asset <- MCAsset
    Price <- MCPrice
    Payout <- MCPayout
    InitialSupply <- MCInitialSupply
    MaxTokens = 2
    MaxTime = 2
    MaxSupply = 2
    MaxCollateral = 2
    MaxMoney = 0
    MaxAssets = 0
CHECK_DEADLOCK FALSE
INVARIANTS
    SalesAgree
    UnsettledUnitsBacked
PROPERTIES
    EscrowImplemented
