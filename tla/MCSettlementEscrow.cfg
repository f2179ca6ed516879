SPECIFICATION Spec
CONSTANTS
    c1 = c1
    c2 = c2
    usdc = usdc
    alice = alice
    bob = bob
    Classes <- MCClasses
    TokenIds = {1, 2}
    Issuers = {bob}
    Buyers = {alice}
    Assets = {usdc}
    StrategyAsset = usdc
    Issuer <- MCIssuer
    Asset <- MCAsset
    Price <- MCPrice
    Payout <- MCPayout
    NoBuyer = NoBuyer
    MaxCollateral = 2
    MaxAssets = 4
    MaxMoney = 5
INVARIANT TypeOK
INVARIANT Solvent
INVARIANT ObligationCountsLive
INVARIANT EveryShareRedeemable
INVARIANT BackedWithoutStrategy
INVARIANT SurplusWithdrawable
PROPERTY OthersBackingKept
PROPERTY UnwindKeepsBacking
