------------------------ MODULE MCEntitlementFactory ------------------------
(* One class of one issuer that expires while the clock runs, and two units *)
(* of it to sell.                                                           *)
EXTENDS EntitlementFactory, TLC

CONSTANTS c1, bob, usdc

MCValidUntil    == (c1 :> 1)
MCIssuer        == (c1 :> bob)
MCAsset         == (c1 :> usdc)
MCPrice         == (c1 :> 1)
MCPayout        == (c1 :> 1)
MCInitialSupply == (c1 :> 1)
=============================================================================
