------------------------- MODULE MCSettlementEscrow -------------------------
(* Two classes of one issuer that share the adapter, so that each can be   *)
(* the bystander of the other's calls.                                     *)
EXTENDS SettlementEscrow

CONSTANTS c1, c2, usdc, alice, bob

MCClasses == {c1, c2}
MCIssuer  == [c \in MCClasses |-> bob]
MCAsset   == [c \in MCClasses |-> usdc]
MCPrice   == [c \in MCClasses |-> 1]
MCPayout  == [c \in MCClasses |-> IF c = c1 THEN 1 ELSE 2]
=============================================================================
