--------------------------- MODULE ReviewAndResale ---------------------------
(***************************************************************************)
(* One token, and the two contracts that act on it without knowing of each *)
(* other: the registry binds work to it and drives its review, the market  *)
(* sells it as long as it is unbound.  A listing outlives the submission   *)
(* of its token, a refusal puts a listed token back on sale, and a sale    *)
(* hands on the record of the last refused attempt.                        *)
(***************************************************************************)
EXTENDS ActivationRegistry, EntitlementMarket

resaleVars == <<entitlementVars, registryVars, marketVars>>

ResaleInit == RegistryInit /\ MarketInit

\* What happens to the token without either.
TokenAlone ==
    /\ \/ setClasses
       \/ Tick
       \/ \E id \in TokenIds :
            \/ \E c \in Classes, to \in Accounts : mint(id, c, to)
            \/ Progress(id)
    /\ UNCHANGED <<registryVars, marketVars>>

RegistryStep ==
    /\ \E id \in TokenIds :
         \/ \E caller \in Accounts, parcel \in Hashes : submitParcel(id, caller, parcel)
         \/ \E decision \in Hashes, verdict \in Verdicts :
              recordDecision(id, decision, verdict)
         \/ \E evidence \in Hashes : recordCarrier(id, evidence)
         \/ publishTracking(id)
    /\ UNCHANGED marketVars

MarketStep ==
    /\ \/ \E a \in Accounts : setApprovalForAll(a)
       \/ \E id \in TokenIds :
            \/ approve(id)
            \/ \E to \in Accounts : transferFrom(id, to)
            \/ \E a \in Accounts : cancel(id, a)
            \/ \E a \in Accounts, price \in Prices : list(id, a, price) \/ buy(id, a, price)
    /\ UNCHANGED registryVars

ResaleNext == TokenAlone \/ RegistryStep \/ MarketStep

ResaleSpec == ResaleInit /\ [][ResaleNext]_resaleVars

-----------------------------------------------------------------------------
\* Type invariant: the token, its activation record and its listing.
ResaleTypeOK == RegistryTypeOK /\ MarketTypeOK
=============================================================================
