-------------------------- MODULE EntitlementFactory --------------------------
(***************************************************************************)
(* Issuers, classes and sales                                              *)
(* (packages/contracts/src/EntitlementFactory.sol), composed with the two  *)
(* contracts only the factory may drive: it mints on ServiceEntitlement    *)
(* and registers classes and deposits with SettlementEscrow.  Three        *)
(* contracts count the same sales - the factory its minted units, the      *)
(* token its ids, the escrow its deposits and obligations - and nothing    *)
(* but the code of one function keeps them in step.                        *)
(*                                                                         *)
(* The review of a token is left to ActivationRegistry, and the adapter is *)
(* not wired: SettlementEscrow is checked with it on its own.              *)
(***************************************************************************)
EXTENDS ServiceEntitlement

CONSTANTS
    Issuers, Assets, StrategyAsset, Issuer, Asset, Price, Payout,
    MaxCollateral, MaxMoney, MaxAssets,     \* of the escrow
    InitialSupply,      \* maxSupply given to createClass
    MaxSupply           \* bound: supply an issuer may raise a class to

ASSUME FactoryAssumption ==
    /\ InitialSupply \in [Classes -> Nat \ {0}]
    /\ MaxSupply \in Nat

VARIABLES
    isRegisteredIssuer, \* set of issuers
    isPausedIssuer,     \* set of issuers
    created,            \* classes with an issuer in _classes
    minted,             \* units sold per class
    maxSupply,
    paused,             \* classes

    registered, collateral, obligation, strategyShares, collateralStrategy,
    deposits, claimable, balance,           \* of the escrow
    totalShares, totalAssets                \* of its adapter

factoryVars == <<isRegisteredIssuer, isPausedIssuer, created, minted, maxSupply, paused>>
moneyVars == <<registered, collateral, obligation, strategyShares, collateralStrategy,
               deposits, claimable, balance, totalShares, totalAssets>>

Escrow == INSTANCE SettlementEscrow WITH Buyers <- Accounts, NoBuyer <- NoOne

\* The terms of the classes, as the escrow takes them.
ASSUME TermsAssumption == Escrow!EscrowAssumption /\ Escrow!MaxAssetsAssumption

-----------------------------------------------------------------------------
FactoryInit ==
    /\ EntitlementInit
    /\ Escrow!Init
    /\ isRegisteredIssuer = {}
    /\ isPausedIssuer = {}
    /\ created = {}
    /\ minted = [c \in Classes |-> 0]
    /\ maxSupply = [c \in Classes |-> 0]
    /\ paused = {}

UnchangedOutside == UNCHANGED <<entitlementVars, moneyVars>>

\* registerIssuer by the admin, registerSelf by the issuer.
registerIssuer(i) ==
    /\ isRegisteredIssuer' = isRegisteredIssuer \union {i}
    /\ UNCHANGED <<isPausedIssuer, created, minted, maxSupply, paused>>
    /\ UnchangedOutside

\* The admin pauses an issuer or lifts the pause.
pauseIssuer(i) ==
    /\ i \in isRegisteredIssuer
    /\ isPausedIssuer' \in {isPausedIssuer \union {i}, isPausedIssuer \ {i}}
    /\ UNCHANGED <<isRegisteredIssuer, created, minted, maxSupply, paused>>
    /\ UnchangedOutside

\* The issuer of c offers it; registering as an issuer is part of it.
createClass(c) ==
    /\ Issuer[c] \notin isPausedIssuer
    /\ c \notin created
    /\ validUntil[c] > now
    /\ isRegisteredIssuer' = isRegisteredIssuer \union {Issuer[c]}
    /\ created' = created \union {c}
    /\ maxSupply' = [maxSupply EXCEPT ![c] = InitialSupply[c]]
    /\ UNCHANGED <<isPausedIssuer, minted, paused>>
    /\ Escrow!registerClass(c)
    /\ UNCHANGED entitlementVars

\* The class's issuer raises its supply; validity stays as sold.
increaseSupply(c, newMaxSupply) ==
    /\ c \in created
    /\ Issuer[c] \notin isPausedIssuer
    /\ newMaxSupply > maxSupply[c]
    /\ maxSupply' = [maxSupply EXCEPT ![c] = newMaxSupply]
    /\ UNCHANGED <<isRegisteredIssuer, isPausedIssuer, created, minted, paused>>
    /\ UnchangedOutside

\* The class's issuer pauses its sale or resumes it.
pauseClass(c) ==
    /\ c \in created
    /\ paused' \in {paused \union {c}, paused \ {c}}
    /\ UNCHANGED <<isRegisteredIssuer, isPausedIssuer, created, minted, maxSupply>>
    /\ UnchangedOutside

\* Mutant: one unit more than the supply.
SellOneMore(id, c, buyer, to) ==
    /\ c \in created
    /\ c \notin paused
    /\ Issuer[c] \notin isPausedIssuer
    /\ now <= validUntil[c]
    /\ minted[c] <= maxSupply[c]
    /\ minted' = [minted EXCEPT ![c] = @ + 1]
    /\ mint(id, c, to)
    /\ Escrow!recordMint(id, c, buyer)
    /\ UNCHANGED <<isRegisteredIssuer, isPausedIssuer, created, maxSupply, paused>>

\* The factory's mint: one sale, over three contracts.  The recipient's
\* onERC721Received runs between the token's mint and the escrow's recordMint;
\* what it may do there (move the token, submit it, post collateral) neither
\* reads nor writes what recordMint does except to help it succeed, so it is
\* the same as doing it just before or just after.
sell(id, c, buyer, to) ==
    /\ c \in created
    /\ c \notin paused
    /\ Issuer[c] \notin isPausedIssuer
    /\ now <= validUntil[c]
    /\ minted[c] < maxSupply[c]
    /\ minted' = [minted EXCEPT ![c] = @ + 1]
    /\ mint(id, c, to)
    /\ Escrow!recordMint(id, c, buyer)
    /\ UNCHANGED <<isRegisteredIssuer, isPausedIssuer, created, maxSupply, paused>>

-----------------------------------------------------------------------------
(* What others do to the two contracts.                                    *)

TokenGoesOn ==
    /\ \/ setClasses
       \/ Tick
       \/ \E id \in TokenIds :
            \/ \E to \in Accounts : transfer(id, to)
            \/ Review(id)
            \/ Progress(id)
    /\ UNCHANGED <<factoryVars, moneyVars>>

\* Issuers fund their classes and claim, the oracle settles.  The escrow asks
\* nothing of the token's state.
MoneyStep ==
    /\ \/ \E c \in Classes, amount \in 1 .. MaxCollateral :
            Escrow!postCollateral(c, amount) \/ Escrow!withdrawCollateral(c, amount)
       \/ \E id \in TokenIds : Escrow!releaseToIssuer(id) \/ Escrow!refundBuyer(id)
       \/ \E i \in Issuers, t \in Assets : Escrow!claim(i, t)
    /\ UNCHANGED <<factoryVars, entitlementVars>>

FactoryNext ==
    \/ TokenGoesOn
    \/ MoneyStep
    \/ \E i \in Issuers : registerIssuer(i) \/ pauseIssuer(i)
    \/ \E c \in Classes :
         \/ createClass(c)
         \/ \E newMaxSupply \in 1 .. MaxSupply : increaseSupply(c, newMaxSupply)
         \/ pauseClass(c)
         \/ \E id \in TokenIds, buyer \in Accounts, to \in Accounts :
              sell(id, c, buyer, to)

FactorySpec == FactoryInit /\ [][FactoryNext]_<<entitlementVars, factoryVars, moneyVars>>

-----------------------------------------------------------------------------
(* Properties                                                              *)

\* Type invariant: issuers, classes and units, beside the token's own and the
\* escrow's.
FactoryTypeOK ==
    /\ EntitlementTypeOK
    /\ Escrow!TypeOK
    /\ isRegisteredIssuer \subseteq Issuers
    /\ isPausedIssuer \subseteq isRegisteredIssuer
    /\ created \subseteq Classes
    /\ minted \in [Classes -> Nat]
    /\ maxSupply \in [Classes -> Nat]
    /\ paused \subseteq created

UnitsOf(c) == { id \in TokenIds : classOf[id] = c }

\* The three contracts agree on every sale: a token exists exactly when a
\* deposit was taken for it, in the same class, and the factory has counted it
\* against a supply it stays within; the factory and the escrow know the same
\* classes.
SalesAgree ==
    /\ \A id \in TokenIds :
         /\ stateOf[id] # "None" <=> deposits[id].buyer # NoOne
         /\ stateOf[id] # "None" => deposits[id].classId = classOf[id]
    /\ \A c \in Classes :
         /\ minted[c] = Cardinality(UnitsOf(c))
         /\ minted[c] <= maxSupply[c]
    /\ created = registered

\* No promise without backing, across the contracts: raw collateral covers the
\* payout of every unit of the class that has not been settled.
UnsettledUnitsBacked ==
    \A c \in Classes :
        collateral[c] >= Payout[c] * Cardinality({ id \in UnitsOf(c) :
                                                     ~deposits[id].settled })

\* The factory drives the escrow as the escrow's own specification assumes: it
\* never records a deposit twice under one token id and never sells a class the
\* escrow does not know.
EscrowImplemented == Escrow!Spec
=============================================================================
