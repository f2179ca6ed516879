-------------------------- MODULE SettlementEscrow --------------------------
(***************************************************************************)
(* The contract that holds all the money                                   *)
(* (packages/contracts/src/SettlementEscrow.sol): issuer collateral per    *)
(* class, optionally invested in the Aave adapter; one deposit per sold    *)
(* entitlement; what released deposits let each issuer claim.              *)
(*                                                                         *)
(* Every external call of the contract is one action, because an EVM       *)
(* transaction is atomic and every one that calls out is nonReentrant.     *)
(* The terms a class was created with never change, so they are constants; *)
(* whether it has been registered is state.                                *)
(***************************************************************************)
EXTENDS AaveYieldAdapter, Totals

CONSTANTS
    Classes,            \* class identifiers
    TokenIds,           \* entitlement tokens the factory can mint
    Issuers,            \* accounts that issue classes
    Buyers,             \* accounts that buy entitlements
    Assets,             \* settlement tokens (ERC-20)
    StrategyAsset,      \* the asset of the one Aave adapter
    Issuer,             \* Issuer[c]: the account that created class c
    Asset,              \* Asset[c]: the settlement token of class c
    Price,              \* Price[c]: what a buyer pays per entitlement
    Payout,             \* Payout[c]: the obligation per outstanding unit
    NoBuyer,            \* address(0): no deposit under this token id
    MaxCollateral,      \* bound: the raw collateral up to which a class is funded
    MaxMoney            \* bound: the money in the system up to which interest accrues

ASSUME EscrowAssumption ==
    /\ IsFiniteSet(Classes) /\ IsFiniteSet(TokenIds)
    /\ IsFiniteSet(Issuers) /\ IsFiniteSet(Assets)
    /\ StrategyAsset \in Assets
    /\ Issuer \in [Classes -> Issuers]
    /\ Asset  \in [Classes -> Assets]
    /\ Price  \in [Classes -> Nat]
    /\ Payout \in [Classes -> Nat]
    /\ NoBuyer \notin Buyers
    /\ MaxCollateral \in Nat
    /\ MaxMoney \in Nat

VARIABLES
    registered,         \* classes with esc.registered
    collateral,         \* raw collateral per class
    obligation,         \* what the class owes over its outstanding units
    strategyShares,     \* adapter shares held for each class
    collateralStrategy, \* whether the adapter has been wired
    deposits,           \* one record per token id
    claimable,          \* released to each issuer, per asset
    balance             \* asset.balanceOf(escrow): what is really there

escrowVars == <<registered, collateral, obligation, strategyShares,
                collateralStrategy, deposits, claimable, balance>>
vars == <<adapterVars, escrowVars>>

Deposit == [classId : Classes, buyer : Buyers, amount : Nat, settled : BOOLEAN]

\* An untouched storage slot: buyer is the zero address.
NoDeposit == [buyer |-> NoBuyer]

-----------------------------------------------------------------------------
(* Derived state.                                                          *)

StrategyValue(c) ==
    IF collateralStrategy /\ strategyShares[c] # 0
    THEN previewRedeem(strategyShares[c]) ELSE 0

\* _backing: raw collateral plus the current value of the invested shares.
Backing(c) == collateral[c] + StrategyValue(c)

\* _liveDeposit: recorded and not settled.
Live(id) == deposits[id].buyer # NoBuyer /\ ~deposits[id].settled

LiveOf(c) == { id \in TokenIds : Live(id) /\ deposits[id].classId = c }

\* _dischargeObligation floors at zero.
Discharged(c) ==
    IF obligation[c] > Payout[c] THEN obligation[c] - Payout[c] ELSE 0

-----------------------------------------------------------------------------
Init ==
    /\ AdapterInit
    /\ registered = {}
    /\ collateral = [c \in Classes |-> 0]
    /\ obligation = [c \in Classes |-> 0]
    /\ strategyShares = [c \in Classes |-> 0]
    /\ collateralStrategy = FALSE
    /\ deposits = [id \in TokenIds |-> NoDeposit]
    /\ claimable = [p \in Issuers \X Assets |-> 0]
    /\ balance = [t \in Assets |-> 0]

(* Wiring and registration                                                 *)

\* The admin wires the adapter, once, at any time.
setCollateralStrategy ==
    /\ ~collateralStrategy
    /\ collateralStrategy' = TRUE
    /\ UNCHANGED <<adapterVars, registered, collateral, obligation,
                   strategyShares, deposits, claimable, balance>>

\* Called by the factory from createClass.
registerClass(c) ==
    /\ c \notin registered
    /\ registered' = registered \union {c}
    /\ UNCHANGED <<adapterVars, collateral, obligation, strategyShares,
                   collateralStrategy, deposits, claimable, balance>>

(* Collateral                                                              *)

\* Anyone may fund a class.
postCollateral(c, amount) ==
    /\ c \in registered
    /\ amount > 0
    /\ collateral[c] + amount <= MaxCollateral
    /\ collateral' = [collateral EXCEPT ![c] = @ + amount]
    /\ balance' = [balance EXCEPT ![Asset[c]] = @ + amount]
    /\ UNCHANGED <<adapterVars, registered, obligation, strategyShares,
                   collateralStrategy, deposits, claimable>>

\* The issuer moves raw collateral into the adapter.  Nothing here looks at
\* the obligation again.
investCollateral(c, amount) ==
    /\ c \in registered
    /\ amount > 0
    /\ collateralStrategy
    /\ Asset[c] = StrategyAsset
    /\ amount <= collateral[c]
    /\ amount <= balance[Asset[c]]
    /\ deposit(amount, previewDeposit(amount))
    /\ collateral' = [collateral EXCEPT ![c] = @ - amount]
    /\ strategyShares' = [strategyShares EXCEPT ![c] = @ + previewDeposit(amount)]
    /\ balance' = [balance EXCEPT ![Asset[c]] = @ - amount]
    /\ UNCHANGED <<registered, obligation, collateralStrategy, deposits, claimable>>

\* What withdrawCollateral checks before it moves anything.
MayWithdraw(c, amount) ==
    LET remaining == IF Backing(c) > amount THEN Backing(c) - amount ELSE 0
    IN  Backing(c) >= obligation[c] /\ remaining >= obligation[c]

\* Mutant: takes the backing check for a check of the raw collateral.
WithdrawRawUnchecked(c, amount) ==
    /\ amount <= balance[Asset[c]]
    /\ collateral' = [collateral EXCEPT ![c] = @ - amount]
    /\ balance' = [balance EXCEPT ![Asset[c]] = @ - amount]
    /\ UNCHANGED <<adapterVars, strategyShares>>

\* The raw collateral covers the amount: no share is redeemed.
WithdrawRaw(c, amount) ==
    /\ amount <= collateral[c]
    /\ amount <= balance[Asset[c]]
    /\ collateral' = [collateral EXCEPT ![c] = @ - amount]
    /\ balance' = [balance EXCEPT ![Asset[c]] = @ - amount]
    /\ UNCHANGED <<adapterVars, strategyShares>>

\* It does not: shares are redeemed for the shortfall, rounded up, and what
\* they pay beyond it stays as raw collateral.
WithdrawInvested(c, amount) ==
    LET shortfall == amount - collateral[c]
        shares    == previewWithdraw(shortfall)
        received  == previewRedeem(shares)
    IN  /\ collateral[c] < amount
        /\ collateralStrategy
        /\ totalAssets > 0 /\ totalShares > 0       \* AccountingInvariant
        /\ shares <= strategyShares[c]
        /\ redeem(shares, received)
        /\ collateral[c] + received >= amount       \* checked subtraction
        /\ balance[Asset[c]] + received >= amount
        /\ strategyShares' = [strategyShares EXCEPT ![c] = @ - shares]
        /\ collateral' = [collateral EXCEPT ![c] = @ + received - amount]
        /\ balance' = [balance EXCEPT ![Asset[c]] = @ + received - amount]

withdrawCollateral(c, amount) ==
    /\ c \in registered
    /\ amount > 0
    /\ MayWithdraw(c, amount)
    /\ WithdrawRaw(c, amount) \/ WithdrawInvested(c, amount)
    /\ UNCHANGED <<registered, obligation, collateralStrategy, deposits, claimable>>

(* Deposits                                                                *)

\* Mutant: checks the backing before counting the new unit.
RecordMintCheckedLate(id, c, buyer) ==
    /\ c \in registered
    /\ Backing(c) >= obligation[c]
    /\ obligation' = [obligation EXCEPT ![c] = @ + Payout[c]]
    /\ deposits' = [deposits EXCEPT ![id] =
            [classId |-> c, buyer |-> buyer, amount |-> Price[c], settled |-> FALSE]]
    /\ balance' = [balance EXCEPT ![Asset[c]] = @ + Price[c]]
    /\ UNCHANGED <<adapterVars, registered, collateral, strategyShares,
                   collateralStrategy, claimable>>

\* Called by the factory from mint, with the class's price.
recordMint(id, c, buyer) ==
    /\ c \in registered
    /\ Backing(c) >= obligation[c] + Payout[c]
    /\ obligation' = [obligation EXCEPT ![c] = @ + Payout[c]]
    /\ deposits' = [deposits EXCEPT ![id] =
            [classId |-> c, buyer |-> buyer, amount |-> Price[c], settled |-> FALSE]]
    /\ balance' = [balance EXCEPT ![Asset[c]] = @ + Price[c]]
    /\ UNCHANGED <<adapterVars, registered, collateral, strategyShares,
                   collateralStrategy, claimable>>

\* Mutant: the obligation is not discharged.
ReleaseStillOwing(id) ==
    /\ Live(id)
    /\ LET c == deposits[id].classId IN
         /\ deposits' = [deposits EXCEPT ![id].settled = TRUE]
         /\ claimable' = [claimable EXCEPT ![<<Issuer[c], Asset[c]>>] =
                              @ + deposits[id].amount]
    /\ UNCHANGED <<adapterVars, registered, collateral, strategyShares,
                   collateralStrategy, balance, obligation>>

\* The oracle pays the issuer.
releaseToIssuer(id) ==
    /\ Live(id)
    /\ LET c == deposits[id].classId IN
         /\ deposits' = [deposits EXCEPT ![id].settled = TRUE]
         /\ obligation' = [obligation EXCEPT ![c] = Discharged(c)]
         /\ claimable' = [claimable EXCEPT ![<<Issuer[c], Asset[c]>>] =
                              @ + deposits[id].amount]
    /\ UNCHANGED <<adapterVars, registered, collateral, strategyShares,
                   collateralStrategy, balance>>

\* Mutant: a settled deposit can be refunded as well.
RefundSettled(id) ==
    /\ deposits[id].buyer # NoBuyer
    /\ LET c == deposits[id].classId IN
         /\ deposits[id].amount <= balance[Asset[c]]
         /\ deposits' = [deposits EXCEPT ![id].settled = TRUE]
         /\ obligation' = [obligation EXCEPT ![c] = Discharged(c)]
         /\ balance' = [balance EXCEPT ![Asset[c]] = @ - deposits[id].amount]
    /\ UNCHANGED <<adapterVars, registered, collateral, strategyShares,
                   collateralStrategy, claimable>>

\* The oracle pays the buyer back.
refundBuyer(id) ==
    /\ Live(id)
    /\ LET c == deposits[id].classId IN
         /\ deposits[id].amount <= balance[Asset[c]]
         /\ deposits' = [deposits EXCEPT ![id].settled = TRUE]
         /\ obligation' = [obligation EXCEPT ![c] = Discharged(c)]
         /\ balance' = [balance EXCEPT ![Asset[c]] = @ - deposits[id].amount]
    /\ UNCHANGED <<adapterVars, registered, collateral, strategyShares,
                   collateralStrategy, claimable>>

\* An issuer takes everything released to it in one asset.
claim(i, t) ==
    /\ claimable[<<i, t>>] > 0
    /\ claimable[<<i, t>>] <= balance[t]
    /\ claimable' = [claimable EXCEPT ![<<i, t>>] = 0]
    /\ balance' = [balance EXCEPT ![t] = @ - claimable[<<i, t>>]]
    /\ UNCHANGED <<adapterVars, registered, collateral, obligation,
                   strategyShares, collateralStrategy, deposits>>

(* Emergency unwind                                                        *)

\* The redemptions of the named classes, one after the other.  place[c] is a
\* class's turn; when it comes, the adapter has already lost the shares and the
\* assets of the classes before it.
Before(c, named, place) == { d \in named : place[d] < place[c] }

\* Mutant: every class is paid from the same reading of the share supply.
UnwindPaysStale(c, named, place, received) ==
    AssetsForShares(strategyShares[c], totalShares,
                    totalAssets - Total(received, Before(c, named, place)))

UnwindPays(c, named, place, received) ==
    AssetsForShares(strategyShares[c],
                    totalShares - Total(strategyShares, Before(c, named, place)),
                    totalAssets - Total(received, Before(c, named, place)))

\* The admin redeems every share of the named classes.  The last check of the
\* contract reverts the whole transaction if a share is left in the adapter.
emergencyUnwindStrategy(named, place, received) ==
    /\ collateralStrategy
    /\ named \subseteq registered
    /\ \A c, d \in named : place[c] = place[d] => c = d
    /\ \A c \in named :
         /\ strategyShares[c] <= totalShares
                - Total(strategyShares, Before(c, named, place))  \* TooManyShares
         /\ received[c] = UnwindPays(c, named, place, received)
         /\ strategyShares[c] > 0 => received[c] > 0    \* AccountingInvariant
    /\ \A c \in Classes \ named : received[c] = 0
    /\ Total(received, Classes) <= totalAssets
    /\ totalShares' = totalShares - Total(strategyShares, named)
    /\ totalShares' = 0                                \* IncompleteStrategyUnwind
    /\ totalAssets' = totalAssets - Total(received, Classes)
    /\ strategyShares' = [c \in Classes |->
                              IF c \in named THEN 0 ELSE strategyShares[c]]
    /\ collateral' = [c \in Classes |-> collateral[c] + received[c]]
    /\ balance' = [balance EXCEPT ![StrategyAsset] = @ + Total(received, Classes)]
    /\ UNCHANGED <<registered, obligation, collateralStrategy, deposits, claimable>>

(* The environment                                                         *)

\* Interest accrues in the adapter.
Accrue ==
    /\ balance[StrategyAsset] + totalAssets < MaxMoney
    /\ AccrueYield
    /\ UNCHANGED escrowVars

\* The factory numbers tokens, so it never records the same id twice.
Fresh(id) == deposits[id].buyer = NoBuyer

Next ==
    \/ setCollateralStrategy
    \/ Accrue
    \/ \E c \in Classes :
         \/ registerClass(c)
         \/ \E amount \in 1 .. MaxCollateral : postCollateral(c, amount)
         \/ \E amount \in 1 .. MaxCollateral : investCollateral(c, amount)
         \/ \E amount \in 1 .. MaxCollateral + MaxAssets : withdrawCollateral(c, amount)
         \/ \E id \in TokenIds, buyer \in Buyers :
              Fresh(id) /\ recordMint(id, c, buyer)
    \/ \E id \in TokenIds : releaseToIssuer(id) \/ refundBuyer(id)
    \/ \E i \in Issuers, t \in Assets : claim(i, t)
    \/ \E named \in SUBSET Classes :
         \E place \in [named -> 1 .. Cardinality(named)] :
           \E received \in [Classes -> 0 .. totalAssets] :
             emergencyUnwindStrategy(named, place, received)

Spec == Init /\ [][Next]_vars

-----------------------------------------------------------------------------
(* Properties                                                              *)

\* Type invariant: every balance, obligation, share count and deposit of the
\* escrow has its type; in particular none is negative.
TypeOK ==
    /\ AdapterTypeOK
    /\ registered \subseteq Classes
    /\ collateral \in [Classes -> Nat]
    /\ obligation \in [Classes -> Nat]
    /\ strategyShares \in [Classes -> Nat]
    /\ collateralStrategy \in BOOLEAN
    /\ deposits \in [TokenIds -> Deposit \union {NoDeposit}]
    /\ claimable \in [Issuers \X Assets -> Nat]
    /\ balance \in [Assets -> Nat]

\* What the escrow owes in one asset: raw collateral to the classes, unsettled
\* deposits to whoever they are settled for, released money to the issuers.
ClassesIn(t) == { c \in Classes : Asset[c] = t }

HeldIn(t) ==
    [id \in TokenIds |->
        IF Live(id) /\ Asset[deposits[id].classId] = t
        THEN deposits[id].amount ELSE 0]

Owed(t) == Total(collateral, ClassesIn(t))
             + Total(HeldIn(t), TokenIds)
             + Total(claimable, Issuers \X {t})

\* The escrow can pay everybody at once: in each asset it holds the raw
\* collateral of every class, every unsettled deposit and everything that has
\* been released and not claimed.  A deposit paid twice, a release that is also
\* refunded, or collateral counted both here and in the adapter breaks it.
Solvent == \A t \in Assets : balance[t] >= Owed(t)

\* A class owes its payout once for every deposit that is still live: no mint
\* is missed, no settlement discharges twice, and the floor in
\* _dischargeObligation is never what keeps the number from going below zero.
ObligationCountsLive ==
    \A c \in Classes : obligation[c] = Payout[c] * Cardinality(LiveOf(c))

\* The shares the escrow credits to classes are the shares the adapter has
\* issued, so the classes with shares are exactly who an unwind must name.
SharesAccounted == Total(strategyShares, Classes) = totalShares

\* Collateral is only ever invested in the asset it was posted in.
InvestedInKind ==
    \A c \in Classes : strategyShares[c] > 0 => Asset[c] = StrategyAsset

\* The backing invariant of an escrow with no adapter, the one that is
\* deployed: every class holds at least what it owes.
BackedWithoutStrategy ==
    ~collateralStrategy => \A c \in Classes : Backing(c) >= obligation[c]

\* Whatever withdrawCollateral's backing check allows, the class has the shares
\* to pay: the surplus it reports can really be taken out.
SurplusWithdrawable ==
    \A c \in Classes : \A amount \in collateral[c] + 1 .. Backing(c) :
        MayWithdraw(c, amount)
          => previewWithdraw(amount - collateral[c]) <= strategyShares[c]

\* One class's calls never cost another class backing: if a step leaves a
\* class's own collateral and shares alone, its backing does not fall.
OthersBackingKept ==
    [][ \A c \in Classes :
          collateral'[c] = collateral[c] /\ strategyShares'[c] = strategyShares[c]
            => Backing(c)' >= Backing(c) ]_vars

\* An unwind returns to every class at least what its position was worth, in
\* whatever order the admin names the classes.
UnwindStep ==
    \E named \in SUBSET Classes :
      \E place \in [named -> 1 .. Cardinality(named)] :
        emergencyUnwindStrategy(named, place,
            [c \in Classes |-> collateral'[c] - collateral[c]])

UnwindKeepsBacking ==
    [][ UnwindStep => \A c \in Classes : Backing(c)' >= Backing(c) ]_vars

\* "Withdraw collateral down to - never below - outstanding obligations."  It can
\* end one unit below: the check compares what the position is worth before the
\* redemption, which then burns shares rounded up.
WithdrawNeverBelow ==
    [][ \A c \in Classes, amount \in 1 .. MaxCollateral + MaxAssets :
          withdrawCollateral(c, amount) => Backing(c)' >= obligation[c] ]_vars

=============================================================================
