----------------------- MODULE SettlementEscrow_proofs -----------------------
(***************************************************************************)
(* The accounting of the escrow, for any number of classes, tokens,        *)
(* issuers and assets, any terms and any amounts.  The inductive invariant *)
(* is built in layers, each of which uses the ones before it: types and    *)
(* the share ledger, then shares by class, then money, then obligations.   *)
(***************************************************************************)
EXTENDS SettlementEscrow, Totals_proofs

-----------------------------------------------------------------------------
(* The adapter by itself: which way every conversion of the share ledger   *)
(* rounds, for all amounts, and what follows for the ledger: it stays at   *)
(* or above par, every share can be redeemed, and the price of a share     *)
(* never falls.                                                            *)

\* Integer division as the two inequalities that define it.
LEMMA DivBounds ==
    ASSUME NEW a \in Nat, NEW b \in Nat \ {0}
    PROVE  /\ a \div b \in Nat
           /\ (a \div b) * b <= a
           /\ a < (a \div b) * b + b
OBVIOUS

\* The quotient is the largest number that fits.
LEMMA DivLargest ==
    ASSUME NEW a \in Nat, NEW b \in Nat \ {0}, NEW q \in Nat, q * b <= a
    PROVE  q <= a \div b
OBVIOUS

\* The quotient is at most any number that does not fit less than once.
LEMMA DivAtMost ==
    ASSUME NEW a \in Nat, NEW b \in Nat \ {0}, NEW q \in Nat, a < q * b + b
    PROVE  a \div b <= q
OBVIOUS

LEMMA TimesMono ==
    ASSUME NEW a \in Nat, NEW b \in Nat, NEW k \in Nat, a <= b
    PROVE  /\ a * k <= b * k
           /\ k * a <= k * b
           /\ a * k = k * a
           /\ a * k \in Nat
OBVIOUS

LEMMA TimesCancel ==
    ASSUME NEW a \in Nat, NEW b \in Nat, NEW k \in Nat \ {0}, a * k <= b * k
    PROVE  a <= b
OBVIOUS

\* previewDeposit never grants more shares than par.
LEMMA DepositRoundsDown ==
    ASSUME NEW assets \in Nat, NEW S \in Nat, NEW A \in Nat, A >= S,
           S > 0 => A > 0
    PROVE  LET shares == SharesForDeposit(assets, S, A) IN
           /\ shares \in Nat
           /\ shares <= assets
           /\ S > 0 => shares * A <= assets * S
<1>1. CASE S = 0
  BY <1>1 DEF SharesForDeposit
<1>2. CASE S > 0
  <2> DEFINE shares == (assets * S) \div A
  <2>1. assets * S \in Nat /\ A \in Nat \ {0}
    BY <1>2
  <2>2. shares \in Nat /\ shares * A <= assets * S
    BY <2>1, DivBounds
  <2>3. assets * S <= assets * A
    BY TimesMono
  <2>4. assets * A \in Nat /\ shares * A \in Nat
    BY <2>2
  <2>5. shares * A <= assets * A
    BY <2>1, <2>2, <2>3, <2>4
  <2>6. shares <= assets
    BY <2>1, <2>2, <2>5, TimesCancel
  <2>7. SharesForDeposit(assets, S, A) = shares
    BY <1>2 DEF SharesForDeposit
  <2>8. QED
    BY <2>2, <2>6, <2>7
<1>3. QED
  BY <1>1, <1>2

\* previewRedeem never pays more than the shares' part, and at least par.
LEMMA RedeemRoundsDown ==
    ASSUME NEW S \in Nat, NEW A \in Nat, A >= S,
           NEW shares \in Nat, shares <= S
    PROVE  LET assets == AssetsForShares(shares, S, A) IN
           /\ assets \in Nat
           /\ assets >= shares
           /\ assets <= A
           /\ assets * S <= shares * A
<1>1. CASE shares = 0
  BY <1>1 DEF AssetsForShares
<1>2. CASE shares > 0
  <2> DEFINE assets == (shares * A) \div S
  <2>1. shares * A \in Nat /\ S \in Nat \ {0} /\ A > 0
    BY <1>2
  <2>2. assets \in Nat /\ assets * S <= shares * A
    BY <2>1, DivBounds
  <2>3. shares * S <= shares * A /\ shares * A <= S * A
    BY TimesMono
  <2>4. assets >= shares
    BY <2>1, <2>3, DivLargest
  <2>5. S * A = A * S /\ A * S \in Nat /\ assets * S \in Nat
    BY <2>2
  <2>6. assets * S <= A * S
    BY <2>1, <2>2, <2>3, <2>5
  <2>7. assets <= A
    BY <2>1, <2>2, <2>6, TimesCancel
  <2>8. AssetsForShares(shares, S, A) = assets
    BY <1>2, <2>1 DEF AssetsForShares
  <2>9. QED
    BY <2>2, <2>4, <2>7, <2>8
<1>3. QED
  BY <1>1, <1>2

\* previewWithdraw quotes the fewest shares worth at least the assets.
LEMMA WithdrawRoundsUp ==
    ASSUME NEW S \in Nat \ {0}, NEW A \in Nat \ {0}, NEW assets \in Nat \ {0}
    PROVE  LET shares == SharesForAssets(assets, S, A) IN
           /\ shares \in Nat \ {0}
           /\ assets * S <= shares * A
           /\ \A n \in Nat : assets * S <= n * A => shares <= n
<1> DEFINE d == assets * S
           shares == (d + A - 1) \div A
<1>1. d \in Nat \ {0}
  OBVIOUS
<1> HIDE DEF d
<1>2. d + A - 1 \in Nat
  BY <1>1
<1>3. shares \in Nat /\ shares * A <= d + A - 1 /\ d + A - 1 < shares * A + A
  BY <1>2, DivBounds
<1>4. shares * A \in Nat
  BY <1>3
<1>5. d <= shares * A
  BY <1>1, <1>3, <1>4
<1>6. shares # 0
  BY <1>1, <1>5
<1>7. ASSUME NEW n \in Nat, d <= n * A PROVE shares <= n
  <2>1. n * A \in Nat
    OBVIOUS
  <2>2. d + A - 1 < n * A + A
    BY <1>1, <1>7, <2>1
  <2>3. QED
    BY <1>2, <2>2, DivAtMost
<1>8. SharesForAssets(assets, S, A) = shares
  BY DEF SharesForAssets, d
<1>9. QED
  BY <1>3, <1>5, <1>6, <1>7, <1>8 DEF d

\* If the price of a share does not fall, neither does the value of a holding.
LEMMA ValueFollowsPrice ==
    ASSUME NEW S \in Nat, NEW A \in Nat, NEW T \in Nat, NEW B \in Nat,
           A >= S, B >= T, B * S >= A * T,
           NEW shares \in Nat, shares <= S, shares <= T
    PROVE  AssetsForShares(shares, S, A) <= AssetsForShares(shares, T, B)
<1>1. CASE shares = 0
  BY <1>1 DEF AssetsForShares
<1>2. CASE shares > 0
  <2> DEFINE v == AssetsForShares(shares, S, A)
  <2>1. v \in Nat /\ v * S <= shares * A
    BY RedeemRoundsDown
  <2>2. S \in Nat \ {0} /\ T \in Nat \ {0} /\ B > 0
    BY <1>2
  <2> HIDE DEF v
  <2>3. (v * S) * T <= (shares * A) * T
    BY <2>1, <2>2, TimesMono
  <2>4. (shares * A) * T = shares * (A * T) /\ shares * (A * T) <= shares * (B * S)
    BY TimesMono
  <2>5. (v * S) * T = (v * T) * S /\ shares * (B * S) = (shares * B) * S
    BY <2>1
  <2>6. (v * T) * S <= (shares * B) * S
    <3>1. (v * S) * T \in Nat /\ (shares * A) * T \in Nat /\ shares * (B * S) \in Nat
      BY <2>1
    <3>2. QED
      BY <2>3, <2>4, <2>5, <3>1
  <2>7. v * T <= shares * B
    BY <2>1, <2>2, <2>6, TimesCancel
  <2>8. v <= (shares * B) \div T
    BY <2>1, <2>2, <2>7, DivLargest
  <2>9. QED
    BY <1>2, <2>2, <2>8 DEF AssetsForShares, v
<1>3. QED
  BY <1>1, <1>2

-----------------------------------------------------------------------------
(* The steps of the ledger, for the adapter's own specification and for    *)
(* the escrow's.                                                           *)

AdapterInv == AdapterTypeOK /\ AtOrAbovePar

\* If there are shares, their price after a step is at least the price before.
PriceKept ==
    totalShares > 0 => totalAssets' * totalShares >= totalAssets * totalShares'

LEMMA DepositStep ==
    ASSUME AdapterInv, NEW assets \in Nat, NEW shares, deposit(assets, shares)
    PROVE  AdapterInv' /\ PriceKept /\ shares \in Nat /\ shares = previewDeposit(assets)
<1> USE DEF AdapterInv, AdapterTypeOK, AtOrAbovePar
<1>1. /\ shares = SharesForDeposit(assets, totalShares, totalAssets)
      /\ shares > 0
      /\ totalShares > 0 => totalAssets > 0
      /\ totalShares' = totalShares + shares
      /\ totalAssets' = totalAssets + assets
  BY DEF deposit, previewDeposit, Accountable
<1>2. /\ shares \in Nat
      /\ shares <= assets
      /\ totalShares > 0 => shares * totalAssets <= assets * totalShares
  BY <1>1, DepositRoundsDown
<1>3. AdapterInv'
  BY <1>1, <1>2
<1>4. PriceKept
  BY <1>1, <1>2 DEF PriceKept
<1>5. QED
  BY <1>1, <1>2, <1>3, <1>4 DEF previewDeposit

LEMMA RedeemStep ==
    ASSUME AdapterInv, NEW shares \in Nat, NEW assets, redeem(shares, assets)
    PROVE  /\ AdapterInv' /\ PriceKept
           /\ assets \in Nat /\ assets = previewRedeem(shares)
<1> USE DEF AdapterInv, AdapterTypeOK, AtOrAbovePar
<1> DEFINE S == totalShares
           A == totalAssets
<1>1. /\ assets = AssetsForShares(shares, S, A)
      /\ shares <= S
      /\ totalShares' = S - shares
      /\ totalAssets' = A - assets
  BY DEF redeem, previewRedeem
<1>2. /\ assets \in Nat
      /\ assets <= A
      /\ assets * S <= shares * A
  BY <1>1, RedeemRoundsDown
<1>3. (A - assets) * S >= A * (S - shares)
  <2>1. (A - assets) * S = A * S - assets * S /\ A * (S - shares) = A * S - shares * A
    BY <1>2
  <2>2. assets * S \in Nat /\ shares * A \in Nat /\ A * S \in Nat
    BY <1>2
  <2>3. QED
    BY <1>2, <2>1, <2>2
<1>4. A - assets \in Nat /\ S - shares \in Nat
  BY <1>1, <1>2
<1>5. A - assets >= S - shares
  <2>1. CASE S = 0
    BY <1>4, <2>1, <1>1
  <2>2. CASE S > 0
    <3>1. (S - shares) * S <= (S - shares) * A
      BY <1>4, TimesMono
    <3>2. (S - shares) * A = A * (S - shares)
      BY <1>4
    <3>3. (S - shares) * S <= (A - assets) * S
      BY <1>3, <1>4, <3>1, <3>2
    <3>4. QED
      BY <1>4, <2>2, <3>3, TimesCancel
  <2>3. QED
    BY <2>1, <2>2
<1>6. QED
  BY <1>1, <1>2, <1>3, <1>4, <1>5 DEF PriceKept, previewRedeem

LEMMA AccrueStep ==
    ASSUME AdapterInv, AccrueYield
    PROVE  AdapterInv' /\ PriceKept
<1> USE DEF AdapterInv, AdapterTypeOK, AtOrAbovePar
<1>1. /\ totalShares' = totalShares
      /\ totalAssets' = totalAssets + 1
  BY DEF AccrueYield
<1>2. (totalAssets + 1) * totalShares >= totalAssets * totalShares
  OBVIOUS
<1>3. QED
  BY <1>1, <1>2 DEF PriceKept

-----------------------------------------------------------------------------
(* The adapter's own specification.                                        *)

LEMMA AdapterStep ==
    ASSUME AdapterInv, [AdapterNext]_adapterVars
    PROVE  AdapterInv' /\ PriceKept
<1>1. CASE \E assets \in 1 .. MaxAssets : deposit(assets, previewDeposit(assets))
  <2>1. PICK assets \in 1 .. MaxAssets : deposit(assets, previewDeposit(assets))
    BY <1>1
  <2>2. assets \in Nat
    BY MaxAssetsAssumption
  <2>3. QED
    BY <2>1, <2>2, DepositStep
<1>2. CASE \E shares \in 1 .. totalShares : redeem(shares, previewRedeem(shares))
  <2>1. PICK shares \in 1 .. totalShares : redeem(shares, previewRedeem(shares))
    BY <1>2
  <2>2. shares \in Nat
    BY DEF AdapterInv, AdapterTypeOK
  <2>3. QED
    BY <2>1, <2>2, RedeemStep
<1>3. CASE AccrueYield
  BY <1>3, AccrueStep
<1>4. CASE UNCHANGED adapterVars
  BY <1>4 DEF adapterVars, AdapterInv, AdapterTypeOK, AtOrAbovePar, PriceKept
<1>5. QED
  BY <1>1, <1>2, <1>3, <1>4 DEF AdapterNext

\* The ledger stays at or above par under every sequence of deposits,
\* redemptions and interest, for amounts of any size.
THEOREM AdapterAtOrAbovePar == AdapterSpec => [](AdapterTypeOK /\ AtOrAbovePar)
<1>1. AdapterInit => AdapterInv
  BY DEF AdapterInit, AdapterInv, AdapterTypeOK, AtOrAbovePar
<1>2. AdapterInv /\ [AdapterNext]_adapterVars => AdapterInv'
  BY AdapterStep
<1>3. AdapterInv => AdapterTypeOK /\ AtOrAbovePar
  BY DEF AdapterInv
<1>4. QED
  BY <1>1, <1>2, <1>3, PTL DEF AdapterSpec

\* Every redemption the ledger covers pays something and can be paid.
LEMMA RedeemableState ==
    ASSUME AdapterInv
    PROVE  EveryShareRedeemable
<1> SUFFICES ASSUME NEW shares \in 1 .. totalShares
             PROVE  previewRedeem(shares) \in 1 .. totalAssets
  BY DEF EveryShareRedeemable
<1> USE DEF AdapterInv, AdapterTypeOK, AtOrAbovePar
<1>1. shares \in Nat /\ shares <= totalShares /\ shares >= 1
  OBVIOUS
<1>2. /\ previewRedeem(shares) \in Nat
      /\ previewRedeem(shares) >= shares
      /\ previewRedeem(shares) <= totalAssets
  BY <1>1, RedeemRoundsDown DEF previewRedeem
<1>3. QED
  BY <1>1, <1>2

THEOREM AdapterEveryShareRedeemable == AdapterSpec => []EveryShareRedeemable
<1>1. AdapterInv => EveryShareRedeemable
  BY RedeemableState
<1>2. AdapterTypeOK /\ AtOrAbovePar => AdapterInv
  BY DEF AdapterInv
<1>3. QED
  BY <1>1, <1>2, AdapterAtOrAbovePar, PTL

\* The comment on previewWithdraw, for amounts of any size: the shares it
\* quotes redeem for at least the assets asked for.
LEMMA WithdrawCoversState ==
    ASSUME AdapterInv
    PROVE  WithdrawCoversRequest
<1> USE DEF AdapterInv, AdapterTypeOK, AtOrAbovePar
<1> SUFFICES ASSUME NEW assets \in 1 .. totalAssets,
                    previewWithdraw(assets) \in 1 .. totalShares
             PROVE  previewRedeem(previewWithdraw(assets)) >= assets
  BY DEF WithdrawCoversRequest
<1> DEFINE shares == previewWithdraw(assets)
<1>1. /\ totalShares \in Nat \ {0}
      /\ totalAssets \in Nat \ {0}
      /\ assets \in Nat \ {0}
  OBVIOUS
<1>2. assets * totalShares <= shares * totalAssets /\ shares \in Nat \ {0}
  BY <1>1, WithdrawRoundsUp DEF previewWithdraw
<1>3. assets <= (shares * totalAssets) \div totalShares
  <2> HIDE DEF shares
  <2>1. shares * totalAssets \in Nat
    BY <1>1, <1>2
  <2>2. QED
    BY <1>1, <1>2, <2>1, DivLargest
<1>4. previewRedeem(shares) = (shares * totalAssets) \div totalShares
  BY <1>1, <1>2 DEF previewRedeem, AssetsForShares
<1>5. previewRedeem(shares) \in Nat
  BY <1>1, <1>2, RedeemRoundsDown DEF previewRedeem
<1>6. QED
  BY <1>3, <1>4, <1>5

THEOREM AdapterWithdrawCovers == AdapterSpec => []WithdrawCoversRequest
<1>1. AdapterInv => WithdrawCoversRequest
  BY WithdrawCoversState
<1>2. AdapterTypeOK /\ AtOrAbovePar => AdapterInv
  BY DEF AdapterInv
<1>3. QED
  BY <1>1, <1>2, AdapterAtOrAbovePar, PTL

\* No call lowers the price of a share, whatever the amounts.
THEOREM AdapterPriceNeverFalls == AdapterSpec => SharePriceNeverFalls
<1> DEFINE Kept == totalShares > 0 /\ totalShares' > 0
                     => totalAssets' * totalShares >= totalAssets * totalShares'
<1>1. AdapterInv /\ [AdapterNext]_adapterVars => [Kept]_adapterVars
  BY AdapterStep DEF PriceKept
<1>2. AdapterTypeOK /\ AtOrAbovePar => AdapterInv
  BY DEF AdapterInv
<1>3. QED
  BY <1>1, <1>2, AdapterAtOrAbovePar, PTL DEF AdapterSpec, SharePriceNeverFalls

-----------------------------------------------------------------------------
(* Layer 1: every variable has its type, and the ledger is at par.         *)

Base == TypeOK /\ AtOrAbovePar

LEMMA BaseAdapter ==
    Base <=> /\ AdapterInv
             /\ registered \subseteq Classes
             /\ collateral \in [Classes -> Nat]
             /\ obligation \in [Classes -> Nat]
             /\ strategyShares \in [Classes -> Nat]
             /\ collateralStrategy \in BOOLEAN
             /\ deposits \in [TokenIds -> Deposit \union {NoDeposit}]
             /\ claimable \in [Issuers \X Assets -> Nat]
             /\ balance \in [Assets -> Nat]
BY DEF Base, TypeOK, AdapterInv

\* A live deposit is a full record.
LEMMA LiveDeposit ==
    ASSUME Base, NEW id \in TokenIds, Live(id)
    PROVE  /\ deposits[id] \in Deposit
           /\ deposits[id].classId \in Classes
           /\ deposits[id].amount \in Nat
           /\ deposits[id].settled = FALSE
<1>1. deposits[id] \in Deposit \union {NoDeposit}
  BY DEF Base, TypeOK
<1>2. deposits[id] # NoDeposit
  BY DEF Live, NoDeposit
<1>3. deposits[id] \in Deposit
  BY <1>1, <1>2
<1>4. QED
  BY <1>3 DEF Deposit, Live

LEMMA TermsType ==
    ASSUME NEW c \in Classes
    PROVE  /\ Asset[c] \in Assets /\ Issuer[c] \in Issuers
           /\ Price[c] \in Nat /\ Payout[c] \in Nat
BY EscrowAssumption

LEMMA InvestBase ==
    ASSUME Base, NEW c \in Classes, NEW amount \in Nat, investCollateral(c, amount)
    PROVE  Base' /\ previewDeposit(amount) \in Nat
<1>1. AdapterInv' /\ previewDeposit(amount) \in Nat
  BY BaseAdapter, DepositStep DEF investCollateral
<1>2. /\ collateral' = [collateral EXCEPT ![c] = @ - amount]
      /\ strategyShares' = [strategyShares EXCEPT ![c] = @ + previewDeposit(amount)]
      /\ balance' = [balance EXCEPT ![Asset[c]] = @ - amount]
      /\ amount <= collateral[c]
      /\ amount <= balance[Asset[c]]
      /\ UNCHANGED <<registered, obligation, collateralStrategy, deposits, claimable>>
  BY DEF investCollateral
<1> HIDE DEF Base
<1>3. QED
  <2>1. /\ collateral' \in [Classes -> Nat]
        /\ strategyShares' \in [Classes -> Nat]
        /\ balance' \in [Assets -> Nat]
    BY <1>1, <1>2, BaseAdapter, TermsType
  <2>2. QED
    BY <1>1, <1>2, <2>1, BaseAdapter DEF Base, TypeOK, AdapterInv

\* Shares quoted for a positive amount are a natural number, and what they
\* redeem for is at least the amount.
LEMMA QuoteType ==
    ASSUME Base, NEW assets \in Nat \ {0}, totalShares > 0, totalAssets > 0
    PROVE  previewWithdraw(assets) \in Nat \ {0}
<1>1. totalShares \in Nat \ {0} /\ totalAssets \in Nat \ {0}
  BY BaseAdapter DEF AdapterInv, AdapterTypeOK
<1>2. QED
  BY <1>1, WithdrawRoundsUp DEF previewWithdraw

LEMMA WithdrawBase ==
    ASSUME Base, NEW c \in Classes, NEW amount \in Nat, withdrawCollateral(c, amount)
    PROVE  Base'
<1> USE BaseAdapter, TermsType
<1>1. CASE WithdrawRaw(c, amount)
  <2>1. /\ collateral' \in [Classes -> Nat]
        /\ balance' \in [Assets -> Nat]
    BY <1>1 DEF WithdrawRaw
  <2>2. QED
    BY <1>1, <2>1 DEF WithdrawRaw, withdrawCollateral, adapterVars, Base, TypeOK,
                      AdapterTypeOK, AtOrAbovePar
<1>2. CASE WithdrawInvested(c, amount)
  <2> DEFINE shares == previewWithdraw(amount - collateral[c])
             received == previewRedeem(shares)
  <2>1. amount - collateral[c] \in Nat \ {0}
    BY <1>2 DEF WithdrawInvested
  <2>2. shares \in Nat
    BY <1>2, <2>1, QuoteType DEF WithdrawInvested
  <2>3. /\ redeem(shares, received)
        /\ shares <= strategyShares[c]
        /\ collateral[c] + received >= amount
        /\ balance[Asset[c]] + received >= amount
        /\ strategyShares' = [strategyShares EXCEPT ![c] = @ - shares]
        /\ collateral' = [collateral EXCEPT ![c] = @ + received - amount]
        /\ balance' = [balance EXCEPT ![Asset[c]] = @ + received - amount]
    BY <1>2 DEF WithdrawInvested
  <2> HIDE DEF shares, received
  <2>4. AdapterInv' /\ received \in Nat
    BY <2>2, <2>3, RedeemStep
  <2>5. /\ collateral' \in [Classes -> Nat]
        /\ strategyShares' \in [Classes -> Nat]
        /\ balance' \in [Assets -> Nat]
    BY <2>2, <2>3, <2>4
  <2>6. QED
    BY <2>4, <2>5 DEF withdrawCollateral, Base, TypeOK, AdapterInv
<1>3. QED
  BY <1>1, <1>2 DEF withdrawCollateral

LEMMA SettleBase ==
    ASSUME Base, NEW id \in TokenIds, releaseToIssuer(id) \/ refundBuyer(id)
    PROVE  Base'
<1> DEFINE c == deposits[id].classId
<1>1. Live(id)
  BY DEF releaseToIssuer, refundBuyer
<1>2. /\ deposits[id] \in Deposit /\ c \in Classes
      /\ deposits[id].amount \in Nat
  BY <1>1, LiveDeposit
<1>3. /\ deposits' = [deposits EXCEPT ![id].settled = TRUE]
      /\ obligation' = [obligation EXCEPT ![c] = Discharged(c)]
      /\ UNCHANGED <<adapterVars, registered, collateral, strategyShares,
                     collateralStrategy>>
  BY DEF releaseToIssuer, refundBuyer
<1>4. [deposits[id] EXCEPT !.settled = TRUE] \in Deposit
  BY <1>2 DEF Deposit
<1>5. deposits' \in [TokenIds -> Deposit \union {NoDeposit}]
  BY <1>3, <1>4, BaseAdapter
<1>6. obligation' \in [Classes -> Nat]
  BY <1>2, <1>3, BaseAdapter, TermsType DEF Discharged
<1>7. /\ claimable' \in [Issuers \X Assets -> Nat]
      /\ balance' \in [Assets -> Nat]
  <2>1. <<Issuer[c], Asset[c]>> \in Issuers \X Assets
    BY <1>2, TermsType
  <2>2. CASE releaseToIssuer(id)
    BY <1>2, <2>1, <2>2, BaseAdapter DEF releaseToIssuer
  <2>3. CASE refundBuyer(id)
    BY <1>2, <2>1, <2>3, BaseAdapter, TermsType DEF refundBuyer
  <2>4. QED
    BY <2>2, <2>3
<1>8. QED
  BY <1>3, <1>5, <1>6, <1>7, BaseAdapter
     DEF adapterVars, Base, TypeOK, AdapterTypeOK, AtOrAbovePar

LEMMA MintBase ==
    ASSUME Base, NEW id \in TokenIds, NEW c \in Classes, NEW buyer \in Buyers,
           recordMint(id, c, buyer)
    PROVE  Base'
<1> DEFINE new == [classId |-> c, buyer |-> buyer, amount |-> Price[c], settled |-> FALSE]
<1>1. new \in Deposit
  BY TermsType DEF Deposit
<1>2. /\ deposits' = [deposits EXCEPT ![id] = new]
      /\ obligation' = [obligation EXCEPT ![c] = @ + Payout[c]]
      /\ balance' = [balance EXCEPT ![Asset[c]] = @ + Price[c]]
      /\ UNCHANGED <<adapterVars, registered, collateral, strategyShares,
                     collateralStrategy, claimable>>
  BY DEF recordMint
<1> HIDE DEF new
<1>3. /\ deposits' \in [TokenIds -> Deposit \union {NoDeposit}]
      /\ obligation' \in [Classes -> Nat]
      /\ balance' \in [Assets -> Nat]
  BY <1>1, <1>2, BaseAdapter, TermsType
<1>4. QED
  BY <1>2, <1>3, BaseAdapter
     DEF adapterVars, Base, TypeOK, AdapterTypeOK, AtOrAbovePar

LEMMA ClaimBase ==
    ASSUME Base, NEW i \in Issuers, NEW t \in Assets, claim(i, t)
    PROVE  Base'
<1>1. <<i, t>> \in Issuers \X Assets
  OBVIOUS
<1>2. /\ claimable' \in [Issuers \X Assets -> Nat]
      /\ balance' \in [Assets -> Nat]
  BY <1>1, BaseAdapter DEF claim
<1>3. QED
  BY <1>2, BaseAdapter
     DEF claim, adapterVars, Base, TypeOK, AdapterTypeOK, AtOrAbovePar

LEMMA UnwindBase ==
    ASSUME Base, NEW named \in SUBSET Classes, NEW place,
           NEW received \in [Classes -> 0 .. totalAssets],
           emergencyUnwindStrategy(named, place, received)
    PROVE  Base'
<1>1. /\ received \in [Classes -> Nat]
      /\ Total(received, Classes) \in Nat
  <2>1. totalAssets \in Nat
    BY BaseAdapter DEF AdapterInv, AdapterTypeOK
  <2>2. \A c \in Classes : received[c] \in Nat
    BY <2>1
  <2>3. QED
    BY <2>2, TotalType, EscrowAssumption
<1>2. /\ collateral' \in [Classes -> Nat]
      /\ strategyShares' \in [Classes -> Nat]
      /\ balance' \in [Assets -> Nat]
  BY <1>1, BaseAdapter, EscrowAssumption DEF emergencyUnwindStrategy
<1>3. totalShares' = 0 /\ totalAssets' \in Nat
  BY <1>1, BaseAdapter DEF emergencyUnwindStrategy, AdapterInv, AdapterTypeOK
<1>4. QED
  BY <1>2, <1>3, BaseAdapter
     DEF emergencyUnwindStrategy, Base, TypeOK, AdapterTypeOK, AtOrAbovePar

\* The steps that are neither a settlement nor a movement of collateral.
LEMMA OtherBase ==
    ASSUME Base,
           \/ setCollateralStrategy
           \/ \E c \in Classes : registerClass(c)
           \/ \E c \in Classes, amount \in Nat : postCollateral(c, amount)
           \/ Accrue
           \/ UNCHANGED vars
    PROVE  Base'
<1>1. CASE setCollateralStrategy
  BY <1>1, BaseAdapter
     DEF setCollateralStrategy, adapterVars, Base, TypeOK, AdapterTypeOK, AtOrAbovePar
<1>2. ASSUME NEW c \in Classes, registerClass(c) PROVE Base'
  BY <1>2, BaseAdapter
     DEF registerClass, adapterVars, Base, TypeOK, AdapterTypeOK, AtOrAbovePar
<1>3. ASSUME NEW c \in Classes, NEW amount \in Nat, postCollateral(c, amount)
      PROVE  Base'
  <2>1. collateral' \in [Classes -> Nat] /\ balance' \in [Assets -> Nat]
    BY <1>3, BaseAdapter, TermsType DEF postCollateral
  <2>2. QED
    BY <1>3, <2>1, BaseAdapter
       DEF postCollateral, adapterVars, Base, TypeOK, AdapterTypeOK, AtOrAbovePar
<1>4. CASE Accrue
  <2>1. AdapterInv' /\ UNCHANGED escrowVars
    BY <1>4, BaseAdapter, AccrueStep DEF Accrue
  <2>2. QED
    BY <2>1, BaseAdapter DEF escrowVars, Base, TypeOK, AdapterInv
<1>5. CASE UNCHANGED vars
  BY <1>5 DEF vars, adapterVars, escrowVars, Base, TypeOK, AdapterTypeOK, AtOrAbovePar,
              Deposit
<1>6. QED
  BY <1>1, <1>2, <1>3, <1>4, <1>5

\* What a step is, with the amounts of any size: the case split that every
\* layer of the invariant goes through.
LEMMA StepCases ==
    ASSUME [Next]_vars
    PROVE  \/ \/ setCollateralStrategy
              \/ \E c \in Classes : registerClass(c)
              \/ \E c \in Classes, amount \in Nat : postCollateral(c, amount)
              \/ Accrue
              \/ UNCHANGED vars
           \/ \E c \in Classes, amount \in Nat : investCollateral(c, amount)
           \/ \E c \in Classes, amount \in Nat : withdrawCollateral(c, amount)
           \/ \E id \in TokenIds, c \in Classes, buyer \in Buyers :
                Fresh(id) /\ recordMint(id, c, buyer)
           \/ \E id \in TokenIds : releaseToIssuer(id)
           \/ \E id \in TokenIds : refundBuyer(id)
           \/ \E i \in Issuers, t \in Assets : claim(i, t)
           \/ \E named \in SUBSET Classes :
                \E place \in [named -> 1 .. Cardinality(named)] :
                  \E received \in [Classes -> 0 .. totalAssets] :
                    emergencyUnwindStrategy(named, place, received)
<1>1. 1 .. MaxCollateral \subseteq Nat /\ 1 .. MaxCollateral + MaxAssets \subseteq Nat
  BY EscrowAssumption, MaxAssetsAssumption
<1>2. QED
  BY <1>1, Zenon DEF Next

LEMMA BaseStep == ASSUME Base, [Next]_vars PROVE Base'
BY StepCases, OtherBase, InvestBase, WithdrawBase, MintBase, SettleBase, ClaimBase,
   UnwindBase, Zenon

LEMMA BaseInit == ASSUME Init PROVE Base
<1> USE DEF Init
<1>1. AdapterTypeOK /\ AtOrAbovePar
  BY DEF AdapterInit, AdapterTypeOK, AtOrAbovePar
<1>2. /\ registered \subseteq Classes
      /\ collateral \in [Classes -> Nat]
      /\ obligation \in [Classes -> Nat]
      /\ strategyShares \in [Classes -> Nat]
      /\ collateralStrategy \in BOOLEAN
      /\ balance \in [Assets -> Nat]
  OBVIOUS
<1>3. deposits \in [TokenIds -> Deposit \union {NoDeposit}]
  OBVIOUS
<1>4. claimable \in [Issuers \X Assets -> Nat]
  OBVIOUS
<1>5. QED
  BY <1>1, <1>2, <1>3, <1>4, Zenon DEF Base, TypeOK

\* Type correctness of the whole contract and its adapter: no amount ever goes
\* negative and no record is half written, for every value of the constants.
THEOREM TypeCorrect == Spec => []TypeOK
<1>1. Init => Base
  BY BaseInit
<1>2. Base /\ [Next]_vars => Base'
  BY BaseStep
<1>3. Base => TypeOK
  BY DEF Base
<1>4. QED
  BY <1>1, <1>2, <1>3, PTL DEF Spec

-----------------------------------------------------------------------------
(* Layer 2: the shares credited to classes are the shares the adapter has  *)
(* issued, and only classes in the adapter's asset have any.               *)

Shares == Base /\ SharesAccounted /\ InvestedInKind

\* Crediting or debiting one class moves the sum by as much.
LEMMA ShareUpdate ==
    ASSUME Base, NEW c \in Classes, NEW n \in Nat,
           strategyShares' = [strategyShares EXCEPT ![c] = n]
    PROVE  Total(strategyShares', Classes)
             = Total(strategyShares, Classes) - strategyShares[c] + n
<1> DEFINE f == strategyShares
           g == strategyShares'
<1>1. /\ \A x \in Classes : f[x] \in Nat
      /\ \A x \in Classes : g[x] \in Nat
      /\ \A x \in Classes \ {c} : g[x] = f[x]
      /\ g[c] = n
      /\ IsFiniteSet(Classes)
  BY BaseAdapter, EscrowAssumption
<1> HIDE DEF f, g
<1>2. Total(g, Classes) = Total(f, Classes) - f[c] + g[c]
  BY <1>1, TotalUpdate
<1>3. QED
  BY <1>1, <1>2 DEF f, g

LEMMA InvestShares ==
    ASSUME Shares, NEW c \in Classes, NEW amount \in Nat, investCollateral(c, amount)
    PROVE  SharesAccounted' /\ InvestedInKind'
<1> DEFINE k == previewDeposit(amount)
<1>1. Base /\ strategyShares \in [Classes -> Nat] /\ totalShares \in Nat
  BY BaseAdapter DEF Shares, AdapterInv, AdapterTypeOK
<1>2. k \in Nat
  BY <1>1, InvestBase
<1>3. /\ strategyShares' = [strategyShares EXCEPT ![c] = strategyShares[c] + k]
      /\ totalShares' = totalShares + k
      /\ Asset[c] = StrategyAsset
  BY DEF investCollateral, deposit
<1> HIDE DEF k
<1>4. Total(strategyShares', Classes)
        = Total(strategyShares, Classes) - strategyShares[c] + (strategyShares[c] + k)
  <2>1. strategyShares[c] + k \in Nat
    BY <1>1, <1>2
  <2>2. QED
    BY <1>1, <1>3, <2>1, ShareUpdate
<1>5. SharesAccounted'
  BY <1>1, <1>2, <1>3, <1>4 DEF Shares, SharesAccounted
<1>6. InvestedInKind'
  BY <1>1, <1>3 DEF Shares, InvestedInKind
<1>7. QED
  BY <1>5, <1>6

LEMMA WithdrawShares ==
    ASSUME Shares, NEW c \in Classes, NEW amount \in Nat, withdrawCollateral(c, amount)
    PROVE  SharesAccounted' /\ InvestedInKind'
<1>1. Base /\ strategyShares \in [Classes -> Nat] /\ totalShares \in Nat
  BY BaseAdapter DEF Shares, AdapterInv, AdapterTypeOK
<1>2. CASE WithdrawRaw(c, amount)
  BY <1>2 DEF WithdrawRaw, adapterVars, Shares, SharesAccounted, InvestedInKind
<1>3. CASE WithdrawInvested(c, amount)
  <2> DEFINE k == previewWithdraw(amount - collateral[c])
  <2>1. amount - collateral[c] \in Nat \ {0}
    BY <1>1, <1>3, BaseAdapter DEF WithdrawInvested
  <2>2. k \in Nat
    BY <1>1, <1>3, <2>1, QuoteType DEF WithdrawInvested
  <2>3. /\ strategyShares' = [strategyShares EXCEPT ![c] = strategyShares[c] - k]
        /\ totalShares' = totalShares - k
        /\ k <= strategyShares[c]
    BY <1>3 DEF WithdrawInvested, redeem
  <2> HIDE DEF k
  <2>4. strategyShares[c] - k \in Nat
    BY <1>1, <2>2, <2>3
  <2>5. Total(strategyShares', Classes)
          = Total(strategyShares, Classes) - strategyShares[c] + (strategyShares[c] - k)
    BY <1>1, <2>3, <2>4, ShareUpdate
  <2>6. SharesAccounted'
    BY <1>1, <2>2, <2>3, <2>5 DEF Shares, SharesAccounted
  <2>7. InvestedInKind'
    BY <1>1, <2>2, <2>3 DEF Shares, InvestedInKind
  <2>8. QED
    BY <2>6, <2>7
<1>4. QED
  BY <1>2, <1>3 DEF withdrawCollateral

LEMMA UnwindShares ==
    ASSUME Shares, NEW named \in SUBSET Classes, NEW place,
           NEW received \in [Classes -> 0 .. totalAssets],
           emergencyUnwindStrategy(named, place, received)
    PROVE  SharesAccounted' /\ InvestedInKind'
<1> DEFINE gone == [c \in Classes |-> IF c \in named THEN strategyShares[c] ELSE 0]
<1>1. Base /\ strategyShares \in [Classes -> Nat] /\ IsFiniteSet(Classes)
  BY BaseAdapter, EscrowAssumption DEF Shares
<1>2. /\ strategyShares' = [c \in Classes |->
                               IF c \in named THEN 0 ELSE strategyShares[c]]
      /\ totalShares' = totalShares - Total(strategyShares, named)
  BY DEF emergencyUnwindStrategy
<1>3. /\ \A c \in Classes : strategyShares'[c] \in Nat
      /\ \A c \in Classes : gone[c] \in Nat
      /\ \A c \in Classes : strategyShares[c] = strategyShares'[c] + gone[c]
  BY <1>1, <1>2
<1>4. Total(strategyShares, Classes) = Total(strategyShares', Classes) + Total(gone, Classes)
  BY <1>1, <1>3, TotalAdd
<1>5. Total(gone, Classes) = Total(gone, named)
  <2>1. \A c \in Classes \ named : gone[c] = 0
    OBVIOUS
  <2>2. QED
    BY <2>1, TotalRestrict
<1>6. Total(gone, named) = Total(strategyShares, named)
  <2>1. \A c \in named : gone[c] = strategyShares[c]
    OBVIOUS
  <2>2. QED
    BY <2>1, TotalSame
<1>7. /\ Total(strategyShares', Classes) \in Nat
      /\ Total(gone, Classes) \in Nat
  BY <1>1, <1>3, TotalType
<1>8. SharesAccounted'
  BY <1>2, <1>4, <1>5, <1>6, <1>7 DEF Shares, SharesAccounted
<1>9. InvestedInKind'
  BY <1>1, <1>2 DEF Shares, InvestedInKind
<1>10. QED
  BY <1>8, <1>9

\* Every other step leaves the shares and their supply alone.
LEMMA SharesUntouched ==
    ASSUME Shares, strategyShares' = strategyShares, totalShares' = totalShares
    PROVE  SharesAccounted' /\ InvestedInKind'
BY DEF Shares, SharesAccounted, InvestedInKind

LEMMA SharesStep == ASSUME Shares, [Next]_vars PROVE Shares'
<1>1. Base'
  BY BaseStep DEF Shares
<1>2. CASE \/ setCollateralStrategy
           \/ \E c \in Classes : registerClass(c)
           \/ \E c \in Classes, amount \in Nat : postCollateral(c, amount)
           \/ Accrue
           \/ UNCHANGED vars
  <2>1. strategyShares' = strategyShares /\ totalShares' = totalShares
    BY <1>2 DEF setCollateralStrategy, registerClass, postCollateral, Accrue, AccrueYield,
                vars, adapterVars, escrowVars
  <2>2. QED
    BY <1>1, <2>1, SharesUntouched DEF Shares
<1>3. CASE \/ \E id \in TokenIds, c \in Classes, buyer \in Buyers :
                Fresh(id) /\ recordMint(id, c, buyer)
           \/ \E id \in TokenIds : releaseToIssuer(id)
           \/ \E id \in TokenIds : refundBuyer(id)
           \/ \E i \in Issuers, t \in Assets : claim(i, t)
  <2>1. strategyShares' = strategyShares /\ totalShares' = totalShares
    BY <1>3 DEF recordMint, releaseToIssuer, refundBuyer, claim, adapterVars
  <2>2. QED
    BY <1>1, <2>1, SharesUntouched DEF Shares
<1>4. CASE \E c \in Classes, amount \in Nat : investCollateral(c, amount)
  BY <1>1, <1>4, InvestShares DEF Shares
<1>5. CASE \E c \in Classes, amount \in Nat : withdrawCollateral(c, amount)
  BY <1>1, <1>5, WithdrawShares DEF Shares
<1>6. CASE \E named \in SUBSET Classes :
             \E place \in [named -> 1 .. Cardinality(named)] :
               \E received \in [Classes -> 0 .. totalAssets] :
                 emergencyUnwindStrategy(named, place, received)
  BY <1>1, <1>6, UnwindShares DEF Shares
<1>7. QED
  BY <1>2, <1>3, <1>4, <1>5, <1>6, StepCases

LEMMA SharesInit == ASSUME Init PROVE Shares
<1>1. Total(strategyShares, Classes) = 0
  BY TotalZero DEF Init
<1>2. SharesAccounted
  BY <1>1 DEF SharesAccounted, Init, AdapterInit
<1>3. InvestedInKind
  BY DEF InvestedInKind, Init
<1>4. QED
  BY <1>2, <1>3, BaseInit DEF Shares

\* The escrow's shares by class and the adapter's supply are one number, so an
\* unwind that names every class with shares always leaves the adapter empty.
THEOREM SharesAlwaysAccounted == Spec => []SharesAccounted
<1>1. Init => Shares
  BY SharesInit
<1>2. Shares /\ [Next]_vars => Shares'
  BY SharesStep
<1>3. Shares => SharesAccounted
  BY DEF Shares
<1>4. QED
  BY <1>1, <1>2, <1>3, PTL DEF Spec

\* Collateral is invested only in its own asset, however many assets there are:
\* the StrategyAssetMismatch check of investCollateral keeps it so.
THEOREM AlwaysInvestedInKind == Spec => []InvestedInKind
<1>1. Init => Shares
  BY SharesInit
<1>2. Shares /\ [Next]_vars => Shares'
  BY SharesStep
<1>3. Shares => InvestedInKind
  BY DEF Shares
<1>4. QED
  BY <1>1, <1>2, <1>3, PTL DEF Spec

-----------------------------------------------------------------------------
(* Layer 3: solvency.  In each asset, what is owed has three parts; a step *)
(* changes at most one place of each, or, for an unwind, collateral only.  *)

OwedParts(t) ==
    /\ Total(collateral, ClassesIn(t)) \in Nat
    /\ Total(HeldIn(t), TokenIds) \in Nat
    /\ Total(claimable, Issuers \X {t}) \in Nat

LEMMA FiniteParts ==
    ASSUME NEW t \in Assets
    PROVE  /\ ClassesIn(t) \subseteq Classes /\ IsFiniteSet(ClassesIn(t))
           /\ IsFiniteSet(TokenIds)
           /\ Issuers \X {t} \subseteq Issuers \X Assets
           /\ IsFiniteSet(Issuers \X {t})
<1>1. IsFiniteSet(ClassesIn(t))
  BY EscrowAssumption, FS_Subset DEF ClassesIn
<1>2. IsFiniteSet({t})
  BY FS_Singleton
<1>3. IsFiniteSet(Issuers \X {t})
  BY <1>2, EscrowAssumption, FS_Product
<1>4. QED
  BY <1>1, <1>3, EscrowAssumption DEF ClassesIn

LEMMA HeldType ==
    ASSUME Base, NEW t \in Assets
    PROVE  HeldIn(t) \in [TokenIds -> Nat]
BY LiveDeposit DEF HeldIn

LEMMA OwedType ==
    ASSUME Base, NEW t \in Assets
    PROVE  OwedParts(t)
<1>1. collateral \in [Classes -> Nat] /\ claimable \in [Issuers \X Assets -> Nat]
  BY BaseAdapter
<1>2. Total(collateral, ClassesIn(t)) \in Nat
  BY <1>1, FiniteParts, TotalType
<1>3. Total(HeldIn(t), TokenIds) \in Nat
  <2>1. \A id \in TokenIds : HeldIn(t)[id] \in Nat
    BY HeldType
  <2>2. QED
    BY <2>1, FiniteParts, TotalType
<1>4. Total(claimable, Issuers \X {t}) \in Nat
  <2>1. \A x \in Issuers \X {t} : claimable[x] \in Nat
    BY <1>1
  <2>2. QED
    BY <2>1, FiniteParts, TotalType
<1>5. QED
  BY <1>2, <1>3, <1>4 DEF OwedParts

LEMMA CollateralUpdate ==
    ASSUME Base, NEW t \in Assets, NEW c \in Classes, NEW n \in Nat,
           collateral' = [collateral EXCEPT ![c] = n]
    PROVE  Total(collateral', ClassesIn(t))
             = Total(collateral, ClassesIn(t))
                 + (IF Asset[c] = t THEN n - collateral[c] ELSE 0)
<1> DEFINE f == collateral
           g == collateral'
           S == ClassesIn(t)
<1>1. /\ \A x \in S : f[x] \in Nat
      /\ \A x \in S : g[x] \in Nat
      /\ \A x \in S \ {c} : g[x] = f[x]
      /\ g[c] = n
      /\ IsFiniteSet(S)
  BY BaseAdapter, FiniteParts
<1>2. c \in S <=> Asset[c] = t
  BY DEF ClassesIn
<1> HIDE DEF f, g, S
<1>3. Total(g, S) = Total(f, S) + (IF c \in S THEN g[c] - f[c] ELSE 0)
  BY <1>1, TotalChange
<1>4. QED
  BY <1>1, <1>2, <1>3 DEF f, g, S

LEMMA ClaimableUpdate ==
    ASSUME Base, NEW t \in Assets, NEW i \in Issuers, NEW u \in Assets, NEW n \in Nat,
           claimable' = [claimable EXCEPT ![<<i, u>>] = n]
    PROVE  Total(claimable', Issuers \X {t})
             = Total(claimable, Issuers \X {t})
                 + (IF u = t THEN n - claimable[<<i, u>>] ELSE 0)
<1> DEFINE f == claimable
           g == claimable'
           S == Issuers \X {t}
           p == <<i, u>>
<1>1. /\ f \in [Issuers \X Assets -> Nat] /\ p \in Issuers \X Assets
      /\ S \subseteq Issuers \X Assets /\ IsFiniteSet(S)
  BY BaseAdapter, FiniteParts
<1>2. g = [f EXCEPT ![p] = n]
  OBVIOUS
<1>3. p \in S <=> u = t
  OBVIOUS
<1> HIDE DEF f, g, S, p
<1>4. /\ \A x \in S : f[x] \in Nat
      /\ \A x \in S : g[x] \in Nat
      /\ \A x \in S \ {p} : g[x] = f[x]
      /\ g[p] = n
  BY <1>1, <1>2
<1>5. Total(g, S) = Total(f, S) + (IF p \in S THEN g[p] - f[p] ELSE 0)
  BY <1>1, <1>4, TotalChange
<1>6. QED
  BY <1>3, <1>4, <1>5 DEF f, g, S, p

\* Only the deposit that changed can change what is held, and only in its asset.
LEMMA HeldUpdate ==
    ASSUME Base, Base', NEW t \in Assets, NEW id \in TokenIds,
           \A x \in TokenIds \ {id} : deposits'[x] = deposits[x]
    PROVE  Total(HeldIn(t)', TokenIds)
             = Total(HeldIn(t), TokenIds) - HeldIn(t)[id] + HeldIn(t)'[id]
<1>1. HeldIn(t) \in [TokenIds -> Nat]
  BY HeldType
<1>2. HeldIn(t)' \in [TokenIds -> Nat]
  <2>1. deposits' \in [TokenIds -> Deposit \union {NoDeposit}]
    BY DEF Base, TypeOK
  <2>2. ASSUME NEW x \in TokenIds, Live(x)' PROVE deposits'[x].amount \in Nat
    BY <2>1, <2>2 DEF Live, Deposit, NoDeposit
  <2>3. QED
    BY <2>2 DEF HeldIn
<1>3. \A x \in TokenIds \ {id} : HeldIn(t)'[x] = HeldIn(t)[x]
  BY DEF HeldIn, Live
<1> DEFINE f == HeldIn(t)
           g == HeldIn(t)'
<1>4. /\ \A x \in TokenIds : f[x] \in Nat
      /\ \A x \in TokenIds : g[x] \in Nat
      /\ \A x \in TokenIds \ {id} : g[x] = f[x]
  BY <1>1, <1>2, <1>3
<1> HIDE DEF f, g
<1>5. IsFiniteSet(TokenIds)
  BY EscrowAssumption
<1>6. Total(g, TokenIds) = Total(f, TokenIds) - f[id] + g[id]
  BY <1>4, <1>5, TotalUpdate
<1>7. QED
  BY <1>6 DEF f, g

LEMMA HeldSame ==
    ASSUME NEW t \in Assets, deposits' = deposits
    PROVE  HeldIn(t)' = HeldIn(t)
BY DEF HeldIn, Live

\* What is owed after a step, as a sum.
LEMMA OwedPrime ==
    ASSUME NEW t \in Assets
    PROVE  Owed(t)' = Total(collateral', ClassesIn(t))
                        + Total(HeldIn(t)', TokenIds)
                        + Total(claimable', Issuers \X {t})
BY DEF Owed, ClassesIn

Solvency == Shares /\ Solvent

\* A step that moves one class's raw collateral and the balance alike.
LEMMA CollateralMoves ==
    ASSUME Base, Solvent, NEW c \in Classes, NEW n \in Nat,
           collateral' = [collateral EXCEPT ![c] = n],
           \A t \in Assets : balance'[t] =
               balance[t] + (IF Asset[c] = t THEN n - collateral[c] ELSE 0),
           deposits' = deposits, claimable' = claimable
    PROVE  Solvent'
<1> SUFFICES ASSUME NEW t \in Assets PROVE balance'[t] >= Owed(t)'
  BY DEF Solvent
<1>1. /\ balance \in [Assets -> Nat] /\ collateral \in [Classes -> Nat]
      /\ Asset[c] \in Assets
  BY BaseAdapter, TermsType
<1>2. balance[t] >= Owed(t)
  BY DEF Solvent
<1>3. Total(collateral', ClassesIn(t))
        = Total(collateral, ClassesIn(t)) + (IF Asset[c] = t THEN n - collateral[c] ELSE 0)
  BY CollateralUpdate
<1>4. Owed(t)' = Total(collateral', ClassesIn(t))
                   + Total(HeldIn(t), TokenIds) + Total(claimable, Issuers \X {t})
  BY OwedPrime, HeldSame
<1>5. OwedParts(t)
  BY OwedType
<1>6. balance'[t] = balance[t] + (IF Asset[c] = t THEN n - collateral[c] ELSE 0)
  OBVIOUS
<1>7. QED
  BY <1>1, <1>2, <1>3, <1>4, <1>5, <1>6 DEF Owed, OwedParts

LEMMA InvestSolvent ==
    ASSUME Solvency, NEW c \in Classes, NEW amount \in Nat, investCollateral(c, amount)
    PROVE  Solvent'
<1>1. /\ Base /\ Solvent
      /\ collateral \in [Classes -> Nat] /\ balance \in [Assets -> Nat]
      /\ Asset[c] \in Assets
  BY BaseAdapter, TermsType DEF Solvency, Shares
<1>2. /\ collateral[c] - amount \in Nat
      /\ collateral' = [collateral EXCEPT ![c] = collateral[c] - amount]
      /\ \A t \in Assets : balance'[t] = balance[t] +
             (IF Asset[c] = t THEN (collateral[c] - amount) - collateral[c] ELSE 0)
      /\ deposits' = deposits /\ claimable' = claimable
  BY <1>1 DEF investCollateral
<1>3. QED
  BY <1>1, <1>2, CollateralMoves

LEMMA PostSolvent ==
    ASSUME Solvency, NEW c \in Classes, NEW amount \in Nat, postCollateral(c, amount)
    PROVE  Solvent'
<1>1. /\ Base /\ Solvent
      /\ collateral \in [Classes -> Nat] /\ balance \in [Assets -> Nat]
      /\ Asset[c] \in Assets
  BY BaseAdapter, TermsType DEF Solvency, Shares
<1>2. /\ collateral[c] + amount \in Nat
      /\ collateral' = [collateral EXCEPT ![c] = collateral[c] + amount]
      /\ \A t \in Assets : balance'[t] = balance[t] +
             (IF Asset[c] = t THEN (collateral[c] + amount) - collateral[c] ELSE 0)
      /\ deposits' = deposits /\ claimable' = claimable
  BY <1>1 DEF postCollateral
<1>3. QED
  BY <1>1, <1>2, CollateralMoves

LEMMA WithdrawSolvent ==
    ASSUME Solvency, NEW c \in Classes, NEW amount \in Nat, withdrawCollateral(c, amount)
    PROVE  Solvent'
<1>1. /\ Base /\ Solvent
      /\ collateral \in [Classes -> Nat] /\ balance \in [Assets -> Nat]
      /\ Asset[c] \in Assets
  BY BaseAdapter, TermsType DEF Solvency, Shares
<1>2. deposits' = deposits /\ claimable' = claimable
  BY DEF withdrawCollateral
<1>3. CASE WithdrawRaw(c, amount)
  <2>1. /\ collateral[c] - amount \in Nat
        /\ collateral' = [collateral EXCEPT ![c] = collateral[c] - amount]
        /\ \A t \in Assets : balance'[t] = balance[t] +
               (IF Asset[c] = t THEN (collateral[c] - amount) - collateral[c] ELSE 0)
    BY <1>1, <1>3 DEF WithdrawRaw
  <2>2. QED
    BY <1>1, <1>2, <2>1, CollateralMoves
<1>4. CASE WithdrawInvested(c, amount)
  <2> DEFINE shares == previewWithdraw(amount - collateral[c])
             received == previewRedeem(shares)
  <2>1. amount - collateral[c] \in Nat \ {0}
    BY <1>1, <1>4 DEF WithdrawInvested
  <2>2. shares \in Nat
    BY <1>1, <1>4, <2>1, QuoteType DEF WithdrawInvested
  <2>3. /\ redeem(shares, received)
        /\ collateral[c] + received >= amount
        /\ collateral' = [collateral EXCEPT ![c] = @ + received - amount]
        /\ balance' = [balance EXCEPT ![Asset[c]] = @ + received - amount]
    BY <1>4 DEF WithdrawInvested
  <2> HIDE DEF shares, received
  <2>4. received \in Nat
    BY <1>1, <2>2, <2>3, RedeemStep, BaseAdapter
  <2>5. /\ collateral[c] + received - amount \in Nat
        /\ collateral' = [collateral EXCEPT ![c] = collateral[c] + received - amount]
        /\ \A t \in Assets : balance'[t] = balance[t] +
               (IF Asset[c] = t
                THEN (collateral[c] + received - amount) - collateral[c] ELSE 0)
    BY <1>1, <2>3, <2>4
  <2>6. QED
    BY <1>1, <1>2, <2>5, CollateralMoves
<1>5. QED
  BY <1>3, <1>4 DEF withdrawCollateral

\* A step that touches no money and no record.
LEMMA OthersSolvent ==
    ASSUME Solvency,
           UNCHANGED <<collateral, deposits, claimable, balance>>
    PROVE  Solvent'
<1> SUFFICES ASSUME NEW t \in Assets PROVE balance'[t] >= Owed(t)'
  BY DEF Solvent
<1>1. Owed(t)' = Owed(t)
  BY OwedPrime, HeldSame DEF Owed
<1>2. QED
  BY <1>1 DEF Solvency, Solvent

\* What a deposit record is worth in one asset.
LEMMA HeldAt ==
    ASSUME NEW t \in Assets, NEW id \in TokenIds
    PROVE  /\ HeldIn(t)[id] = IF Live(id) /\ Asset[deposits[id].classId] = t
                              THEN deposits[id].amount ELSE 0
           /\ HeldIn(t)'[id] = IF Live(id)' /\ Asset[deposits'[id].classId] = t
                               THEN deposits'[id].amount ELSE 0
BY DEF HeldIn

LEMMA MintSolvent ==
    ASSUME Solvency, NEW id \in TokenIds, NEW c \in Classes, NEW buyer \in Buyers,
           Fresh(id), recordMint(id, c, buyer)
    PROVE  Solvent'
<1> SUFFICES ASSUME NEW t \in Assets PROVE balance'[t] >= Owed(t)'
  BY DEF Solvent
<1>1. /\ Base /\ Solvent /\ balance[t] >= Owed(t)
      /\ balance \in [Assets -> Nat]
      /\ deposits \in [TokenIds -> Deposit \union {NoDeposit}]
      /\ Asset[c] \in Assets /\ Price[c] \in Nat
  BY BaseAdapter, TermsType DEF Solvency, Shares, Solvent
<1>2. Base'
  BY <1>1, MintBase
<1>3. /\ deposits' = [deposits EXCEPT ![id] = [classId |-> c, buyer |-> buyer,
                                               amount |-> Price[c], settled |-> FALSE]]
      /\ balance' = [balance EXCEPT ![Asset[c]] = balance[Asset[c]] + Price[c]]
      /\ collateral' = collateral /\ claimable' = claimable
  BY DEF recordMint
<1>4. HeldIn(t)[id] = 0
  BY HeldAt DEF Fresh, Live
<1>5. HeldIn(t)'[id] = IF Asset[c] = t THEN Price[c] ELSE 0
  <2>1. deposits'[id] = [classId |-> c, buyer |-> buyer,
                         amount |-> Price[c], settled |-> FALSE]
    BY <1>1, <1>3
  <2>2. Live(id)'
    BY <2>1, EscrowAssumption DEF Live
  <2>3. QED
    BY <2>1, <2>2, HeldAt
<1>6. Total(HeldIn(t)', TokenIds) = Total(HeldIn(t), TokenIds) - HeldIn(t)[id] + HeldIn(t)'[id]
  BY <1>1, <1>2, <1>3, HeldUpdate
<1>7. balance'[t] = balance[t] + (IF Asset[c] = t THEN Price[c] ELSE 0)
  BY <1>1, <1>3
<1>8. Owed(t)' = Total(collateral, ClassesIn(t)) + Total(HeldIn(t)', TokenIds)
                   + Total(claimable, Issuers \X {t})
  BY <1>3, OwedPrime
<1>9. OwedParts(t)
  BY <1>1, OwedType
<1>10. QED
  BY <1>1, <1>4, <1>5, <1>6, <1>7, <1>8, <1>9 DEF Owed, OwedParts

\* Settling takes the deposit out of what is held, once.
LEMMA SettledHeld ==
    ASSUME Base, Base', NEW id \in TokenIds, NEW t \in Assets, Live(id),
           deposits' = [deposits EXCEPT ![id].settled = TRUE]
    PROVE  Total(HeldIn(t)', TokenIds)
             = Total(HeldIn(t), TokenIds)
                 - (IF Asset[deposits[id].classId] = t THEN deposits[id].amount ELSE 0)
<1>1. deposits \in [TokenIds -> Deposit \union {NoDeposit}] /\ deposits[id] \in Deposit
  BY BaseAdapter, LiveDeposit
<1>2. HeldIn(t)[id] = IF Asset[deposits[id].classId] = t THEN deposits[id].amount ELSE 0
  BY HeldAt
<1>3. deposits'[id].settled = TRUE
  BY <1>1 DEF Deposit
<1>4. HeldIn(t)'[id] = 0
  BY <1>3, HeldAt DEF Live
<1>5. Total(HeldIn(t)', TokenIds) = Total(HeldIn(t), TokenIds) - HeldIn(t)[id] + HeldIn(t)'[id]
  BY <1>1, HeldUpdate
<1>6. OwedParts(t) /\ deposits[id].amount \in Nat
  BY OwedType, LiveDeposit
<1>7. QED
  BY <1>2, <1>4, <1>5, <1>6 DEF OwedParts

LEMMA ReleaseSolvent ==
    ASSUME Solvency, NEW id \in TokenIds, releaseToIssuer(id)
    PROVE  Solvent'
<1> DEFINE c == deposits[id].classId
           due == deposits[id].amount
<1> SUFFICES ASSUME NEW t \in Assets PROVE balance'[t] >= Owed(t)'
  BY DEF Solvent
<1>1. Base /\ balance[t] >= Owed(t) /\ balance \in [Assets -> Nat] /\ Live(id)
  BY BaseAdapter DEF Solvency, Shares, Solvent, releaseToIssuer
<1>2. /\ Base' /\ c \in Classes /\ due \in Nat
      /\ Issuer[c] \in Issuers /\ Asset[c] \in Assets
  BY <1>1, SettleBase, LiveDeposit, TermsType
<1>3. /\ deposits' = [deposits EXCEPT ![id].settled = TRUE]
      /\ claimable' = [claimable EXCEPT ![<<Issuer[c], Asset[c]>>] =
                           claimable[<<Issuer[c], Asset[c]>>] + due]
      /\ collateral' = collateral /\ balance' = balance
  BY DEF releaseToIssuer
<1>4. Total(HeldIn(t)', TokenIds)
        = Total(HeldIn(t), TokenIds) - (IF Asset[c] = t THEN due ELSE 0)
  BY <1>1, <1>2, <1>3, SettledHeld
<1>5. claimable[<<Issuer[c], Asset[c]>>] \in Nat
  BY <1>1, <1>2, BaseAdapter
<1> HIDE DEF c, due
<1>6. Total(claimable', Issuers \X {t})
        = Total(claimable, Issuers \X {t})
            + (IF Asset[c] = t
               THEN (claimable[<<Issuer[c], Asset[c]>>] + due)
                       - claimable[<<Issuer[c], Asset[c]>>] ELSE 0)
  <2>1. claimable[<<Issuer[c], Asset[c]>>] + due \in Nat
    BY <1>2, <1>5
  <2>2. QED
    BY <1>1, <1>2, <1>3, <2>1, ClaimableUpdate
<1>7. Owed(t)' = Total(collateral, ClassesIn(t)) + Total(HeldIn(t)', TokenIds)
                   + Total(claimable', Issuers \X {t})
  BY <1>3, OwedPrime
<1>8. OwedParts(t)
  BY <1>1, OwedType
<1>9. QED
  BY <1>1, <1>2, <1>3, <1>4, <1>5, <1>6, <1>7, <1>8 DEF Owed, OwedParts

LEMMA RefundSolvent ==
    ASSUME Solvency, NEW id \in TokenIds, refundBuyer(id)
    PROVE  Solvent'
<1> DEFINE c == deposits[id].classId
           due == deposits[id].amount
<1> SUFFICES ASSUME NEW t \in Assets PROVE balance'[t] >= Owed(t)'
  BY DEF Solvent
<1>1. Base /\ balance[t] >= Owed(t) /\ balance \in [Assets -> Nat] /\ Live(id)
  BY BaseAdapter DEF Solvency, Shares, Solvent, refundBuyer
<1>2. Base' /\ c \in Classes /\ due \in Nat /\ Asset[c] \in Assets
  BY <1>1, SettleBase, LiveDeposit, TermsType
<1>3. /\ deposits' = [deposits EXCEPT ![id].settled = TRUE]
      /\ balance' = [balance EXCEPT ![Asset[c]] = balance[Asset[c]] - due]
      /\ collateral' = collateral /\ claimable' = claimable
  BY DEF refundBuyer
<1>4. Total(HeldIn(t)', TokenIds)
        = Total(HeldIn(t), TokenIds) - (IF Asset[c] = t THEN due ELSE 0)
  BY <1>1, <1>2, <1>3, SettledHeld
<1> HIDE DEF c, due
<1>5. balance'[t] = balance[t] - (IF Asset[c] = t THEN due ELSE 0)
  BY <1>1, <1>2, <1>3
<1>6. Owed(t)' = Total(collateral, ClassesIn(t)) + Total(HeldIn(t)', TokenIds)
                   + Total(claimable, Issuers \X {t})
  BY <1>3, OwedPrime
<1>7. OwedParts(t)
  BY <1>1, OwedType
<1>8. QED
  BY <1>1, <1>2, <1>4, <1>5, <1>6, <1>7 DEF Owed, OwedParts

LEMMA ClaimSolvent ==
    ASSUME Solvency, NEW i \in Issuers, NEW u \in Assets, claim(i, u)
    PROVE  Solvent'
<1> SUFFICES ASSUME NEW t \in Assets PROVE balance'[t] >= Owed(t)'
  BY DEF Solvent
<1>1. Base /\ balance[t] >= Owed(t) /\ balance \in [Assets -> Nat]
  BY BaseAdapter DEF Solvency, Shares, Solvent
<1>2. claimable[<<i, u>>] \in Nat
  BY <1>1, BaseAdapter
<1>3. /\ claimable' = [claimable EXCEPT ![<<i, u>>] = 0]
      /\ balance' = [balance EXCEPT ![u] = balance[u] - claimable[<<i, u>>]]
      /\ collateral' = collateral /\ deposits' = deposits
  BY DEF claim
<1>4. Total(claimable', Issuers \X {t})
        = Total(claimable, Issuers \X {t})
            + (IF u = t THEN 0 - claimable[<<i, u>>] ELSE 0)
  BY <1>1, <1>3, ClaimableUpdate
<1>5. balance'[t] = balance[t] - (IF u = t THEN claimable[<<i, u>>] ELSE 0)
  BY <1>1, <1>3
<1>6. Owed(t)' = Total(collateral, ClassesIn(t)) + Total(HeldIn(t), TokenIds)
                   + Total(claimable', Issuers \X {t})
  BY <1>3, OwedPrime, HeldSame
<1>7. OwedParts(t)
  BY <1>1, OwedType
<1>8. QED
  BY <1>1, <1>2, <1>4, <1>5, <1>6, <1>7 DEF Owed, OwedParts

\* Only classes in the adapter's asset receive anything from an unwind.
LEMMA UnwindPaysInKind ==
    ASSUME Shares, NEW named \in SUBSET Classes, NEW place,
           NEW received \in [Classes -> 0 .. totalAssets],
           emergencyUnwindStrategy(named, place, received),
           NEW c \in Classes, received[c] # 0
    PROVE  Asset[c] = StrategyAsset
<1>1. c \in named /\ received[c] = UnwindPays(c, named, place, received)
  BY DEF emergencyUnwindStrategy
<1>2. strategyShares[c] # 0
  BY <1>1 DEF UnwindPays, AssetsForShares
<1>3. strategyShares[c] > 0
  BY <1>2, BaseAdapter DEF Shares
<1>4. QED
  BY <1>3 DEF Shares, InvestedInKind

LEMMA UnwindSolvent ==
    ASSUME Solvency, NEW named \in SUBSET Classes, NEW place,
           NEW received \in [Classes -> 0 .. totalAssets],
           emergencyUnwindStrategy(named, place, received)
    PROVE  Solvent'
<1> SUFFICES ASSUME NEW t \in Assets PROVE balance'[t] >= Owed(t)'
  BY DEF Solvent
<1> DEFINE S == ClassesIn(t)
           f == collateral
           h == collateral'
<1>1. /\ Base /\ Shares /\ balance[t] >= Owed(t)
      /\ balance \in [Assets -> Nat] /\ collateral \in [Classes -> Nat]
      /\ totalAssets \in Nat
  BY BaseAdapter DEF Solvency, Shares, Solvent, AdapterInv, AdapterTypeOK
<1>2. /\ balance' = [balance EXCEPT ![StrategyAsset] =
                         balance[StrategyAsset] + Total(received, Classes)]
      /\ collateral' = [c \in Classes |-> collateral[c] + received[c]]
      /\ deposits' = deposits /\ claimable' = claimable
  BY DEF emergencyUnwindStrategy
<1>3. /\ S \subseteq Classes /\ IsFiniteSet(S) /\ IsFiniteSet(Classes)
      /\ \A c \in S : Asset[c] = t
      /\ \A c \in Classes \ S : Asset[c] # t
  BY FiniteParts, EscrowAssumption DEF ClassesIn
<1>4. /\ \A c \in S : f[c] \in Nat
      /\ \A c \in S : received[c] \in Nat
      /\ \A c \in S : h[c] = f[c] + received[c]
      /\ \A c \in Classes : received[c] \in Nat
  BY <1>1, <1>2, <1>3
<1>5. \A c \in Classes : received[c] # 0 => Asset[c] = StrategyAsset
  BY <1>1, UnwindPaysInKind
<1> HIDE DEF S
<1>6. Total(h, S) = Total(f, S) + Total(received, S)
  <2> HIDE DEF f, h
  <2>1. QED
    BY <1>3, <1>4, TotalAdd
<1>7. Total(received, S) = IF t = StrategyAsset THEN Total(received, Classes) ELSE 0
  <2>1. CASE t = StrategyAsset
    <3>1. \A c \in Classes \ S : received[c] = 0
      BY <1>3, <1>5, <2>1
    <3>2. Total(received, Classes) = Total(received, S)
      BY <1>3, <3>1, TotalRestrict
    <3>3. QED
      BY <2>1, <3>2
  <2>2. CASE t # StrategyAsset
    <3>1. \A c \in S : received[c] = 0
      BY <1>3, <1>5, <2>2
    <3>2. QED
      BY <2>2, <3>1, TotalZero
  <2>3. QED
    BY <2>1, <2>2
<1>8. Total(received, Classes) \in Nat
  BY <1>3, <1>4, TotalType
<1>9. balance'[t] = balance[t] + (IF t = StrategyAsset THEN Total(received, Classes) ELSE 0)
  BY <1>1, <1>2
<1>10. Owed(t)' = Total(h, S) + Total(HeldIn(t), TokenIds) + Total(claimable, Issuers \X {t})
  BY <1>2, OwedPrime, HeldSame DEF S
<1>11. OwedParts(t) /\ Owed(t) = Total(f, S) + Total(HeldIn(t), TokenIds)
                                   + Total(claimable, Issuers \X {t})
  BY <1>1, OwedType DEF Owed, S
<1> HIDE DEF f, h
<1>12. QED
  BY <1>1, <1>6, <1>7, <1>8, <1>9, <1>10, <1>11 DEF OwedParts, f, S

LEMMA SolvencyStep == ASSUME Solvency, [Next]_vars PROVE Solvency'
<1>1. SUFFICES Solvent'
  BY SharesStep DEF Solvency
<1>2. CASE \/ setCollateralStrategy
           \/ \E c \in Classes : registerClass(c)
           \/ Accrue
           \/ UNCHANGED vars
  BY <1>2, OthersSolvent
     DEF setCollateralStrategy, registerClass, Accrue, escrowVars, vars
<1>3. CASE \E c \in Classes, amount \in Nat : postCollateral(c, amount)
  BY <1>3, PostSolvent
<1>4. CASE \E c \in Classes, amount \in Nat : investCollateral(c, amount)
  BY <1>4, InvestSolvent
<1>5. CASE \E c \in Classes, amount \in Nat : withdrawCollateral(c, amount)
  BY <1>5, WithdrawSolvent
<1>6. CASE \E id \in TokenIds, c \in Classes, buyer \in Buyers :
             Fresh(id) /\ recordMint(id, c, buyer)
  BY <1>6, MintSolvent
<1>7. CASE \E id \in TokenIds : releaseToIssuer(id)
  BY <1>7, ReleaseSolvent
<1>8. CASE \E id \in TokenIds : refundBuyer(id)
  BY <1>8, RefundSolvent
<1>9. CASE \E i \in Issuers, t \in Assets : claim(i, t)
  BY <1>9, ClaimSolvent
<1>10. CASE \E named \in SUBSET Classes :
              \E place \in [named -> 1 .. Cardinality(named)] :
                \E received \in [Classes -> 0 .. totalAssets] :
                  emergencyUnwindStrategy(named, place, received)
  BY <1>10, UnwindSolvent
<1>11. QED
  BY <1>2, <1>3, <1>4, <1>5, <1>6, <1>7, <1>8, <1>9, <1>10, StepCases

LEMMA SolvencyInit == ASSUME Init PROVE Solvency
<1> SUFFICES ASSUME NEW t \in Assets PROVE balance[t] >= Owed(t)
  BY SharesInit DEF Solvency, Solvent
<1>1. Total(collateral, ClassesIn(t)) = 0
  <2>1. \A c \in ClassesIn(t) : collateral[c] = 0
    BY DEF Init, ClassesIn
  <2>2. QED
    BY <2>1, TotalZero
<1>2. Total(HeldIn(t), TokenIds) = 0
  <2>1. \A id \in TokenIds : HeldIn(t)[id] = 0
    BY DEF Init, HeldIn, Live, NoDeposit
  <2>2. QED
    BY <2>1, TotalZero
<1>3. Total(claimable, Issuers \X {t}) = 0
  <2>1. \A x \in Issuers \X {t} : claimable[x] = 0
    BY DEF Init
  <2>2. QED
    BY <2>1, TotalZero
<1>4. balance[t] = 0
  BY DEF Init
<1>5. QED
  BY <1>1, <1>2, <1>3, <1>4 DEF Owed

\* The contract can always pay everyone it owes, in every asset, whatever the
\* terms of the classes and whatever the order of the calls.
THEOREM AlwaysSolvent == Spec => []Solvent
<1>1. Init => Solvency
  BY SolvencyInit
<1>2. Solvency /\ [Next]_vars => Solvency'
  BY SolvencyStep
<1>3. Solvency => Solvent
  BY DEF Solvency
<1>4. QED
  BY <1>1, <1>2, <1>3, PTL DEF Spec

-----------------------------------------------------------------------------
(* What stands behind the promises: the obligation of a class counts its   *)
(* live deposits, an escrow without an adapter is always fully backed, the *)
(* surplus it reports can be taken out, and no class loses backing to      *)
(* another one's calls.                                                    *)

(* Obligations.                                                            *)

Obligations == Base /\ ObligationCountsLive

LEMMA LiveOfFinite ==
    ASSUME NEW c
    PROVE  IsFiniteSet(LiveOf(c)) /\ Cardinality(LiveOf(c)) \in Nat
<1>1. IsFiniteSet(LiveOf(c))
  BY EscrowAssumption, FS_Subset DEF LiveOf
<1>2. QED
  BY <1>1, FS_CardinalityType

\* A step that leaves deposits and obligations alone.
LEMMA ObligationsSame ==
    ASSUME ObligationCountsLive, deposits' = deposits, obligation' = obligation
    PROVE  ObligationCountsLive'
BY DEF ObligationCountsLive, LiveOf, Live

LEMMA MintObligations ==
    ASSUME Obligations, NEW id \in TokenIds, NEW c \in Classes, NEW buyer \in Buyers,
           Fresh(id), recordMint(id, c, buyer)
    PROVE  ObligationCountsLive'
<1> SUFFICES ASSUME NEW d \in Classes
             PROVE  obligation'[d] = Payout[d] * Cardinality(LiveOf(d)')
  BY DEF ObligationCountsLive, LiveOf
<1>1. /\ deposits \in [TokenIds -> Deposit \union {NoDeposit}]
      /\ obligation \in [Classes -> Nat]
      /\ Payout[d] \in Nat
      /\ obligation[d] = Payout[d] * Cardinality(LiveOf(d))
  BY BaseAdapter, TermsType DEF Obligations, ObligationCountsLive
<1>2. /\ deposits' = [deposits EXCEPT ![id] = [classId |-> c, buyer |-> buyer,
                                               amount |-> Price[c], settled |-> FALSE]]
      /\ obligation' = [obligation EXCEPT ![c] = obligation[c] + Payout[c]]
  BY DEF recordMint
<1>3. id \notin LiveOf(d)
  BY DEF Fresh, Live, LiveOf
<1>4. deposits'[id] = [classId |-> c, buyer |-> buyer,
                       amount |-> Price[c], settled |-> FALSE]
  BY <1>1, <1>2
<1>5. \A x \in TokenIds \ {id} : deposits'[x] = deposits[x]
  BY <1>1, <1>2
<1>6. buyer # NoBuyer
  BY EscrowAssumption
<1>7. LiveOf(d)' = IF c = d THEN LiveOf(d) \cup {id} ELSE LiveOf(d)
  BY <1>3, <1>4, <1>5, <1>6 DEF LiveOf, Live
<1>8. Cardinality(LiveOf(d) \cup {id}) = Cardinality(LiveOf(d)) + 1
  BY <1>3, LiveOfFinite, FS_AddElement
<1>9. CASE c = d
  <2>1. obligation'[d] = obligation[d] + Payout[d]
    BY <1>1, <1>2, <1>9
  <2>2. Cardinality(LiveOf(d)') = Cardinality(LiveOf(d)) + 1
    BY <1>7, <1>8, <1>9
  <2> DEFINE k == Cardinality(LiveOf(d))
  <2>3. k \in Nat
    BY LiveOfFinite
  <2> HIDE DEF k
  <2>4. Payout[d] * k + Payout[d] = Payout[d] * (k + 1)
    BY <1>1, <2>3
  <2>5. QED
    BY <1>1, <2>1, <2>2, <2>4 DEF k
<1>10. CASE c # d
  BY <1>1, <1>2, <1>7, <1>10
<1>11. QED
  BY <1>9, <1>10

\* Taking one unit off an obligation that counts k of them leaves k - 1: the
\* floor at zero is reached by subtraction, never instead of it.
LEMMA DischargeOne ==
    ASSUME NEW p \in Nat, NEW k \in Nat \ {0}, NEW o \in Nat, o = p * k
    PROVE  (IF o > p THEN o - p ELSE 0) = p * (k - 1)
<1>1. CASE p = 0
  BY <1>1
<1>2. CASE k = 1
  BY <1>2
<1>3. CASE p > 0 /\ k > 1
  <2>1. p * (k - 1) = p * k - p
    OBVIOUS
  <2>2. p * (k - 1) > 0
    BY <1>3
  <2>3. QED
    BY <2>1, <2>2
<1>4. QED
  BY <1>1, <1>2, <1>3

LEMMA SettleObligations ==
    ASSUME Obligations, NEW id \in TokenIds, releaseToIssuer(id) \/ refundBuyer(id)
    PROVE  ObligationCountsLive'
<1> DEFINE c == deposits[id].classId
<1> SUFFICES ASSUME NEW d \in Classes
             PROVE  obligation'[d] = Payout[d] * Cardinality(LiveOf(d)')
  BY DEF ObligationCountsLive, LiveOf
<1>1. /\ deposits \in [TokenIds -> Deposit \union {NoDeposit}]
      /\ obligation \in [Classes -> Nat]
      /\ Payout[d] \in Nat
      /\ obligation[d] = Payout[d] * Cardinality(LiveOf(d))
      /\ Base
  BY BaseAdapter, TermsType DEF Obligations, ObligationCountsLive
<1>2. Live(id)
  BY DEF releaseToIssuer, refundBuyer
<1>3. deposits[id] \in Deposit /\ c \in Classes
  BY <1>1, <1>2, LiveDeposit
<1>4. /\ deposits' = [deposits EXCEPT ![id].settled = TRUE]
      /\ obligation' = [obligation EXCEPT ![c] = Discharged(c)]
  BY DEF releaseToIssuer, refundBuyer
<1>5. /\ deposits'[id].settled = TRUE
      /\ \A x \in TokenIds \ {id} : deposits'[x] = deposits[x]
  BY <1>1, <1>3, <1>4 DEF Deposit
<1>6. LiveOf(d)' = IF c = d THEN LiveOf(d) \ {id} ELSE LiveOf(d)
  BY <1>2, <1>5 DEF LiveOf, Live
<1>7. CASE c = d
  <2> DEFINE k == Cardinality(LiveOf(d))
  <2>1. id \in LiveOf(d)
    BY <1>2, <1>7 DEF LiveOf
  <2>2. Cardinality(LiveOf(d) \ {id}) = k - 1
    BY <2>1, LiveOfFinite, FS_RemoveElement
  <2>3. k \in Nat \ {0}
    BY <2>1, LiveOfFinite, FS_EmptySet
  <2>4. obligation'[d] = IF obligation[d] > Payout[d] THEN obligation[d] - Payout[d] ELSE 0
    BY <1>1, <1>4, <1>7 DEF Discharged
  <2>5. Cardinality(LiveOf(d)') = k - 1
    BY <1>6, <1>7, <2>2
  <2> HIDE DEF k, c
  <2>6. obligation[d] \in Nat /\ obligation[d] = Payout[d] * k
    BY <1>1 DEF k
  <2>7. QED
    BY <1>1, <2>3, <2>4, <2>5, <2>6, DischargeOne
<1>8. CASE c # d
  BY <1>1, <1>4, <1>6, <1>8
<1>9. QED
  BY <1>7, <1>8

LEMMA ObligationsStep == ASSUME Obligations, [Next]_vars PROVE Obligations'
<1>1. SUFFICES ObligationCountsLive'
  BY BaseStep DEF Obligations
<1>2. CASE \E id \in TokenIds, c \in Classes, buyer \in Buyers :
             Fresh(id) /\ recordMint(id, c, buyer)
  BY <1>2, MintObligations
<1>3. CASE \E id \in TokenIds : releaseToIssuer(id)
  BY <1>3, SettleObligations
<1>4. CASE \E id \in TokenIds : refundBuyer(id)
  BY <1>4, SettleObligations
<1>5. CASE deposits' = deposits /\ obligation' = obligation
  BY <1>5, ObligationsSame DEF Obligations
<1>6. CASE \/ setCollateralStrategy
           \/ \E c \in Classes : registerClass(c)
           \/ \E c \in Classes, amount \in Nat : postCollateral(c, amount)
           \/ Accrue
           \/ UNCHANGED vars
  BY <1>5, <1>6 DEF setCollateralStrategy, registerClass, postCollateral, Accrue,
                    vars, escrowVars
<1>7. CASE \/ \E c \in Classes, amount \in Nat : investCollateral(c, amount)
           \/ \E c \in Classes, amount \in Nat : withdrawCollateral(c, amount)
           \/ \E i \in Issuers, t \in Assets : claim(i, t)
           \/ \E named \in SUBSET Classes :
                \E place \in [named -> 1 .. Cardinality(named)] :
                  \E received \in [Classes -> 0 .. totalAssets] :
                    emergencyUnwindStrategy(named, place, received)
  BY <1>5, <1>7 DEF investCollateral, withdrawCollateral, claim, emergencyUnwindStrategy
<1>8. QED
  BY <1>2, <1>3, <1>4, <1>6, <1>7, StepCases

LEMMA ObligationsInit == ASSUME Init PROVE Obligations
<1>1. ASSUME NEW c \in Classes PROVE obligation[c] = Payout[c] * Cardinality(LiveOf(c))
  <2>1. LiveOf(c) = {}
    BY DEF Init, LiveOf, Live, NoDeposit
  <2>2. Cardinality(LiveOf(c)) = 0
    BY <2>1, FS_EmptySet
  <2>3. obligation[c] = 0 /\ Payout[c] \in Nat
    BY TermsType DEF Init
  <2>4. QED
    BY <2>2, <2>3
<1>2. QED
  BY <1>1, BaseInit DEF Obligations, ObligationCountsLive

\* A class owes its payout exactly once for every deposit that has not been
\* settled, for any number of tokens and any payouts, zero included.
THEOREM ObligationsAlwaysCount == Spec => []ObligationCountsLive
<1>1. Init => Obligations
  BY ObligationsInit
<1>2. Obligations /\ [Next]_vars => Obligations'
  BY ObligationsStep
<1>3. Obligations => ObligationCountsLive
  BY DEF Obligations
<1>4. QED
  BY <1>1, <1>2, <1>3, PTL DEF Spec

-----------------------------------------------------------------------------
(* Backing without an adapter.                                             *)

RawBacked == \A c \in Classes : collateral[c] >= obligation[c]

Backed == Base /\ (~collateralStrategy => RawBacked)

LEMMA WithdrawBacked ==
    ASSUME Base, ~collateralStrategy, RawBacked,
           NEW c \in Classes, NEW amount \in Nat, withdrawCollateral(c, amount)
    PROVE  RawBacked'
<1>1. /\ collateral \in [Classes -> Nat] /\ obligation \in [Classes -> Nat]
      /\ obligation' = obligation
  BY BaseAdapter DEF withdrawCollateral
<1>2. WithdrawRaw(c, amount) /\ MayWithdraw(c, amount)
  BY DEF withdrawCollateral, WithdrawInvested
<1>3. Backing(c) = collateral[c]
  BY <1>1 DEF Backing, StrategyValue
<1>4. collateral[c] - amount >= obligation[c]
  BY <1>1, <1>2, <1>3 DEF MayWithdraw, WithdrawRaw
<1>5. collateral' = [collateral EXCEPT ![c] = collateral[c] - amount]
  BY <1>2 DEF WithdrawRaw
<1>6. QED
  BY <1>1, <1>4, <1>5 DEF RawBacked

LEMMA MintBacked ==
    ASSUME Base, ~collateralStrategy, RawBacked,
           NEW id \in TokenIds, NEW c \in Classes, NEW buyer \in Buyers,
           recordMint(id, c, buyer)
    PROVE  RawBacked'
<1>1. /\ collateral \in [Classes -> Nat] /\ obligation \in [Classes -> Nat]
      /\ collateral' = collateral /\ Payout[c] \in Nat
  BY BaseAdapter, TermsType DEF recordMint
<1>2. Backing(c) = collateral[c]
  BY <1>1 DEF Backing, StrategyValue
<1>3. collateral[c] >= obligation[c] + Payout[c]
  BY <1>2 DEF recordMint
<1>4. obligation' = [obligation EXCEPT ![c] = obligation[c] + Payout[c]]
  BY DEF recordMint
<1>5. QED
  BY <1>1, <1>3, <1>4 DEF RawBacked

LEMMA SettleBacked ==
    ASSUME Base, RawBacked, NEW id \in TokenIds, releaseToIssuer(id) \/ refundBuyer(id)
    PROVE  RawBacked'
<1> DEFINE c == deposits[id].classId
<1>1. /\ collateral \in [Classes -> Nat] /\ obligation \in [Classes -> Nat]
      /\ collateral' = collateral /\ Live(id)
  BY BaseAdapter DEF releaseToIssuer, refundBuyer
<1>2. c \in Classes /\ Payout[c] \in Nat
  BY <1>1, LiveDeposit, TermsType
<1>3. obligation' = [obligation EXCEPT ![c] = Discharged(c)]
  BY DEF releaseToIssuer, refundBuyer
<1>4. Discharged(c) \in Nat /\ Discharged(c) <= obligation[c]
  BY <1>1, <1>2 DEF Discharged
<1> HIDE DEF c
<1>5. QED
  BY <1>1, <1>2, <1>3, <1>4 DEF RawBacked

LEMMA BackedStep == ASSUME Backed, [Next]_vars PROVE Backed'
<1>1. Base /\ Base'
  BY BaseStep DEF Backed
<1>2. SUFFICES ASSUME ~collateralStrategy' PROVE RawBacked'
  BY <1>1 DEF Backed
<1>3. CASE collateralStrategy' = collateralStrategy
  <2>1. ~collateralStrategy /\ RawBacked
    BY <1>2, <1>3 DEF Backed
  <2>2. CASE UNCHANGED <<collateral, obligation>>
    BY <2>1, <2>2 DEF RawBacked
  <2>3. CASE \E c \in Classes, amount \in Nat : postCollateral(c, amount)
    <3>1. PICK c \in Classes, amount \in Nat : postCollateral(c, amount)
      BY <2>3
    <3>2. /\ collateral \in [Classes -> Nat] /\ obligation \in [Classes -> Nat]
          /\ collateral' = [collateral EXCEPT ![c] = collateral[c] + amount]
          /\ obligation' = obligation
      BY <1>1, <3>1, BaseAdapter DEF postCollateral
    <3>3. QED
      BY <2>1, <3>2 DEF RawBacked
  <2>4. CASE \E c \in Classes, amount \in Nat : withdrawCollateral(c, amount)
    BY <1>1, <2>1, <2>4, WithdrawBacked
  <2>5. CASE \E id \in TokenIds, c \in Classes, buyer \in Buyers :
               Fresh(id) /\ recordMint(id, c, buyer)
    BY <1>1, <2>1, <2>5, MintBacked
  <2>6. CASE \E id \in TokenIds : releaseToIssuer(id)
    BY <1>1, <2>1, <2>6, SettleBacked
  <2>7. CASE \E id \in TokenIds : refundBuyer(id)
    BY <1>1, <2>1, <2>7, SettleBacked
  <2>8. CASE \/ \E c \in Classes, amount \in Nat : investCollateral(c, amount)
             \/ \E named \in SUBSET Classes :
                  \E place \in [named -> 1 .. Cardinality(named)] :
                    \E received \in [Classes -> 0 .. totalAssets] :
                      emergencyUnwindStrategy(named, place, received)
    BY <2>1, <2>8 DEF investCollateral, emergencyUnwindStrategy
  <2>9. CASE \/ setCollateralStrategy
             \/ \E c \in Classes : registerClass(c)
             \/ Accrue
             \/ UNCHANGED vars
             \/ \E i \in Issuers, t \in Assets : claim(i, t)
    BY <2>2, <2>9 DEF setCollateralStrategy, registerClass, Accrue, vars, escrowVars, claim
  <2>10. QED
    BY <2>3, <2>4, <2>5, <2>6, <2>7, <2>8, <2>9, StepCases
<1>4. CASE collateralStrategy' # collateralStrategy
  <2>1. setCollateralStrategy
    BY <1>4, StepCases
       DEF registerClass, postCollateral, Accrue, vars, escrowVars, investCollateral,
           withdrawCollateral, recordMint, releaseToIssuer, refundBuyer, claim,
           emergencyUnwindStrategy
  <2>2. QED
    BY <1>2, <2>1 DEF setCollateralStrategy
<1>5. QED
  BY <1>3, <1>4

LEMMA BackedInit == ASSUME Init PROVE Backed
<1>1. \A c \in Classes : collateral[c] = 0 /\ obligation[c] = 0
  BY DEF Init
<1>2. QED
  BY <1>1, BaseInit DEF Backed, RawBacked

\* Until an adapter is wired, every promise outstanding is covered by raw
\* collateral: this is the backing invariant of the deployment.
THEOREM AlwaysBackedWithoutStrategy == Spec => []BackedWithoutStrategy
<1>1. Init => Backed
  BY BackedInit
<1>2. Backed /\ [Next]_vars => Backed'
  BY BackedStep
<1>3. Backed => BackedWithoutStrategy
  <2> SUFFICES ASSUME Backed, ~collateralStrategy, NEW c \in Classes
               PROVE  Backing(c) >= obligation[c]
    BY DEF BackedWithoutStrategy
  <2>1. collateral[c] \in Nat /\ collateral[c] >= obligation[c]
    BY BaseAdapter DEF Backed, RawBacked
  <2>2. QED
    BY <2>1 DEF Backing, StrategyValue
<1>4. QED
  BY <1>1, <1>2, <1>3, PTL DEF Spec

-----------------------------------------------------------------------------
(* The surplus a class reports.                                            *)

\* A class never holds more shares than the adapter has issued.
LEMMA SharesWithinSupply ==
    ASSUME Shares, NEW c \in Classes
    PROVE  /\ strategyShares[c] \in Nat
           /\ strategyShares[c] <= totalShares
<1>1. /\ \A d \in Classes : strategyShares[d] \in Nat
      /\ IsFiniteSet(Classes)
      /\ Total(strategyShares, Classes) = totalShares
  BY BaseAdapter, EscrowAssumption DEF Shares, SharesAccounted
<1>2. strategyShares[c] <= Total(strategyShares, Classes)
  BY <1>1, TotalBoundsElement
<1>3. QED
  BY <1>1, <1>2

LEMMA SurplusState == ASSUME Shares PROVE SurplusWithdrawable
<1> SUFFICES ASSUME NEW c \in Classes, NEW amount \in collateral[c] + 1 .. Backing(c)
             PROVE  previewWithdraw(amount - collateral[c]) <= strategyShares[c]
  BY DEF SurplusWithdrawable
<1> DEFINE s == strategyShares[c]
           S == totalShares
           A == totalAssets
           short == amount - collateral[c]
<1>1. /\ collateral[c] \in Nat /\ S \in Nat /\ A \in Nat /\ A >= S
      /\ s \in Nat /\ s <= S
  BY SharesWithinSupply, BaseAdapter DEF Shares, AdapterInv, AdapterTypeOK, AtOrAbovePar
<1>2. /\ s # 0
      /\ Backing(c) = collateral[c] + previewRedeem(s)
  <2>1. CASE collateralStrategy /\ s # 0
    BY <2>1 DEF Backing, StrategyValue
  <2>2. CASE ~(collateralStrategy /\ s # 0)
    <3>1. Backing(c) = collateral[c]
      BY <1>1, <2>2 DEF Backing, StrategyValue
    <3>2. QED
      BY <1>1, <3>1
  <2>3. QED
    BY <2>1, <2>2
<1>3. S \in Nat \ {0} /\ A \in Nat \ {0}
  BY <1>1, <1>2
<1>4. previewRedeem(s) \in Nat /\ previewRedeem(s) * S <= s * A
  BY <1>1, RedeemRoundsDown DEF previewRedeem
<1>5. short \in Nat \ {0} /\ short <= previewRedeem(s)
  BY <1>1, <1>2, <1>4
<1> HIDE DEF s, S, A, short
<1>6. short * S <= previewRedeem(s) * S
  BY <1>3, <1>4, <1>5, TimesMono
<1>7. short * S <= s * A
  <2>1. short * S \in Nat /\ previewRedeem(s) * S \in Nat /\ s * A \in Nat
    BY <1>1, <1>3, <1>4, <1>5, TimesMono
  <2>2. QED
    BY <2>1, <1>4, <1>6
<1>8. SharesForAssets(short, S, A) <= s
  BY <1>1, <1>3, <1>5, <1>7, WithdrawRoundsUp
<1>9. QED
  BY <1>8 DEF previewWithdraw, s, S, A, short

\* Rounding up the shares to burn and rounding down their value never meet:
\* a withdrawal that the backing check allows never runs out of shares.
THEOREM SurplusAlwaysWithdrawable == Spec => []SurplusWithdrawable
<1>1. Init => Shares
  BY SharesInit
<1>2. Shares /\ [Next]_vars => Shares'
  BY SharesStep
<1>3. Shares => SurplusWithdrawable
  BY SurplusState
<1>4. QED
  BY <1>1, <1>2, <1>3, PTL DEF Spec

-----------------------------------------------------------------------------
(* What one class's calls do to the others.                                *)

\* The price of a share does not fall in any step that leaves shares behind.
LEMMA StepKeepsPrice ==
    ASSUME Shares, [Next]_vars, totalShares' > 0
    PROVE  PriceKept
<1>1. AdapterInv /\ Base
  BY BaseAdapter DEF Shares
<1>2. CASE \/ setCollateralStrategy
           \/ \E c \in Classes : registerClass(c)
           \/ \E c \in Classes, amount \in Nat : postCollateral(c, amount)
           \/ UNCHANGED vars
           \/ \E id \in TokenIds, c \in Classes, buyer \in Buyers :
                Fresh(id) /\ recordMint(id, c, buyer)
           \/ \E id \in TokenIds : releaseToIssuer(id)
           \/ \E id \in TokenIds : refundBuyer(id)
           \/ \E i \in Issuers, t \in Assets : claim(i, t)
  <2>1. totalShares' = totalShares /\ totalAssets' = totalAssets
    BY <1>2 DEF setCollateralStrategy, registerClass, postCollateral, vars, adapterVars,
                recordMint, releaseToIssuer, refundBuyer, claim
  <2>2. QED
    BY <1>1, <2>1 DEF PriceKept, AdapterInv, AdapterTypeOK
<1>3. CASE Accrue
  BY <1>1, <1>3, AccrueStep DEF Accrue
<1>4. CASE \E c \in Classes, amount \in Nat : investCollateral(c, amount)
  BY <1>1, <1>4, DepositStep DEF investCollateral
<1>5. CASE \E c \in Classes, amount \in Nat : withdrawCollateral(c, amount)
  <2>1. PICK c \in Classes, amount \in Nat : withdrawCollateral(c, amount)
    BY <1>5
  <2>2. CASE WithdrawRaw(c, amount)
    BY <1>1, <2>2 DEF WithdrawRaw, adapterVars, PriceKept, AdapterInv, AdapterTypeOK
  <2>3. CASE WithdrawInvested(c, amount)
    <3> DEFINE k == previewWithdraw(amount - collateral[c])
    <3>1. amount - collateral[c] \in Nat \ {0}
      BY <1>1, <2>3, BaseAdapter DEF WithdrawInvested
    <3>2. k \in Nat
      BY <1>1, <2>3, <3>1, QuoteType DEF WithdrawInvested
    <3>3. redeem(k, previewRedeem(k))
      BY <2>3 DEF WithdrawInvested
    <3> HIDE DEF k
    <3>4. QED
      BY <1>1, <3>2, <3>3, RedeemStep
  <2>4. QED
    BY <2>1, <2>2, <2>3 DEF withdrawCollateral
<1>6. CASE \E named \in SUBSET Classes :
             \E place \in [named -> 1 .. Cardinality(named)] :
               \E received \in [Classes -> 0 .. totalAssets] :
                 emergencyUnwindStrategy(named, place, received)
  BY <1>6 DEF emergencyUnwindStrategy
<1>7. QED
  BY <1>2, <1>3, <1>4, <1>5, <1>6, StepCases

\* Wiring happens once and is never undone.
LEMMA StrategyStays ==
    ASSUME [Next]_vars, collateralStrategy
    PROVE  collateralStrategy'
BY StepCases
   DEF setCollateralStrategy, registerClass, postCollateral, Accrue, vars, escrowVars,
       investCollateral, withdrawCollateral, recordMint, releaseToIssuer, refundBuyer,
       claim, emergencyUnwindStrategy

LEMMA BackingKeptStep ==
    ASSUME Shares, Shares', [Next]_vars, NEW c \in Classes,
           collateral'[c] = collateral[c], strategyShares'[c] = strategyShares[c]
    PROVE  Backing(c)' >= Backing(c)
<1> DEFINE s == strategyShares[c]
<1>1. /\ collateral[c] \in Nat
      /\ s \in Nat /\ s <= totalShares /\ s <= totalShares'
      /\ totalShares \in Nat /\ totalAssets \in Nat /\ totalAssets >= totalShares
      /\ totalShares' \in Nat /\ totalAssets' \in Nat /\ totalAssets' >= totalShares'
  <2>1. s \in Nat /\ s <= totalShares
    BY SharesWithinSupply
  <2>2. s <= totalShares'
    <3>1. /\ \A d \in Classes : strategyShares'[d] \in Nat
          /\ IsFiniteSet(Classes)
          /\ Total(strategyShares', Classes) = totalShares'
      BY EscrowAssumption DEF Shares, SharesAccounted, Base, TypeOK
    <3> DEFINE g == strategyShares'
    <3> HIDE DEF g
    <3>2. g[c] <= Total(g, Classes)
      BY <3>1, TotalBoundsElement DEF g
    <3>3. QED
      BY <3>1, <3>2 DEF g
  <2>3. QED
    BY <2>1, <2>2 DEF Shares, Base, TypeOK, AdapterTypeOK, AtOrAbovePar
<1>2. CASE s = 0
  BY <1>1, <1>2 DEF Backing, StrategyValue
<1>3. CASE s > 0
  <2>1. PriceKept
    BY <1>1, <1>3, StepKeepsPrice
  <2>2. AssetsForShares(s, totalShares, totalAssets) \in Nat
    BY <1>1, RedeemRoundsDown
  <2>3. AssetsForShares(s, totalShares', totalAssets') \in Nat
    BY <1>1, RedeemRoundsDown
  <2>4. AssetsForShares(s, totalShares, totalAssets)
          <= AssetsForShares(s, totalShares', totalAssets')
    <3>1. totalAssets' * totalShares >= totalAssets * totalShares'
      <4>1. totalShares > 0
        BY <1>1, <1>3
      <4>2. QED
        BY <2>1, <4>1, Zenon DEF PriceKept
    <3> DEFINE S == totalShares
               A == totalAssets
               T == totalShares'
               B == totalAssets'
    <3>2. /\ S \in Nat /\ A \in Nat /\ T \in Nat /\ B \in Nat /\ s \in Nat
          /\ A >= S /\ B >= T /\ B * S >= A * T /\ s <= S /\ s <= T
      BY <1>1, <3>1
    <3> HIDE DEF s, S, A, T, B
    <3>3. AssetsForShares(s, S, A) <= AssetsForShares(s, T, B)
      BY <3>2, ValueFollowsPrice
    <3>4. QED
      BY <3>3 DEF S, A, T, B
  <2>5. Backing(c) = collateral[c] + (IF collateralStrategy
            THEN AssetsForShares(s, totalShares, totalAssets) ELSE 0)
    BY <1>3 DEF Backing, StrategyValue, previewRedeem
  <2>6. Backing(c)' = collateral[c] + (IF collateralStrategy'
            THEN AssetsForShares(s, totalShares', totalAssets') ELSE 0)
    BY <1>3 DEF Backing, StrategyValue, previewRedeem
  <2>7. collateralStrategy => collateralStrategy'
    BY StrategyStays
  <2> HIDE DEF s
  <2>8. QED
    BY <1>1, <2>2, <2>3, <2>4, <2>5, <2>6, <2>7
<1>4. QED
  BY <1>1, <1>2, <1>3

\* No call on one class, and no interest, takes backing away from another.
THEOREM OthersBackingAlwaysKept == Spec => OthersBackingKept
<1>1. Init => Shares
  BY SharesInit
<1>2. Shares /\ [Next]_vars => Shares'
  BY SharesStep
<1>3. Shares /\ Shares' /\ [Next]_vars
        => \A c \in Classes :
             collateral'[c] = collateral[c] /\ strategyShares'[c] = strategyShares[c]
               => Backing(c)' >= Backing(c)
  BY BackingKeptStep
<1>4. QED
  BY <1>1, <1>2, <1>3, PTL DEF Spec, OthersBackingKept

-----------------------------------------------------------------------------
(* The emergency unwind.  Whatever order the classes are named in, what    *)
(* the shares not yet redeemed are worth never falls: an induction along   *)
(* that order, by a least counterexample.                                  *)

\* What an unwind that has happened says of its redemptions: each class had a
\* turn, and received what its shares were worth when the turn came.
Redemptions(named, place, received) ==
    /\ named \subseteq Classes
    /\ place \in [named -> 1 .. Cardinality(named)]
    /\ \A c, d \in named : place[c] = place[d] => c = d
    /\ \A c \in Classes : received[c] \in Nat
    /\ \A c \in named :
         /\ strategyShares[c] <= totalShares
                - Total(strategyShares, Before(c, named, place))
         /\ received[c] = UnwindPays(c, named, place, received)
    /\ Total(received, Classes) <= totalAssets

\* The classes whose turn comes before the k-th.
Turns(k, named, place) == { d \in named : place[d] < k }

\* The price of the shares left after some turns is at least the price before.
PriceAfter(T, received) ==
    (totalAssets - Total(received, T)) * totalShares
        >= totalAssets * (totalShares - Total(strategyShares, T))

\* What a set of classes held and received lies within the ledger's totals.
LEMMA PartOfLedger ==
    ASSUME Shares, NEW named, NEW place, NEW received,
           Redemptions(named, place, received), NEW T \in SUBSET named
    PROVE  /\ IsFiniteSet(T)
           /\ totalShares \in Nat /\ totalAssets \in Nat /\ totalAssets >= totalShares
           /\ \A c \in T : strategyShares[c] \in Nat /\ received[c] \in Nat
           /\ Total(strategyShares, T) \in Nat /\ Total(received, T) \in Nat
           /\ Total(strategyShares, T) <= totalShares
           /\ Total(received, T) <= totalAssets
<1>1. /\ T \subseteq Classes /\ IsFiniteSet(Classes) /\ IsFiniteSet(T)
      /\ \A c \in Classes : received[c] \in Nat
      /\ Total(received, Classes) <= totalAssets
  BY EscrowAssumption, FS_Subset DEF Redemptions
<1>2. /\ totalShares \in Nat /\ totalAssets \in Nat /\ totalAssets >= totalShares
      /\ \A c \in Classes : strategyShares[c] \in Nat
      /\ Total(strategyShares, Classes) = totalShares
  BY BaseAdapter DEF Shares, SharesAccounted, AdapterInv, AdapterTypeOK, AtOrAbovePar
<1>3. /\ Total(strategyShares, T) <= Total(strategyShares, Classes)
      /\ Total(received, T) <= Total(received, Classes)
  BY <1>1, <1>2, TotalSubset
<1>4. /\ Total(strategyShares, T) \in Nat /\ Total(strategyShares, Classes) \in Nat
      /\ Total(received, T) \in Nat /\ Total(received, Classes) \in Nat
  BY <1>1, <1>2, TotalType
<1>5. QED
  BY <1>1, <1>2, <1>3, <1>4

\* A redemption keeps the price: A1 assets behind S1 shares, worth at least as
\* much each as A behind S, pay r for s of them.
LEMMA RedemptionKeepsPrice ==
    ASSUME NEW S \in Nat, NEW A \in Nat, NEW S1 \in Nat, NEW A1 \in Nat,
           A1 * S >= A * S1, NEW s \in Nat, s <= S1,
           NEW r \in Nat, r = AssetsForShares(s, S1, A1)
    PROVE  (A1 - r) * S >= A * (S1 - s)
<1>1. CASE s = 0
  BY <1>1 DEF AssetsForShares
<1>2. CASE s > 0 /\ A1 = 0
  <2>1. r = 0 /\ A1 * S = 0
    BY <1>2 DEF AssetsForShares
  <2>2. A * (S1 - s) <= A * S1 /\ S1 - s \in Nat
    <3>1. S1 - s \in Nat /\ S1 - s <= S1
      OBVIOUS
    <3>2. QED
      BY <3>1, TimesMono
  <2>3. A * (S1 - s) \in Nat /\ A * S1 \in Nat
    BY <2>2
  <2>4. QED
    BY <1>2, <2>1, <2>2, <2>3
<1>3. CASE s > 0 /\ A1 > 0
  <2> DEFINE u == S1 - s
  <2>1. S1 \in Nat \ {0} /\ u \in Nat /\ s * A1 \in Nat
    BY <1>3
  <2>2. r * S1 <= s * A1
    <3>1. r = (s * A1) \div S1
      BY <1>3 DEF AssetsForShares
    <3>2. QED
      BY <2>1, <3>1, DivBounds
  <2>3. (A1 - r) * S1 >= A1 * u
    <3>1. (A1 - r) * S1 = A1 * S1 - r * S1 /\ A1 * u = A1 * S1 - s * A1
      OBVIOUS
    <3>2. r * S1 \in Nat /\ A1 * S1 \in Nat
      OBVIOUS
    <3>3. QED
      BY <2>1, <2>2, <3>1, <3>2
  <2>4. A1 - r \in Nat
    <3>1. A1 * u \in Nat /\ (A1 - r) * S1 \in Int
      BY <2>1
    <3>2. CASE A1 - r < 0
      <4>1. A1 - r <= -1
        BY <3>2
      <4>2. (A1 - r) * S1 <= -1 * S1
        BY <2>1, <4>1
      <4>3. QED
        BY <2>1, <2>3, <3>1, <4>2
    <3>3. QED
      BY <3>2
  <2> DEFINE left == A1 - r
  <2> HIDE DEF u, left
  <2>5. left \in Nat /\ left * S1 >= A1 * u
    BY <2>3, <2>4 DEF left
  <2>6. (A1 * u) * S <= (left * S1) * S
    BY <2>1, <2>5, TimesMono
  <2>7. (A * S1) * u <= (A1 * S) * u
    BY <2>1, TimesMono
  <2>8. /\ (A1 * u) * S = (A1 * S) * u
        /\ (left * S1) * S = (left * S) * S1
        /\ (A * S1) * u = (A * u) * S1
    BY <2>1, <2>5
  <2>9. /\ (A1 * S) * u \in Nat /\ (left * S) * S1 \in Nat /\ (A * u) * S1 \in Nat
        /\ A * u \in Nat /\ left * S \in Nat
    BY <2>1, <2>5
  <2>10. (A * u) * S1 <= (left * S) * S1
    BY <2>6, <2>7, <2>8, <2>9
  <2>11. A * u <= left * S
    BY <2>1, <2>9, <2>10, TimesCancel
  <2>12. QED
    BY <2>9, <2>11 DEF u, left
<1>4. QED
  BY <1>1, <1>2, <1>3

\* One turn: the class that has it takes its shares and its assets with it.
LEMMA TurnKeepsPrice ==
    ASSUME Shares, NEW named, NEW place, NEW received,
           Redemptions(named, place, received), NEW c \in named,
           PriceAfter(Before(c, named, place), received)
    PROVE  PriceAfter(Before(c, named, place) \cup {c}, received)
<1> DEFINE T == Before(c, named, place)
           U == T \cup {c}
           S1 == totalShares - Total(strategyShares, T)
           A1 == totalAssets - Total(received, T)
<1>1. T \subseteq named /\ c \notin T /\ U \subseteq named /\ U \ {c} = T
  BY DEF Before, Redemptions
<1> HIDE DEF T, U
<1>2. /\ IsFiniteSet(U)
      /\ totalShares \in Nat /\ totalAssets \in Nat
      /\ \A d \in U : strategyShares[d] \in Nat /\ received[d] \in Nat
      /\ Total(strategyShares, T) \in Nat /\ Total(received, T) \in Nat
      /\ Total(strategyShares, T) <= totalShares
      /\ Total(received, T) <= totalAssets
  BY <1>1, PartOfLedger
<1>3. /\ Total(strategyShares, U) = Total(strategyShares, T) + strategyShares[c]
      /\ Total(received, U) = Total(received, T) + received[c]
  <2>1. c \in U
    BY DEF U
  <2>2. QED
    BY <1>1, <1>2, <2>1, TotalSplit
<1>4. /\ strategyShares[c] <= S1
      /\ received[c] = AssetsForShares(strategyShares[c], S1, A1)
  BY DEF Redemptions, UnwindPays, T
<1>5. A1 * totalShares >= totalAssets * S1
  BY DEF PriceAfter, T
<1>6. /\ S1 \in Nat /\ A1 \in Nat
      /\ strategyShares[c] \in Nat /\ received[c] \in Nat
  BY <1>2 DEF U
<1>7. /\ totalShares - Total(strategyShares, U) = S1 - strategyShares[c]
      /\ totalAssets - Total(received, U) = A1 - received[c]
  BY <1>2, <1>3, <1>6
<1> HIDE DEF S1, A1
<1>8. (A1 - received[c]) * totalShares >= totalAssets * (S1 - strategyShares[c])
  BY <1>2, <1>4, <1>5, <1>6, RedemptionKeepsPrice
<1>9. PriceAfter(U, received)
  BY <1>7, <1>8 DEF PriceAfter
<1>10. QED
  BY <1>9 DEF U, T

\* After any number of turns.
LEMMA TurnsKeepPrice ==
    ASSUME Shares, NEW named, NEW place, NEW received,
           Redemptions(named, place, received), NEW n \in Nat
    PROVE  PriceAfter(Turns(n, named, place), received)
<1> DEFINE bad == {k \in Nat : ~ PriceAfter(Turns(k, named, place), received)}
<1>1. SUFFICES ASSUME bad # {} PROVE FALSE
  OBVIOUS
<1>2. PICK k \in bad : \A j \in bad : k <= j
  <2>1. bad \subseteq Nat
    OBVIOUS
  <2> HIDE DEF bad
  <2>2. QED
    BY <1>1, <2>1, LeastOfNats
<1>3. \A d \in named : place[d] \in Nat \ {0}
  <2>1. \A d \in named : place[d] \in 1 .. Cardinality(named)
    BY DEF Redemptions
  <2>2. QED
    BY <2>1, EscrowAssumption, FS_Subset, FS_CardinalityType DEF Redemptions
<1>4. CASE Turns(k, named, place) = {}
  <2>1. \A f : Total(f, {}) = 0
    BY TotalZero
  <2>2. totalShares \in Nat /\ totalAssets \in Nat
    BY BaseAdapter DEF Shares, AdapterInv, AdapterTypeOK
  <2>3. PriceAfter({}, received)
    BY <2>1, <2>2 DEF PriceAfter
  <2>4. QED
    BY <1>2, <1>4, <2>3
<1>5. CASE Turns(k, named, place) # {}
  <2>1. k \in Nat \ {0} /\ k - 1 \in Nat /\ ~ (k <= k - 1)
    BY <1>2, <1>3, <1>5 DEF Turns
  <2>2. PriceAfter(Turns(k - 1, named, place), received)
    BY <1>2, <2>1
  <2>3. \A d \in named : place[d] < k <=> place[d] < k - 1 \/ place[d] = k - 1
    BY <1>3, <2>1
  <2>4. CASE \E c \in named : place[c] = k - 1
    <3>1. PICK c \in named : place[c] = k - 1
      BY <2>4
    <3>2. Turns(k - 1, named, place) = Before(c, named, place)
      BY <3>1 DEF Turns, Before
    <3>3. Turns(k, named, place) = Before(c, named, place) \cup {c}
      <4>1. \A d \in named : place[d] = k - 1 <=> d = c
        BY <3>1 DEF Redemptions
      <4>2. QED
        BY <2>3, <3>1, <4>1 DEF Turns, Before
    <3>4. QED
      BY <1>2, <2>2, <3>2, <3>3, TurnKeepsPrice
  <2>5. CASE \A c \in named : place[c] # k - 1
    <3>1. Turns(k, named, place) = Turns(k - 1, named, place)
      BY <2>3, <2>5 DEF Turns
    <3>2. QED
      BY <1>2, <2>2, <3>1
  <2>6. QED
    BY <2>4, <2>5
<1>6. QED
  BY <1>4, <1>5

\* So each named class receives at least what its shares were worth at first.
LEMMA UnwindPaysEnough ==
    ASSUME Shares, NEW named, NEW place, NEW received,
           Redemptions(named, place, received), NEW c \in named
    PROVE  received[c] >= previewRedeem(strategyShares[c])
<1> DEFINE T == Before(c, named, place)
           s == strategyShares[c]
           S == totalShares
           A == totalAssets
           S1 == S - Total(strategyShares, T)
           A1 == A - Total(received, T)
<1>1. T \subseteq named /\ {c} \subseteq named
  BY DEF Before
<1>2. PriceAfter(T, received)
  <2>1. T = Turns(place[c], named, place)
    BY DEF Turns, Before
  <2>2. place[c] \in Nat
    <3>1. place[c] \in 1 .. Cardinality(named)
      BY DEF Redemptions
    <3>2. QED
      BY <3>1, EscrowAssumption, FS_Subset, FS_CardinalityType DEF Redemptions
  <2>3. QED
    BY <2>1, <2>2, TurnsKeepPrice
<1>3. s <= S1 /\ received[c] = AssetsForShares(s, S1, A1)
  BY DEF Redemptions, UnwindPays
<1> HIDE DEF T
<1>4. /\ S \in Nat /\ A \in Nat /\ A >= S
      /\ Total(strategyShares, T) \in Nat /\ Total(received, T) \in Nat
      /\ Total(strategyShares, T) <= S /\ Total(received, T) <= A
  BY <1>1, PartOfLedger
<1>5. s \in Nat
  BY <1>1, PartOfLedger
<1>6. S1 \in Nat /\ A1 \in Nat /\ s <= S
  BY <1>3, <1>4, <1>5
<1>7. A1 * S >= A * S1
  BY <1>2 DEF PriceAfter
<1> HIDE DEF s, S, A, S1, A1
<1>8. A1 >= S1
  <2>1. CASE S = 0
    BY <1>4, <1>6, <2>1 DEF S1
  <2>2. CASE S # 0
    <3>1. S1 * S <= S1 * A /\ S1 * A = A * S1
      BY <1>4, <1>6, TimesMono
    <3>2. S1 * S <= A1 * S
      BY <1>4, <1>6, <1>7, <3>1
    <3>3. QED
      BY <1>4, <1>6, <2>2, <3>2, TimesCancel
  <2>3. QED
    BY <2>1, <2>2
<1>9. AssetsForShares(s, S, A) <= AssetsForShares(s, S1, A1)
  BY <1>3, <1>4, <1>5, <1>6, <1>7, <1>8, ValueFollowsPrice
<1>10. AssetsForShares(s, S, A) \in Nat /\ AssetsForShares(s, S1, A1) \in Nat
  BY <1>3, <1>4, <1>5, <1>6, <1>8, RedeemRoundsDown
<1>11. QED
  BY <1>3, <1>9, <1>10 DEF previewRedeem, s, S, A

\* An unwind step is made of redemptions: what it credits to each class is what
\* the class received.
LEMMA UnwindRedeems ==
    ASSUME Shares, Shares', NEW named \in SUBSET Classes,
           NEW place \in [named -> 1 .. Cardinality(named)], NEW received,
           received = [c \in Classes |-> collateral'[c] - collateral[c]],
           emergencyUnwindStrategy(named, place, received)
    PROVE  Redemptions(named, place, received)
<1>1. /\ collateral \in [Classes -> Nat] /\ collateral' \in [Classes -> Nat]
      /\ strategyShares \in [Classes -> Nat]
  BY BaseAdapter DEF Shares, Base, TypeOK
<1>2. /\ \A c, d \in named : place[c] = place[d] => c = d
      /\ \A c \in named :
           /\ strategyShares[c] <= totalShares
                  - Total(strategyShares, Before(c, named, place))
           /\ received[c] = UnwindPays(c, named, place, received)
           /\ strategyShares[c] > 0 => received[c] > 0
      /\ \A c \in Classes \ named : received[c] = 0
      /\ Total(received, Classes) <= totalAssets
  BY DEF emergencyUnwindStrategy
<1>3. ASSUME NEW c \in Classes PROVE received[c] \in Nat
  <2>1. received[c] \in Int
    BY <1>1
  <2>2. CASE c \in named /\ strategyShares[c] = 0
    <3>1. UnwindPays(c, named, place, received) = 0
      BY <2>2 DEF UnwindPays, AssetsForShares
    <3>2. QED
      BY <1>2, <2>2, <3>1
  <2>3. CASE c \in named /\ strategyShares[c] > 0
    BY <1>2, <2>1, <2>3
  <2>4. CASE c \notin named
    BY <1>2, <2>4
  <2>5. QED
    BY <1>1, <2>2, <2>3, <2>4
<1>4. QED
  BY <1>2, <1>3 DEF Redemptions

LEMMA UnwindBackingStep ==
    ASSUME Shares, Shares', UnwindStep, NEW c \in Classes
    PROVE  Backing(c)' >= Backing(c)
<1> DEFINE received == [d \in Classes |-> collateral'[d] - collateral[d]]
<1>1. PICK named \in SUBSET Classes :
        \E place \in [named -> 1 .. Cardinality(named)] :
          emergencyUnwindStrategy(named, place, received)
  BY DEF UnwindStep
<1>2. PICK place \in [named -> 1 .. Cardinality(named)] :
        emergencyUnwindStrategy(named, place, received)
  BY <1>1
<1>3. Redemptions(named, place, received)
  <2>1. received = [d \in Classes |-> collateral'[d] - collateral[d]]
    OBVIOUS
  <2> HIDE DEF received
  <2>2. QED
    BY <1>2, <2>1, UnwindRedeems
<1>4. /\ collateral[c] \in Nat /\ collateral'[c] \in Nat
      /\ strategyShares[c] \in Nat /\ strategyShares'[c] \in Nat
      /\ totalShares' \in Nat
  BY BaseAdapter DEF Shares, Base, TypeOK, AdapterTypeOK
<1>5. received[c] = collateral'[c] - collateral[c] /\ received[c] \in Nat
  BY <1>3 DEF Redemptions
<1>6. totalShares' = 0 /\ collateralStrategy' = collateralStrategy
  BY <1>2 DEF emergencyUnwindStrategy
<1>7. strategyShares'[c] = IF c \in named THEN 0 ELSE strategyShares[c]
  BY <1>2 DEF emergencyUnwindStrategy
<1>8. strategyShares'[c] = 0
  <2>1. /\ \A d \in Classes : strategyShares'[d] \in Nat
        /\ IsFiniteSet(Classes)
        /\ Total(strategyShares', Classes) = 0
    BY <1>6, EscrowAssumption DEF Shares, SharesAccounted, Base, TypeOK
  <2> DEFINE g == strategyShares'
  <2> HIDE DEF g
  <2>2. g[c] <= Total(g, Classes)
    BY <2>1, TotalBoundsElement DEF g
  <2>3. QED
    BY <1>4, <2>1, <2>2 DEF g
<1>9. Backing(c)' = collateral'[c]
  BY <1>4, <1>8 DEF Backing, StrategyValue
<1>10. Backing(c) <= collateral[c] + received[c]
  <2>1. CASE strategyShares[c] = 0
    BY <1>4, <1>5, <2>1 DEF Backing, StrategyValue
  <2>2. CASE strategyShares[c] # 0
    <3>1. c \in named
      BY <1>7, <1>8, <2>2
    <3>2. received[c] >= previewRedeem(strategyShares[c])
      <4> HIDE DEF received
      <4>1. QED
        BY <1>3, <3>1, UnwindPaysEnough
    <3>3. previewRedeem(strategyShares[c]) \in Nat
      BY SharesWithinSupply, BaseAdapter, RedeemRoundsDown
         DEF Shares, previewRedeem, AdapterInv, AdapterTypeOK, AtOrAbovePar
    <3> HIDE DEF received
    <3>4. QED
      BY <1>4, <1>5, <3>2, <3>3 DEF Backing, StrategyValue
  <2>3. QED
    BY <2>1, <2>2
<1>11. QED
  BY <1>4, <1>5, <1>9, <1>10

\* The emergency exit costs no class a unit of its backing, whatever the order
\* in which the admin names the classes and whatever the others hold.
THEOREM UnwindAlwaysKeepsBacking == Spec => UnwindKeepsBacking
<1>1. Init => Shares
  BY SharesInit
<1>2. Shares /\ [Next]_vars => Shares'
  BY SharesStep
<1>3. Shares /\ Shares' => (UnwindStep => \A c \in Classes : Backing(c)' >= Backing(c))
  BY UnwindBackingStep
<1>4. Shares /\ Shares' /\ [Next]_vars
        => [UnwindStep => \A c \in Classes : Backing(c)' >= Backing(c)]_vars
  BY <1>3
<1>5. QED
  BY <1>1, <1>2, <1>4, PTL DEF Spec, UnwindKeepsBacking
=============================================================================
