-------------------------- MODULE AaveYieldAdapter --------------------------
(***************************************************************************)
(* The ERC-4626-like share ledger in front of Aave V3                      *)
(* (packages/contracts/src/AaveYieldAdapter.sol).  The escrow is its only  *)
(* caller.  Shares are issued against the adapter's aToken balance, which  *)
(* Aave grows as interest accrues; every conversion is an integer division *)
(* and the direction it rounds in is the whole subject of this module.     *)
(*                                                                         *)
(* The Aave pool is external: supply and withdraw move exactly the amount  *)
(* asked for, and the only other thing it does is to accrue interest.      *)
(***************************************************************************)
EXTENDS Integers

CONSTANT MaxAssets      \* bound: the largest aToken balance a run explores

ASSUME MaxAssetsAssumption == MaxAssets \in Nat

VARIABLES
    totalShares,        \* shares issued to the escrow, over all classes
    totalAssets         \* aToken.balanceOf(adapter)

adapterVars == <<totalShares, totalAssets>>

-----------------------------------------------------------------------------
(* Conversions between assets and shares, for a ledger of S shares backed  *)
(* by A assets.                                                            *)

\* Mutant: the division rounds in the depositor's favour.
DepositRoundingUp(assets, S, A) ==
    IF S = 0 THEN assets ELSE (assets * S + A - 1) \div A

\* previewDeposit: a first deposit is one to one, later ones round down.
SharesForDeposit(assets, S, A) ==
    IF S = 0 THEN assets ELSE (assets * S) \div A

\* Mutant: divides before it multiplies.
RedeemDividingFirst(shares, S, A) ==
    IF shares = 0 \/ A = 0 THEN 0 ELSE (shares \div S) * A

\* previewRedeem: rounds down.
AssetsForShares(shares, S, A) ==
    IF shares = 0 \/ A = 0 THEN 0 ELSE (shares * A) \div S

\* Mutant: always one share more, instead of only when the division is inexact.
WithdrawRoundingPast(assets, S, A) ==
    IF assets = 0 THEN 0 ELSE (assets * S) \div A + 1

\* previewWithdraw: rounds up.
SharesForAssets(assets, S, A) ==
    IF assets = 0 THEN 0 ELSE (assets * S + A - 1) \div A

previewDeposit(assets)  == SharesForDeposit(assets, totalShares, totalAssets)
previewRedeem(shares)   == AssetsForShares(shares, totalShares, totalAssets)
previewWithdraw(assets) == SharesForAssets(assets, totalShares, totalAssets)

\* The AccountingInvariant reverts: shares exist, but nothing is behind them.
Accountable == totalShares > 0 => totalAssets > 0

-----------------------------------------------------------------------------
AdapterInit ==
    /\ totalShares = 0
    /\ totalAssets = 0

\* deposit(assets): pulls assets from the escrow and supplies them to Aave.
deposit(assets, shares) ==
    /\ assets > 0
    /\ Accountable
    /\ shares = previewDeposit(assets)
    /\ shares > 0                                   \* ZeroShares
    /\ totalAssets + assets <= MaxAssets
    /\ totalShares' = totalShares + shares
    /\ totalAssets' = totalAssets + assets

\* redeem(shares): burns shares and sends the assets back to the escrow.
redeem(shares, assets) ==
    /\ shares > 0
    /\ shares <= totalShares                        \* TooManyShares
    /\ assets = previewRedeem(shares)
    /\ assets > 0                                   \* AccountingInvariant
    /\ assets <= totalAssets                        \* the pool pays in full
    /\ totalShares' = totalShares - shares
    /\ totalAssets' = totalAssets - assets

\* Interest on the aToken balance (Aave; external).
AccrueYield ==
    /\ 0 < totalAssets
    /\ totalAssets < MaxAssets
    /\ totalAssets' = totalAssets + 1
    /\ UNCHANGED totalShares

AdapterNext ==
    \/ \E assets \in 1 .. MaxAssets : deposit(assets, previewDeposit(assets))
    \/ \E shares \in 1 .. totalShares : redeem(shares, previewRedeem(shares))
    \/ AccrueYield

AdapterSpec == AdapterInit /\ [][AdapterNext]_adapterVars

-----------------------------------------------------------------------------
(* Properties                                                              *)

\* Type invariant: supply and assets are natural numbers within the bound.
AdapterTypeOK ==
    /\ totalShares \in Nat
    /\ totalAssets \in Nat

\* A share is never worth less than the asset it was first issued for: with
\* deposits and redemptions both rounding down, the ledger stays at or above
\* par, whatever the order of the calls.
AtOrAbovePar == totalAssets >= totalShares

\* No redemption the ledger covers can hit the AccountingInvariant revert of
\* `redeem`, so neither a withdrawal nor the emergency unwind is ever blocked
\* by a position too small to be worth one unit.
EveryShareRedeemable ==
    \A shares \in 1 .. totalShares :
        previewRedeem(shares) \in 1 .. totalAssets

\* "a caller asking for X assets must burn enough shares to receive at least X"
\* (the comment on previewWithdraw): redeeming the shares previewWithdraw
\* quotes pays at least the amount asked for.
WithdrawCoversRequest ==
    \A assets \in 1 .. totalAssets :
        LET shares == previewWithdraw(assets) IN
        shares \in 1 .. totalShares => previewRedeem(shares) >= assets

\* Rounding always favours those who stay: no deposit and no redemption, of
\* any class, lowers what a share held by another class is worth.
SharePriceNeverFalls ==
    [][ totalShares > 0 /\ totalShares' > 0
          => totalAssets' * totalShares >= totalAssets * totalShares'
      ]_adapterVars
=============================================================================
