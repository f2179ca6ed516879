-------------------------- MODULE EntitlementMarket --------------------------
(***************************************************************************)
(* Resale of unbound entitlements                                          *)
(* (packages/contracts/src/EntitlementMarket.sol).  The market never has   *)
(* custody: a listing is a note that its seller will sell, and the token   *)
(* goes on living - it is transferred, put under review, expires - without *)
(* the market hearing of it.                                               *)
(*                                                                         *)
(* ERC-721 approvals and the settlement token are external: an approval of *)
(* one token is cleared when the token moves, an approval for all is not.  *)
(***************************************************************************)
EXTENDS ServiceEntitlement

CONSTANTS
    Prices,             \* asking prices
    Wealth              \* what every account starts with

ASSUME MarketAssumption ==
    /\ Prices \subseteq Nat \ {0}
    /\ Wealth \in Nat

VARIABLES
    listings,           \* listings[id], one per token
    approved,           \* tokens whose getApproved is the market
    operators,          \* accounts with isApprovedForAll(account, market)
    money               \* settlement token per account

marketVars == <<listings, approved, operators, money>>

Listing == [seller : Accounts, price : Prices]

\* The deleted slot: the seller is the zero address.
NoListing == [seller |-> NoOne]

-----------------------------------------------------------------------------
MarketInit ==
    /\ EntitlementInit
    /\ listings = [id \in TokenIds |-> NoListing]
    /\ approved = {}
    /\ operators = {}
    /\ money = [a \in Accounts |-> Wealth]

(* The holder's side: approvals and transfers outside the market.          *)

approve(id) ==
    /\ ownerOf[id] \in Accounts
    /\ approved' \in {approved \union {id}, approved \ {id}}
    /\ UNCHANGED <<entitlementVars, listings, operators, money>>

setApprovalForAll(a) ==
    /\ operators' \in {operators \union {a}, operators \ {a}}
    /\ UNCHANGED <<entitlementVars, listings, approved, money>>

transferFrom(id, to) ==
    /\ transfer(id, to)
    /\ approved' = approved \ {id}
    /\ UNCHANGED <<listings, operators, money>>

(* The market                                                              *)

\* _requireUnbound.
Unbound(id) == stateOf[id] = "Available"

MarketApproved(id) == id \in approved \/ ownerOf[id] \in operators

list(id, caller, price) ==
    /\ ownerOf[id] = caller
    /\ listings[id] = NoListing                     \* AlreadyListed
    /\ Unbound(id)
    /\ MarketApproved(id)
    /\ listings' = [listings EXCEPT ![id] = [seller |-> caller, price |-> price]]
    /\ UNCHANGED <<entitlementVars, approved, operators, money>>

cancel(id, caller) ==
    /\ listings[id].seller = caller
    /\ listings' = [listings EXCEPT ![id] = NoListing]
    /\ UNCHANGED <<entitlementVars, approved, operators, money>>

\* Mutant: a stale listing is filled on behalf of whoever holds the token now.
BuyFromStaleSeller(id, caller, expectedPrice) ==
    /\ listings[id] # NoListing
    /\ listings[id].price = expectedPrice
    /\ LET seller == listings[id].seller IN
         /\ seller # caller
         /\ Unbound(id)
         /\ money[caller] >= expectedPrice
         /\ MarketApproved(id)
         /\ money' = [money EXCEPT ![caller] = @ - expectedPrice,
                                   ![seller] = @ + expectedPrice]
    /\ listings' = [listings EXCEPT ![id] = NoListing]
    /\ transfer(id, caller)
    /\ approved' = approved \ {id}
    /\ UNCHANGED operators

buy(id, caller, expectedPrice) ==
    /\ listings[id] # NoListing
    /\ listings[id].price = expectedPrice           \* PriceChanged
    /\ LET seller == listings[id].seller IN
         /\ seller # caller                         \* CannotBuyOwnListing
         /\ ownerOf[id] = seller                    \* SellerNoLongerOwns
         /\ Unbound(id)
         /\ money[caller] >= expectedPrice
         /\ MarketApproved(id)                      \* checked by ERC-721
         /\ money' = [money EXCEPT ![caller] = @ - expectedPrice,
                                   ![seller] = @ + expectedPrice]
    /\ listings' = [listings EXCEPT ![id] = NoListing]
    /\ transfer(id, caller)
    /\ approved' = approved \ {id}
    /\ UNCHANGED operators

\* What happens to the tokens without the market.
LifecycleStep ==
    /\ \/ setClasses
       \/ Tick
       \/ \E id \in TokenIds :
            \/ \E c \in Classes, to \in Accounts : mint(id, c, to)
            \/ Review(id)
            \/ Progress(id)
    /\ UNCHANGED marketVars

MarketNext ==
    \/ LifecycleStep
    \/ \E a \in Accounts : setApprovalForAll(a)
    \/ \E id \in TokenIds :
         \/ approve(id)
         \/ \E to \in Accounts : transferFrom(id, to)
         \/ \E a \in Accounts : cancel(id, a)
         \/ \E a \in Accounts, price \in Prices : list(id, a, price) \/ buy(id, a, price)

MarketSpec == MarketInit /\ [][MarketNext]_<<entitlementVars, marketVars>>

-----------------------------------------------------------------------------
(* Properties                                                              *)

\* Type invariant: the listings and the money, beside the token's own.
MarketTypeOK ==
    /\ EntitlementTypeOK
    /\ listings \in [TokenIds -> Listing \union {NoListing}]
    /\ approved \subseteq TokenIds
    /\ operators \subseteq Accounts
    /\ money \in [Accounts -> Nat]

\* However stale the listings are, money only ever changes hands against a
\* token: the account that gets richer gives up one unbound token it held, to
\* the account that gets poorer, for the price it had set itself, and the
\* listing is gone so that it cannot be filled again.
MoneyMovesWithToken ==
    [][ \A a \in Accounts :
          money'[a] > money[a] =>
            \E id \in TokenIds, b \in Accounts \ {a} :
              /\ ownerOf[id] = a /\ ownerOf'[id] = b
              /\ stateOf[id] = "Available"
              /\ listings[id] = [seller |-> a, price |-> money'[a] - money[a]]
              /\ money'[b] = money[b] - (money'[a] - money[a])
              /\ listings'[id] = NoListing
      ]_<<entitlementVars, marketVars>>
=============================================================================
