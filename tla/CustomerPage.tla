---------------------------- MODULE CustomerPage ----------------------------
(***************************************************************************)
(* The carbon page in the customer's browser (apps/web/public/app.js), in  *)
(* front of the order service and beside the recovery script.  One click   *)
(* runs one asynchronous function: it asks the wallet for a transaction,   *)
(* waits for it, tells the service and shows what the service answers.     *)
(*                                                                         *)
(* The page keeps one order in memory and nowhere else, and never asks the *)
(* service for an order's state: what it offers next is what the last      *)
(* answer it received said.  It gives up on a wallet after 90 seconds, on  *)
(* a transaction after three minutes and on a connection when it breaks,   *)
(* and none of these takes back what was asked for.                        *)
(*                                                                         *)
(* The wallet can pay for every token of the instance.  An approval is for *)
(* one price, so the allowance is whether one has been given and not used. *)
(***************************************************************************)
EXTENDS EscrowRecovery

ASSUME PageAssumption == IsFiniteSet(Orders) /\ None \notin Requests

VARIABLES
  page,      \* consumerOrder, the state it shows, and what runConsumerAction awaits
  allowance, \* the escrow may take one price from the wallet
  left       \* wallet requests the page no longer waits for

walletVars == <<page, allowance, left>>
pageVars == <<recoveryVars, walletVars>>

\* A page that has just been loaded.
NoPage == [order |-> None, shows |-> "none", awaits |-> "nothing", token |-> None,
           request |-> None]

PageInit == RecoveryInit /\ page = NoPage /\ allowance = FALSE /\ left = {}

consumerBusy == page.awaits # "nothing"

UnchangedOrders == UNCHANGED <<serviceVars, plan, sending>>

\* What the wallet is asked to sign in each step, and for which order.
Asked == [step |-> page.awaits, order |-> page.order]

WalletSteps == {"approve", "mint", "submit"}

\* A function of the page ends, or throws: the customer may click again.
Idle(shows) == [page EXCEPT !.shows = shows, !.awaits = "nothing", !.token = None,
                            !.request = None]

(***************************************************************************)
(* startConsumerOrder.                                                     *)
(***************************************************************************)
startConsumerOrder(o, w, approved) ==
  /\ ~consumerBusy
  /\ previewCarbon(o, w, approved)
  /\ page' = [NoPage EXCEPT !.order = o, !.shows = order'[o].state]
  /\ UNCHANGED <<plan, sending, allowance, left>>

(***************************************************************************)
(* runConsumerAction: the one button renderConsumerOrder offers.           *)
(***************************************************************************)
\* Mutant: a second click while the first is under way starts afresh.
OfferedBusy(shows) ==
  /\ page.order # None /\ page.shows = shows
  /\ consumerBusy => page.awaits \in WalletSteps

Offered(shows) == page.order # None /\ page.shows = shows /\ ~consumerBusy

\* approveEntitlementPayment is passed over while an allowance is left.  The
\* request a second click would strand stays in the wallet.
ClickMint ==
  /\ Offered("awaiting_mint")
  /\ page' = [page EXCEPT !.awaits = IF allowance THEN "mint" ELSE "approve"]
  /\ left' = IF consumerBusy THEN left \cup {Asked} ELSE left
  /\ UnchangedOrders /\ UNCHANGED allowance

ClickSubmit ==
  /\ Offered("awaiting_submit")
  /\ page' = [page EXCEPT !.awaits = "submit"]
  /\ UnchangedOrders /\ UNCHANGED <<allowance, left>>

(***************************************************************************)
(* sendWalletTransaction.  One step from the prompt to the receipt: all    *)
(* that matters is the state of the chain when the transaction is mined.   *)
(***************************************************************************)
Approved(asked) ==
  /\ asked.step = "approve"
  /\ allowance' = TRUE
  /\ UnchangedOrders

Minted(asked, t) ==
  /\ asked.step = "mint"
  /\ allowance
  /\ Purchase(t)
  /\ allowance' = FALSE
  /\ UNCHANGED <<plan, sending>>

Submitted(asked) ==
  /\ asked.step = "submit"
  /\ submitParcel(order[asked.order].token, order[asked.order].work)
  /\ UNCHANGED <<plan, sending, allowance>>

\* The wallet signs and the receipt says success.
WalletApproves ==
  /\ Approved(Asked)
  /\ page' = [page EXCEPT !.awaits = "mint"]
  /\ UNCHANGED left

WalletMints(t) ==
  /\ Minted(Asked, t)
  /\ page' = [page EXCEPT !.awaits = "post minted", !.token = t]
  /\ UNCHANGED left

WalletSubmits ==
  /\ Submitted(Asked)
  /\ page' = [page EXCEPT !.awaits = "post submitted"]
  /\ UNCHANGED left

\* The customer rejects the prompt, or the transaction reverts.
WalletRefuses ==
  /\ page.awaits \in WalletSteps
  /\ page' = Idle(page.shows)
  /\ UnchangedOrders /\ UNCHANGED <<allowance, left>>

\* What the page has stopped waiting for is signed and mined all the same, or
\* comes to nothing.
LateSigned(asked) ==
  /\ asked \in left
  /\ Approved(asked) \/ (\E t \in Tokens : Minted(asked, t)) \/ Submitted(asked)
  /\ left' = left \ {asked}
  /\ UNCHANGED page

LateRefused(asked) ==
  /\ asked \in left
  /\ left' = left \ {asked}
  /\ UnchangedOrders /\ UNCHANGED <<page, allowance>>

(***************************************************************************)
(* The posts.  The service takes the request up, or answers at once that   *)
(* the order is not in the state the page believes.                        *)
(***************************************************************************)
Endpoint(r) ==
  \/ /\ page.awaits = "post minted"
     /\ recordMint(r, page.order, page.token)
  \/ /\ page.awaits = "post submitted"
     /\ recordSubmitted(r, page.order)
  \/ /\ Offered("awaiting_retirement")
     /\ prepareRetirement(r, page.order)
  \/ /\ Offered("awaiting_relayer")
     /\ fulfilRetirement(r, page.order)
  \/ /\ Offered("provider_settled")
     /\ settleOrder(r, page.order)

Post(r) ==
  /\ Endpoint(r)
  /\ page' = [page EXCEPT !.awaits = "answer", !.request = r]
  /\ UNCHANGED <<plan, sending, allowance, left>>

\* 409, or the connection cannot be made: what the page held to tell is lost.
PostRefused ==
  /\ \/ page.awaits = "post minted" /\ order[page.order].state # "awaiting_mint"
     \/ page.awaits = "post submitted" /\ order[page.order].state # "awaiting_submit"
  /\ page' = Idle(page.shows)
  /\ UnchangedOrders /\ UNCHANGED <<allowance, left>>

Answered(r) == page.request = r /\ call'[r] = NoCall

\* The service works on; a request that succeeds has written the order, and
\* the page shows the order it is answered with.
Serve(r) ==
  /\ Handler(r)
  /\ page' = IF ~Answered(r) THEN page
             ELSE Idle(IF order' # order THEN order'[page.order].state ELSE page.shows)
  /\ UNCHANGED <<plan, sending, allowance, left>>

\* The handler throws half-way.
ServeFails(r) ==
  /\ RequestFails(r)
  /\ page' = IF page.request = r THEN Idle(page.shows) ELSE page
  /\ UNCHANGED <<plan, sending, allowance, left>>

ServiceRestarts ==
  /\ Restart
  /\ page' = IF page.awaits = "answer" THEN Idle(page.shows) ELSE page
  /\ UNCHANGED <<plan, sending, allowance, left>>

(***************************************************************************)
(* Giving up.                                                              *)
(***************************************************************************)
Fails ==
  /\ failures < MaxFailures
  /\ failures' = failures + 1
  /\ UNCHANGED <<order, token, auth, ledger, call, plan, sending>>

StillAsked == IF page.awaits \in WalletSteps THEN left \cup {Asked} ELSE left

\* The prompt, the transaction, the post or the answer takes too long.
GivesUp ==
  /\ Fails
  /\ consumerBusy
  /\ page' = Idle(page.shows)
  /\ left' = StillAsked
  /\ UNCHANGED allowance

\* The page is reloaded: the order's id goes with it.
Reload ==
  /\ Fails
  /\ page # NoPage
  /\ page' = NoPage
  /\ left' = StillAsked
  /\ UNCHANGED allowance

(***************************************************************************)
(* Everything.                                                             *)
(***************************************************************************)
Click == ClickMint \/ ClickSubmit

Wallets == WalletApproves \/ (\E t \in Tokens : WalletMints(t)) \/ WalletSubmits

Operator ==
  \/ Recovery \/ PassDies
  \/ \E t \in Tokens : MarkMoving(t) \/ MarkDelivered(t)

Chains ==
  \/ Base
  \/ \E r \in Requests : Forgotten(r)
  \/ \E key \in Tokens \X Works : resolveUnresolved(key)

PageNext ==
  \/ \E o \in Orders, w \in Works, approved \in BOOLEAN : startConsumerOrder(o, w, approved)
  \/ Click \/ Wallets \/ WalletRefuses \/ PostRefused
  \/ \E asked \in left : LateSigned(asked) \/ LateRefused(asked)
  \/ \E r \in Requests : Post(r) \/ Serve(r) \/ ServeFails(r)
  \/ ServiceRestarts \/ GivesUp \/ Reload
  \/ Operator /\ UNCHANGED walletVars
  \/ Chains /\ UNCHANGED <<plan, sending, walletVars>>

PageSpec == PageInit /\ [][PageNext]_pageVars

\* The customer goes on clicking and does not reject for ever, the service,
\* Base and the operator work on.  Nobody is made to order, to fail or to
\* leave.
PageFairness ==
  /\ SF_pageVars(Click \/ PostRefused \/ \E r \in Requests : Post(r))
  /\ SF_pageVars(Wallets)
  /\ WF_pageVars(\E r \in Requests : Serve(r))
  /\ WF_pageVars(Chains /\ UNCHANGED <<plan, sending, walletVars>>)
  /\ WF_pageVars(Recovery /\ UNCHANGED walletVars)

PageFairSpec == PageSpec /\ PageFairness

(***************************************************************************)
(* Properties.                                                             *)
(***************************************************************************)

\* Type invariant: the store, the chain, and what the page holds.
PageTypeOK ==
  /\ OrdersTypeOK
  /\ page \in [order : Orders \cup {None}, shows : {OrderStates[i] : i \in DOMAIN OrderStates},
               awaits : WalletSteps \cup {"nothing", "post minted", "post submitted", "answer"},
               token : Tokens \cup {None}, request : Requests \cup {None}]
  /\ allowance \in BOOLEAN
  /\ left \subseteq [step : WalletSteps, order : Orders]

\* A customer for whom nothing times out and nothing is reloaded pays once for
\* each order, however often the button is pressed: the busy flag and the
\* allowance of a single price see to it together.
PaidOnce ==
  failures = 0 =>
    Cardinality({t \in Tokens : token[t].state # "none"})
      <= Cardinality({o \in Orders : order[o].state \notin {"none", "refused"}})

\* An approved order is completed by clicking, unless something was cut short
\* or delivery was reported before there was any evidence of it.
CustomerServed ==
  \A o \in Orders :
    order[o].state = "awaiting_mint"
      ~> \/ order[o].state = "complete" \/ failures > 0
         \/ \E t \in Tokens : Contradictory(t)
=============================================================================
