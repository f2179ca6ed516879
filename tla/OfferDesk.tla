------------------------------ MODULE OfferDesk ------------------------------
(***************************************************************************)
(* How a provider's offer comes to be listed: the provider's console and   *)
(* the list of offers in the browser (apps/web/public/app.js on the carbon *)
(* lane, botchain/compute/compute.js on the compute lane), the catalogue   *)
(* the order service serves (consumer.ts) and the file of class ids it is  *)
(* rebuilt from (catalog.ts).                                              *)
(*                                                                         *)
(* The factory cannot list its classes.  The service knows a class when a  *)
(* console has told it or when one of its entitlements was sold, and reads *)
(* everything else from the factory, the escrow and the strategy each time *)
(* a list is asked for: three reads of three contracts, with the chain     *)
(* moving in between.                                                      *)
(*                                                                         *)
(* Money is counted in payouts.  A class's terms and price, the wallet's   *)
(* network and its approvals are left out, and so is what the page shows   *)
(* around the list; SettlementEscrow and EntitlementFactory hold the       *)
(* contracts' detail.                                                      *)
(***************************************************************************)
EXTENDS Integers, FiniteSets, Functions

CONSTANTS
  Lane,         \* the vertical of the deployment's chain
  Classes,
  Own,          \* the classes of this page's wallet
  None,
  Supply,       \* maxSupply of every class
  Loads,        \* loads of the list a page may have under way
  MaxMoves,     \* bound: changes of one class on chain
  MaxFailures   \* bound: requests, wallets and processes that fail

ASSUME DeskAssumption ==
  /\ Lane \in {"carbon", "compute"} /\ Own \subseteq Classes /\ None \notin Classes
  /\ Supply \in Nat \ {0} /\ MaxMoves \in Nat /\ MaxFailures \in Nat

VARIABLES
  offer,     \* per class: what the factory, the escrow and the strategy hold
  ids, file, \* OfferCatalog: the index in memory, the lines of its file
  console,   \* the step of the provider function that is running, its class
  stored,    \* localStorage: classes this wallet has created
  mine,      \* merchantOfferings: the offers the console can act on
  told,      \* classes announced as published
  load,      \* loads of the list under way
  view,      \* the list on the page
  due,       \* loadMerchantData is to run
  left,      \* wallet requests the page no longer waits for
  failures

chainVars == <<offer>>
indexVars == <<ids, file>>
deskVars == <<console, stored, mine, told, due, left>>
viewVars == <<load, view>>
offerVars == <<offer, ids, file, console, stored, mine, told, load, view, due, left, failures>>

NoOffer == [exists |-> FALSE, paused |-> FALSE, issuerPaused |-> FALSE, expired |-> FALSE,
            sold |-> 0, raw |-> 0, invested |-> 0, owed |-> 0, moves |-> 0]
Unread == [read |-> 0, at |-> 0, paused |-> FALSE, sold |-> 0, raw |-> 0, owed |-> 0,
           invested |-> 0, expired |-> FALSE]
NoLoad == [pc |-> "idle", latest |-> FALSE, got |-> <<>>]
NoView == [loaded |-> FALSE, offers |-> <<>>]
NoConsole == [pc |-> "idle", class |-> None]

\* The first load of a page is asked for when it opens.
FirstLoad == [l \in Loads |-> IF l = CHOOSE k \in Loads : TRUE
                              THEN [NoLoad EXCEPT !.pc = "asking", !.latest = TRUE]
                              ELSE NoLoad]

OffersInit ==
  /\ offer = [c \in Classes |-> NoOffer]
  /\ ids = {} /\ file = {}
  /\ console = NoConsole /\ stored = {} /\ mine = {} /\ told = {} /\ due = FALSE /\ left = {}
  /\ load = FirstLoad /\ view = NoView
  /\ failures = 0

Fails == failures < MaxFailures /\ failures' = failures + 1

Listed(v) == DOMAIN v.offers

(***************************************************************************)
(* The chain.                                                              *)
(***************************************************************************)
Moves(c, to) ==
  /\ offer[c].moves < MaxMoves
  /\ offer' = [offer EXCEPT ![c] = [to EXCEPT !.moves = offer[c].moves + 1]]

createClass(c) == ~offer[c].exists /\ Moves(c, [offer[c] EXCEPT !.exists = TRUE])

postCollateral(c, n) == offer[c].exists /\ Moves(c, [offer[c] EXCEPT !.raw = @ + n])

investCollateral(c, n) ==
  /\ n <= offer[c].raw
  /\ Moves(c, [offer[c] EXCEPT !.raw = @ - n, !.invested = @ + n])

\* Raw collateral first; what it lacks is redeemed.
withdrawCollateral(c, n) ==
  LET o == offer[c]
      shortfall == IF n > o.raw THEN n - o.raw ELSE 0
  IN  /\ o.raw + o.invested - n >= o.owed
      /\ Moves(c, [o EXCEPT !.raw = @ + shortfall - n, !.invested = @ - shortfall])

\* What EntitlementFactory.mint and SettlementEscrow.recordMint ask for.
Saleable(c) ==
  LET o == offer[c]
  IN  /\ o.exists /\ ~o.paused /\ ~o.issuerPaused /\ ~o.expired /\ o.sold < Supply
      /\ o.raw + o.invested >= o.owed + 1

mint(c) == Saleable(c) /\ Moves(c, [offer[c] EXCEPT !.sold = @ + 1, !.owed = @ + 1])

settle(c) == offer[c].owed > 0 /\ Moves(c, [offer[c] EXCEPT !.owed = @ - 1])

pauseClass(c) == offer[c].exists /\ Moves(c, [offer[c] EXCEPT !.paused = ~@])

pauseIssuer(c) == offer[c].exists /\ Moves(c, [offer[c] EXCEPT !.issuerPaused = ~@])

expire(c) == offer[c].exists /\ ~offer[c].expired /\ Moves(c, [offer[c] EXCEPT !.expired = TRUE])

\* What is signed elsewhere: classes made by a script or in another browser,
\* backing, which anyone may add, sales, settlements and pauses.  This page's
\* wallet signs what its console asks for, below.
Elsewhere(c) ==
  /\ \/ createClass(c) \/ postCollateral(c, 1) \/ mint(c)
     \/ settle(c) \/ pauseClass(c) \/ pauseIssuer(c) \/ expire(c)
  /\ UNCHANGED <<indexVars, deskVars, viewVars, failures>>

(***************************************************************************)
(* The service: OfferCatalog and catalog().                                *)
(***************************************************************************)
\* Mutant: the file is not written.
RememberInMemory(cs) == ids' = ids \cup cs /\ UNCHANGED file

\* The file first, then the memory, without a wait in between.
remember(cs) == file' = file \cup cs /\ ids' = ids \cup cs

ServiceRestarts ==
  /\ Fails
  /\ ids' = file
  /\ load' = [l \in Loads |-> IF load[l].pc = "reading" THEN NoLoad ELSE load[l]]
  /\ UNCHANGED <<chainVars, file, deskVars, view>>

\* Mutant: only what a console has told of.
IndexedByConsoles == IF Lane # "carbon" THEN {} ELSE ids

\* A chain that does not carry carbon has an empty catalogue.
Indexed == IF Lane # "carbon" THEN {} ELSE ids \cup {c \in Classes : offer[c].sold > 0}

catalog(l) ==
  /\ load[l].pc = "asking"
  /\ load' = [load EXCEPT ![l].pc = "reading", ![l].got = [c \in Indexed |-> Unread]]
  /\ remember(Indexed)
  /\ UNCHANGED <<chainVars, deskVars, view, failures>>

\* readOffering: the factory, then the escrow, then the strategy and the clock.
readOffering(l, c) ==
  LET o == offer[c]
      g == load[l].got[c]
      next == CASE g.read = 0 -> [g EXCEPT !.read = 1, !.at = o.moves, !.paused = o.paused,
                                           !.sold = o.sold]
                [] g.read = 1 -> [g EXCEPT !.read = 2, !.raw = o.raw, !.owed = o.owed]
                [] OTHER      -> [g EXCEPT !.read = 3, !.invested = o.invested,
                                           !.expired = o.expired]
  IN  /\ g.read < 3
      /\ load' = [load EXCEPT ![l].got[c] = next]

Read(l) ==
  /\ load[l].pc = "reading"
  /\ \E c \in DOMAIN load[l].got : readOffering(l, c)
  /\ UNCHANGED <<chainVars, indexVars, deskVars, view, failures>>

\* Mutant: the obligations already sold are not set against the backing.
AvailableIgnoringSold(g) ==
  ~g.paused /\ ~g.expired /\ g.sold < Supply /\ g.raw + g.invested >= 1

\* What the page shows as available: backing for one more sale.
available(g) ==
  ~g.paused /\ ~g.expired /\ g.sold < Supply /\ g.raw + g.invested >= g.owed + 1

(***************************************************************************)
(* The page's list: loadConsumerData, or loadOfferings of the compute      *)
(* page, which keeps the offers of vertical "compute" of a service that    *)
(* calls every offer "carbon".                                             *)
(***************************************************************************)
StartsLoad(l) ==
  /\ load[l] = NoLoad
  /\ load' = [k \in Loads |-> IF k = l THEN [NoLoad EXCEPT !.pc = "asking", !.latest = TRUE]
                              ELSE [load[k] EXCEPT !.latest = FALSE]]

Kept(got) == IF Lane = "carbon" THEN got ELSE <<>>

\* The generation counter; the compute page has none.
Shows(l) == load[l].latest \/ Lane = "compute"

Answered(l) ==
  /\ load[l].pc = "reading"
  /\ \A c \in DOMAIN load[l].got : load[l].got[c].read = 3
  /\ load' = [load EXCEPT ![l] = NoLoad]
  /\ IF Shows(l)
     THEN view' = [loaded |-> TRUE, offers |-> Kept(load[l].got)] /\ due' = (Lane = "carbon")
     ELSE UNCHANGED <<view, due>>
  /\ UNCHANGED <<chainVars, indexVars, console, stored, mine, told, left, failures>>

LoadFails(l) ==
  /\ Fails
  /\ load[l] # NoLoad
  /\ load' = [load EXCEPT ![l] = NoLoad]
  /\ UNCHANGED <<chainVars, indexVars, deskVars, view>>

(***************************************************************************)
(* The provider's console: one function at a time, each a few steps.       *)
(***************************************************************************)
merchantBusy == console.pc # "idle"

WalletSteps == {"create", "fund", "invest", "withdraw"}

Asked == [step |-> console.pc, class |-> console.class]

Goes(pc) == console' = [console EXCEPT !.pc = pc]

\* createMerchantOffer tells the service before it posts collateral,
\* publishProviderOffer after; what has been paid for is reloaded last.
After(step) ==
  CASE step = "create"   -> IF Lane = "carbon" THEN "discover" ELSE "fund"
    [] step = "discover" -> IF Lane = "carbon" THEN "fund" ELSE "announce"
    [] step = "fund"     -> IF Lane = "carbon" THEN "announce" ELSE "discover"
    [] OTHER             -> "refresh"

ClickCreate(c) ==
  /\ ~merchantBusy
  /\ c \in Own /\ ~offer[c].exists
  /\ console' = [pc |-> "create", class |-> c]
  /\ UNCHANGED <<chainVars, indexVars, stored, mine, told, due, left, viewVars, failures>>

\* fundMerchantOffer, investMerchantCollateral, withdrawMerchantCollateral.
Click(step, c) ==
  /\ ~merchantBusy
  /\ c \in mine
  /\ step \in WalletSteps \ {"create"}
  /\ console' = [pc |-> step, class |-> c]
  /\ UNCHANGED <<chainVars, indexVars, stored, mine, told, due, left, viewVars, failures>>

Signed(asked) ==
  \/ asked.step = "create" /\ createClass(asked.class)
  \/ asked.step = "fund" /\ postCollateral(asked.class, 1)
  \/ asked.step = "invest" /\ investCollateral(asked.class, 1)
  \/ asked.step = "withdraw" /\ withdrawCollateral(asked.class, 1)

\* rememberMerchantId, on the carbon page only.
Created ==
  stored' = IF console.pc = "create" /\ Lane = "carbon" THEN stored \cup {console.class} ELSE stored

\* The receipt says success.
WalletSigns ==
  /\ console.pc \in WalletSteps
  /\ Signed(Asked)
  /\ Created
  /\ Goes(After(console.pc))
  /\ UNCHANGED <<indexVars, mine, told, due, left, viewVars, failures>>

\* The wallet refuses or the transaction reverts.
WalletRefuses ==
  /\ console.pc \in WalletSteps
  /\ console' = NoConsole
  /\ UNCHANGED <<chainVars, indexVars, stored, mine, told, due, left, viewVars, failures>>

\* No answer in time: the function throws, and the wallet may sign later.
WalletTimesOut ==
  /\ Fails
  /\ console.pc \in WalletSteps
  /\ console' = NoConsole
  /\ left' = left \cup {Asked}
  /\ UNCHANGED <<chainVars, indexVars, stored, mine, told, due, viewVars>>

LateSigned(asked) ==
  /\ asked \in left
  /\ Signed(asked)
  /\ left' = left \ {asked}
  /\ UNCHANGED <<indexVars, console, stored, mine, told, due, viewVars, failures>>

\* merchantClass reads the offer; the compute lane's service refuses.
discoverable(c) == Lane = "carbon" /\ offer[c].exists

\* The compute page catches the refusal and goes on.
Discovers ==
  /\ console.pc = "discover"
  /\ remember({console.class} \cap {c \in Classes : discoverable(c)})
  /\ Goes(After("discover"))
  /\ UNCHANGED <<chainVars, stored, mine, told, due, left, viewVars, failures>>

\* The request is lost, or only its answer is.
DiscoverFails ==
  /\ Fails
  /\ console.pc = "discover"
  /\ remember({}) \/ remember({console.class} \cap {c \in Classes : discoverable(c)})
  /\ console' = IF Lane = "carbon" THEN NoConsole ELSE [console EXCEPT !.pc = "announce"]
  /\ UNCHANGED <<chainVars, stored, mine, told, due, left, viewVars>>

Announces ==
  /\ console.pc = "announce"
  /\ told' = told \cup {console.class}
  /\ Goes("refresh")
  /\ UNCHANGED <<chainVars, indexVars, stored, mine, due, left, viewVars, failures>>

\* await loadConsumerData, and then loadMerchantData.
Refreshes ==
  /\ console.pc = "refresh"
  /\ \E l \in Loads : StartsLoad(l)
  /\ Goes("awaits load")
  /\ UNCHANGED <<chainVars, indexVars, stored, mine, told, due, left, view, failures>>

Refreshed ==
  /\ console.pc = "awaits load"
  /\ \A l \in Loads : ~load[l].latest
  /\ console' = NoConsole
  /\ due' = (Lane = "carbon")
  /\ UNCHANGED <<chainVars, indexVars, stored, mine, told, left, viewVars, failures>>

\* Every class of this wallet the browser or the service knows is told of
\* again; those that cannot be read are passed over.
loadMerchantData(found) ==
  LET known == stored \cup (Indexed \cap Own)
  IN  /\ due
      /\ \/ found = known /\ UNCHANGED failures
         \/ found \subseteq known /\ found # known /\ Fails
      /\ due' = FALSE
      /\ mine' = found
      /\ remember(found \cup Indexed)
      /\ UNCHANGED <<chainVars, console, stored, told, left, viewVars>>

\* The page is opened again: everything but localStorage starts afresh.
Reopened ==
  /\ console' = NoConsole
  /\ mine' = {} /\ due' = FALSE
  /\ load' = FirstLoad /\ view' = NoView
  /\ UNCHANGED <<chainVars, indexVars, stored, told>>

Reopen == ~merchantBusy /\ ~due /\ (\A l \in Loads : load[l] = NoLoad) /\ Reopened
          /\ UNCHANGED <<left, failures>>

\* In the middle of what it was doing.
Abandon ==
  /\ Fails
  /\ merchantBusy
  /\ left' = IF console.pc \in WalletSteps THEN left \cup {Asked} ELSE left
  /\ Reopened

(***************************************************************************)
(* Everything.                                                             *)
(***************************************************************************)
Serves(l) == catalog(l) \/ Read(l) \/ Answered(l)

Works == Discovers \/ Announces \/ Refreshes \/ Refreshed

OffersNext ==
  \/ \E c \in Classes :
       \/ Elsewhere(c) \/ ClickCreate(c)
       \/ \E step \in WalletSteps : Click(step, c)
  \/ WalletSigns \/ WalletRefuses \/ WalletTimesOut
  \/ \E asked \in left : LateSigned(asked)
  \/ Works \/ DiscoverFails
  \/ \E found \in SUBSET Own : loadMerchantData(found)
  \/ \E l \in Loads : Serves(l) \/ LoadFails(l)
  \/ ServiceRestarts \/ Reopen \/ Abandon

OffersSpec == OffersInit /\ [][OffersNext]_offerVars

\* The service answers, the page's functions run on, a wallet's request is
\* signed or refused, and the page is opened again some time or other.
OffersFairness ==
  /\ \A l \in Loads : WF_offerVars(Serves(l))
  /\ WF_offerVars(Works)
  /\ WF_offerVars(WalletSigns \/ WalletRefuses)
  /\ WF_offerVars(\E found \in SUBSET Own : loadMerchantData(found))
  /\ SF_offerVars(Reopen)

OffersFairSpec == OffersSpec /\ OffersFairness

(***************************************************************************)
(* Properties.                                                             *)
(***************************************************************************)

\* Type invariant: the contracts, the index and the page.
OffersTypeOK ==
  /\ offer \in [Classes -> [exists : BOOLEAN, paused : BOOLEAN, issuerPaused : BOOLEAN,
                            expired : BOOLEAN, sold : 0..Supply, raw : 0..MaxMoves,
                            invested : 0..MaxMoves, owed : 0..Supply, moves : 0..MaxMoves]]
  /\ ids \subseteq Classes /\ file \subseteq Classes
  /\ console.class \in Own \cup {None}
  /\ stored \subseteq Own /\ mine \subseteq Own /\ told \subseteq Own
  /\ Listed(view) \subseteq Classes /\ due \in BOOLEAN
  /\ \A asked \in left : asked.step \in WalletSteps /\ asked.class \in Own

\* What the page shows as available can be bought, and the other way round,
\* unless the class moved while it was read or since: two programs, the
\* service and the contracts, mean the same by an offer that can be sold.  A
\* paused issuer's offers are the exception: the service does not look.
ShownIsSaleable ==
  \A c \in Listed(view) :
    view.offers[c].at = offer[c].moves /\ ~offer[c].issuerPaused
      => (available(view.offers[c]) <=> Saleable(c))

\* The service forgets no class, restarts included, and an answer takes no
\* offer off a page that shows it, however late it comes.
ListedStaysListed ==
  [][/\ ids \subseteq ids'
     /\ view'.loaded => Listed(view) \subseteq Listed(view')]_offerVars

\* What the compute page tells the provider: buyers can find the offer.
AnnouncedIsListed == \A c \in Classes : c \in told ~> c \in Listed(view)

\* An offer that was announced, that the browser keeps or that was sold is
\* listed in time, whatever failed on the way.
PublishedIsListed ==
  \A c \in Classes :
    (c \in told \cup stored \/ offer[c].sold > 0) ~> c \in Listed(view)
==============================================================================
