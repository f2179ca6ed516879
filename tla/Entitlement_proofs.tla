------------------------- MODULE Entitlement_proofs -------------------------
(***************************************************************************)
(* Proofs about the token between the contracts that act on it.            *)
(*                                                                         *)
(* Registry, market and token over one state (ReviewAndResale): the        *)
(* registry tells the token's story, evidence follows approval, what is    *)
(* bound stays bound, and money moves against tokens only.                 *)
(*                                                                         *)
(* Token, factory and escrow (EntitlementFactory): three contracts count   *)
(* the same sales.  The factory drives the escrow as the escrow's own      *)
(* specification assumes, so everything proved of the escrow alone holds   *)
(* of the escrow the factory drives; with the counting of units this backs *)
(* every promise across the contracts.                                     *)
(***************************************************************************)
EXTENDS ReviewAndResale, EntitlementFactory, FiniteSetTheorems, TLAPS

-----------------------------------------------------------------------------
(***************************************************************************)
(* Registry, market and token.                                             *)
(***************************************************************************)

\* Tokens not minted yet have no state.
Unminted == \A id \in TokenIds : id >= nextTokenId => stateOf[id] = "None"

\* The inductive invariant.  A mint makes a token Available whatever the registry
\* has on record for its id: it fits because the id is one that had no state.
ResaleInv == ResaleTypeOK /\ Unminted /\ VerdictMatchesState /\ EvidenceOnlyForApproved

-----------------------------------------------------------------------------
(* The initial state, and the steps case by case.                          *)

LEMMA ResaleInitially == ASSUME ResaleInit PROVE ResaleInv
<1>1. EntitlementTypeOK /\ Unminted
  <2>1. EntitlementInit
    BY DEF ResaleInit, RegistryInit
  <2>2. classesSet \in BOOLEAN /\ now \in Nat
    BY <2>1 DEF EntitlementInit
  <2>3. nextTokenId \in 1 .. MaxTokens + 1
    BY <2>1, EntitlementAssumption DEF EntitlementInit, EntitlementAssumption
  <2>4. "None" \in States
    BY DEF States
  <2>5. QED
    BY <2>1, <2>2, <2>3, <2>4 DEF EntitlementInit, EntitlementTypeOK, Unminted
<1> USE RegistryAssumption, MarketAssumption DEF RegistryAssumption, MarketAssumption
<1>2. RegistryTypeOK
  BY <1>1 DEF ResaleInit, RegistryInit, RegistryTypeOK, Activation, NoActivation, Verdicts
<1>3. MarketTypeOK
  BY <1>1 DEF ResaleInit, MarketInit, MarketTypeOK
<1>4. VerdictMatchesState
  BY DEF ResaleInit, RegistryInit, EntitlementInit, VerdictMatchesState, StatesFor,
         NoActivation
<1>5. EvidenceOnlyForApproved
  BY DEF ResaleInit, RegistryInit, EntitlementInit, EvidenceOnlyForApproved, NoActivation
<1>6. QED
  BY <1>1, <1>2, <1>3, <1>4, <1>5 DEF ResaleInv, ResaleTypeOK

\* Where a step leaves the registry's record alone, it is enough that the token
\* moves within the states the record allows.
LEMMA TokenMoves ==
    ASSUME ResaleInv, UNCHANGED registryVars, EntitlementTypeOK', Unminted',
           \A id \in TokenIds :
             \/ stateOf'[id] = stateOf[id]
             \/ {stateOf[id], stateOf'[id]} \subseteq {"None", "Available", "Expired"}
             \/ /\ {stateOf[id], stateOf'[id]} \subseteq Bound \union {"Delivered", "Remedied"}
                /\ stateOf[id] \in Bound
    PROVE  /\ RegistryTypeOK' /\ Unminted'
           /\ VerdictMatchesState' /\ EvidenceOnlyForApproved'
<1>1. RegistryTypeOK'
  BY DEF ResaleInv, ResaleTypeOK, RegistryTypeOK, registryVars
<1>2. VerdictMatchesState'
  BY DEF ResaleInv, VerdictMatchesState, registryVars, StatesFor, Bound
<1>3. EvidenceOnlyForApproved'
  BY DEF ResaleInv, EvidenceOnlyForApproved, registryVars, Bound
<1>4. QED
  BY <1>1, <1>2, <1>3

-----------------------------------------------------------------------------
(* The token: minting, its lifecycle outside the review, a change of hands. *)

LEMMA MintKeeps ==
    ASSUME ResaleInv, NEW id \in TokenIds, NEW c \in Classes, NEW to \in Accounts,
           mint(id, c, to), UNCHANGED registryVars
    PROVE  EntitlementTypeOK' /\ Unminted' /\ VerdictMatchesState'
           /\ EvidenceOnlyForApproved' /\ RegistryTypeOK'
<1>1. EntitlementTypeOK /\ Unminted
  BY DEF ResaleInv, ResaleTypeOK, RegistryTypeOK
<1>2. EntitlementTypeOK' /\ Unminted'
  BY <1>1, EntitlementAssumption DEF mint, EntitlementTypeOK, Unminted, TokenIds, States
<1>3. stateOf[id] = "None" /\ stateOf' = [stateOf EXCEPT ![id] = "Available"]
  BY <1>1 DEF mint, Unminted, EntitlementTypeOK, TokenIds
<1>4. \A t \in TokenIds :
        \/ stateOf'[t] = stateOf[t]
        \/ {stateOf[t], stateOf'[t]} \subseteq {"None", "Available", "Expired"}
  BY <1>1, <1>3 DEF EntitlementTypeOK
<1>5. QED
  BY <1>2, <1>4, TokenMoves

\* Any transition of the token keeps its types.
LEMMA TransitionTypes ==
    ASSUME EntitlementTypeOK, Unminted, NEW id \in TokenIds,
           NEW from \in SUBSET (States \ {"None"}), NEW to \in States, Transition(id, from, to)
    PROVE  /\ EntitlementTypeOK' /\ Unminted'
           /\ stateOf[id] \in from /\ stateOf'[id] = to
           /\ \A t \in TokenIds \ {id} : stateOf'[t] = stateOf[t]
BY DEF Transition, EntitlementTypeOK, Unminted

LEMMA ProgressKeeps ==
    ASSUME ResaleInv, NEW id \in TokenIds, Progress(id), UNCHANGED registryVars
    PROVE  EntitlementTypeOK' /\ Unminted' /\ VerdictMatchesState'
           /\ EvidenceOnlyForApproved' /\ RegistryTypeOK'
<1>1. EntitlementTypeOK /\ Unminted
  BY DEF ResaleInv, ResaleTypeOK, RegistryTypeOK
<1> DEFINE Moves == \A t \in TokenIds :
             \/ stateOf'[t] = stateOf[t]
             \/ {stateOf[t], stateOf'[t]} \subseteq {"None", "Available", "Expired"}
             \/ /\ {stateOf[t], stateOf'[t]} \subseteq Bound \union {"Delivered", "Remedied"}
                /\ stateOf[t] \in Bound
<1>2. CASE recordLabel(id)
  <2>1. Transition(id, {"Activated"}, "LabelCreated")
    BY <1>2 DEF recordLabel
  <2>2. EntitlementTypeOK' /\ Unminted' /\ Moves
    BY <1>1, <2>1, TransitionTypes DEF States, Bound
  <2>3. QED
    BY <2>2, TokenMoves
<1>3. CASE recordPickup(id)
  <2>1. Transition(id, {"LabelCreated"}, "InTransit")
    BY <1>3 DEF recordPickup
  <2>2. EntitlementTypeOK' /\ Unminted' /\ Moves
    BY <1>1, <2>1, TransitionTypes DEF States, Bound
  <2>3. QED
    BY <2>2, TokenMoves
<1>4. CASE recordDelivery(id)
  <2>1. Transition(id, {"InTransit"}, "Delivered")
    BY <1>4 DEF recordDelivery
  <2>2. EntitlementTypeOK' /\ Unminted' /\ Moves
    BY <1>1, <2>1, TransitionTypes DEF States, Bound
  <2>3. QED
    BY <2>2, TokenMoves
<1>5. CASE recordRemedy(id)
  <2>1. Transition(id, Bound, "Remedied")
    BY <1>5 DEF recordRemedy
  <2>2. EntitlementTypeOK' /\ Unminted' /\ Moves
    BY <1>1, <2>1, TransitionTypes DEF States, Bound
  <2>3. QED
    BY <2>2, TokenMoves
<1>6. CASE expire(id)
  <2>1. Transition(id, {"Available"}, "Expired")
    BY <1>6 DEF expire
  <2>2. EntitlementTypeOK' /\ Unminted' /\ Moves
    BY <1>1, <2>1, TransitionTypes DEF States, Bound
  <2>3. QED
    BY <2>2, TokenMoves
<1>7. QED
  BY <1>2, <1>3, <1>4, <1>5, <1>6 DEF Progress

\* A step that leaves the lifecycle of every token alone.
LEMMA StateKept ==
    ASSUME ResaleInv, UNCHANGED <<stateOf, nextTokenId>>, UNCHANGED registryVars,
           EntitlementTypeOK'
    PROVE  Unminted' /\ VerdictMatchesState' /\ EvidenceOnlyForApproved' /\ RegistryTypeOK'
<1>1. Unminted'
  BY DEF ResaleInv, Unminted
<1>2. QED
  BY <1>1, TokenMoves

\* The market's part of the type invariant, in a step that does not touch it.
LEMMA MarketKept ==
    ASSUME MarketTypeOK, EntitlementTypeOK', UNCHANGED marketVars
    PROVE  MarketTypeOK'
BY DEF MarketTypeOK, marketVars

LEMMA TokenAloneKeeps == ASSUME ResaleInv, TokenAlone PROVE ResaleInv'
<1>1. EntitlementTypeOK /\ MarketTypeOK
  BY DEF ResaleInv, ResaleTypeOK, MarketTypeOK
<1>2. UNCHANGED registryVars /\ UNCHANGED marketVars
  BY DEF TokenAlone
<1>3. CASE setClasses \/ Tick
  <2>1. UNCHANGED <<classOf, stateOf, ownerOf, nextTokenId>>
    BY <1>3 DEF setClasses, Tick
  <2>2. classesSet' \in BOOLEAN /\ now' \in Nat
    <3>1. CASE setClasses
      BY <1>1, <3>1 DEF setClasses, EntitlementTypeOK
    <3>2. CASE Tick
      BY <1>1, <3>2 DEF Tick, EntitlementTypeOK
    <3>3. QED
      BY <1>3, <3>1, <3>2
  <2>3. EntitlementTypeOK'
    BY <1>1, <2>1, <2>2 DEF EntitlementTypeOK
  <2>4. QED
    BY <1>1, <1>2, <2>1, <2>3, StateKept, MarketKept DEF ResaleInv, ResaleTypeOK
<1>4. CASE \E id \in TokenIds, c \in Classes, to \in Accounts : mint(id, c, to)
  BY <1>1, <1>2, <1>4, MintKeeps, MarketKept DEF ResaleInv, ResaleTypeOK
<1>5. CASE \E id \in TokenIds : Progress(id)
  BY <1>1, <1>2, <1>5, ProgressKeeps, MarketKept DEF ResaleInv, ResaleTypeOK
<1>6. QED
  BY <1>3, <1>4, <1>5 DEF TokenAlone

-----------------------------------------------------------------------------
(* The registry: each of its functions writes its own record and makes the *)
(* token move, and the two changes fit each other.                         *)

\* The registry's record of one token after a step that changes only that record:
\* the others are as they were, and tell the story they told.
LEMMA OneRecordMoves ==
    ASSUME ResaleInv, EntitlementTypeOK', NEW id \in TokenIds, NEW act \in Activation,
           activations' = [activations EXCEPT ![id] = act],
           tracking' \subseteq TokenIds,
           nextTokenId' = nextTokenId, stateOf[id] # "None",
           \A t \in TokenIds \ {id} : stateOf'[t] = stateOf[t] /\ (t \in tracking' => t \in tracking),
           stateOf'[id] \in StatesFor(act),
           act.decision # NoHash <=> act.verdict # "None",
           act.activated <=> act.verdict = "Approved",
           act.carrier # NoHash => act.verdict = "Approved",
           id \in tracking' => stateOf'[id] = "Delivered"
    PROVE  /\ RegistryTypeOK' /\ Unminted'
           /\ VerdictMatchesState' /\ EvidenceOnlyForApproved'
<1>1. activations \in [TokenIds -> Activation]
  BY DEF ResaleInv, ResaleTypeOK, RegistryTypeOK
<1>2. activations'[id] = act /\ \A t \in TokenIds \ {id} : activations'[t] = activations[t]
  BY <1>1
<1>3. RegistryTypeOK'
  BY <1>1 DEF RegistryTypeOK
<1>4. Unminted'
  BY DEF ResaleInv, Unminted
<1>5. VerdictMatchesState'
  BY <1>2 DEF ResaleInv, VerdictMatchesState, StatesFor
<1>6. EvidenceOnlyForApproved'
  BY <1>2 DEF ResaleInv, EvidenceOnlyForApproved
<1>7. QED
  BY <1>3, <1>4, <1>5, <1>6

LEMMA SubmitKeeps ==
    ASSUME ResaleInv, NEW id \in TokenIds, NEW caller \in Accounts, NEW parcel \in Hashes,
           submitParcel(id, caller, parcel)
    PROVE  RegistryTypeOK' /\ Unminted' /\ VerdictMatchesState' /\ EvidenceOnlyForApproved'
<1> DEFINE act == [activations[id] EXCEPT !.parcel = parcel, !.submitted = TRUE,
                     !.attempt = @ + 1, !.verdict = "None", !.decision = NoHash]
<1>1. EntitlementTypeOK /\ Unminted /\ activations[id] \in Activation
  BY DEF ResaleInv, ResaleTypeOK, RegistryTypeOK
<1>2. Transition(id, {"Available"}, "PendingReview")
  BY DEF submitParcel, submitForReview
<1>3. /\ EntitlementTypeOK' /\ Unminted' /\ nextTokenId' = nextTokenId
      /\ stateOf[id] = "Available" /\ stateOf'[id] = "PendingReview"
      /\ \A t \in TokenIds \ {id} : stateOf'[t] = stateOf[t]
  <2>1. nextTokenId' = nextTokenId
    BY <1>2 DEF Transition
  <2>2. QED
    BY <1>1, <1>2, <2>1, TransitionTypes DEF States
<1>4. act \in Activation /\ activations' = [activations EXCEPT ![id] = act]
  <2>1. act \in Activation
    <3>1. activations[id].attempt + 1 \in Nat /\ "None" \in Verdicts
      BY <1>1 DEF Activation, Verdicts
    <3>2. QED
      BY <1>1, <3>1 DEF Activation
  <2>2. activations' = [activations EXCEPT ![id] = act]
    BY DEF submitParcel
  <2>3. QED
    BY <2>1, <2>2
<1>5. /\ act.attempt > 0 /\ act.verdict = "None" /\ act.decision = NoHash
      /\ act.carrier = activations[id].carrier /\ act.activated = activations[id].activated
  BY <1>1 DEF Activation
<1>6. activations[id].carrier = NoHash /\ activations[id].activated = FALSE
  BY <1>1, <1>3 DEF ResaleInv, VerdictMatchesState, EvidenceOnlyForApproved, StatesFor, Bound,
                    Activation
<1>7. stateOf'[id] \in StatesFor(act)
  BY <1>3, <1>5 DEF StatesFor
<1>8. tracking' = tracking /\ id \notin tracking /\ tracking \subseteq TokenIds
  BY <1>3 DEF ResaleInv, EvidenceOnlyForApproved, submitParcel, ResaleTypeOK, RegistryTypeOK
<1> HIDE DEF act
<1>9. QED
  BY <1>3, <1>4, <1>5, <1>6, <1>7, <1>8, OneRecordMoves

LEMMA DecisionKeeps ==
    ASSUME ResaleInv, NEW id \in TokenIds, NEW decision \in Hashes, NEW verdict \in Verdicts,
           recordDecision(id, decision, verdict)
    PROVE  RegistryTypeOK' /\ Unminted' /\ VerdictMatchesState' /\ EvidenceOnlyForApproved'
<1> DEFINE act == [activations[id] EXCEPT !.decision = decision, !.verdict = verdict,
                     !.activated = @ \/ verdict = "Approved"]
           to == IF verdict = "Approved" THEN "Activated" ELSE "Available"
<1>1. EntitlementTypeOK /\ Unminted /\ activations[id] \in Activation
  BY DEF ResaleInv, ResaleTypeOK, RegistryTypeOK
<1>2. Transition(id, {"PendingReview"}, to)
  BY DEF recordDecision, approveActivation, rejectActivation
<1>3. /\ EntitlementTypeOK' /\ Unminted' /\ nextTokenId' = nextTokenId
      /\ stateOf[id] = "PendingReview" /\ stateOf'[id] = to
      /\ \A t \in TokenIds \ {id} : stateOf'[t] = stateOf[t]
  <2>1. nextTokenId' = nextTokenId
    BY <1>2 DEF Transition
  <2>2. to \in States
    BY DEF States
  <2>3. QED
    BY <1>1, <1>2, <2>1, <2>2, TransitionTypes DEF States
<1>4. act \in Activation /\ activations' = [activations EXCEPT ![id] = act]
  BY <1>1, RegistryAssumption DEF recordDecision, Activation, RegistryAssumption
<1>5. activations[id].verdict = "None" /\ activations[id].attempt > 0
      /\ activations[id].carrier = NoHash /\ activations[id].activated = FALSE
  BY <1>1, <1>3 DEF ResaleInv, VerdictMatchesState, EvidenceOnlyForApproved, StatesFor, Bound,
                    Activation
<1>6. /\ act.attempt > 0 /\ act.verdict = verdict /\ verdict # "None" /\ act.decision = decision
      /\ act.carrier = NoHash /\ (act.activated <=> verdict = "Approved")
  BY <1>1, <1>5 DEF Activation, recordDecision
<1>7. stateOf'[id] \in StatesFor(act)
  BY <1>3, <1>6 DEF StatesFor, Bound
<1>8. tracking' = tracking /\ id \notin tracking /\ tracking \subseteq TokenIds
  BY <1>3 DEF ResaleInv, EvidenceOnlyForApproved, recordDecision, ResaleTypeOK, RegistryTypeOK
<1>9. decision # NoHash
  BY RegistryAssumption DEF RegistryAssumption
<1> HIDE DEF act, to
<1>10. QED
  BY <1>3, <1>4, <1>6, <1>7, <1>8, <1>9, OneRecordMoves

LEMMA CarrierKeeps ==
    ASSUME ResaleInv, NEW id \in TokenIds, NEW evidence \in Hashes, recordCarrier(id, evidence)
    PROVE  RegistryTypeOK' /\ Unminted' /\ VerdictMatchesState' /\ EvidenceOnlyForApproved'
<1> DEFINE act == [activations[id] EXCEPT !.carrier = evidence]
<1>1. /\ EntitlementTypeOK /\ activations[id] \in Activation /\ UNCHANGED entitlementVars
      /\ stateOf[id] \in Bound
  BY DEF ResaleInv, ResaleTypeOK, RegistryTypeOK, recordCarrier
<1>2. EntitlementTypeOK' /\ nextTokenId' = nextTokenId /\ stateOf' = stateOf
  BY <1>1 DEF EntitlementTypeOK, entitlementVars
<1>3. act \in Activation /\ activations' = [activations EXCEPT ![id] = act]
  BY <1>1 DEF recordCarrier, Activation
<1>4. activations[id].verdict = "Approved"
  BY <1>1 DEF ResaleInv, VerdictMatchesState, StatesFor, Bound
<1>5. /\ act.verdict = "Approved" /\ act.decision = activations[id].decision
      /\ act.activated = activations[id].activated /\ act.attempt = activations[id].attempt
  BY <1>1, <1>4 DEF Activation
<1>6. stateOf'[id] \in StatesFor(act)
  BY <1>1, <1>2, <1>5 DEF StatesFor
<1>7. tracking' = tracking /\ id \notin tracking /\ tracking \subseteq TokenIds
  BY <1>1 DEF ResaleInv, EvidenceOnlyForApproved, recordCarrier, ResaleTypeOK, RegistryTypeOK,
              Bound
<1>8. (act.decision # NoHash <=> act.verdict # "None") /\ (act.activated <=> act.verdict = "Approved")
  BY <1>4, <1>5 DEF ResaleInv, VerdictMatchesState
<1>9. stateOf[id] # "None"
  BY <1>1 DEF Bound
<1> HIDE DEF act
<1>10. QED
  BY <1>2, <1>3, <1>5, <1>6, <1>7, <1>8, <1>9, OneRecordMoves

LEMMA TrackingKeeps ==
    ASSUME ResaleInv, NEW id \in TokenIds, publishTracking(id)
    PROVE  RegistryTypeOK' /\ Unminted' /\ VerdictMatchesState' /\ EvidenceOnlyForApproved'
<1>1. UNCHANGED <<activations, stateOf, nextTokenId>> /\ EntitlementTypeOK'
  BY DEF publishTracking, entitlementVars, ResaleInv, ResaleTypeOK, RegistryTypeOK,
         EntitlementTypeOK
<1>2. RegistryTypeOK' /\ Unminted'
  BY <1>1 DEF publishTracking, ResaleInv, ResaleTypeOK, RegistryTypeOK, Unminted
<1>3. VerdictMatchesState'
  BY <1>1 DEF ResaleInv, VerdictMatchesState, StatesFor
<1>4. EvidenceOnlyForApproved'
  BY <1>1 DEF ResaleInv, EvidenceOnlyForApproved, publishTracking
<1>5. QED
  BY <1>2, <1>3, <1>4

LEMMA RegistryStepKeeps == ASSUME ResaleInv, RegistryStep PROVE ResaleInv'
<1>1. RegistryTypeOK' /\ Unminted' /\ VerdictMatchesState' /\ EvidenceOnlyForApproved'
  BY SubmitKeeps, DecisionKeeps, CarrierKeeps, TrackingKeeps DEF RegistryStep
<1>2. MarketTypeOK'
  BY <1>1, MarketKept DEF RegistryStep, ResaleInv, ResaleTypeOK, RegistryTypeOK
<1>3. QED
  BY <1>1, <1>2 DEF ResaleInv, ResaleTypeOK

-----------------------------------------------------------------------------
(* The market: it moves unbound tokens and money, and no token's state.    *)

LEMMA TransferTypes ==
    ASSUME EntitlementTypeOK, NEW id \in TokenIds, NEW to \in Accounts, transfer(id, to)
    PROVE  /\ EntitlementTypeOK' /\ UNCHANGED <<stateOf, nextTokenId>>
           /\ ownerOf'[id] = to
BY DEF transfer, EntitlementTypeOK

\* What a sale is: seller and price are those of the listing, and each of the two
\* balances moves by that price.
LEMMA SaleOfListing ==
    ASSUME MarketTypeOK, NEW id \in TokenIds, NEW caller \in Accounts, NEW price \in Prices,
           buy(id, caller, price)
    PROVE  LET seller == listings[id].seller IN
           /\ seller \in Accounts \ {caller}
           /\ listings[id] = [seller |-> seller, price |-> price]
           /\ ownerOf[id] = seller /\ stateOf[id] = "Available"
           /\ money' \in [Accounts -> Nat]
           /\ money'[seller] = money[seller] + price
           /\ money'[caller] = money[caller] - price
           /\ \A c \in Accounts \ {seller, caller} : money'[c] = money[c]
<1> DEFINE seller == listings[id].seller
<1>1. listings[id] \in Listing
  BY DEF MarketTypeOK, buy
<1>2. seller \in Accounts /\ listings[id] = [seller |-> seller, price |-> price]
  BY <1>1 DEF Listing, buy
<1>3. /\ seller # caller /\ ownerOf[id] = seller /\ stateOf[id] = "Available"
      /\ money[caller] >= price
      /\ money' = [money EXCEPT ![caller] = @ - price, ![seller] = @ + price]
  BY DEF buy, Unbound
<1>4. price \in Nat /\ money \in [Accounts -> Nat]
  BY MarketAssumption DEF MarketTypeOK, MarketAssumption
<1> HIDE DEF seller
<1>5. /\ money'[seller] = money[seller] + price
      /\ money'[caller] = money[caller] - price
      /\ \A c \in Accounts \ {seller, caller} : money'[c] = money[c]
      /\ money' \in [Accounts -> Nat]
  BY <1>2, <1>3, <1>4
<1>6. QED
  BY <1>2, <1>3, <1>5 DEF seller

LEMMA BuyKeeps ==
    ASSUME MarketTypeOK, NEW id \in TokenIds, NEW caller \in Accounts, NEW price \in Prices,
           buy(id, caller, price)
    PROVE  MarketTypeOK' /\ UNCHANGED <<stateOf, nextTokenId>>
<1>1. money' \in [Accounts -> Nat]
  BY SaleOfListing
<1>2. EntitlementTypeOK' /\ UNCHANGED <<stateOf, nextTokenId>>
  BY TransferTypes DEF buy, MarketTypeOK
<1>3. QED
  BY <1>1, <1>2 DEF buy, MarketTypeOK

LEMMA MarketStepTypes ==
    ASSUME MarketTypeOK, MarketStep
    PROVE  MarketTypeOK' /\ UNCHANGED <<stateOf, nextTokenId>>
<1>1. ASSUME NEW a \in Accounts, setApprovalForAll(a)
      PROVE  MarketTypeOK' /\ UNCHANGED <<stateOf, nextTokenId>>
  BY <1>1 DEF setApprovalForAll, MarketTypeOK, entitlementVars, EntitlementTypeOK
<1>2. ASSUME NEW id \in TokenIds, approve(id)
      PROVE  MarketTypeOK' /\ UNCHANGED <<stateOf, nextTokenId>>
  BY <1>2 DEF approve, MarketTypeOK, entitlementVars, EntitlementTypeOK
<1>3. ASSUME NEW id \in TokenIds, NEW to \in Accounts, transferFrom(id, to)
      PROVE  MarketTypeOK' /\ UNCHANGED <<stateOf, nextTokenId>>
  BY <1>3, TransferTypes DEF transferFrom, MarketTypeOK
<1>4. ASSUME NEW id \in TokenIds, NEW a \in Accounts, cancel(id, a)
      PROVE  MarketTypeOK' /\ UNCHANGED <<stateOf, nextTokenId>>
  BY <1>4 DEF cancel, MarketTypeOK, entitlementVars, EntitlementTypeOK
<1>5. ASSUME NEW id \in TokenIds, NEW a \in Accounts, NEW price \in Prices, list(id, a, price)
      PROVE  MarketTypeOK' /\ UNCHANGED <<stateOf, nextTokenId>>
  <2>1. [seller |-> a, price |-> price] \in Listing
    BY DEF Listing
  <2>2. QED
    BY <1>5, <2>1 DEF list, MarketTypeOK, entitlementVars, EntitlementTypeOK
<1>6. QED
  BY <1>1, <1>2, <1>3, <1>4, <1>5, BuyKeeps DEF MarketStep

LEMMA MarketStepKeeps == ASSUME ResaleInv, MarketStep PROVE ResaleInv'
<1>1. MarketTypeOK' /\ UNCHANGED <<stateOf, nextTokenId>> /\ UNCHANGED registryVars
  BY MarketStepTypes DEF ResaleInv, ResaleTypeOK, MarketStep
<1>2. QED
  BY <1>1, StateKept DEF ResaleInv, ResaleTypeOK, MarketTypeOK

-----------------------------------------------------------------------------
(* What a step may not do.                                                 *)

\* A step of the market moves only unbound tokens.
LEMMA MarketLeavesBound ==
    ASSUME ResaleInv, MarketStep, NEW id \in TokenIds, stateOf[id] # "Available"
    PROVE  ownerOf'[id] = ownerOf[id]
BY DEF ResaleInv, ResaleTypeOK, MarketTypeOK, EntitlementTypeOK, MarketStep, setApprovalForAll,
       approve, transferFrom, cancel, list, buy, transfer, entitlementVars

\* What a step of the registry leaves of a record that is under review or bound.
LEMMA RegistryLeavesBound ==
    ASSUME ResaleInv, RegistryStep, NEW id \in TokenIds, stateOf[id] # "Available"
    PROVE  /\ ownerOf' = ownerOf
           /\ activations'[id].parcel = activations[id].parcel
           /\ activations[id].verdict = "Approved" =>
                /\ activations'[id].verdict = "Approved"
                /\ activations'[id].decision = activations[id].decision
<1>1. activations \in [TokenIds -> Activation]
  BY DEF ResaleInv, ResaleTypeOK, RegistryTypeOK
<1>2. ASSUME NEW t \in TokenIds, NEW caller \in Accounts, NEW parcel \in Hashes,
             submitParcel(t, caller, parcel)
      PROVE  ownerOf' = ownerOf /\ activations'[id] = activations[id]
  <2>1. ownerOf' = ownerOf /\ t # id
    BY <1>2 DEF submitParcel, submitForReview, Transition
  <2>2. QED
    BY <1>1, <1>2, <2>1 DEF submitParcel
<1>3. ASSUME NEW t \in TokenIds, NEW decision \in Hashes, NEW verdict \in Verdicts,
             recordDecision(t, decision, verdict)
      PROVE  /\ ownerOf' = ownerOf
             /\ activations'[id].parcel = activations[id].parcel
             /\ activations[id].verdict = "Approved" => activations'[id] = activations[id]
  <2>1. ownerOf' = ownerOf
    BY <1>3 DEF recordDecision, approveActivation, rejectActivation, Transition
  <2>2. activations[t].verdict # "Approved"
    BY <1>3 DEF recordDecision, ResaleInv, VerdictMatchesState, StatesFor, Bound
  <2>3. activations'[t].parcel = activations[t].parcel
    BY <1>1, <1>3 DEF recordDecision, Activation
  <2>4. t # id => activations'[id] = activations[id]
    BY <1>1, <1>3 DEF recordDecision
  <2>5. QED
    BY <2>1, <2>2, <2>3, <2>4
<1>4. ASSUME NEW t \in TokenIds, NEW evidence \in Hashes, recordCarrier(t, evidence)
      PROVE  /\ ownerOf' = ownerOf
             /\ activations'[id].parcel = activations[id].parcel
             /\ activations'[id].verdict = activations[id].verdict
             /\ activations'[id].decision = activations[id].decision
  BY <1>1, <1>4 DEF recordCarrier, entitlementVars, Activation
<1>5. ASSUME NEW t \in TokenIds, publishTracking(t)
      PROVE  ownerOf' = ownerOf /\ activations' = activations
  BY <1>5 DEF publishTracking, entitlementVars
<1>6. QED
  BY <1>2, <1>3, <1>4, <1>5 DEF RegistryStep

\* Outside registry and market, a token changes hands only when it is minted.
LEMMA TokenLeavesBound ==
    ASSUME ResaleInv, TokenAlone, NEW id \in TokenIds, stateOf[id] # "None"
    PROVE  ownerOf'[id] = ownerOf[id]
<1>1. ASSUME NEW t \in TokenIds, NEW c \in Classes, NEW to \in Accounts, mint(t, c, to)
      PROVE  ownerOf'[id] = ownerOf[id]
  <2>1. stateOf[t] = "None"
    BY <1>1 DEF mint, ResaleInv, Unminted, TokenIds
  <2>2. QED
    BY <1>1, <2>1 DEF mint, ResaleInv, ResaleTypeOK, MarketTypeOK, EntitlementTypeOK
<1>2. ASSUME NEW t \in TokenIds, Progress(t) PROVE ownerOf'[id] = ownerOf[id]
  BY <1>2 DEF Progress, recordLabel, recordPickup, recordDelivery, recordRemedy, expire, Transition
<1>3. QED
  BY <1>1, <1>2 DEF TokenAlone, setClasses, Tick

LEMMA BindingKept ==
    ASSUME ResaleInv, [ResaleNext]_resaleVars, NEW id \in TokenIds,
           stateOf[id] \notin {"None", "Available", "Expired"}
    PROVE  /\ ownerOf'[id] = ownerOf[id]
           /\ activations'[id].parcel = activations[id].parcel
           /\ activations[id].verdict = "Approved" =>
                /\ activations'[id].verdict = "Approved"
                /\ activations'[id].decision = activations[id].decision
<1>1. CASE TokenAlone
  BY <1>1, TokenLeavesBound DEF TokenAlone, registryVars
<1>2. CASE RegistryStep
  BY <1>2, RegistryLeavesBound
<1>3. CASE MarketStep
  BY <1>3, MarketLeavesBound DEF MarketStep, registryVars
<1>4. CASE UNCHANGED resaleVars
  BY <1>4 DEF resaleVars, entitlementVars, registryVars
<1>5. QED
  BY <1>1, <1>2, <1>3, <1>4 DEF ResaleNext

LEMMA MoneyAgainstToken ==
    ASSUME ResaleInv, [ResaleNext]_resaleVars, NEW a \in Accounts, money'[a] > money[a]
    PROVE  \E id \in TokenIds, b \in Accounts \ {a} :
             /\ ownerOf[id] = a /\ ownerOf'[id] = b
             /\ stateOf[id] = "Available"
             /\ listings[id] = [seller |-> a, price |-> money'[a] - money[a]]
             /\ money'[b] = money[b] - (money'[a] - money[a])
             /\ listings'[id] = NoListing
<1>1. MarketTypeOK /\ money \in [Accounts -> Nat]
  BY DEF ResaleInv, ResaleTypeOK, MarketTypeOK
<1>2. money' # money
  BY <1>1
<1>3. PICK id \in TokenIds, b \in Accounts, price \in Prices : buy(id, b, price)
  BY <1>2 DEF ResaleNext, TokenAlone, RegistryStep, MarketStep, marketVars, resaleVars,
              setApprovalForAll, approve, transferFrom, cancel, list
<1> DEFINE seller == listings[id].seller
<1>4. /\ seller \in Accounts \ {b}
      /\ listings[id] = [seller |-> seller, price |-> price]
      /\ ownerOf[id] = seller /\ stateOf[id] = "Available"
      /\ money'[seller] = money[seller] + price
      /\ money'[b] = money[b] - price
      /\ \A c \in Accounts \ {seller, b} : money'[c] = money[c]
  BY <1>1, <1>3, SaleOfListing
<1> HIDE DEF seller
<1>5. price \in Nat /\ price > 0
  BY MarketAssumption DEF MarketAssumption
<1>6. a = seller
  BY <1>1, <1>4, <1>5
<1>7. money'[a] - money[a] = price
  BY <1>1, <1>4, <1>5, <1>6
<1>8. ownerOf'[id] = b
  BY <1>1, <1>3, TransferTypes DEF buy, MarketTypeOK
<1>9. listings'[id] = NoListing
  BY <1>1, <1>3 DEF buy, MarketTypeOK
<1>10. QED
  BY <1>4, <1>6, <1>7, <1>8, <1>9

-----------------------------------------------------------------------------
(* The theorems.                                                           *)

LEMMA ResaleStep == ResaleInv /\ [ResaleNext]_resaleVars => ResaleInv'
<1> SUFFICES ASSUME ResaleInv, [ResaleNext]_resaleVars PROVE ResaleInv'
  OBVIOUS
<1>1. CASE UNCHANGED resaleVars
  <2>1. EntitlementTypeOK' /\ UNCHANGED <<stateOf, nextTokenId>>
        /\ UNCHANGED registryVars /\ UNCHANGED marketVars
    BY <1>1 DEF resaleVars, entitlementVars, ResaleInv, ResaleTypeOK, MarketTypeOK,
                EntitlementTypeOK
  <2>2. QED
    BY <2>1, StateKept, MarketKept DEF ResaleInv, ResaleTypeOK
<1>2. QED
  BY <1>1, TokenAloneKeeps, RegistryStepKeeps, MarketStepKeeps DEF ResaleNext

\* The inductive invariant holds in every reachable state, however reviews, sales
\* and the token's own lifecycle interleave.
THEOREM ResaleCorrect == ResaleSpec => []ResaleInv
<1>1. ResaleInit => ResaleInv
  BY ResaleInitially
<1>2. QED
  BY <1>1, ResaleStep, PTL DEF ResaleSpec

\* Token, activation record and listing keep their types.
THEOREM ResaleTypes == ResaleSpec => []ResaleTypeOK
<1>1. ResaleInv => ResaleTypeOK
  BY DEF ResaleInv
<1>2. QED
  BY <1>1, ResaleCorrect, PTL

\* The registry and the token tell the same story, for any number of tokens,
\* attempts and hashes, although each function of the registry writes its own
\* record before the token has agreed to move.
THEOREM RegistryTellsTheState == ResaleSpec => []VerdictMatchesState
<1>1. ResaleInv => VerdictMatchesState
  BY DEF ResaleInv
<1>2. QED
  BY <1>1, ResaleCorrect, PTL

\* Provider evidence is on record for approved work only, so what the recovery
\* policy pays for has been approved, and a tracking number is published for a
\* delivered parcel only.
THEOREM EvidenceFollowsApproval == ResaleSpec => []EvidenceOnlyForApproved
<1>1. ResaleInv => EvidenceOnlyForApproved
  BY DEF ResaleInv
<1>2. QED
  BY <1>1, ResaleCorrect, PTL

\* From submission on, and for ever after an approval, no step of anyone changes
\* the holder, the parcel or an approved decision.
THEOREM BindingIsFinal == ResaleSpec => BindingNeverRewritten
<1>1. ResaleInv /\ [ResaleNext]_resaleVars =>
        [ \A id \in TokenIds :
          stateOf[id] \notin {"None", "Available", "Expired"} =>
            /\ ownerOf'[id] = ownerOf[id]
            /\ activations'[id].parcel = activations[id].parcel
            /\ activations[id].verdict = "Approved" =>
                 /\ activations'[id].verdict = "Approved"
                 /\ activations'[id].decision = activations[id].decision
        ]_<<entitlementVars, registryVars>>
  BY BindingKept
<1>2. QED
  BY <1>1, ResaleCorrect, PTL DEF ResaleSpec, BindingNeverRewritten

\* Whoever gets richer in a step gives up, for the price it had asked, one unbound
\* token it held, to the account that pays: no stale listing is ever filled.
THEOREM MoneyFollowsTokens == ResaleSpec => MoneyMovesWithToken
<1>1. ResaleInv /\ [ResaleNext]_resaleVars =>
        [ \A a \in Accounts :
          money'[a] > money[a] =>
            \E id \in TokenIds, b \in Accounts \ {a} :
              /\ ownerOf[id] = a /\ ownerOf'[id] = b
              /\ stateOf[id] = "Available"
              /\ listings[id] = [seller |-> a, price |-> money'[a] - money[a]]
              /\ money'[b] = money[b] - (money'[a] - money[a])
              /\ listings'[id] = NoListing
        ]_<<entitlementVars, marketVars>>
  BY MoneyAgainstToken
<1>2. QED
  BY <1>1, ResaleCorrect, PTL DEF ResaleSpec, MoneyMovesWithToken

-----------------------------------------------------------------------------
(***************************************************************************)
(* Token, factory and escrow.                                              *)
(***************************************************************************)

\* The escrow with its proofs.
Proved == INSTANCE SettlementEscrow_proofs WITH Buyers <- Accounts, NoBuyer <- NoOne

allVars == <<entitlementVars, factoryVars, moneyVars>>

-----------------------------------------------------------------------------
(* The escrow of the factory and the escrow of the proofs are one.         *)

LEMMA TermsOfProofs == Proved!EscrowAssumption /\ Proved!MaxAssetsAssumption
BY TermsAssumption
   DEF Escrow!EscrowAssumption, Escrow!MaxAssetsAssumption, Proved!EscrowAssumption,
       Proved!MaxAssetsAssumption, Escrow!IsFiniteSet, Proved!IsFiniteSet

LEMMA StepOfProofs == [Escrow!Next]_Escrow!vars <=> [Proved!Next]_Proved!vars
BY DEF Escrow!Next, Escrow!vars, Escrow!adapterVars, Escrow!escrowVars,
       Escrow!setCollateralStrategy, Escrow!Accrue, Escrow!AccrueYield,
       Escrow!registerClass, Escrow!postCollateral, Escrow!investCollateral,
       Escrow!withdrawCollateral, Escrow!Fresh, Escrow!recordMint,
       Escrow!releaseToIssuer, Escrow!refundBuyer, Escrow!claim,
       Escrow!emergencyUnwindStrategy, Escrow!deposit, Escrow!redeem,
       Escrow!previewDeposit, Escrow!previewWithdraw, Escrow!previewRedeem,
       Escrow!SharesForDeposit, Escrow!AssetsForShares, Escrow!SharesForAssets,
       Escrow!Accountable, Escrow!MayWithdraw, Escrow!WithdrawRaw,
       Escrow!WithdrawInvested, Escrow!Backing, Escrow!StrategyValue,
       Escrow!Live, Escrow!Discharged, Escrow!Before, Escrow!UnwindPays,
       Escrow!Total, Escrow!Coins, Escrow!Cardinality, Proved!Next, Proved!vars,
       Proved!adapterVars, Proved!escrowVars, Proved!setCollateralStrategy,
       Proved!Accrue, Proved!AccrueYield, Proved!registerClass,
       Proved!postCollateral, Proved!investCollateral,
       Proved!withdrawCollateral, Proved!Fresh, Proved!recordMint,
       Proved!releaseToIssuer, Proved!refundBuyer, Proved!claim,
       Proved!emergencyUnwindStrategy, Proved!deposit, Proved!redeem,
       Proved!previewDeposit, Proved!previewWithdraw, Proved!previewRedeem,
       Proved!SharesForDeposit, Proved!AssetsForShares, Proved!SharesForAssets,
       Proved!Accountable, Proved!MayWithdraw, Proved!WithdrawRaw,
       Proved!WithdrawInvested, Proved!Backing, Proved!StrategyValue,
       Proved!Live, Proved!Discharged, Proved!Before, Proved!UnwindPays,
       Proved!Total, Proved!Coins, Proved!Cardinality

LEMMA InitOfProofs == Escrow!Init <=> Proved!Init
BY DEF Escrow!Init, Proved!Init, Escrow!AdapterInit, Proved!AdapterInit, Escrow!NoDeposit,
       Proved!NoDeposit

\* What the proofs of the escrow alone keep of it from step to step.
LEMMA BaseOfProofs ==
    /\ Escrow!Init => Proved!Base
    /\ Proved!Base /\ [Escrow!Next]_Escrow!vars => Proved!Base'
<1>1. Escrow!Init => Proved!Base
  BY InitOfProofs, TermsOfProofs, Proved!BaseInit
     DEF Proved!EscrowAssumption, Proved!MaxAssetsAssumption
<1>2. Proved!Base /\ [Escrow!Next]_Escrow!vars => Proved!Base'
  BY StepOfProofs, TermsOfProofs, Proved!BaseStep
     DEF Proved!EscrowAssumption, Proved!MaxAssetsAssumption
<1>3. QED
  BY <1>1, <1>2

\* The deposits of the escrow: a record of its class and buyer, or none.
LEMMA DepositsType ==
    ASSUME Proved!Base
    PROVE  /\ deposits \in [TokenIds -> Escrow!Deposit \union {Escrow!NoDeposit}]
           /\ collateral \in [Classes -> Nat]
BY DEF Proved!Base, Proved!TypeOK, Proved!Deposit, Proved!NoDeposit, Escrow!Deposit,
       Escrow!NoDeposit

-----------------------------------------------------------------------------
(* The inductive invariant.  That the three counts agree is not inductive: *)
(* what is needed besides is which ids have been given out, that an id not *)
(* given out has no class yet - or the unit sold would be counted already -*)
(* and that a class not offered yet has sold nothing, so that the supply   *)
(* its creation sets covers what has been sold of it.                      *)

IdsGivenOut ==
    \A id \in TokenIds :
        /\ stateOf[id] # "None" <=> id < nextTokenId
        /\ stateOf[id] # "None" <=> classOf[id] # NoClass

NothingSoldUnoffered == \A c \in Classes \ created : minted[c] = 0

\* The part of the type invariant that is the factory's own.
FactoryTypes ==
    /\ isRegisteredIssuer \subseteq Issuers
    /\ isPausedIssuer \subseteq isRegisteredIssuer
    /\ created \subseteq Classes
    /\ minted \in [Classes -> Nat]
    /\ maxSupply \in [Classes -> Nat]
    /\ paused \subseteq created

FactoryInv ==
    /\ EntitlementTypeOK /\ FactoryTypes /\ Proved!Base
    /\ IdsGivenOut /\ NothingSoldUnoffered /\ SalesAgree
    /\ collateralStrategy = FALSE

LEMMA UnitsFinite ==
    ASSUME NEW c
    PROVE  IsFiniteSet(UnitsOf(c)) /\ Cardinality(UnitsOf(c)) \in Nat
<1>1. IsFiniteSet(TokenIds)
  BY EntitlementAssumption, FS_Interval DEF EntitlementAssumption, TokenIds
<1>2. QED
  BY <1>1, FS_Subset, FS_CardinalityType DEF UnitsOf

LEMMA FactoryInitially == ASSUME FactoryInit PROVE FactoryInv
<1>1. EntitlementTypeOK
  <2>1. EntitlementInit
    BY DEF FactoryInit
  <2>2. classesSet \in BOOLEAN /\ now \in Nat
    BY <2>1 DEF EntitlementInit
  <2>3. nextTokenId \in 1 .. MaxTokens + 1
    BY <2>1, EntitlementAssumption DEF EntitlementInit, EntitlementAssumption
  <2>4. "None" \in States
    BY DEF States
  <2>5. QED
    BY <2>1, <2>2, <2>3, <2>4 DEF EntitlementInit, EntitlementTypeOK
<1>2. FactoryTypes
  BY DEF FactoryInit, FactoryTypes
<1>3. Proved!Base
  BY BaseOfProofs DEF FactoryInit
<1>4. IdsGivenOut /\ NothingSoldUnoffered
  BY DEF FactoryInit, EntitlementInit, IdsGivenOut, NothingSoldUnoffered, TokenIds
<1>5. SalesAgree
  <2>1. \A id \in TokenIds : stateOf[id] = "None" /\ deposits[id].buyer = NoOne
    BY DEF FactoryInit, EntitlementInit, Escrow!Init, Escrow!NoDeposit
  <2>2. \A c \in Classes : UnitsOf(c) = {}
    BY EntitlementAssumption DEF EntitlementAssumption, FactoryInit, EntitlementInit, UnitsOf
  <2>3. \A c \in Classes : minted[c] = 0 /\ maxSupply[c] = 0
    BY DEF FactoryInit
  <2>4. created = registered
    BY DEF FactoryInit, Escrow!Init
  <2>5. QED
    BY <2>1, <2>2, <2>3, <2>4, FS_EmptySet DEF SalesAgree
<1>6. collateralStrategy = FALSE
  BY DEF FactoryInit, Escrow!Init
<1>7. QED
  BY <1>1, <1>2, <1>3, <1>4, <1>5, <1>6 DEF FactoryInv

-----------------------------------------------------------------------------
(* Every step of the factory is a step of the escrow, or none.             *)

\* The id the factory sells under has no deposit yet.
LEMMA SoldIdIsFresh ==
    ASSUME FactoryInv, NEW id \in TokenIds, NEW c \in Classes, NEW buyer, NEW to,
           sell(id, c, buyer, to)
    PROVE  /\ Escrow!Fresh(id)
           /\ stateOf[id] = "None" /\ classOf[id] = NoClass /\ id = nextTokenId
<1>1. id = nextTokenId
  BY DEF sell, mint
<1>2. stateOf[id] = "None" /\ classOf[id] = NoClass
  BY <1>1, EntitlementAssumption
     DEF FactoryInv, IdsGivenOut, EntitlementTypeOK, EntitlementAssumption, TokenIds
<1>3. QED
  BY <1>1, <1>2 DEF FactoryInv, SalesAgree, Escrow!Fresh

LEMMA StepImplementsEscrow ==
    ASSUME FactoryInv, [FactoryNext]_allVars PROVE [Escrow!Next]_Escrow!vars
<1>1. CASE UNCHANGED moneyVars
  BY <1>1 DEF moneyVars, Escrow!vars, Escrow!adapterVars, Escrow!escrowVars
<1>2. CASE MoneyStep
  <2>1. 1 .. MaxCollateral \subseteq 1 .. MaxCollateral + MaxAssets
    BY TermsAssumption DEF Escrow!EscrowAssumption, Escrow!MaxAssetsAssumption
  <2>2. QED
    BY <1>2, <2>1 DEF MoneyStep, Escrow!Next
<1>3. ASSUME NEW c \in Classes, createClass(c) PROVE Escrow!Next
  BY <1>3 DEF createClass, Escrow!Next
<1>4. ASSUME NEW c \in Classes, NEW id \in TokenIds, NEW buyer \in Accounts,
             NEW to \in Accounts, sell(id, c, buyer, to)
      PROVE  Escrow!Next
  <2>1. Escrow!Fresh(id) /\ Escrow!recordMint(id, c, buyer)
    BY <1>4, SoldIdIsFresh DEF sell
  <2>2. QED
    BY <2>1 DEF Escrow!Next
<1>5. QED
  BY <1>1, <1>2, <1>3, <1>4
     DEF FactoryNext, allVars, TokenGoesOn, registerIssuer, pauseIssuer, increaseSupply,
         pauseClass, UnchangedOutside

-----------------------------------------------------------------------------
(* The counts, step by step.                                               *)

\* In a step that sells nothing it is enough that nothing is taken back: no token,
\* no deposit and no supply.
LEMMA SalesKept ==
    ASSUME FactoryInv, classOf' = classOf, minted' = minted,
           \A id \in TokenIds :
             /\ stateOf'[id] = "None" <=> stateOf[id] = "None"
             /\ deposits'[id].buyer = deposits[id].buyer
             /\ deposits[id].buyer # NoOne => deposits'[id].classId = deposits[id].classId,
           \A c \in Classes : maxSupply'[c] = maxSupply[c] \/ maxSupply'[c] >= minted[c],
           created' = registered'
    PROVE  SalesAgree'
<1>1. \A c \in Classes : UnitsOf(c)' = UnitsOf(c)
  BY DEF UnitsOf
<1>2. \A c \in Classes : minted[c] = Cardinality(UnitsOf(c)) /\ minted[c] <= maxSupply[c]
  BY DEF FactoryInv, SalesAgree
<1>3. \A c \in Classes : minted'[c] = Cardinality(UnitsOf(c)') /\ minted'[c] <= maxSupply'[c]
  <2> SUFFICES ASSUME NEW c \in Classes
               PROVE  minted'[c] = Cardinality(UnitsOf(c)') /\ minted'[c] <= maxSupply'[c]
    OBVIOUS
  <2>1. UnitsOf(c)' = UnitsOf(c)
    BY <1>1
  <2>2. minted'[c] = Cardinality(UnitsOf(c)')
    BY <1>2, <2>1
  <2>3. minted[c] \in Nat /\ maxSupply[c] \in Nat
    BY DEF FactoryInv, FactoryTypes
  <2>4. QED
    BY <1>2, <2>2, <2>3
<1>4. QED
  BY <1>3 DEF FactoryInv, SalesAgree, UnitsOf

\* What the lifecycle of a token leaves alone.
LEMMA TokenKeepsSales ==
    ASSUME FactoryInv, TokenGoesOn
    PROVE  /\ EntitlementTypeOK' /\ IdsGivenOut' /\ classOf' = classOf
           /\ \A id \in TokenIds : stateOf'[id] = "None" <=> stateOf[id] = "None"
<1>1. EntitlementTypeOK /\ IdsGivenOut
  BY DEF FactoryInv
<1>2. CASE setClasses
  BY <1>1, <1>2 DEF setClasses, EntitlementTypeOK, IdsGivenOut
<1>3. CASE Tick
  BY <1>1, <1>3 DEF Tick, EntitlementTypeOK, IdsGivenOut
<1>4. ASSUME NEW id \in TokenIds, NEW to \in Accounts, transfer(id, to)
      PROVE  /\ EntitlementTypeOK' /\ IdsGivenOut' /\ classOf' = classOf /\ stateOf' = stateOf
  BY <1>1, <1>4 DEF transfer, EntitlementTypeOK, IdsGivenOut
<1>5. ASSUME NEW id \in TokenIds, Review(id) \/ Progress(id)
      PROVE  /\ EntitlementTypeOK' /\ IdsGivenOut' /\ classOf' = classOf
             /\ \A t \in TokenIds : stateOf'[t] = "None" <=> stateOf[t] = "None"
  <2>1. PICK from \in SUBSET (States \ {"None"}), to \in States \ {"None"} :
          Transition(id, from, to)
    BY <1>5, Zenon
       DEF Review, submitForReview, rejectActivation, approveActivation, Progress, recordLabel,
           recordPickup, recordDelivery, recordRemedy, expire, States, Bound
  <2>2. /\ stateOf' = [stateOf EXCEPT ![id] = to] /\ stateOf[id] # "None"
        /\ UNCHANGED <<classOf, ownerOf, nextTokenId, classesSet, now>>
    BY <2>1 DEF Transition
  <2>3. QED
    BY <1>1, <2>2 DEF EntitlementTypeOK, IdsGivenOut
<1>6. QED
  BY <1>2, <1>3, <1>4, <1>5 DEF TokenGoesOn

\* Funding, settling and claiming leave every deposit its buyer and its class.
LEMMA MoneyStepKeeps ==
    ASSUME FactoryInv, MoneyStep
    PROVE  /\ UNCHANGED <<registered, collateralStrategy>>
           /\ \A id \in TokenIds :
                /\ deposits'[id].buyer = deposits[id].buyer
                /\ deposits[id].buyer # NoOne => deposits'[id].classId = deposits[id].classId
<1>1. deposits \in [TokenIds -> Escrow!Deposit \union {Escrow!NoDeposit}]
  BY DepositsType DEF FactoryInv
<1>2. ASSUME NEW c \in Classes, NEW amount \in 1 .. MaxCollateral,
             Escrow!postCollateral(c, amount) \/ Escrow!withdrawCollateral(c, amount)
      PROVE  UNCHANGED <<registered, collateralStrategy, deposits>>
  BY <1>2 DEF Escrow!postCollateral, Escrow!withdrawCollateral
<1>3. ASSUME NEW i \in Issuers, NEW t \in Assets, Escrow!claim(i, t)
      PROVE  UNCHANGED <<registered, collateralStrategy, deposits>>
  BY <1>3 DEF Escrow!claim
<1>4. ASSUME NEW id \in TokenIds, Escrow!releaseToIssuer(id) \/ Escrow!refundBuyer(id)
      PROVE  /\ UNCHANGED <<registered, collateralStrategy>>
             /\ \A t \in TokenIds :
                  /\ deposits'[t].buyer = deposits[t].buyer
                  /\ deposits[t].buyer # NoOne => deposits'[t].classId = deposits[t].classId
  <2>1. /\ Escrow!Live(id) /\ deposits' = [deposits EXCEPT ![id].settled = TRUE]
        /\ UNCHANGED <<registered, collateralStrategy>>
    BY <1>4 DEF Escrow!releaseToIssuer, Escrow!refundBuyer
  <2>2. deposits[id] \in Escrow!Deposit
    BY <1>1, <2>1 DEF Escrow!Live, Escrow!NoDeposit
  <2>3. deposits'[id].buyer = deposits[id].buyer /\ deposits'[id].classId = deposits[id].classId
    BY <1>1, <2>1, <2>2 DEF Escrow!Deposit
  <2>4. \A t \in TokenIds \ {id} : deposits'[t] = deposits[t]
    BY <1>1, <2>1
  <2>5. QED
    BY <2>1, <2>3, <2>4
<1>5. QED
  BY <1>2, <1>3, <1>4 DEF MoneyStep

\* A sale: one more unit of the class in each of the three counts.
LEMMA SellKeeps ==
    ASSUME FactoryInv, NEW c \in Classes, NEW id \in TokenIds, NEW buyer \in Accounts,
           NEW to \in Accounts, sell(id, c, buyer, to)
    PROVE  /\ EntitlementTypeOK' /\ IdsGivenOut' /\ FactoryTypes' /\ NothingSoldUnoffered'
           /\ SalesAgree' /\ collateralStrategy' = FALSE
<1>1. /\ EntitlementTypeOK /\ FactoryTypes /\ IdsGivenOut /\ SalesAgree
      /\ deposits \in [TokenIds -> Escrow!Deposit \union {Escrow!NoDeposit}]
  BY DepositsType DEF FactoryInv
<1>2. stateOf[id] = "None" /\ classOf[id] = NoClass /\ id = nextTokenId
  BY SoldIdIsFresh
<1>3. /\ c \in created /\ minted[c] < maxSupply[c]
      /\ minted' = [minted EXCEPT ![c] = @ + 1]
      /\ UNCHANGED <<isRegisteredIssuer, isPausedIssuer, created, maxSupply, paused>>
  BY DEF sell
<1>4. /\ nextTokenId <= MaxTokens /\ nextTokenId' = nextTokenId + 1
      /\ classOf' = [classOf EXCEPT ![id] = c]
      /\ stateOf' = [stateOf EXCEPT ![id] = "Available"]
      /\ ownerOf' = [ownerOf EXCEPT ![id] = to]
      /\ UNCHANGED <<classesSet, now>>
  BY DEF sell, mint
<1>5. /\ deposits' = [deposits EXCEPT ![id] = [classId |-> c, buyer |-> buyer,
                        amount |-> Price[c], settled |-> FALSE]]
      /\ UNCHANGED <<registered, collateralStrategy>>
  BY DEF sell, Escrow!recordMint
<1>6. EntitlementTypeOK'
  <2>1. nextTokenId + 1 \in 1 .. MaxTokens + 1 /\ "Available" \in States
    BY <1>1, <1>4, EntitlementAssumption DEF EntitlementTypeOK, EntitlementAssumption, States
  <2>2. QED
    BY <1>1, <1>4, <2>1 DEF EntitlementTypeOK
<1>7. IdsGivenOut'
  <2>1. c # NoClass /\ nextTokenId \in Nat
    BY <1>1, EntitlementAssumption DEF EntitlementAssumption, EntitlementTypeOK
  <2> SUFFICES ASSUME NEW t \in TokenIds
               PROVE  /\ stateOf'[t] # "None" <=> t < nextTokenId'
                      /\ stateOf'[t] # "None" <=> classOf'[t] # NoClass
    BY DEF IdsGivenOut
  <2>2. CASE t = id
    BY <1>1, <1>2, <1>4, <2>1, <2>2 DEF EntitlementTypeOK
  <2>3. CASE t # id
    <3>1. stateOf'[t] = stateOf[t] /\ classOf'[t] = classOf[t]
      BY <1>1, <1>4, <2>3 DEF EntitlementTypeOK
    <3>2. t < nextTokenId <=> t < nextTokenId'
      BY <1>2, <1>4, <2>1, <2>3 DEF TokenIds
    <3>3. QED
      BY <1>1, <3>1, <3>2 DEF IdsGivenOut
  <2>4. QED
    BY <2>2, <2>3
<1>8. FactoryTypes' /\ NothingSoldUnoffered'
  <2>1. minted' \in [Classes -> Nat]
    BY <1>1, <1>3 DEF FactoryTypes
  <2>2. QED
    BY <1>1, <1>3, <2>1 DEF FactoryTypes, NothingSoldUnoffered, FactoryInv
<1>9. SalesAgree'
  <2>1. \A t \in TokenIds :
          /\ stateOf'[t] # "None" <=> deposits'[t].buyer # NoOne
          /\ stateOf'[t] # "None" => deposits'[t].classId = classOf'[t]
    <3>1. buyer # NoOne
      BY EntitlementAssumption DEF EntitlementAssumption
    <3>2. /\ stateOf'[id] = "Available" /\ classOf'[id] = c
          /\ deposits'[id].buyer = buyer /\ deposits'[id].classId = c
      BY <1>1, <1>4, <1>5 DEF EntitlementTypeOK
    <3>3. \A t \in TokenIds \ {id} :
            stateOf'[t] = stateOf[t] /\ classOf'[t] = classOf[t] /\ deposits'[t] = deposits[t]
      BY <1>1, <1>4, <1>5 DEF EntitlementTypeOK
    <3>4. QED
      BY <1>1, <3>1, <3>2, <3>3 DEF SalesAgree
  <2>2. ASSUME NEW d \in Classes
        PROVE  minted'[d] = Cardinality(UnitsOf(d)') /\ minted'[d] <= maxSupply'[d]
    <3>1. /\ minted[d] = Cardinality(UnitsOf(d)) /\ minted[d] <= maxSupply[d]
          /\ minted[d] \in Nat /\ maxSupply[d] \in Nat
      BY <1>1 DEF SalesAgree, FactoryTypes
    <3>2. CASE d = c
      <4>1. UnitsOf(c)' = UnitsOf(c) \union {id} /\ id \notin UnitsOf(c)
        BY <1>1, <1>2, <1>4, EntitlementAssumption
           DEF EntitlementTypeOK, UnitsOf, EntitlementAssumption
      <4>2. Cardinality(UnitsOf(c)') = Cardinality(UnitsOf(c)) + 1
        BY <4>1, UnitsFinite, FS_AddElement
      <4>3. minted'[c] = minted[c] + 1
        BY <1>1, <1>3 DEF FactoryTypes
      <4>4. QED
        BY <1>3, <3>1, <3>2, <4>2, <4>3
    <3>3. CASE d # c
      <4>1. UnitsOf(d)' = UnitsOf(d)
        BY <1>1, <1>2, <1>4, <3>3, EntitlementAssumption
           DEF EntitlementTypeOK, UnitsOf, EntitlementAssumption
      <4>2. minted'[d] = minted[d]
        BY <1>1, <1>3, <3>3 DEF FactoryTypes
      <4>3. QED
        BY <1>3, <3>1, <4>1, <4>2
    <3>4. QED
      BY <3>2, <3>3
  <2>3. created' = registered'
    BY <1>1, <1>3, <1>5 DEF SalesAgree
  <2>4. QED
    BY <2>1, <2>2, <2>3 DEF SalesAgree
<1>10. QED
  BY <1>5, <1>6, <1>7, <1>8, <1>9 DEF FactoryInv

\* What the factory decides about issuers and classes: tokens and money stay, and
\* a supply only ever grows, or is set for a class that has sold nothing.
LEMMA AdministrationKeeps ==
    ASSUME FactoryInv,
           \/ \E i \in Issuers : registerIssuer(i) \/ pauseIssuer(i)
           \/ \E c \in Classes :
                \/ createClass(c) \/ pauseClass(c)
                \/ \E n \in 1 .. MaxSupply : increaseSupply(c, n)
    PROVE  /\ EntitlementTypeOK' /\ IdsGivenOut' /\ FactoryTypes' /\ NothingSoldUnoffered'
           /\ SalesAgree' /\ collateralStrategy' = FALSE
<1>1. /\ EntitlementTypeOK /\ FactoryTypes /\ IdsGivenOut /\ SalesAgree /\ NothingSoldUnoffered
      /\ collateralStrategy = FALSE
  BY DEF FactoryInv
<1>2. UNCHANGED entitlementVars /\ UNCHANGED <<minted, deposits, collateralStrategy>>
  BY DEF registerIssuer, pauseIssuer, createClass, pauseClass, increaseSupply,
         UnchangedOutside, moneyVars, Escrow!registerClass
<1>3. EntitlementTypeOK' /\ IdsGivenOut'
  BY <1>1, <1>2 DEF entitlementVars, EntitlementTypeOK, IdsGivenOut
<1>4. /\ FactoryTypes' /\ NothingSoldUnoffered' /\ created' = registered'
      /\ \A c \in Classes : maxSupply'[c] = maxSupply[c] \/ maxSupply'[c] >= minted[c]
  <2>1. ASSUME NEW i \in Issuers, registerIssuer(i) \/ pauseIssuer(i)
        PROVE  /\ FactoryTypes' /\ UNCHANGED <<created, registered, maxSupply>>
    BY <1>1, <1>2, <2>1
       DEF registerIssuer, pauseIssuer, UnchangedOutside, moneyVars, FactoryTypes
  <2>2. ASSUME NEW c \in Classes, pauseClass(c)
        PROVE  /\ FactoryTypes' /\ UNCHANGED <<created, registered, maxSupply>>
    BY <1>1, <1>2, <2>2 DEF pauseClass, UnchangedOutside, moneyVars, FactoryTypes
  <2>3. ASSUME NEW c \in Classes, NEW n \in 1 .. MaxSupply, increaseSupply(c, n)
        PROVE  /\ FactoryTypes' /\ UNCHANGED <<created, registered>>
               /\ \A d \in Classes : maxSupply'[d] = maxSupply[d] \/ maxSupply'[d] >= minted[d]
    <3>1. /\ UNCHANGED <<created, registered, isRegisteredIssuer, isPausedIssuer, paused>>
          /\ maxSupply' = [maxSupply EXCEPT ![c] = n] /\ n > maxSupply[c]
      BY <2>3 DEF increaseSupply, UnchangedOutside, moneyVars
    <3>2. n \in Nat /\ minted[c] \in Nat /\ maxSupply[c] \in Nat /\ minted[c] <= maxSupply[c]
      BY <1>1, FactoryAssumption DEF FactoryTypes, SalesAgree, FactoryAssumption
    <3>3. FactoryTypes'
      BY <1>1, <1>2, <3>1, <3>2 DEF FactoryTypes
    <3>4. maxSupply'[c] >= minted[c] /\ \A d \in Classes \ {c} : maxSupply'[d] = maxSupply[d]
      BY <1>1, <3>1, <3>2 DEF FactoryTypes
    <3>5. QED
      BY <3>1, <3>3, <3>4
  <2>4. ASSUME NEW c \in Classes, createClass(c)
        PROVE  /\ FactoryTypes' /\ NothingSoldUnoffered' /\ created' = registered'
               /\ \A d \in Classes : maxSupply'[d] = maxSupply[d] \/ maxSupply'[d] >= minted[d]
    <3>1. /\ c \notin created
          /\ isRegisteredIssuer' = isRegisteredIssuer \union {Issuer[c]}
          /\ created' = created \union {c} /\ registered' = registered \union {c}
          /\ maxSupply' = [maxSupply EXCEPT ![c] = InitialSupply[c]]
          /\ UNCHANGED <<isPausedIssuer, paused>>
      BY <2>4 DEF createClass, Escrow!registerClass
    <3>2. /\ InitialSupply[c] \in Nat /\ Issuer[c] \in Issuers /\ minted[c] = 0
      BY <1>1, <3>1, FactoryAssumption, TermsAssumption
         DEF FactoryAssumption, Escrow!EscrowAssumption, NothingSoldUnoffered
    <3>3. FactoryTypes'
      BY <1>1, <1>2, <3>1, <3>2 DEF FactoryTypes
    <3>4. NothingSoldUnoffered' /\ created' = registered'
      BY <1>1, <1>2, <3>1 DEF NothingSoldUnoffered, SalesAgree
    <3>5. maxSupply'[c] >= minted[c] /\ \A d \in Classes \ {c} : maxSupply'[d] = maxSupply[d]
      BY <1>1, <3>1, <3>2 DEF FactoryTypes
    <3>6. QED
      BY <3>3, <3>4, <3>5
  <2>5. QED
    BY <1>1, <1>2, <2>1, <2>2, <2>3, <2>4 DEF SalesAgree, NothingSoldUnoffered
<1>5. SalesAgree'
  BY <1>2, <1>4, SalesKept DEF entitlementVars
<1>6. QED
  BY <1>1, <1>2, <1>3, <1>4, <1>5

LEMMA FactoryStep == FactoryInv /\ [FactoryNext]_allVars => FactoryInv'
<1> SUFFICES ASSUME FactoryInv, [FactoryNext]_allVars PROVE FactoryInv'
  OBVIOUS
<1>1. Proved!Base'
  BY StepImplementsEscrow, BaseOfProofs DEF FactoryInv
<1>2. /\ EntitlementTypeOK /\ FactoryTypes /\ IdsGivenOut /\ SalesAgree /\ NothingSoldUnoffered
      /\ collateralStrategy = FALSE
  BY DEF FactoryInv
<1> SUFFICES /\ EntitlementTypeOK' /\ IdsGivenOut' /\ FactoryTypes'
             /\ NothingSoldUnoffered' /\ SalesAgree' /\ collateralStrategy' = FALSE
  BY <1>1 DEF FactoryInv
<1>3. CASE UNCHANGED allVars
  <2>1. EntitlementTypeOK' /\ IdsGivenOut'
    BY <1>2, <1>3 DEF allVars, entitlementVars, EntitlementTypeOK, IdsGivenOut
  <2>2. FactoryTypes' /\ NothingSoldUnoffered' /\ created' = registered'
        /\ collateralStrategy' = FALSE
    BY <1>2, <1>3 DEF allVars, factoryVars, moneyVars, FactoryTypes, NothingSoldUnoffered,
                      SalesAgree
  <2>3. SalesAgree'
    BY <1>3, <2>2, SalesKept DEF allVars, entitlementVars, factoryVars, moneyVars
  <2>4. QED
    BY <2>1, <2>2, <2>3
<1>4. CASE TokenGoesOn
  <2>1. UNCHANGED factoryVars /\ UNCHANGED moneyVars
    BY <1>4 DEF TokenGoesOn
  <2>2. FactoryTypes' /\ NothingSoldUnoffered' /\ created' = registered'
        /\ collateralStrategy' = FALSE
    BY <1>2, <2>1 DEF factoryVars, moneyVars, FactoryTypes, NothingSoldUnoffered, SalesAgree
  <2>3. SalesAgree'
    BY <1>4, <2>1, <2>2, TokenKeepsSales, SalesKept DEF factoryVars, moneyVars
  <2>4. QED
    BY <1>4, <2>2, <2>3, TokenKeepsSales
<1>5. CASE MoneyStep
  <2>1. UNCHANGED factoryVars /\ UNCHANGED entitlementVars
    BY <1>5 DEF MoneyStep
  <2>2. UNCHANGED <<registered, collateralStrategy>>
    BY <1>5, MoneyStepKeeps
  <2>3. EntitlementTypeOK' /\ IdsGivenOut'
    BY <1>2, <2>1 DEF entitlementVars, EntitlementTypeOK, IdsGivenOut
  <2>4. FactoryTypes' /\ NothingSoldUnoffered' /\ created' = registered'
        /\ collateralStrategy' = FALSE
    BY <1>2, <2>1, <2>2 DEF factoryVars, FactoryTypes, NothingSoldUnoffered, SalesAgree
  <2>5. SalesAgree'
    BY <1>5, <2>1, <2>4, MoneyStepKeeps, SalesKept DEF factoryVars, entitlementVars
  <2>6. QED
    BY <2>3, <2>4, <2>5
<1>6. CASE \E c \in Classes, id \in TokenIds, buyer \in Accounts, to \in Accounts :
             sell(id, c, buyer, to)
  BY <1>6, SellKeeps
<1>7. QED
  BY <1>3, <1>4, <1>5, <1>6, AdministrationKeeps DEF FactoryNext

-----------------------------------------------------------------------------
(* The theorems.                                                           *)

\* The inductive invariant of the three contracts together.
THEOREM FactoryCorrect == FactorySpec => []FactoryInv
<1>1. FactoryInit => FactoryInv
  BY FactoryInitially
<1>2. QED
  BY <1>1, FactoryStep, PTL DEF FactorySpec, allVars

\* Refinement: driven by the factory, the escrow only does what the escrow's own
\* specification allows.  No deposit is recorded twice under one token id and no
\* class is sold that the escrow does not know.
THEOREM FactoryImplementsEscrow == FactorySpec => EscrowImplemented
<1>1. FactoryInit => Escrow!Init
  BY DEF FactoryInit
<1>2. FactoryInv /\ [FactoryNext]_allVars => [Escrow!Next]_Escrow!vars
  BY StepImplementsEscrow
<1>3. QED
  BY <1>1, <1>2, FactoryCorrect, PTL DEF FactorySpec, allVars, EscrowImplemented, Escrow!Spec

\* The factory, the token and the escrow agree on every sale, for any number of
\* classes, issuers and units.
THEOREM SalesAlwaysAgree == FactorySpec => []SalesAgree
<1>1. FactoryInv => SalesAgree
  BY DEF FactoryInv
<1>2. QED
  BY <1>1, FactoryCorrect, PTL

\* Types of the three contracts, the escrow's taken over from its own proofs.
THEOREM FactoryTypesCorrect == FactorySpec => []FactoryTypeOK
<1>1. FactoryInv => FactoryTypeOK
  <2>1. Proved!Base => Escrow!TypeOK
    BY DEF Proved!Base, Proved!TypeOK, Escrow!TypeOK, Proved!AdapterTypeOK, Escrow!AdapterTypeOK,
           Proved!Deposit, Proved!NoDeposit, Escrow!Deposit, Escrow!NoDeposit
  <2>2. QED
    BY <2>1 DEF FactoryInv, FactoryTypes, FactoryTypeOK
<1>2. QED
  BY <1>1, FactoryCorrect, PTL

\* The factory's escrow satisfies the specification the proofs are about.
LEMMA SpecOfProofs == FactorySpec => Proved!Spec
<1>1. Escrow!Spec => Proved!Spec
  BY InitOfProofs, StepOfProofs, PTL DEF Escrow!Spec, Proved!Spec
<1>2. QED
  BY <1>1, FactoryImplementsEscrow, PTL DEF EscrowImplemented

\* The escrow the factory drives can always pay everybody.
THEOREM FactorySolvent == FactorySpec => []Escrow!Solvent
<1>1. Proved!Spec => []Proved!Solvent
  BY TermsOfProofs, Proved!AlwaysSolvent
     DEF Proved!EscrowAssumption, Proved!MaxAssetsAssumption
<1>2. Proved!Solvent => Escrow!Solvent
  BY DEF Proved!Solvent, Escrow!Solvent, Proved!Owed, Escrow!Owed, Proved!Total, Escrow!Total,
         Proved!Coins, Escrow!Coins, Proved!Cardinality, Escrow!Cardinality, Proved!ClassesIn,
         Escrow!ClassesIn, Proved!HeldIn, Escrow!HeldIn, Proved!Live, Escrow!Live
<1>3. QED
  BY <1>1, <1>2, SpecOfProofs, PTL

\* What is backed: the deposits not settled of a class are its units not settled.
LEMMA LiveAreUnsettledUnits ==
    ASSUME FactoryInv, NEW c \in Classes
    PROVE  Proved!LiveOf(c) = { id \in UnitsOf(c) : ~deposits[id].settled }
BY EntitlementAssumption
   DEF EntitlementAssumption, FactoryInv, SalesAgree, IdsGivenOut, Proved!LiveOf, Proved!Live,
       UnitsOf

\* No promise without backing, across the contracts: whoever sells, settles and
\* withdraws, raw collateral covers the payout of every unit not settled.
THEOREM UnitsAlwaysBacked == FactorySpec => []UnsettledUnitsBacked
<1>1. Proved!Spec => []Proved!ObligationCountsLive
  BY TermsOfProofs, Proved!ObligationsAlwaysCount
     DEF Proved!EscrowAssumption, Proved!MaxAssetsAssumption
<1>2. Proved!Spec => []Proved!BackedWithoutStrategy
  BY TermsOfProofs, Proved!AlwaysBackedWithoutStrategy
     DEF Proved!EscrowAssumption, Proved!MaxAssetsAssumption
<1>3. FactoryInv /\ Proved!ObligationCountsLive /\ Proved!BackedWithoutStrategy
        => UnsettledUnitsBacked
  <2> SUFFICES ASSUME FactoryInv, Proved!ObligationCountsLive, Proved!BackedWithoutStrategy,
                      NEW c \in Classes
               PROVE  collateral[c] >= Payout[c] * Cardinality({ id \in UnitsOf(c) :
                                                                   ~deposits[id].settled })
    BY DEF UnsettledUnitsBacked
  <2>1. Proved!Backing(c) >= obligation[c]
    BY DEF FactoryInv, Proved!BackedWithoutStrategy
  <2>2. Proved!Backing(c) = collateral[c]
    BY DepositsType DEF FactoryInv, Proved!Backing, Proved!StrategyValue
  <2>3. obligation[c] = Payout[c] * Proved!Cardinality(Proved!LiveOf(c))
    BY DEF Proved!ObligationCountsLive
  <2>4. Proved!Cardinality(Proved!LiveOf(c)) = Cardinality(Proved!LiveOf(c))
    BY DEF Proved!Cardinality, Cardinality
  <2>5. QED
    BY <2>1, <2>2, <2>3, <2>4, LiveAreUnsettledUnits
<1>4. QED
  BY <1>1, <1>2, <1>3, SpecOfProofs, FactoryCorrect, PTL
================================================================================
