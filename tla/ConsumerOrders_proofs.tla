----------------------- MODULE ConsumerOrders_proofs -----------------------
(***************************************************************************)
(* Proofs about the consumer service, for any number of orders, tokens,    *)
(* pieces of work, authorizations and overlapping requests; and about the  *)
(* customer's page in front of it, beside the recovery script.             *)
(*                                                                         *)
(* What is said of spending assumes that the buyer claims one token for    *)
(* each order: `bought' says which.  Two orders may still claim the same   *)
(* one.  The types, and what is said of the page, assume nothing of the    *)
(* kind.                                                                   *)
(***************************************************************************)
EXTENDS CustomerPage, FiniteSetTheorems, TLAPS

\* Every mint an order is told of is of the one token bought for it.
OneTokenEach(bought) ==
  [][\A r \in Requests, o \in Orders, t \in Tokens :
       recordMint(r, o, t) => t = bought[o]]_serviceVars

(***************************************************************************)
(* Types.                                                                  *)
(***************************************************************************)
StateNames == {"none", "refused", "awaiting_mint", "awaiting_submit", "awaiting_retirement",
               "awaiting_relayer", "provider_settled", "complete"}

OrderRecord == [state : StateNames, work : Works \cup {None}, token : Tokens \cup {None},
                prepared : Auths \cup {None}, receipt : Auths \cup {None}]
TokenRecord == [state : {"none", "available", "pending", "activated", "moving", "delivered"},
                work : Works \cup {None}, decision : Orders \cup {None},
                evidence : Auths \cup {None},
                deposit : {"none", "held", "released", "refunded"}]
LineRecord == [state : {"none", "attempting", "settled", "failed"}, auth : Auths \cup {None}]
CallRecord == [pc : Pcs, order : Orders \cup {None}, token : Tokens \cup {None},
               signed : Auths \cup {None}, auth : Auths \cup {None}, live : BOOLEAN]

LEMMA StateNamesAreOrderStates == StateNames = {OrderStates[i] : i \in DOMAIN OrderStates}
<1>1. DOMAIN OrderStates = 1 .. 8
  BY DEF OrderStates
<1>2. {OrderStates[i] : i \in 1 .. 8} = StateNames
  BY DEF OrderStates, StateNames
<1>3. QED
  BY <1>1, <1>2

OrderTypes == order \in [Orders -> OrderRecord]
TokenTypes == token \in [Tokens -> TokenRecord]
AuthTypes  == auth \in [Auths -> {"unseen", "prepared", "queued", "spent", "expired"}]
LedgerTypes == ledger \in [Tokens \X Works -> LineRecord]
CallTypes  == call \in [Requests -> CallRecord]
Types == /\ OrderTypes /\ TokenTypes /\ AuthTypes /\ LedgerTypes /\ CallTypes
         /\ failures \in 0..MaxFailures

LEMMA TypesAreTypes == Types <=> OrdersTypeOK
  BY StateNamesAreOrderStates
     DEF Types, OrderTypes, TokenTypes, AuthTypes, LedgerTypes, CallTypes, OrdersTypeOK,
         OrderRecord, TokenRecord, LineRecord, CallRecord

\* A request under way is about one of the orders.
Asking == \A r \in Requests : call[r] = NoCall \/ call[r].order \in Orders

Typed == Types /\ Asking

(***************************************************************************)
(* Who writes what.                                                        *)
(***************************************************************************)
LEMMA WhoWritesTokens ==
    ASSUME [OrdersNext]_serviceVars
    PROVE  \/ token' = token
           \/ \E r \in Requests : DecisionConfirmed(r) \/ EvidenceConfirmed(r) \/ ReleaseConfirmed(r)
           \/ \E t \in Tokens : Purchase(t) \/ \E w \in Works : submitParcel(t, w)
  BY DEF OrdersNext, Handler, Request, Wallet, Base, serviceVars, UnchangedChain,
         MintRecorded, WorkChecked, DecisionSent, DecisionSaved, AuthorizationPrepared,
         PreparedSaved, RetirementSigned, RetirementSent, RetirementAccepted,
         RetirementCertified, ReceiptSaved, EvidenceSent, ReleaseSent, OrderCompleted,
         RequestRefused, RequestFails, Forgotten, recordMint, recordSubmitted,
         prepareRetirement, fulfilRetirement, settleOrder, Restart, previewCarbon,
         Relay, Expire, resolveUnresolved

LEMMA WhoWritesOrders ==
    ASSUME [OrdersNext]_serviceVars
    PROVE  \/ order' = order
           \/ \E r \in Requests : \/ MintRecorded(r) \/ DecisionSaved(r) \/ PreparedSaved(r)
                                  \/ ReceiptSaved(r) \/ OrderCompleted(r)
           \/ \E o \in Orders, w \in Works, approved \in BOOLEAN : previewCarbon(o, w, approved)
  BY DEF OrdersNext, Handler, Request, Wallet, Base, serviceVars,
         WorkChecked, DecisionSent, DecisionConfirmed, AuthorizationPrepared,
         RetirementSigned, RetirementSent, RetirementAccepted,
         RetirementCertified, EvidenceSent, EvidenceConfirmed, ReleaseSent, ReleaseConfirmed,
         RequestRefused, RequestFails, Forgotten, recordMint, recordSubmitted,
         prepareRetirement, fulfilRetirement, settleOrder, Restart, Purchase, submitParcel,
         Relay, Expire, resolveUnresolved

LEMMA WhoWritesAuths ==
    ASSUME [OrdersNext]_serviceVars
    PROVE  \/ auth' = auth
           \/ \E r \in Requests, a \in Auths : AuthorizationPrepared(r, a)
           \/ \E r \in Requests : RetirementAccepted(r)
           \/ \E a \in Auths : Relay(a) \/ Expire(a)
  BY DEF OrdersNext, Handler, Request, Wallet, Base, serviceVars, UnchangedChain,
         MintRecorded, WorkChecked, DecisionSent, DecisionConfirmed, DecisionSaved,
         PreparedSaved, RetirementSigned, RetirementSent,
         RetirementCertified, ReceiptSaved, EvidenceSent, EvidenceConfirmed, ReleaseSent,
         ReleaseConfirmed, OrderCompleted, RequestRefused, RequestFails, Forgotten,
         recordMint, recordSubmitted, prepareRetirement, fulfilRetirement, settleOrder,
         Restart, Purchase, submitParcel, previewCarbon, resolveUnresolved

LEMMA WhoWritesTheLedger ==
    ASSUME [OrdersNext]_serviceVars
    PROVE  \/ ledger' = ledger
           \/ \E r \in Requests : RetirementSent(r) \/ RetirementCertified(r)
           \/ \E key \in Tokens \X Works : resolveUnresolved(key)
  BY DEF OrdersNext, Handler, Request, Wallet, Base, serviceVars, UnchangedChain,
         MintRecorded, WorkChecked, DecisionSent, DecisionConfirmed, DecisionSaved,
         AuthorizationPrepared, PreparedSaved, RetirementSigned, RetirementAccepted,
         ReceiptSaved, EvidenceSent, EvidenceConfirmed, ReleaseSent,
         ReleaseConfirmed, OrderCompleted, RequestRefused, RequestFails, Forgotten,
         recordMint, recordSubmitted, prepareRetirement, fulfilRetirement, settleOrder,
         Restart, Purchase, submitParcel, previewCarbon, Relay, Expire

(***************************************************************************)
(* The inductive invariant: what each token, order and request has behind  *)
(* it.                                                                     *)
(***************************************************************************)

\* Approval is what activates a token, and a purchase what gives it a deposit.
TokenStory ==
  \A t \in Tokens :
    /\ token[t].state \in {"none", "available", "pending", "activated"}
    /\ token[t].decision # None <=> token[t].state = "activated"
    /\ token[t].state # "none" => token[t].deposit \in {"held", "released"}
    /\ token[t].state = "none" => token[t].deposit = "none"
    /\ token[t].deposit # "refunded"
    /\ token[t].deposit = "released" => token[t].evidence # None

\* The work an order was ruled on is the one its token holds, from the check on.
Checked(bought, o) == /\ order[o].token = bought[o]
                      /\ token[bought[o]].state \in {"pending", "activated"}
                      /\ token[bought[o]].work = order[o].work

Matched(bought, o) == /\ order[o].token = bought[o]
                      /\ token[bought[o]].decision # None
                      /\ token[bought[o]].work = order[o].work

PastDecision == {"awaiting_retirement", "awaiting_relayer", "provider_settled", "complete"}

OrderStory(bought) ==
  \A o \in Orders :
    /\ order[o].state = "none" => order[o] = NoOrder
    /\ order[o].state # "none" => order[o].work \in Works
    /\ order[o].state \notin {"none", "refused", "awaiting_mint"} => order[o].token = bought[o]
    /\ order[o].state \in PastDecision => Matched(bought, o)
    /\ order[o].receipt # None => auth[order[o].receipt] = "spent"
    /\ order[o].state \in {"provider_settled", "complete"} => order[o].receipt # None
    /\ order[o].state = "complete" => /\ token[bought[o]].deposit = "released"
                                      /\ token[bought[o]].evidence # None

Deciding   == {"checked", "deciding"}
Unmatched  == {"idle", "minted", "submitted"} \cup Deciding
OnItsToken == {"deciding", "preparing", "prepared", "fulfilling", "signed", "relaying",
               "certified", "evidencing", "releasing"}
Settling   == {"settling", "evidencing", "evidenced", "releasing", "settled"}

\* What a request that has come so far may rely on.
StoryOf(bought, c) ==
  \/ c = NoCall
  \/ /\ c.pc # "idle" /\ c.order \in Orders
     /\ order[c.order].state \notin {"none", "refused"}
     /\ c.pc = "minted" => c.token = bought[c.order]
     /\ c.pc # "minted" => order[c.order].token = bought[c.order]
     /\ c.pc \in Deciding => Checked(bought, c.order)
     /\ c.pc \notin Unmatched => Matched(bought, c.order)
     /\ c.pc \in OnItsToken => c.token = bought[c.order]
     /\ c.pc \in {"prepared", "relaying", "certified", "evidencing"} => c.auth \in Auths
     /\ c.pc \in {"certified", "evidencing"} => auth[c.auth] = "spent"
     /\ c.pc \in Settling => order[c.order].receipt # None
     /\ c.pc \in {"evidenced", "releasing", "settled"} => token[bought[c.order]].evidence # None
     /\ c.pc = "settled" => token[bought[c.order]].deposit = "released"

CallStory(bought) == \A r \in Requests : StoryOf(bought, call[r])

Story(bought) == Types /\ TokenStory /\ OrderStory(bought) /\ CallStory(bought)

LEMMA StoryTyped == ASSUME NEW bought, Story(bought) PROVE Typed
  BY DEF Story, Typed, Asking, CallStory, StoryOf

\* Where a request stands, by what it has reached.
LEMMA StandsAt ==
    ASSUME NEW bought, Story(bought), NEW r \in Requests, call[r].pc # "idle"
    PROVE  /\ call[r].order \in Orders
           /\ call[r] \in CallRecord
           /\ order[call[r].order] \in OrderRecord
           /\ order[call[r].order].state \notin {"none", "refused"}
           /\ order[call[r].order].work \in Works
<1>1. call[r] # NoCall /\ call[r] \in CallRecord
  BY DEF Story, Types, CallTypes, NoCall
<1>2. call[r].order \in Orders /\ order[call[r].order].state \notin {"none", "refused"}
  BY <1>1 DEF Story, CallStory, StoryOf
<1>3. QED
  BY <1>1, <1>2 DEF Story, Types, OrderTypes, OrderStory

(***************************************************************************)
(* What each write of a token does.                                        *)
(***************************************************************************)
LEMMA DecisionEffect ==
    ASSUME TokenTypes, NEW r \in Requests, DecisionConfirmed(r), NEW t \in Tokens,
           t = call[r].token, call[r].order \in Orders
    PROVE  /\ TokenTypes'
           /\ \A u \in Tokens : u # t => token'[u] = token[u]
           /\ IF token[t].state = "pending"
              THEN /\ token'[t].state = "activated" /\ token'[t].decision = call[r].order
                   /\ token'[t].work = token[t].work /\ token'[t].evidence = token[t].evidence
                   /\ token'[t].deposit = token[t].deposit
              ELSE token'[t] = token[t]
<1>1. CASE token[t].state = "pending"
  <2> DEFINE new == [token[t] EXCEPT !.state = "activated", !.decision = call[r].order]
  <2>1. token' = [token EXCEPT ![t].state = "activated", ![t].decision = call[r].order]
    BY <1>1 DEF DecisionConfirmed
  <2>2. \A u \in Tokens : token'[u] = IF u = t THEN new ELSE token[u]
    BY <2>1 DEF TokenTypes
  <2>3. token[t] \in TokenRecord
    BY DEF TokenTypes
  <2>4. /\ new \in TokenRecord
        /\ new.state = "activated" /\ new.decision = call[r].order /\ new.work = token[t].work
        /\ new.evidence = token[t].evidence /\ new.deposit = token[t].deposit
    BY <2>3 DEF TokenRecord
  <2> HIDE DEF new
  <2>5. TokenTypes'
    BY <2>1, <2>2, <2>4 DEF TokenTypes
  <2>6. QED
    BY <1>1, <2>2, <2>4, <2>5
<1>2. CASE token[t].state # "pending"
  BY <1>2 DEF DecisionConfirmed, TokenTypes
<1>3. QED
  BY <1>1, <1>2

LEMMA EvidenceEffect ==
    ASSUME TokenTypes, NEW r \in Requests, EvidenceConfirmed(r), NEW t \in Tokens,
           t = call[r].token, call[r].auth \in Auths \cup {None}
    PROVE  /\ TokenTypes'
           /\ \A u \in Tokens : u # t => token'[u] = token[u]
           /\ token'[t].state = token[t].state /\ token'[t].decision = token[t].decision
           /\ token'[t].work = token[t].work /\ token'[t].deposit = token[t].deposit
           /\ token'[t].evidence = IF TakesEvidence(t) THEN call[r].auth ELSE token[t].evidence
<1>1. CASE TakesEvidence(t)
  <2> DEFINE new == [token[t] EXCEPT !.evidence = call[r].auth]
  <2>1. token' = [token EXCEPT ![t].evidence = call[r].auth]
    BY <1>1 DEF EvidenceConfirmed
  <2>2. \A u \in Tokens : token'[u] = IF u = t THEN new ELSE token[u]
    BY <2>1 DEF TokenTypes
  <2>3. token[t] \in TokenRecord
    BY DEF TokenTypes
  <2>4. /\ new \in TokenRecord
        /\ new.state = token[t].state /\ new.decision = token[t].decision
        /\ new.work = token[t].work
        /\ new.evidence = call[r].auth /\ new.deposit = token[t].deposit
    BY <2>3 DEF TokenRecord
  <2> HIDE DEF new
  <2>5. TokenTypes'
    BY <2>1, <2>2, <2>4 DEF TokenTypes
  <2>6. QED
    BY <1>1, <2>2, <2>4, <2>5
<1>2. CASE ~ TakesEvidence(t)
  BY <1>2 DEF EvidenceConfirmed, TokenTypes
<1>3. QED
  BY <1>1, <1>2

LEMMA ReleaseEffect ==
    ASSUME TokenTypes, NEW r \in Requests, ReleaseConfirmed(r), NEW t \in Tokens,
           t = call[r].token
    PROVE  /\ TokenTypes'
           /\ \A u \in Tokens : u # t => token'[u] = token[u]
           /\ token'[t].state = token[t].state /\ token'[t].decision = token[t].decision
           /\ token'[t].work = token[t].work /\ token'[t].evidence = token[t].evidence
           /\ token'[t].deposit = IF token[t].deposit = "held" THEN "released"
                                                               ELSE token[t].deposit
<1>1. CASE token[t].deposit = "held"
  <2> DEFINE new == [token[t] EXCEPT !.deposit = "released"]
  <2>1. token' = [token EXCEPT ![t].deposit = "released"]
    BY <1>1 DEF ReleaseConfirmed
  <2>2. \A u \in Tokens : token'[u] = IF u = t THEN new ELSE token[u]
    BY <2>1 DEF TokenTypes
  <2>3. token[t] \in TokenRecord
    BY DEF TokenTypes
  <2>4. /\ new \in TokenRecord
        /\ new.state = token[t].state /\ new.decision = token[t].decision
        /\ new.work = token[t].work
        /\ new.evidence = token[t].evidence /\ new.deposit = "released"
    BY <2>3 DEF TokenRecord
  <2> HIDE DEF new
  <2>5. TokenTypes'
    BY <2>1, <2>2, <2>4 DEF TokenTypes
  <2>6. QED
    BY <1>1, <2>2, <2>4, <2>5
<1>2. CASE token[t].deposit # "held"
  BY <1>2 DEF ReleaseConfirmed, TokenTypes
<1>3. QED
  BY <1>1, <1>2

LEMMA PurchaseEffect ==
    ASSUME TokenTypes, NEW t \in Tokens, Purchase(t)
    PROVE  /\ TokenTypes'
           /\ \A u \in Tokens : u # t => token'[u] = token[u]
           /\ token[t].state = "none" /\ token'[t].state = "available"
           /\ token'[t].deposit = "held"
           /\ token'[t].decision = token[t].decision /\ token'[t].evidence = token[t].evidence
<1> DEFINE new == [token[t] EXCEPT !.state = "available", !.deposit = "held"]
<1>1. token' = [token EXCEPT ![t].state = "available", ![t].deposit = "held"]
  BY DEF Purchase
<1>2. \A u \in Tokens : token'[u] = IF u = t THEN new ELSE token[u]
  BY <1>1 DEF TokenTypes
<1>3. token[t] \in TokenRecord /\ token[t].state = "none"
  BY DEF TokenTypes, Purchase
<1>4. /\ new \in TokenRecord
      /\ new.state = "available" /\ new.deposit = "held" /\ new.decision = token[t].decision
      /\ new.evidence = token[t].evidence
  BY <1>3 DEF TokenRecord
<1> HIDE DEF new
<1>5. TokenTypes'
  BY <1>1, <1>2, <1>4 DEF TokenTypes
<1>6. QED
  BY <1>2, <1>3, <1>4, <1>5

LEMMA SubmitEffect ==
    ASSUME TokenTypes, NEW t \in Tokens, NEW w \in Works \cup {None}, submitParcel(t, w)
    PROVE  /\ TokenTypes'
           /\ \A u \in Tokens : u # t => token'[u] = token[u]
           /\ token[t].state = "available" /\ token'[t].state = "pending"
           /\ token'[t].work = w /\ token'[t].deposit = token[t].deposit
           /\ token'[t].decision = token[t].decision /\ token'[t].evidence = token[t].evidence
<1> DEFINE new == [token[t] EXCEPT !.state = "pending", !.work = w]
<1>1. token' = [token EXCEPT ![t].state = "pending", ![t].work = w]
  BY DEF submitParcel
<1>2. \A u \in Tokens : token'[u] = IF u = t THEN new ELSE token[u]
  BY <1>1 DEF TokenTypes
<1>3. token[t] \in TokenRecord /\ token[t].state = "available"
  BY DEF TokenTypes, submitParcel
<1>4. /\ new \in TokenRecord
      /\ new.state = "pending" /\ new.work = w /\ new.deposit = token[t].deposit
      /\ new.decision = token[t].decision /\ new.evidence = token[t].evidence
  BY <1>3 DEF TokenRecord
<1> HIDE DEF new
<1>5. TokenTypes'
  BY <1>1, <1>2, <1>4 DEF TokenTypes
<1>6. QED
  BY <1>2, <1>3, <1>4, <1>5

(***************************************************************************)
(* What each write of an order does.                                       *)
(***************************************************************************)
LEMMA MintEffect ==
    ASSUME OrderTypes, NEW r \in Requests, MintRecorded(r), NEW o \in Orders,
           o = call[r].order, call[r].token \in Tokens \cup {None}
    PROVE  /\ OrderTypes'
           /\ \A p \in Orders : p # o => order'[p] = order[p]
           /\ order'[o].token = call[r].token /\ order'[o].state = "awaiting_submit"
           /\ order'[o].work = order[o].work /\ order'[o].prepared = order[o].prepared
           /\ order'[o].receipt = order[o].receipt
<1> DEFINE new == [order[o] EXCEPT !.token = call[r].token, !.state = "awaiting_submit"]
<1>1. order' = [order EXCEPT ![o].token = call[r].token, ![o].state = "awaiting_submit"]
  BY DEF MintRecorded
<1>2. \A p \in Orders : order'[p] = IF p = o THEN new ELSE order[p]
  BY <1>1 DEF OrderTypes
<1>3. order[o] \in OrderRecord
  BY DEF OrderTypes
<1>4. /\ new \in OrderRecord
      /\ new.token = call[r].token /\ new.state = "awaiting_submit" /\ new.work = order[o].work
      /\ new.prepared = order[o].prepared /\ new.receipt = order[o].receipt
  BY <1>3 DEF OrderRecord, StateNames
<1> HIDE DEF new
<1>5. OrderTypes'
  BY <1>1, <1>2, <1>4 DEF OrderTypes
<1>6. QED
  BY <1>2, <1>4, <1>5

\* A decision, or a completion, saved: the state alone changes.
LEMMA AdvanceEffect ==
    ASSUME OrderTypes, NEW r \in Requests, NEW s,
           \/ DecisionSaved(r) /\ s = "awaiting_retirement"
           \/ OrderCompleted(r) /\ s = "complete",
           NEW o \in Orders, o = call[r].order
    PROVE  /\ OrderTypes'
           /\ \A p \in Orders : p # o => order'[p] = order[p]
           /\ order'[o].state = s
           /\ order'[o].work = order[o].work /\ order'[o].token = order[o].token
           /\ order'[o].prepared = order[o].prepared /\ order'[o].receipt = order[o].receipt
<1> DEFINE new == [order[o] EXCEPT !.state = s]
<1>1. order' = [order EXCEPT ![o].state = s] /\ s \in {"awaiting_retirement", "complete"}
  BY DEF DecisionSaved, OrderCompleted
<1>2. \A p \in Orders : order'[p] = IF p = o THEN new ELSE order[p]
  BY <1>1 DEF OrderTypes
<1>3. order[o] \in OrderRecord
  BY DEF OrderTypes
<1>4. /\ new \in OrderRecord
      /\ new.state = s /\ new.work = order[o].work /\ new.token = order[o].token
      /\ new.prepared = order[o].prepared /\ new.receipt = order[o].receipt
  BY <1>1, <1>3 DEF OrderRecord, StateNames
<1> HIDE DEF new
<1>5. OrderTypes'
  BY <1>1, <1>2, <1>4 DEF OrderTypes
<1>6. QED
  BY <1>2, <1>4, <1>5

LEMMA PreparedEffect ==
    ASSUME OrderTypes, NEW r \in Requests, PreparedSaved(r), NEW o \in Orders,
           o = call[r].order, call[r].auth \in Auths \cup {None}
    PROVE  /\ OrderTypes'
           /\ \A p \in Orders : p # o => order'[p] = order[p]
           /\ order'[o].state = "awaiting_relayer" /\ order'[o].prepared = call[r].auth
           /\ order'[o].work = order[o].work /\ order'[o].token = order[o].token
           /\ order'[o].receipt = order[o].receipt
<1> DEFINE new == [order[o] EXCEPT !.prepared = call[r].auth, !.state = "awaiting_relayer"]
<1>1. order' = [order EXCEPT ![o].prepared = call[r].auth, ![o].state = "awaiting_relayer"]
  BY DEF PreparedSaved
<1>2. \A p \in Orders : order'[p] = IF p = o THEN new ELSE order[p]
  BY <1>1 DEF OrderTypes
<1>3. order[o] \in OrderRecord
  BY DEF OrderTypes
<1>4. /\ new \in OrderRecord
      /\ new.state = "awaiting_relayer" /\ new.prepared = call[r].auth
      /\ new.work = order[o].work /\ new.token = order[o].token
      /\ new.receipt = order[o].receipt
  BY <1>3 DEF OrderRecord, StateNames
<1> HIDE DEF new
<1>5. OrderTypes'
  BY <1>1, <1>2, <1>4 DEF OrderTypes
<1>6. QED
  BY <1>2, <1>4, <1>5

LEMMA ReceiptEffect ==
    ASSUME OrderTypes, NEW r \in Requests, ReceiptSaved(r), NEW o \in Orders,
           o = call[r].order, call[r].auth \in Auths \cup {None}
    PROVE  /\ OrderTypes'
           /\ \A p \in Orders : p # o => order'[p] = order[p]
           /\ order'[o].state = "provider_settled" /\ order'[o].receipt = call[r].auth
           /\ order'[o].work = order[o].work /\ order'[o].token = order[o].token
           /\ order'[o].prepared = None
<1> DEFINE new == [order[o] EXCEPT !.receipt = call[r].auth, !.state = "provider_settled",
                                   !.prepared = None]
<1>1. order' = [order EXCEPT ![o].receipt = call[r].auth, ![o].state = "provider_settled",
                             ![o].prepared = None]
  BY DEF ReceiptSaved
<1>2. \A p \in Orders : order'[p] = IF p = o THEN new ELSE order[p]
  BY <1>1 DEF OrderTypes
<1>3. order[o] \in OrderRecord
  BY DEF OrderTypes
<1>4. /\ new \in OrderRecord
      /\ new.state = "provider_settled" /\ new.receipt = call[r].auth
      /\ new.work = order[o].work /\ new.token = order[o].token /\ new.prepared = None
  BY <1>3 DEF OrderRecord, StateNames
<1> HIDE DEF new
<1>5. OrderTypes'
  BY <1>1, <1>2, <1>4 DEF OrderTypes
<1>6. QED
  BY <1>2, <1>4, <1>5

LEMMA PreviewEffect ==
    ASSUME OrderTypes, NEW o \in Orders, NEW w \in Works, NEW approved \in BOOLEAN,
           previewCarbon(o, w, approved)
    PROVE  /\ OrderTypes'
           /\ \A p \in Orders : p # o => order'[p] = order[p]
           /\ order[o] = NoOrder
           /\ order'[o].state \in {"awaiting_mint", "refused"} /\ order'[o].work = w
           /\ order'[o].token = order[o].token /\ order'[o].prepared = order[o].prepared
           /\ order'[o].receipt = order[o].receipt
<1> DEFINE next == IF approved THEN "awaiting_mint" ELSE "refused"
           new == [order[o] EXCEPT !.work = w, !.state = next]
<1>1. order' = [order EXCEPT ![o].work = w, ![o].state = next] /\ order[o] = NoOrder
  BY DEF previewCarbon
<1>2. next \in {"awaiting_mint", "refused"}
  OBVIOUS
<1> HIDE DEF next
<1>3. \A p \in Orders : order'[p] = IF p = o THEN new ELSE order[p]
  BY <1>1 DEF OrderTypes
<1>4. order[o] \in OrderRecord
  BY DEF OrderTypes
<1>5. /\ new \in OrderRecord
      /\ new.state = next /\ new.work = w /\ new.token = order[o].token
      /\ new.prepared = order[o].prepared /\ new.receipt = order[o].receipt
  BY <1>2, <1>4 DEF OrderRecord, StateNames
<1> HIDE DEF new
<1>6. OrderTypes'
  BY <1>1, <1>3, <1>5 DEF OrderTypes
<1>7. QED
  BY <1>1, <1>2, <1>3, <1>5, <1>6

(***************************************************************************)
(* What a step does to the request it is a step of.                        *)
(***************************************************************************)
OthersWait(r) == \A q \in Requests : q # r => call'[q] = call[q]

LEMMA StartEffect ==
    ASSUME CallTypes, NEW r \in Requests, NEW o \in Orders, NEW pc \in Pcs,
           NEW t \in Tokens \cup {None}, Start(r, o, pc, t)
    PROVE  /\ CallTypes' /\ OthersWait(r)
           /\ call'[r].pc = pc /\ call'[r].order = o /\ call'[r].token = t
           /\ call'[r].auth = None /\ call'[r].live /\ call[r] = NoCall
<1> DEFINE new == [NoCall EXCEPT !.pc = pc, !.order = o, !.token = t]
<1>1. call' = [call EXCEPT ![r] = new] /\ call[r] = NoCall
  BY DEF Start
<1>2. /\ new \in CallRecord
      /\ new.pc = pc /\ new.order = o /\ new.token = t /\ new.auth = None /\ new.live
  BY DEF NoCall, CallRecord
<1> HIDE DEF new
<1>3. QED
  BY <1>1, <1>2 DEF CallTypes, OthersWait

LEMMA GotoEffect ==
    ASSUME CallTypes, NEW r \in Requests, NEW pc \in Pcs, Goto(r, pc)
    PROVE  /\ CallTypes' /\ OthersWait(r)
           /\ call'[r].pc = pc /\ call'[r].order = call[r].order
           /\ call'[r].token = call[r].token /\ call'[r].auth = call[r].auth
           /\ call'[r].live = call[r].live
<1> DEFINE new == [call[r] EXCEPT !.pc = pc]
<1>1. call' = [call EXCEPT ![r] = new]
  BY DEF Goto
<1>2. call[r] \in CallRecord
  BY DEF CallTypes
<1>3. /\ new \in CallRecord
      /\ new.pc = pc /\ new.order = call[r].order /\ new.token = call[r].token
      /\ new.auth = call[r].auth /\ new.live = call[r].live
  BY <1>2 DEF CallRecord
<1> HIDE DEF new
<1>4. QED
  BY <1>1, <1>3 DEF CallTypes, OthersWait

LEMMA AnswerEffect ==
    ASSUME CallTypes, NEW r \in Requests, Answer(r)
    PROVE  CallTypes' /\ OthersWait(r) /\ call'[r] = NoCall
<1>1. NoCall \in CallRecord
  BY DEF NoCall, CallRecord, Pcs
<1>2. QED
  BY <1>1 DEF Answer, CallTypes, OthersWait

LEMMA ConfirmEffect ==
    ASSUME CallTypes, NEW r \in Requests, NEW pc \in Pcs, Confirm(r, pc)
    PROVE  /\ CallTypes' /\ OthersWait(r)
           /\ \/ call'[r] = NoCall
              \/ /\ call'[r].pc = pc /\ call'[r].order = call[r].order
                 /\ call'[r].token = call[r].token /\ call'[r].auth = call[r].auth
                 /\ call'[r].live = call[r].live
<1> DEFINE new == [call[r] EXCEPT !.pc = pc]
<1>1. call' = [call EXCEPT ![r] = IF call[r].live THEN new ELSE NoCall]
  BY DEF Confirm
<1>2. call[r] \in CallRecord /\ NoCall \in CallRecord
  BY DEF CallTypes, NoCall, CallRecord, Pcs
<1>3. /\ new \in CallRecord
      /\ new.pc = pc /\ new.order = call[r].order /\ new.token = call[r].token
      /\ new.auth = call[r].auth /\ new.live = call[r].live
  BY <1>2 DEF CallRecord
<1> HIDE DEF new
<1>4. QED
  BY <1>1, <1>2, <1>3 DEF CallTypes, OthersWait

LEMMA AbandonEffect ==
    ASSUME NEW c \in CallRecord
    PROVE  /\ Abandoned(c) \in CallRecord
           /\ \/ Abandoned(c) = NoCall
              \/ /\ Abandoned(c).pc = c.pc /\ Abandoned(c).order = c.order
                 /\ Abandoned(c).token = c.token /\ Abandoned(c).auth = c.auth
  BY DEF Abandoned, NoCall, CallRecord, Pcs

(***************************************************************************)
(* What no step takes back.                                                *)
(***************************************************************************)
TokensKept ==
  \A t \in Tokens :
    /\ token[t].state \in {"pending", "activated"} =>
         token'[t].state \in {"pending", "activated"} /\ token'[t].work = token[t].work
    /\ token[t].state = "activated" => token'[t].state = "activated"
    /\ token[t].decision # None => token'[t].decision # None
    /\ token[t].deposit = "released" => token'[t].deposit = "released"
    /\ token[t].evidence # None => token'[t].evidence # None

OrdersKept(bought) ==
  \A o \in Orders :
    /\ order[o].state # "none" =>
         order'[o].state # "none" /\ order'[o].work = order[o].work
    /\ order[o].state \notin {"none", "refused"} => order'[o].state \notin {"none", "refused"}
    /\ order[o].token = bought[o] => order'[o].token = bought[o]
    /\ order[o].receipt # None => order'[o].receipt # None

AuthsKept == \A a \in Auths : auth[a] = "spent" => auth'[a] = "spent"

LEMMA TokensAreKept ==
    ASSUME NEW bought \in [Orders -> Tokens], Story(bought), [OrdersNext]_serviceVars
    PROVE  TokenTypes' /\ TokenStory' /\ TokensKept
<1> USE DEF Story, Types
<1>1. ASSUME NEW r \in Requests, DecisionConfirmed(r)
      PROVE  TokenTypes' /\ TokenStory' /\ TokensKept
  <2>1. call[r].pc = "deciding"
    BY <1>1 DEF DecisionConfirmed
  <2>2. call[r].order \in Orders /\ call[r].token = bought[call[r].order]
    BY <2>1 DEF CallStory, StoryOf, NoCall, OnItsToken
  <2>3. call[r].token \in Tokens /\ call[r].order # None
    BY <2>2, OrdersAssumption
  <2>4. QED
    BY <1>1, <2>2, <2>3, DecisionEffect DEF TokenStory, TokensKept
<1>2. ASSUME NEW r \in Requests, EvidenceConfirmed(r)
      PROVE  TokenTypes' /\ TokenStory' /\ TokensKept
  <2>1. call[r].pc = "evidencing"
    BY <1>2 DEF EvidenceConfirmed
  <2>2. /\ call[r].order \in Orders /\ call[r].token = bought[call[r].order]
        /\ call[r].auth \in Auths
    BY <2>1 DEF CallStory, StoryOf, NoCall, OnItsToken
  <2>3. call[r].token \in Tokens /\ call[r].auth # None
    BY <2>2, OrdersAssumption
  <2>4. QED
    BY <1>2, <2>2, <2>3, EvidenceEffect DEF TokenStory, TokensKept
<1>3. ASSUME NEW r \in Requests, ReleaseConfirmed(r)
      PROVE  TokenTypes' /\ TokenStory' /\ TokensKept
  <2>1. call[r].pc = "releasing"
    BY <1>3 DEF ReleaseConfirmed
  <2>2. call[r].order \in Orders /\ call[r].token = bought[call[r].order]
    BY <2>1 DEF CallStory, StoryOf, NoCall, OnItsToken
  <2>3. call[r].token \in Tokens /\ token[call[r].token].evidence # None
    BY <2>1, <2>2 DEF CallStory, StoryOf, NoCall
  <2>4. QED
    BY <1>3, <2>3, ReleaseEffect DEF TokenStory, TokensKept
<1>4. ASSUME NEW t \in Tokens, Purchase(t) PROVE TokenTypes' /\ TokenStory' /\ TokensKept
  BY <1>4, PurchaseEffect DEF TokenStory, TokensKept
<1>5. ASSUME NEW t \in Tokens, NEW w \in Works, submitParcel(t, w)
      PROVE  TokenTypes' /\ TokenStory' /\ TokensKept
  BY <1>5, SubmitEffect DEF TokenStory, TokensKept
<1>6. CASE token' = token
  BY <1>6 DEF TokenTypes, TokenStory, TokensKept
<1>7. QED
  BY <1>1, <1>2, <1>3, <1>4, <1>5, <1>6, WhoWritesTokens

LEMMA AuthsAreKept ==
    ASSUME Types, [OrdersNext]_serviceVars
    PROVE  AuthTypes' /\ AuthsKept
  BY WhoWritesAuths
     DEF Types, AuthTypes, AuthsKept, AuthorizationPrepared, RetirementAccepted, Relay, Expire

\* A request on an order that has passed its mint.
LEMMA OrdersAreKept ==
    ASSUME NEW bought \in [Orders -> Tokens], Story(bought), [OrdersNext]_serviceVars
    PROVE  OrderTypes' /\ OrdersKept(bought)
<1> USE DEF Story, Types
<1>1. ASSUME NEW r \in Requests, MintRecorded(r) PROVE OrderTypes' /\ OrdersKept(bought)
  <2>1. call[r].pc = "minted"
    BY <1>1 DEF MintRecorded, Running
  <2>2. call[r].order \in Orders /\ call[r].token = bought[call[r].order]
    BY <2>1 DEF CallStory, StoryOf, NoCall
  <2>3. call[r].token \in Tokens
    BY <2>2
  <2>4. QED
    BY <1>1, <2>2, <2>3, MintEffect DEF OrdersKept
<1>2. ASSUME NEW r \in Requests, DecisionSaved(r) \/ OrderCompleted(r)
      PROVE  OrderTypes' /\ OrdersKept(bought)
  <2>1. call[r].pc # "idle"
    BY <1>2 DEF DecisionSaved, OrderCompleted, DepositNext, Running
  <2>2. call[r].order \in Orders /\ order[call[r].order].state \notin {"none", "refused"}
    BY <2>1, StandsAt
  <2>3. PICK s \in {"awaiting_retirement", "complete"} :
          \/ DecisionSaved(r) /\ s = "awaiting_retirement"
          \/ OrderCompleted(r) /\ s = "complete"
    BY <1>2
  <2>4. /\ OrderTypes'
        /\ \A p \in Orders : p # call[r].order => order'[p] = order[p]
        /\ order'[call[r].order].state = s
        /\ order'[call[r].order].work = order[call[r].order].work
        /\ order'[call[r].order].token = order[call[r].order].token
        /\ order'[call[r].order].receipt = order[call[r].order].receipt
    BY <2>2, <2>3, AdvanceEffect
  <2>5. QED
    BY <2>2, <2>4 DEF OrdersKept
<1>3. ASSUME NEW r \in Requests, PreparedSaved(r) PROVE OrderTypes' /\ OrdersKept(bought)
  <2>1. call[r].pc = "prepared"
    BY <1>3 DEF PreparedSaved, Running
  <2>2. call[r].order \in Orders /\ call[r].auth \in Auths
    BY <2>1 DEF CallStory, StoryOf, NoCall
  <2>3. QED
    BY <1>3, <2>2, PreparedEffect DEF OrdersKept
<1>4. ASSUME NEW r \in Requests, ReceiptSaved(r) PROVE OrderTypes' /\ OrdersKept(bought)
  <2>1. call[r].pc = "certified"
    BY <1>4 DEF ReceiptSaved, Running
  <2>2. call[r].order \in Orders /\ call[r].auth \in Auths
    BY <2>1 DEF CallStory, StoryOf, NoCall
  <2>3. call[r].auth # None
    BY <2>2, OrdersAssumption
  <2>4. QED
    BY <1>4, <2>2, <2>3, ReceiptEffect DEF OrdersKept
<1>5. ASSUME NEW o \in Orders, NEW w \in Works, NEW approved \in BOOLEAN,
             previewCarbon(o, w, approved)
      PROVE  OrderTypes' /\ OrdersKept(bought)
  <2>1. order[o].state = "none"
    BY <1>5 DEF previewCarbon, NoOrder
  <2>2. QED
    BY <1>5, <2>1, PreviewEffect DEF OrdersKept
<1>6. CASE order' = order
  BY <1>6 DEF OrderTypes, OrdersKept
<1>7. QED
  BY <1>1, <1>2, <1>3, <1>4, <1>5, <1>6, WhoWritesOrders

\* What all of this leaves in place around an order some request is about.
Kept(bought) == /\ TokenTypes' /\ TokenStory' /\ TokensKept
                /\ OrderTypes' /\ OrdersKept(bought)
                /\ AuthTypes' /\ AuthsKept

LEMMA EverythingIsKept ==
    ASSUME NEW bought \in [Orders -> Tokens], Story(bought), [OrdersNext]_serviceVars
    PROVE  Kept(bought)
  BY TokensAreKept, OrdersAreKept, AuthsAreKept DEF Kept, Story

LEMMA OrderCarried ==
    ASSUME NEW bought \in [Orders -> Tokens], TokenStory, Kept(bought),
           NEW o \in Orders, order[o].state # "none"
    PROVE  /\ order'[o].state # "none" /\ order'[o].work = order[o].work
           /\ order[o].state # "refused" => order'[o].state # "refused"
           /\ order[o].token = bought[o] => order'[o].token = bought[o]
           /\ Checked(bought, o) => Checked(bought, o)'
           /\ Matched(bought, o) => Matched(bought, o)'
           /\ order[o].receipt # None => order'[o].receipt # None
           /\ token[bought[o]].evidence # None => token'[bought[o]].evidence # None
           /\ token[bought[o]].deposit = "released" => token'[bought[o]].deposit = "released"
<1>1. /\ bought[o] \in Tokens
      /\ order'[o].state # "none" /\ order'[o].work = order[o].work
      /\ order[o].state # "refused" => order'[o].state # "refused"
      /\ order[o].token = bought[o] => order'[o].token = bought[o]
      /\ order[o].receipt # None => order'[o].receipt # None
  BY DEF Kept, OrdersKept
<1>2. Checked(bought, o) => Checked(bought, o)'
  BY <1>1 DEF Checked, Kept, TokensKept
<1>3. Matched(bought, o) => Matched(bought, o)'
  BY <1>1 DEF Matched, Kept, TokensKept, TokenStory
<1>4. QED
  BY <1>1, <1>2, <1>3 DEF Kept, TokensKept

\* A request that has not moved, or whose handler alone is gone, keeps its story.
Unmoved(r) ==
  \/ call'[r] = call[r] \/ call'[r] = NoCall
  \/ /\ call[r] # NoCall
     /\ call'[r].pc = call[r].pc /\ call'[r].order = call[r].order
     /\ call'[r].token = call[r].token /\ call'[r].auth = call[r].auth

LEMMA StoryCarried ==
    ASSUME NEW bought \in [Orders -> Tokens], Story(bought), Kept(bought),
           NEW r \in Requests, Unmoved(r)
    PROVE  StoryOf(bought, call[r])'
<1>1. CASE call'[r] = NoCall
  BY <1>1 DEF StoryOf
<1>2. CASE call'[r] # NoCall
  <2>1. /\ call[r] # NoCall
        /\ call'[r].pc = call[r].pc /\ call'[r].order = call[r].order
        /\ call'[r].token = call[r].token /\ call'[r].auth = call[r].auth
    BY <1>2 DEF Unmoved
  <2>2. StoryOf(bought, call[r]) /\ TokenStory
    BY DEF Story, CallStory
  <2>3. PICK o \in Orders : o = call[r].order /\ order[o].state \notin {"none", "refused"}
    BY <2>1, <2>2 DEF StoryOf
  <2>4. /\ order'[o].state \notin {"none", "refused"}
        /\ order[o].token = bought[o] => order'[o].token = bought[o]
        /\ Checked(bought, o) => Checked(bought, o)'
        /\ Matched(bought, o) => Matched(bought, o)'
        /\ order[o].receipt # None => order'[o].receipt # None
        /\ token[bought[o]].evidence # None => token'[bought[o]].evidence # None
        /\ token[bought[o]].deposit = "released" => token'[bought[o]].deposit = "released"
    BY <2>2, <2>3, OrderCarried
  <2>5. call[r].auth \in Auths /\ auth[call[r].auth] = "spent" => auth'[call[r].auth] = "spent"
    BY DEF Kept, AuthsKept
  <2>6. Checked(bought, call[r].order)' <=> Checked(bought, o)'
    BY <2>1, <2>3 DEF Checked
  <2>7. Matched(bought, call[r].order)' <=> Matched(bought, o)'
    BY <2>1, <2>3 DEF Matched
  <2>8. QED
    BY <2>1, <2>2, <2>3, <2>4, <2>5, <2>6, <2>7 DEF StoryOf
<1>3. QED
  BY <1>1, <1>2

(***************************************************************************)
(* The orders' story.                                                      *)
(***************************************************************************)
OrderTold(bought, o) ==
  /\ order[o].state = "none" => order[o] = NoOrder
  /\ order[o].state # "none" => order[o].work \in Works
  /\ order[o].state \notin {"none", "refused", "awaiting_mint"} => order[o].token = bought[o]
  /\ order[o].state \in PastDecision => Matched(bought, o)
  /\ order[o].receipt # None => auth[order[o].receipt] = "spent"
  /\ order[o].state \in {"provider_settled", "complete"} => order[o].receipt # None
  /\ order[o].state = "complete" => /\ token[bought[o]].deposit = "released"
                                    /\ token[bought[o]].evidence # None

LEMMA OrderToldCarried ==
    ASSUME NEW bought \in [Orders -> Tokens], Story(bought), Kept(bought),
           NEW o \in Orders, order'[o] = order[o]
    PROVE  OrderTold(bought, o)'
<1>1. OrderTold(bought, o) /\ TokenStory
  BY DEF Story, OrderStory, OrderTold
<1>2. CASE order[o].state = "none"
  BY <1>1, <1>2 DEF OrderTold, PastDecision, NoOrder
<1>3. CASE order[o].state # "none"
  <2>1. order[o].receipt \in Auths \cup {None}
    BY DEF Story, Types, OrderTypes, OrderRecord
  <2>2. order'[o].receipt # None => auth'[order'[o].receipt] = "spent"
    BY <1>1, <2>1 DEF OrderTold, Kept, AuthsKept
  <2>3. QED
    BY <1>1, <1>3, <2>2, OrderCarried DEF OrderTold
<1>4. QED
  BY <1>2, <1>3

\* What the request that writes an order must have reached.
LEMMA OrderToldSaved ==
    ASSUME NEW bought \in [Orders -> Tokens], Story(bought), Kept(bought),
           NEW o \in Orders, order[o].state # "none",
           order'[o].state \in StateNames \ {"none"}, order'[o].work = order[o].work,
           order'[o].state \notin {"refused", "awaiting_mint"} => order'[o].token = bought[o],
           order'[o].state \in PastDecision => Matched(bought, o),
           order'[o].receipt # order[o].receipt => auth[order'[o].receipt] = "spent",
           order'[o].state \in {"provider_settled", "complete"} => order'[o].receipt # None,
           order'[o].state = "complete" => /\ token[bought[o]].deposit = "released"
                                           /\ token[bought[o]].evidence # None
    PROVE  OrderTold(bought, o)'
<1>1. OrderTold(bought, o) /\ TokenStory
  BY DEF Story, OrderStory, OrderTold
<1>2. Matched(bought, o) => Matched(bought, o)'
  BY <1>1, OrderCarried
<1>3. /\ token[bought[o]].evidence # None => token'[bought[o]].evidence # None
      /\ token[bought[o]].deposit = "released" => token'[bought[o]].deposit = "released"
  BY <1>1, OrderCarried
<1>4. order'[o].receipt # None => auth'[order'[o].receipt] = "spent"
  <2>1. order'[o].receipt \in Auths \cup {None}
    BY DEF Kept, OrderTypes, OrderRecord
  <2>2. order'[o].receipt # None => auth[order'[o].receipt] = "spent"
    BY <1>1 DEF OrderTold
  <2>3. QED
    BY <2>1, <2>2 DEF Kept, AuthsKept
<1>5. QED
  BY <1>1, <1>2, <1>3, <1>4 DEF OrderTold

LEMMA OrdersStayTold ==
    ASSUME NEW bought \in [Orders -> Tokens], Story(bought), [OrdersNext]_serviceVars
    PROVE  OrderStory(bought)'
<1>1. Kept(bought)
  BY EverythingIsKept
<1>2. SUFFICES ASSUME NEW o \in Orders PROVE OrderTold(bought, o)'
  BY DEF OrderStory, OrderTold
<1> USE DEF Story, Types
<1>3. ASSUME NEW r \in Requests, MintRecorded(r) PROVE OrderTold(bought, o)'
  <2>1. call[r].pc = "minted"
    BY <1>3 DEF MintRecorded, Running
  <2>2. /\ call[r].order \in Orders /\ call[r].token = bought[call[r].order]
        /\ order[call[r].order].state \notin {"none", "refused"}
    BY <2>1 DEF CallStory, StoryOf, NoCall
  <2>3. call[r].token \in Tokens
    BY <2>2
  <2>4. CASE o = call[r].order
    <3>1. /\ order'[o].token = bought[o] /\ order'[o].state = "awaiting_submit"
          /\ order'[o].work = order[o].work /\ order'[o].receipt = order[o].receipt
      BY <1>3, <2>2, <2>3, <2>4, MintEffect
    <3>2. QED
      BY <1>1, <2>2, <2>4, <3>1, OrderToldSaved DEF StateNames, PastDecision
  <2>5. CASE o # call[r].order
    BY <1>1, <1>3, <2>2, <2>3, <2>5, MintEffect, OrderToldCarried
  <2>6. QED
    BY <2>4, <2>5
<1>4. ASSUME NEW r \in Requests, DecisionSaved(r) PROVE OrderTold(bought, o)'
  <2>1. call[r].pc = "decided"
    BY <1>4 DEF DecisionSaved, Running
  <2>2. PICK p \in Orders : p = call[r].order
    BY <2>1, StandsAt
  <2>3. order[p].state # "none" /\ Matched(bought, p)
    BY <2>1, <2>2 DEF CallStory, StoryOf, NoCall, Unmatched, Deciding
  <2>4. /\ \A q \in Orders : q # p => order'[q] = order[q]
        /\ order'[p].state = "awaiting_retirement" /\ order'[p].work = order[p].work
        /\ order'[p].token = order[p].token /\ order'[p].receipt = order[p].receipt
    BY <1>4, <2>2, AdvanceEffect
  <2>5. CASE o = p
    BY <1>1, <2>3, <2>4, <2>5, OrderToldSaved DEF StateNames, PastDecision, Matched
  <2>6. CASE o # p
    BY <1>1, <2>4, <2>6, OrderToldCarried
  <2>7. QED
    BY <2>5, <2>6
<1>5. ASSUME NEW r \in Requests, PreparedSaved(r) PROVE OrderTold(bought, o)'
  <2>1. call[r].pc = "prepared"
    BY <1>5 DEF PreparedSaved, Running
  <2>2. PICK p \in Orders : p = call[r].order
    BY <2>1, StandsAt
  <2>3. order[p].state # "none" /\ Matched(bought, p) /\ call[r].auth \in Auths
    BY <2>1, <2>2 DEF CallStory, StoryOf, NoCall, Unmatched, Deciding
  <2>4. /\ \A q \in Orders : q # p => order'[q] = order[q]
        /\ order'[p].state = "awaiting_relayer" /\ order'[p].work = order[p].work
        /\ order'[p].token = order[p].token /\ order'[p].receipt = order[p].receipt
    BY <1>5, <2>2, <2>3, PreparedEffect
  <2>5. CASE o = p
    BY <1>1, <2>3, <2>4, <2>5, OrderToldSaved DEF StateNames, PastDecision, Matched
  <2>6. CASE o # p
    BY <1>1, <2>4, <2>6, OrderToldCarried
  <2>7. QED
    BY <2>5, <2>6
<1>6. ASSUME NEW r \in Requests, ReceiptSaved(r) PROVE OrderTold(bought, o)'
  <2>1. call[r].pc = "certified"
    BY <1>6 DEF ReceiptSaved, Running
  <2>2. PICK p \in Orders : p = call[r].order
    BY <2>1, StandsAt
  <2>3. /\ order[p].state # "none" /\ Matched(bought, p)
        /\ call[r].auth \in Auths /\ auth[call[r].auth] = "spent"
    BY <2>1, <2>2 DEF CallStory, StoryOf, NoCall, Unmatched, Deciding
  <2>4. /\ \A q \in Orders : q # p => order'[q] = order[q]
        /\ order'[p].state = "provider_settled" /\ order'[p].work = order[p].work
        /\ order'[p].token = order[p].token
        /\ order'[p].receipt = call[r].auth /\ order'[p].receipt # None
    BY <1>6, <2>2, <2>3, ReceiptEffect, OrdersAssumption
  <2>5. CASE o = p
    BY <1>1, <2>3, <2>4, <2>5, OrderToldSaved DEF StateNames, PastDecision, Matched
  <2>6. CASE o # p
    BY <1>1, <2>4, <2>6, OrderToldCarried
  <2>7. QED
    BY <2>5, <2>6
<1>7. ASSUME NEW r \in Requests, OrderCompleted(r) PROVE OrderTold(bought, o)'
  <2>1. call[r].pc \in {"settling", "evidenced", "settled"}
    BY <1>7 DEF OrderCompleted, DepositNext, Running
  <2>2. PICK p \in Orders : p = call[r].order
    BY <2>1, StandsAt
  <2>3. order[p].state # "none" /\ Matched(bought, p) /\ order[p].receipt # None
    BY <2>1, <2>2 DEF CallStory, StoryOf, NoCall, Unmatched, Deciding, Settling
  <2>4. token[bought[p]].evidence # None
    <3>1. CASE call[r].pc = "settling"
      BY <1>7, <2>2, <2>3, <3>1
         DEF OrderCompleted, DepositNext, Running, Evidenced, At, Matched
    <3>2. CASE call[r].pc \in {"evidenced", "settled"}
      BY <2>2, <3>2 DEF CallStory, StoryOf, NoCall
    <3>3. QED
      BY <2>1, <3>1, <3>2
  <2>5. token[bought[p]].deposit = "released"
    <3>1. CASE call[r].pc = "settled"
      BY <2>2, <3>1 DEF CallStory, StoryOf, NoCall
    <3>2. CASE call[r].pc # "settled"
      <4>1. token[bought[p]].deposit # "held"
        BY <1>7, <2>2, <2>3, <3>2 DEF OrderCompleted, DepositNext, Running, At, Matched
      <4>2. token[bought[p]].state = "activated" /\ bought[p] \in Tokens
        BY <2>3 DEF Matched, TokenStory
      <4>3. QED
        BY <4>1, <4>2 DEF TokenStory
    <3>3. QED
      BY <3>1, <3>2
  <2>6. /\ \A q \in Orders : q # p => order'[q] = order[q]
        /\ order'[p].state = "complete" /\ order'[p].work = order[p].work
        /\ order'[p].token = order[p].token /\ order'[p].receipt = order[p].receipt
    BY <1>7, <2>2, AdvanceEffect
  <2>7. CASE o = p
    BY <1>1, <2>3, <2>4, <2>5, <2>6, <2>7, OrderToldSaved DEF StateNames, Matched
  <2>8. CASE o # p
    BY <1>1, <2>6, <2>8, OrderToldCarried
  <2>9. QED
    BY <2>7, <2>8
<1>8. ASSUME NEW p \in Orders, NEW w \in Works, NEW approved \in BOOLEAN,
             previewCarbon(p, w, approved)
      PROVE  OrderTold(bought, o)'
  <2>1. /\ \A q \in Orders : q # p => order'[q] = order[q]
        /\ order'[p].state \in {"awaiting_mint", "refused"} /\ order'[p].work = w
        /\ order'[p].receipt = None
    BY <1>8, PreviewEffect DEF NoOrder
  <2>2. CASE o = p
    BY <2>1, <2>2 DEF OrderTold, PastDecision
  <2>3. CASE o # p
    BY <1>1, <2>1, <2>3, OrderToldCarried
  <2>4. QED
    BY <2>2, <2>3
<1>9. CASE order' = order
  BY <1>1, <1>9, OrderToldCarried
<1>10. QED
  BY <1>3, <1>4, <1>5, <1>6, <1>7, <1>8, <1>9, WhoWritesOrders

(***************************************************************************)
(* Where each step leaves the requests.                                    *)
(***************************************************************************)
MovesTo(r, pc, t, a) ==
  /\ CallTypes' /\ OthersWait(r)
  /\ call'[r].pc = pc /\ call'[r].order = call[r].order
  /\ call'[r].token = t /\ call'[r].auth = a /\ call'[r].live = call[r].live

StartsAt(r, o, pc, t) ==
  /\ CallTypes' /\ OthersWait(r)
  /\ call'[r].pc = pc /\ call'[r].order = o
  /\ call'[r].token = t /\ call'[r].auth = None /\ call'[r].live

\* The order a request is about names a token and authorizations, if any.
LEMMA AtTypes ==
    ASSUME Typed, NEW r \in Requests, call[r].pc # "idle"
    PROVE  /\ At(r).token \in Tokens \cup {None}
           /\ At(r).prepared \in Auths \cup {None} /\ At(r).receipt \in Auths \cup {None}
           /\ call[r].token \in Tokens \cup {None} /\ call[r].auth \in Auths \cup {None}
           /\ call[r].signed \in Auths \cup {None}
<1>1. order[call[r].order] \in OrderRecord /\ call[r] \in CallRecord
  BY DEF Typed, Asking, Types, OrderTypes, CallTypes, NoCall
<1>2. QED
  BY <1>1 DEF At, OrderRecord, CallRecord

LEMMA StartMoves ==
    ASSUME Typed, NEW r \in Requests, NEW o \in Orders
    PROVE  /\ \A t \in Tokens : recordMint(r, o, t) => StartsAt(r, o, "minted", t)
           /\ recordSubmitted(r, o) => StartsAt(r, o, "submitted", order[o].token)
           /\ prepareRetirement(r, o) => StartsAt(r, o, "preparing", order[o].token)
           /\ fulfilRetirement(r, o) => StartsAt(r, o, "fulfilling", order[o].token)
           /\ settleOrder(r, o) => StartsAt(r, o, "settling", None)
<1>1. ASSUME NEW pc \in Pcs, NEW t \in Tokens \cup {None}, Start(r, o, pc, t)
      PROVE  StartsAt(r, o, pc, t)
  BY <1>1, StartEffect DEF StartsAt, Typed, Types
<1>2. order[o].token \in Tokens \cup {None}
  BY DEF Typed, Types, OrderTypes, OrderRecord
<1>3. {"minted", "submitted", "preparing", "fulfilling", "settling"} \subseteq Pcs
  BY DEF Pcs
<1>4. QED
  BY <1>1, <1>2, <1>3
     DEF recordMint, recordSubmitted, prepareRetirement, fulfilRetirement, settleOrder

LEMMA GotoMoves ==
    ASSUME Typed, NEW r \in Requests
    PROVE  /\ WorkChecked(r) => MovesTo(r, "checked", call[r].token, call[r].auth)
           /\ RetirementCertified(r) => MovesTo(r, "certified", call[r].token, call[r].auth)
           /\ ReceiptSaved(r) => MovesTo(r, "settling", call[r].token, call[r].auth)
<1>1. ASSUME NEW pc \in Pcs, Goto(r, pc) PROVE MovesTo(r, pc, call[r].token, call[r].auth)
  BY <1>1, GotoEffect DEF MovesTo, Typed, Types
<1>2. {"checked", "certified", "settling"} \subseteq Pcs
  BY DEF Pcs
<1>3. QED
  BY <1>1, <1>2 DEF WorkChecked, RetirementCertified, ReceiptSaved

LEMMA ConfirmMoves ==
    ASSUME Typed, NEW r \in Requests, NEW pc \in Pcs, Confirm(r, pc)
    PROVE  \/ CallTypes' /\ OthersWait(r) /\ call'[r] = NoCall
           \/ MovesTo(r, pc, call[r].token, call[r].auth)
  BY ConfirmEffect DEF MovesTo, Typed, Types

\* A request that takes a token, a signature or an authorization down.
LEMMA RecordMoves ==
    ASSUME CallTypes, NEW r \in Requests, NEW new \in CallRecord, new.order = call[r].order,
           new.live = call[r].live,
           call' = [q \in Requests |-> call'[q]],
           \A q \in Requests : call'[q] = IF q = r THEN new ELSE call[q]
    PROVE  MovesTo(r, new.pc, new.token, new.auth)
  BY DEF MovesTo, CallTypes, OthersWait

LEMMA NoteMoves ==
    ASSUME Typed, NEW r \in Requests, call[r].pc # "idle"
    PROVE  /\ DecisionSent(r) => MovesTo(r, "deciding", At(r).token, call[r].auth)
           /\ \A a \in Auths :
                AuthorizationPrepared(r, a) => MovesTo(r, "prepared", call[r].token, a)
           /\ RetirementSigned(r) => MovesTo(r, "signed", call[r].token, call[r].auth)
           /\ RetirementSent(r) => MovesTo(r, "relaying", call[r].token, At(r).prepared)
           /\ EvidenceSent(r) => MovesTo(r, "evidencing", At(r).token, At(r).receipt)
           /\ ReleaseSent(r) => MovesTo(r, "releasing", At(r).token, call[r].auth)
<1>1. CallTypes /\ call[r] \in CallRecord
  BY DEF Typed, Types, CallTypes
<1>2. /\ At(r).token \in Tokens \cup {None}
      /\ At(r).prepared \in Auths \cup {None} /\ At(r).receipt \in Auths \cup {None}
  BY AtTypes
<1>3. ASSUME DecisionSent(r)
      PROVE  MovesTo(r, "deciding", At(r).token, call[r].auth)
  <2> DEFINE new == [call[r] EXCEPT !.pc = "deciding", !.token = At(r).token]
  <2>1. call' = [call EXCEPT ![r].pc = "deciding", ![r].token = At(r).token]
    BY <1>3 DEF DecisionSent
  <2>2. /\ \A q \in Requests : call'[q] = IF q = r THEN new ELSE call[q]
        /\ call' = [q \in Requests |-> call'[q]]
    BY <1>1, <2>1 DEF CallTypes
  <2>3. /\ new \in CallRecord /\ new.order = call[r].order /\ new.live = call[r].live
        /\ new.pc = "deciding" /\ new.token = At(r).token /\ new.auth = call[r].auth
    BY <1>1, <1>2 DEF CallRecord, Pcs
  <2> HIDE DEF new
  <2>4. QED
    BY <1>1, <2>2, <2>3, RecordMoves
<1>4. ASSUME NEW a \in Auths, AuthorizationPrepared(r, a)
      PROVE  MovesTo(r, "prepared", call[r].token, a)
  <2> DEFINE new == [call[r] EXCEPT !.pc = "prepared", !.auth = a]
  <2>1. call' = [call EXCEPT ![r].pc = "prepared", ![r].auth = a]
    BY <1>4 DEF AuthorizationPrepared
  <2>2. /\ \A q \in Requests : call'[q] = IF q = r THEN new ELSE call[q]
        /\ call' = [q \in Requests |-> call'[q]]
    BY <1>1, <2>1 DEF CallTypes
  <2>3. /\ new \in CallRecord /\ new.order = call[r].order /\ new.live = call[r].live
        /\ new.pc = "prepared" /\ new.token = call[r].token /\ new.auth = a
    BY <1>1, <1>2 DEF CallRecord, Pcs
  <2> HIDE DEF new
  <2>4. QED
    BY <1>1, <2>2, <2>3, RecordMoves
<1>5. ASSUME RetirementSigned(r)
      PROVE  MovesTo(r, "signed", call[r].token, call[r].auth)
  <2> DEFINE new == [call[r] EXCEPT !.pc = "signed", !.signed = At(r).prepared]
  <2>1. call' = [call EXCEPT ![r].pc = "signed", ![r].signed = At(r).prepared]
    BY <1>5 DEF RetirementSigned
  <2>2. /\ \A q \in Requests : call'[q] = IF q = r THEN new ELSE call[q]
        /\ call' = [q \in Requests |-> call'[q]]
    BY <1>1, <2>1 DEF CallTypes
  <2>3. /\ new \in CallRecord /\ new.order = call[r].order /\ new.live = call[r].live
        /\ new.pc = "signed" /\ new.token = call[r].token /\ new.auth = call[r].auth
    BY <1>1, <1>2 DEF CallRecord, Pcs
  <2> HIDE DEF new
  <2>4. QED
    BY <1>1, <2>2, <2>3, RecordMoves
<1>6. ASSUME RetirementSent(r)
      PROVE  MovesTo(r, "relaying", call[r].token, At(r).prepared)
  <2> DEFINE new == [call[r] EXCEPT !.pc = "relaying", !.auth = At(r).prepared]
  <2>1. call' = [call EXCEPT ![r].pc = "relaying", ![r].auth = At(r).prepared]
    BY <1>6 DEF RetirementSent
  <2>2. /\ \A q \in Requests : call'[q] = IF q = r THEN new ELSE call[q]
        /\ call' = [q \in Requests |-> call'[q]]
    BY <1>1, <2>1 DEF CallTypes
  <2>3. /\ new \in CallRecord /\ new.order = call[r].order /\ new.live = call[r].live
        /\ new.pc = "relaying" /\ new.token = call[r].token /\ new.auth = At(r).prepared
    BY <1>1, <1>2 DEF CallRecord, Pcs
  <2> HIDE DEF new
  <2>4. QED
    BY <1>1, <2>2, <2>3, RecordMoves
<1>7. ASSUME EvidenceSent(r)
      PROVE  MovesTo(r, "evidencing", At(r).token, At(r).receipt)
  <2> DEFINE new == [call[r] EXCEPT !.pc = "evidencing", !.token = At(r).token, !.auth = At(r).receipt]
  <2>1. call' = [call EXCEPT ![r].pc = "evidencing", ![r].token = At(r).token,
                          ![r].auth = At(r).receipt]
    BY <1>7 DEF EvidenceSent
  <2>2. /\ \A q \in Requests : call'[q] = IF q = r THEN new ELSE call[q]
        /\ call' = [q \in Requests |-> call'[q]]
    BY <1>1, <2>1 DEF CallTypes
  <2>3. /\ new \in CallRecord /\ new.order = call[r].order /\ new.live = call[r].live
        /\ new.pc = "evidencing" /\ new.token = At(r).token /\ new.auth = At(r).receipt
    BY <1>1, <1>2 DEF CallRecord, Pcs
  <2> HIDE DEF new
  <2>4. QED
    BY <1>1, <2>2, <2>3, RecordMoves
<1>8. ASSUME ReleaseSent(r)
      PROVE  MovesTo(r, "releasing", At(r).token, call[r].auth)
  <2> DEFINE new == [call[r] EXCEPT !.pc = "releasing", !.token = At(r).token]
  <2>1. call' = [call EXCEPT ![r].pc = "releasing", ![r].token = At(r).token]
    BY <1>8 DEF ReleaseSent
  <2>2. /\ \A q \in Requests : call'[q] = IF q = r THEN new ELSE call[q]
        /\ call' = [q \in Requests |-> call'[q]]
    BY <1>1, <2>1 DEF CallTypes
  <2>3. /\ new \in CallRecord /\ new.order = call[r].order /\ new.live = call[r].live
        /\ new.pc = "releasing" /\ new.token = At(r).token /\ new.auth = call[r].auth
    BY <1>1, <1>2 DEF CallRecord, Pcs
  <2> HIDE DEF new
  <2>4. QED
    BY <1>1, <2>2, <2>3, RecordMoves
<1>9. QED
  BY <1>3, <1>4, <1>5, <1>6, <1>7, <1>8

LEMMA AnswerMoves ==
    ASSUME Types, NEW r \in Requests,
           \/ MintRecorded(r) \/ DecisionSaved(r) \/ PreparedSaved(r) \/ OrderCompleted(r)
           \/ RequestRefused(r) \/ Forgotten(r)
    PROVE  CallTypes' /\ \A q \in Requests : Unmoved(q)
<1>1. Answer(r)
  BY DEF MintRecorded, DecisionSaved, PreparedSaved, OrderCompleted, RequestRefused, Forgotten
<1>2. QED
  BY <1>1, AnswerEffect DEF Types, OthersWait, Unmoved

LEMMA FailureMoves ==
    ASSUME Types, Restart \/ \E r \in Requests : RequestFails(r)
    PROVE  CallTypes' /\ \A q \in Requests : Unmoved(q)
<1> USE DEF Types, CallTypes
<1>1. \A q \in Requests : call'[q] = call[q] \/ call'[q] = Abandoned(call[q])
  BY DEF Restart, RequestFails
<1>2. \A q \in Requests : call[q] \in CallRecord
  OBVIOUS
<1>3. DOMAIN call' = Requests /\ call' = [q \in Requests |-> call'[q]]
  BY DEF Restart, RequestFails
<1>4. \A q \in Requests : call[q] = NoCall => Abandoned(call[q]) = NoCall
  BY DEF Abandoned, NoCall, InFlight
<1>5. QED
  BY <1>1, <1>2, <1>3, <1>4, AbandonEffect DEF Unmoved

(***************************************************************************)
(* What a handler does whatever the buyer has claimed.                     *)
(***************************************************************************)

\* The handler's request is answered, or goes on with the order it is about.
GoesOn(r) ==
  /\ CallTypes' /\ OthersWait(r)
  /\ \/ call'[r] = NoCall
     \/ /\ call'[r].order = call[r].order /\ call'[r].live = call[r].live
        /\ call'[r].pc \notin {"idle", "minted"}

LEMMA HandlersGoOn ==
    ASSUME Typed, NEW r \in Requests, Handler(r)
    PROVE  call[r].pc # "idle" /\ GoesOn(r)
<1>1. CallTypes /\ call[r].pc # "idle"
  BY DEF Typed, Types, Handler, Running, DepositNext, MintRecorded, WorkChecked, DecisionSent,
         DecisionConfirmed, DecisionSaved, AuthorizationPrepared, PreparedSaved,
         RetirementSigned, RetirementSent, RetirementAccepted, RetirementCertified,
         ReceiptSaved, EvidenceSent, EvidenceConfirmed, ReleaseSent, ReleaseConfirmed,
         OrderCompleted, RequestRefused
<1>2. ASSUME NEW pc, NEW t, NEW a, MovesTo(r, pc, t, a), pc \notin {"idle", "minted"}
      PROVE  GoesOn(r)
  BY <1>2 DEF MovesTo, GoesOn
<1>3. WorkChecked(r) \/ RetirementCertified(r) \/ ReceiptSaved(r) => GoesOn(r)
  BY <1>2, GotoMoves
<1>4. \/ DecisionSent(r) \/ (\E a \in Auths : AuthorizationPrepared(r, a))
      \/ RetirementSigned(r) \/ RetirementSent(r) \/ EvidenceSent(r) \/ ReleaseSent(r)
      => GoesOn(r)
  BY <1>1, <1>2, NoteMoves
<1>5. DecisionConfirmed(r) \/ EvidenceConfirmed(r) \/ ReleaseConfirmed(r) => GoesOn(r)
  <2>1. ASSUME NEW pc \in {"decided", "evidenced", "settled"}, Confirm(r, pc)
        PROVE  GoesOn(r)
    <3>1. pc \in Pcs
      BY DEF Pcs
    <3>2. CASE MovesTo(r, pc, call[r].token, call[r].auth)
      BY <1>2, <3>2
    <3>3. QED
      BY <2>1, <3>1, <3>2, ConfirmMoves DEF GoesOn
  <2>2. QED
    BY <2>1 DEF DecisionConfirmed, EvidenceConfirmed, ReleaseConfirmed
<1>6. ASSUME Answer(r) PROVE GoesOn(r)
  BY <1>1, <1>6, AnswerEffect DEF GoesOn
<1>7. \/ MintRecorded(r) \/ DecisionSaved(r) \/ PreparedSaved(r) \/ OrderCompleted(r)
      \/ RequestRefused(r)
      => Answer(r)
  BY DEF MintRecorded, DecisionSaved, PreparedSaved, OrderCompleted, RequestRefused
<1>8. ASSUME RetirementAccepted(r) PROVE GoesOn(r)
  BY <1>1, <1>8 DEF RetirementAccepted, GoesOn, CallTypes, OthersWait
<1>9. QED
  BY <1>1, <1>3, <1>4, <1>5, <1>6, <1>7, <1>8 DEF Handler

\* Whether a token has been sold does not change.
SoldAsBefore == \A t \in Tokens : token'[t].state = "none" <=> token[t].state = "none"

LEMMA HandlersSellNothing ==
    ASSUME Typed, NEW r \in Requests, Handler(r)
    PROVE  TokenTypes' /\ SoldAsBefore
<1>1. TokenTypes /\ call[r] \in CallRecord
  BY DEF Typed, Types, CallTypes
<1>2. call[r].pc # "idle" => call[r].order \in Orders
  BY DEF Typed, Asking, NoCall
<1>3. \/ token' = token
      \/ DecisionConfirmed(r) \/ EvidenceConfirmed(r) \/ ReleaseConfirmed(r)
  BY DEF Handler, UnchangedChain, MintRecorded, WorkChecked, DecisionSent, DecisionSaved,
         AuthorizationPrepared, PreparedSaved, RetirementSigned, RetirementSent,
         RetirementAccepted, RetirementCertified, ReceiptSaved, EvidenceSent, ReleaseSent,
         OrderCompleted, RequestRefused
<1>4. token' = token => TokenTypes' /\ SoldAsBefore
  BY <1>1 DEF TokenTypes, SoldAsBefore
<1>5. CASE call[r].token \in Tokens
  <2>1. DecisionConfirmed(r) => TokenTypes' /\ SoldAsBefore
    BY <1>1, <1>2, <1>5, DecisionEffect DEF DecisionConfirmed, SoldAsBefore
  <2>2. EvidenceConfirmed(r) => TokenTypes' /\ SoldAsBefore
    BY <1>1, <1>5, EvidenceEffect DEF CallRecord, SoldAsBefore
  <2>3. ReleaseConfirmed(r) => TokenTypes' /\ SoldAsBefore
    BY <1>1, <1>5, ReleaseEffect DEF SoldAsBefore
  <2>4. QED
    BY <1>3, <1>4, <2>1, <2>2, <2>3
\* There is no such token to write.
<1>6. CASE call[r].token \notin Tokens
  <2> DEFINE t == call[r].token
  <2>1. \A x, y : [token EXCEPT ![t].state = x, ![t].decision = y] = token
    BY <1>1, <1>6 DEF TokenTypes
  <2>2. \A x : [token EXCEPT ![t].evidence = x] = token
    BY <1>1, <1>6 DEF TokenTypes
  <2>3. \A x : [token EXCEPT ![t].deposit = x] = token
    BY <1>1, <1>6 DEF TokenTypes
  <2>4. DecisionConfirmed(r) => token' = token
    BY <2>1 DEF DecisionConfirmed
  <2>5. EvidenceConfirmed(r) => token' = token
    BY <2>2 DEF EvidenceConfirmed
  <2>6. ReleaseConfirmed(r) => token' = token
    BY <2>3 DEF ReleaseConfirmed
  <2>7. QED
    BY <1>3, <1>4, <2>4, <2>5, <2>6
<1>7. QED
  BY <1>5, <1>6

\* Orders that have recorded their mint.
PastMint == {o \in Orders : order[o].state \notin {"none", "refused", "awaiting_mint"}}

\* A handler writes the order it is about, and leaves it past its mint, with the
\* token it had; only the handler of the mint gives it one, and has ended then.
HandlersWrite(r) ==
  /\ OrderTypes'
  /\ \A p \in Orders : p # call[r].order => order'[p] = order[p]
  /\ \/ order' = order /\ call[r].pc # "minted"
     \/ /\ call[r].order \in PastMint'
        /\ order'[call[r].order].token =
             IF call[r].pc = "minted" THEN call[r].token ELSE order[call[r].order].token
        /\ call[r].pc = "minted" => call'[r] = NoCall

LEMMA HandlersAdvance ==
    ASSUME Typed, NEW r \in Requests, Handler(r)
    PROVE  HandlersWrite(r)
<1>1. OrderTypes /\ call[r] \in CallRecord /\ CallTypes
  BY DEF Typed, Types, CallTypes
<1>2. call[r].pc # "idle" => call[r].order \in Orders
  BY DEF Typed, Asking, NoCall
<1>3. ASSUME MintRecorded(r) PROVE HandlersWrite(r)
  <2>1. call[r].pc = "minted" /\ call[r].order \in Orders /\ call'[r] = NoCall
    BY <1>1, <1>2, <1>3, AnswerEffect DEF MintRecorded, Running
  <2>2. QED
    BY <1>1, <1>3, <2>1, MintEffect DEF CallRecord, HandlersWrite, PastMint
<1>4. ASSUME DecisionSaved(r) \/ OrderCompleted(r) PROVE HandlersWrite(r)
  <2>1. call[r].pc \notin {"idle", "minted"} /\ call[r].order \in Orders
    BY <1>2, <1>4 DEF DecisionSaved, OrderCompleted, DepositNext, Running
  <2>2. PICK s \in {"awaiting_retirement", "complete"} :
          \/ DecisionSaved(r) /\ s = "awaiting_retirement"
          \/ OrderCompleted(r) /\ s = "complete"
    BY <1>4
  <2>3. QED
    BY <1>1, <2>1, <2>2, AdvanceEffect DEF HandlersWrite, PastMint
<1>5. ASSUME PreparedSaved(r) PROVE HandlersWrite(r)
  <2>1. call[r].pc = "prepared" /\ call[r].order \in Orders
    BY <1>2, <1>5 DEF PreparedSaved, Running
  <2>2. QED
    BY <1>1, <1>5, <2>1, PreparedEffect DEF CallRecord, HandlersWrite, PastMint
<1>6. ASSUME ReceiptSaved(r) PROVE HandlersWrite(r)
  <2>1. call[r].pc = "certified" /\ call[r].order \in Orders
    BY <1>2, <1>6 DEF ReceiptSaved, Running
  <2>2. QED
    BY <1>1, <1>6, <2>1, ReceiptEffect DEF CallRecord, HandlersWrite, PastMint
<1>7. \/ MintRecorded(r) \/ DecisionSaved(r) \/ OrderCompleted(r)
      \/ PreparedSaved(r) \/ ReceiptSaved(r)
      \/ order' = order /\ call[r].pc # "minted"
  BY DEF Handler, Running, DepositNext, WorkChecked, DecisionSent, DecisionConfirmed,
         AuthorizationPrepared, RetirementSigned, RetirementSent, RetirementAccepted,
         RetirementCertified, EvidenceSent, EvidenceConfirmed, ReleaseSent, ReleaseConfirmed,
         RequestRefused
<1>8. CASE order' = order /\ call[r].pc # "minted"
  BY <1>1, <1>8 DEF HandlersWrite, OrderTypes
<1>9. QED
  BY <1>3, <1>4, <1>5, <1>6, <1>7, <1>8

LEMMA HandlersBook ==
    ASSUME Typed, NEW r \in Requests, Handler(r)
    PROVE  LedgerTypes'
<1>1. LedgerTypes /\ call[r] \in CallRecord
  BY DEF Typed, Types, CallTypes
<1>2. ASSUME NEW key, NEW line \in LineRecord, ledger' = [ledger EXCEPT ![key] = line]
      PROVE  LedgerTypes'
  BY <1>1, <1>2 DEF LedgerTypes
<1>3. ASSUME RetirementSent(r) PROVE LedgerTypes'
  <2>1. At(r).prepared \in Auths \cup {None}
    BY <1>3, AtTypes DEF RetirementSent, Running
  <2>2. [state |-> "attempting", auth |-> At(r).prepared] \in LineRecord
    BY <2>1 DEF LineRecord
  <2>3. QED
    BY <1>2, <1>3, <2>2 DEF RetirementSent
<1>4. ASSUME RetirementCertified(r) PROVE LedgerTypes'
  <2>1. [state |-> "settled", auth |-> call[r].auth] \in LineRecord
    BY <1>1 DEF LineRecord, CallRecord
  <2>2. QED
    BY <1>2, <1>4, <2>1 DEF RetirementCertified
<1>5. RetirementSent(r) \/ RetirementCertified(r) \/ ledger' = ledger
  BY DEF Handler, UnchangedChain, MintRecorded, WorkChecked, DecisionSent, DecisionConfirmed,
         DecisionSaved, AuthorizationPrepared, PreparedSaved, RetirementSigned,
         RetirementAccepted, ReceiptSaved, EvidenceSent, EvidenceConfirmed, ReleaseSent,
         ReleaseConfirmed, OrderCompleted, RequestRefused
<1>6. QED
  BY <1>1, <1>3, <1>4, <1>5 DEF LedgerTypes

LEMMA FailuresAreCounted ==
    ASSUME failures \in 0 .. MaxFailures, [OrdersNext]_serviceVars
    PROVE  failures' \in 0 .. MaxFailures
<1>1. ASSUME NEW r \in Requests, Handler(r) PROVE failures' = failures
  BY <1>1
     DEF Handler, UnchangedChain,
         MintRecorded, WorkChecked, DecisionSent, DecisionConfirmed, DecisionSaved,
         AuthorizationPrepared, PreparedSaved, RetirementSigned, RetirementSent,
         RetirementAccepted, RetirementCertified, ReceiptSaved, EvidenceSent,
         EvidenceConfirmed, ReleaseSent, ReleaseConfirmed, OrderCompleted, RequestRefused
<1>2. ASSUME NEW r \in Requests, NEW o \in Orders, Request(r, o) PROVE failures' = failures
  BY <1>2 DEF Request, UnchangedChain, recordMint, recordSubmitted, prepareRetirement,
              fulfilRetirement, settleOrder
<1>3. Wallet \/ Base => failures' = failures
  BY DEF Wallet, Base, Purchase, submitParcel, previewCarbon, Relay, Expire
<1>4. (\E key \in Tokens \X Works : resolveUnresolved(key)) => failures' = failures
  BY DEF resolveUnresolved
<1>5. (\E r \in Requests : Forgotten(r)) => failures' = failures
  BY DEF Forgotten, UnchangedChain
<1>6. Restart \/ (\E r \in Requests : RequestFails(r)) =>
        failures < MaxFailures /\ failures' = failures + 1
  BY DEF Restart, RequestFails
<1>7. QED
  BY <1>1, <1>2, <1>3, <1>4, <1>5, <1>6, OrdersAssumption DEF OrdersNext, serviceVars

\* The same of everything else the service may see.
LEMMA TypedStep ==
    ASSUME Typed, [OrdersNext]_serviceVars
    PROVE  Typed'
<1>1. Types /\ Asking
  BY DEF Typed
<1>2. AuthTypes' /\ failures' \in 0 .. MaxFailures
  BY <1>1, AuthsAreKept, FailuresAreCounted DEF Types
<1>3. ASSUME NEW r \in Requests, Handler(r)
      PROVE  OrderTypes' /\ TokenTypes' /\ LedgerTypes' /\ CallTypes' /\ Asking'
  <2>1. OrderTypes' /\ TokenTypes' /\ LedgerTypes' /\ GoesOn(r) /\ call[r].pc # "idle"
    BY <1>3, HandlersGoOn, HandlersSellNothing, HandlersAdvance, HandlersBook
       DEF HandlersWrite
  <2>2. call[r].order \in Orders
    BY <1>1, <2>1 DEF Asking, NoCall
  <2>3. QED
    BY <1>1, <2>1, <2>2 DEF GoesOn, OthersWait, Asking
<1>4. ASSUME NEW r \in Requests, NEW o \in Orders, Request(r, o)
      PROVE  OrderTypes' /\ TokenTypes' /\ LedgerTypes' /\ CallTypes' /\ Asking'
  <2>1. UNCHANGED <<order, token, ledger>>
    BY <1>4 DEF Request, UnchangedChain, recordMint, recordSubmitted, prepareRetirement,
                fulfilRetirement, settleOrder
  <2>2. PICK pc, t : StartsAt(r, o, pc, t)
    BY <1>4, StartMoves DEF Request
  <2>3. QED
    BY <1>1, <2>1, <2>2
       DEF StartsAt, OthersWait, Asking, Types, OrderTypes, TokenTypes, LedgerTypes
<1>5. ASSUME Restart \/ \E r \in Requests : RequestFails(r) \/ Forgotten(r)
      PROVE  OrderTypes' /\ TokenTypes' /\ LedgerTypes' /\ CallTypes' /\ Asking'
  <2>1. UNCHANGED <<order, token, ledger>>
    BY <1>5 DEF Restart, RequestFails, Forgotten, UnchangedChain
  <2>2. CallTypes' /\ \A q \in Requests : Unmoved(q)
    BY <1>1, <1>5, AnswerMoves, FailureMoves
  <2>3. QED
    BY <1>1, <2>1, <2>2
       DEF Unmoved, Asking, Types, OrderTypes, TokenTypes, LedgerTypes
<1>6. ASSUME Wallet
      PROVE  OrderTypes' /\ TokenTypes' /\ LedgerTypes' /\ CallTypes' /\ Asking'
  <2>1. ASSUME NEW o \in Orders, NEW w \in Works, NEW approved \in BOOLEAN,
               previewCarbon(o, w, approved)
        PROVE  OrderTypes' /\ UNCHANGED <<token, ledger, call>>
    BY <1>1, <2>1, PreviewEffect DEF Types, previewCarbon
  <2>2. ASSUME NEW t \in Tokens, Purchase(t)
        PROVE  TokenTypes' /\ UNCHANGED <<order, ledger, call>>
    BY <1>1, <2>2, PurchaseEffect DEF Types, Purchase
  <2>3. ASSUME NEW t \in Tokens, NEW w \in Works, submitParcel(t, w)
        PROVE  TokenTypes' /\ UNCHANGED <<order, ledger, call>>
    BY <1>1, <2>3, SubmitEffect DEF Types, submitParcel
  <2>4. QED
    BY <1>1, <1>6, <2>1, <2>2, <2>3
       DEF Wallet, Types, OrderTypes, TokenTypes, LedgerTypes, CallTypes, Asking
<1>7. ASSUME NEW k \in Tokens \X Works, resolveUnresolved(k)
      PROVE  OrderTypes' /\ TokenTypes' /\ LedgerTypes' /\ CallTypes' /\ Asking'
  <2> DEFINE outcome == IF auth[ledger[k].auth] = "spent" THEN "settled" ELSE "failed"
             line == [ledger[k] EXCEPT !.state = outcome]
  <2>1. ledger' = [ledger EXCEPT ![k] = line] /\ UNCHANGED <<order, token, call>>
    BY <1>7 DEF resolveUnresolved
  <2>2. line \in LineRecord
    BY <1>1 DEF Types, LedgerTypes, LineRecord
  <2> HIDE DEF line
  <2>3. QED
    BY <1>1, <2>1, <2>2 DEF Types, OrderTypes, TokenTypes, LedgerTypes, CallTypes, Asking
<1>8. ASSUME Base \/ UNCHANGED serviceVars
      PROVE  OrderTypes' /\ TokenTypes' /\ LedgerTypes' /\ CallTypes' /\ Asking'
  <2>1. UNCHANGED <<order, token, ledger, call>>
    BY <1>8 DEF Base, Relay, Expire, serviceVars
  <2>2. QED
    BY <1>1, <2>1 DEF Types, OrderTypes, TokenTypes, LedgerTypes, CallTypes, Asking
<1>9. QED
  BY <1>2, <1>3, <1>4, <1>5, <1>6, <1>7, <1>8 DEF OrdersNext, Typed, Types

LEMMA TypedInit == ASSUME OrdersInit PROVE Typed
<1>1. NoOrder \in OrderRecord
  BY DEF NoOrder, OrderRecord, StateNames
<1>2. NoToken \in TokenRecord
  BY DEF NoToken, TokenRecord
<1>3. NoCall \in CallRecord
  BY DEF NoCall, CallRecord, Pcs
<1>4. [state |-> "none", auth |-> None] \in LineRecord
  BY DEF LineRecord
<1>5. failures \in 0 .. MaxFailures
  BY OrdersAssumption DEF OrdersInit
<1>6. QED
  BY <1>1, <1>2, <1>3, <1>4, <1>5
     DEF OrdersInit, Typed, Asking, Types, OrderTypes, TokenTypes, AuthTypes, LedgerTypes,
         CallTypes

(***************************************************************************)
(* The requests' story.                                                    *)
(***************************************************************************)
LEMMA StoryReached ==
    ASSUME NEW bought \in [Orders -> Tokens], Story(bought), Kept(bought),
           NEW r \in Requests, NEW p \in Orders, order[p].state \notin {"none", "refused"},
           NEW pc, pc # "idle", call'[r].pc = pc, call'[r].order = p,
           pc = "minted" => call'[r].token = bought[p],
           pc # "minted" => order[p].token = bought[p],
           pc \in Deciding => Checked(bought, p),
           pc \notin Unmatched => Matched(bought, p) \/ Matched(bought, p)',
           pc \in OnItsToken => call'[r].token = bought[p],
           pc \in {"prepared", "relaying", "certified", "evidencing"} => call'[r].auth \in Auths,
           pc \in {"certified", "evidencing"} => auth[call'[r].auth] = "spent",
           pc \in Settling => order[p].receipt # None \/ order'[p].receipt # None,
           pc \in {"evidenced", "releasing", "settled"} =>
             token[bought[p]].evidence # None \/ token'[bought[p]].evidence # None,
           pc = "settled" => token'[bought[p]].deposit = "released"
    PROVE  StoryOf(bought, call[r])'
<1>1. TokenStory
  BY DEF Story
<1>2. /\ order'[p].state \notin {"none", "refused"}
      /\ order[p].token = bought[p] => order'[p].token = bought[p]
      /\ Checked(bought, p) => Checked(bought, p)'
      /\ Matched(bought, p) => Matched(bought, p)'
      /\ order[p].receipt # None => order'[p].receipt # None
      /\ token[bought[p]].evidence # None => token'[bought[p]].evidence # None
  BY <1>1, OrderCarried
<1>3. call'[r].auth \in Auths /\ auth[call'[r].auth] = "spent" =>
        auth'[call'[r].auth] = "spent"
  BY DEF Kept, AuthsKept
<1>4. Checked(bought, call[r].order)' <=> Checked(bought, p)'
  BY DEF Checked
<1>5. Matched(bought, call[r].order)' <=> Matched(bought, p)'
  BY DEF Matched
<1>6. QED
  BY <1>2, <1>3, <1>4, <1>5 DEF StoryOf

\* Then all requests keep their stories: the others have not moved.
LEMMA OthersKeepTheirs ==
    ASSUME NEW bought \in [Orders -> Tokens], Story(bought), Kept(bought),
           NEW r \in Requests, OthersWait(r), StoryOf(bought, call[r])'
    PROVE  CallStory(bought)'
<1>1. SUFFICES ASSUME NEW q \in Requests PROVE StoryOf(bought, call[q])'
  BY DEF CallStory
<1>2. CASE q # r
  BY <1>2, StoryCarried DEF OthersWait, Unmoved
<1>3. QED
  BY <1>2

LEMMA UnmovedKeepTheirs ==
    ASSUME NEW bought \in [Orders -> Tokens], Story(bought), Kept(bought),
           \A q \in Requests : Unmoved(q)
    PROVE  CallStory(bought)'
  BY StoryCarried DEF CallStory

LEMMA StartsStayTold ==
    ASSUME NEW bought \in [Orders -> Tokens], Story(bought), Kept(bought),
           NEW r \in Requests, NEW o \in Orders, Request(r, o),
           \A t \in Tokens : recordMint(r, o, t) => t = bought[o]
    PROVE  CallTypes' /\ CallStory(bought)'
<1> USE DEF Unmatched, Deciding, OnItsToken, Settling
<1> SUFFICES CallTypes' /\ OthersWait(r) /\ StoryOf(bought, call[r])'
  BY OthersKeepTheirs
<1>1. OrderTold(bought, o)
  BY DEF Story, OrderStory, OrderTold
<1>2. ASSUME NEW t \in Tokens, recordMint(r, o, t)
      PROVE  CallTypes' /\ OthersWait(r) /\ StoryOf(bought, call[r])'
  <2>1. StartsAt(r, o, "minted", t) /\ t = bought[o]
    BY <1>2, StoryTyped, StartMoves
  <2>2. order[o].state \notin {"none", "refused"}
    BY <1>2 DEF recordMint
  <2>3. QED
    BY <2>1, <2>2, StoryReached DEF StartsAt
<1>3. ASSUME recordSubmitted(r, o)
      PROVE  CallTypes' /\ OthersWait(r) /\ StoryOf(bought, call[r])'
  <2>1. StartsAt(r, o, "submitted", order[o].token)
    BY <1>3, StoryTyped, StartMoves
  <2>2. order[o].state \notin {"none", "refused"} /\ order[o].token = bought[o]
    BY <1>1, <1>3 DEF recordSubmitted, OrderTold
  <2>3. QED
    BY <2>1, <2>2, StoryReached DEF StartsAt
<1>4. ASSUME prepareRetirement(r, o)
      PROVE  CallTypes' /\ OthersWait(r) /\ StoryOf(bought, call[r])'
  <2>1. StartsAt(r, o, "preparing", order[o].token)
    BY <1>4, StoryTyped, StartMoves
  <2>2. order[o].state \notin {"none", "refused"} /\ Matched(bought, o)
    BY <1>1, <1>4 DEF prepareRetirement, OrderTold, PastDecision
  <2>3. order[o].token = bought[o]
    BY <2>2 DEF Matched
  <2>4. QED
    BY <2>1, <2>2, <2>3, StoryReached DEF StartsAt
<1>5. ASSUME fulfilRetirement(r, o)
      PROVE  CallTypes' /\ OthersWait(r) /\ StoryOf(bought, call[r])'
  <2>1. StartsAt(r, o, "fulfilling", order[o].token)
    BY <1>5, StoryTyped, StartMoves
  <2>2. order[o].state \notin {"none", "refused"} /\ Matched(bought, o)
    BY <1>1, <1>5 DEF fulfilRetirement, OrderTold, PastDecision
  <2>3. order[o].token = bought[o]
    BY <2>2 DEF Matched
  <2>4. QED
    BY <2>1, <2>2, <2>3, StoryReached DEF StartsAt
<1>6. ASSUME settleOrder(r, o)
      PROVE  CallTypes' /\ OthersWait(r) /\ StoryOf(bought, call[r])'
  <2>1. StartsAt(r, o, "settling", None)
    BY <1>6, StoryTyped, StartMoves
  <2>2. /\ order[o].state \notin {"none", "refused"} /\ Matched(bought, o)
        /\ order[o].receipt # None
    BY <1>1, <1>6 DEF settleOrder, OrderTold, PastDecision
  <2>3. order[o].token = bought[o]
    BY <2>2 DEF Matched
  <2>4. QED
    BY <2>1, <2>2, <2>3, StoryReached DEF StartsAt
<1>7. QED
  BY <1>2, <1>3, <1>4, <1>5, <1>6 DEF Request

\* What the story of a request gives, by how far it has come.
Told(bought, r, p) ==
  /\ p \in Orders /\ order[p].state \notin {"none", "refused"}
  /\ call[r].pc # "minted" => order[p].token = bought[p]
  /\ call[r].pc \in Deciding => Checked(bought, p)
  /\ call[r].pc \notin Unmatched => Matched(bought, p)
  /\ call[r].pc \in OnItsToken => call[r].token = bought[p]
  /\ call[r].pc \in {"prepared", "relaying", "certified", "evidencing"} => call[r].auth \in Auths
  /\ call[r].pc \in {"certified", "evidencing"} => auth[call[r].auth] = "spent"
  /\ call[r].pc \in Settling => order[p].receipt # None
  /\ call[r].pc \in {"evidenced", "releasing", "settled"} => token[bought[p]].evidence # None
  /\ call[r].pc = "settled" => token[bought[p]].deposit = "released"

LEMMA StoryTells ==
    ASSUME NEW bought \in [Orders -> Tokens], Story(bought), NEW r \in Requests,
           NEW p, p = call[r].order, call[r].pc # "idle"
    PROVE  Told(bought, r, p)
<1>1. StoryOf(bought, call[r]) /\ call[r] # NoCall
  BY DEF Story, CallStory, NoCall
<1>2. QED
  BY <1>1 DEF StoryOf, Told

LEMMA HandlersStayTold ==
    ASSUME NEW bought \in [Orders -> Tokens], Story(bought), Kept(bought),
           NEW r \in Requests,
           \/ WorkChecked(r) \/ DecisionSent(r) \/ \E a \in Auths : AuthorizationPrepared(r, a)
           \/ RetirementSigned(r) \/ RetirementSent(r) \/ RetirementCertified(r)
           \/ ReceiptSaved(r) \/ EvidenceSent(r) \/ ReleaseSent(r)
    PROVE  CallTypes' /\ CallStory(bought)'
<1> USE DEF Told, Unmatched, Deciding, OnItsToken, Settling
<1> SUFFICES CallTypes' /\ OthersWait(r) /\ StoryOf(bought, call[r])'
  BY OthersKeepTheirs
<1>1. TokenStory /\ OrderStory(bought) /\ TokenTypes /\ OrderTypes
  BY DEF Story, Types
<1>2. ASSUME WorkChecked(r)
      PROVE  CallTypes' /\ OthersWait(r) /\ StoryOf(bought, call[r])'
  <2>1. call[r].pc = "submitted"
    BY <1>2 DEF WorkChecked, Running
  <2>2. PICK p : p = call[r].order
    OBVIOUS
  <2>3. Told(bought, r, p)
    BY <2>1, <2>2, StoryTells
  <2>4. Checked(bought, p)
    BY <1>2, <2>1, <2>2, <2>3 DEF WorkChecked, At, Checked
  <2>5. MovesTo(r, "checked", call[r].token, call[r].auth)
    BY <1>2, <2>1, StoryTyped, GotoMoves
  <2>6. QED
    BY <2>1, <2>2, <2>3, <2>4, <2>5, StoryReached DEF MovesTo
<1>3. ASSUME DecisionSent(r)
      PROVE  CallTypes' /\ OthersWait(r) /\ StoryOf(bought, call[r])'
  <2>1. call[r].pc = "checked"
    BY <1>3 DEF DecisionSent, Running
  <2>2. PICK p : p = call[r].order
    OBVIOUS
  <2>3. Told(bought, r, p)
    BY <2>1, <2>2, StoryTells
  <2>4. At(r).token = bought[p]
    BY <2>1, <2>2, <2>3 DEF At
  <2>5. MovesTo(r, "deciding", At(r).token, call[r].auth)
    BY <1>3, <2>1, StoryTyped, NoteMoves
  <2>6. QED
    BY <2>1, <2>2, <2>3, <2>4, <2>5, StoryReached DEF MovesTo
<1>4. ASSUME NEW a \in Auths, AuthorizationPrepared(r, a)
      PROVE  CallTypes' /\ OthersWait(r) /\ StoryOf(bought, call[r])'
  <2>1. call[r].pc = "preparing"
    BY <1>4 DEF AuthorizationPrepared, Running
  <2>2. PICK p : p = call[r].order
    OBVIOUS
  <2>3. Told(bought, r, p)
    BY <2>1, <2>2, StoryTells
  <2>4. MovesTo(r, "prepared", call[r].token, a)
    BY <1>4, <2>1, StoryTyped, NoteMoves
  <2>5. QED
    BY <2>1, <2>2, <2>3, <2>4, StoryReached DEF MovesTo
<1>5. ASSUME RetirementSigned(r)
      PROVE  CallTypes' /\ OthersWait(r) /\ StoryOf(bought, call[r])'
  <2>1. call[r].pc = "fulfilling"
    BY <1>5 DEF RetirementSigned, Running
  <2>2. PICK p : p = call[r].order
    OBVIOUS
  <2>3. Told(bought, r, p)
    BY <2>1, <2>2, StoryTells
  <2>4. MovesTo(r, "signed", call[r].token, call[r].auth)
    BY <1>5, <2>1, StoryTyped, NoteMoves
  <2>5. QED
    BY <2>1, <2>2, <2>3, <2>4, StoryReached DEF MovesTo
<1>6. ASSUME RetirementSent(r)
      PROVE  CallTypes' /\ OthersWait(r) /\ StoryOf(bought, call[r])'
  <2>1. call[r].pc = "signed"
    BY <1>6 DEF RetirementSent, Running
  <2>2. PICK p : p = call[r].order
    OBVIOUS
  <2>3. Told(bought, r, p)
    BY <2>1, <2>2, StoryTells
  <2>4. At(r).prepared \in Auths
    BY <1>6, <2>1, StoryTyped, AtTypes DEF RetirementSent
  <2>5. MovesTo(r, "relaying", call[r].token, At(r).prepared)
    BY <1>6, <2>1, StoryTyped, NoteMoves
  <2>6. QED
    BY <2>1, <2>2, <2>3, <2>4, <2>5, StoryReached DEF MovesTo
<1>7. ASSUME RetirementCertified(r)
      PROVE  CallTypes' /\ OthersWait(r) /\ StoryOf(bought, call[r])'
  <2>1. call[r].pc = "relaying"
    BY <1>7 DEF RetirementCertified, Running
  <2>2. PICK p : p = call[r].order
    OBVIOUS
  <2>3. Told(bought, r, p)
    BY <2>1, <2>2, StoryTells
  <2>4. auth[call[r].auth] = "spent"
    BY <1>7 DEF RetirementCertified
  <2>5. MovesTo(r, "certified", call[r].token, call[r].auth)
    BY <1>7, <2>1, StoryTyped, GotoMoves
  <2>6. QED
    BY <2>1, <2>2, <2>3, <2>4, <2>5, StoryReached DEF MovesTo
<1>8. ASSUME ReceiptSaved(r)
      PROVE  CallTypes' /\ OthersWait(r) /\ StoryOf(bought, call[r])'
  <2>1. call[r].pc = "certified"
    BY <1>8 DEF ReceiptSaved, Running
  <2>2. PICK p : p = call[r].order
    OBVIOUS
  <2>3. Told(bought, r, p)
    BY <2>1, <2>2, StoryTells
  <2>4. order'[p].receipt # None
    BY <1>1, <1>8, <2>1, <2>2, <2>3, ReceiptEffect, OrdersAssumption
  <2>5. MovesTo(r, "settling", call[r].token, call[r].auth)
    BY <1>8, <2>1, StoryTyped, GotoMoves
  <2>6. QED
    BY <2>1, <2>2, <2>3, <2>4, <2>5, StoryReached DEF MovesTo
<1>9. ASSUME EvidenceSent(r)
      PROVE  CallTypes' /\ OthersWait(r) /\ StoryOf(bought, call[r])'
  <2>1. call[r].pc = "settling"
    BY <1>9 DEF EvidenceSent, Running
  <2>2. PICK p : p = call[r].order
    OBVIOUS
  <2>3. Told(bought, r, p)
    BY <2>1, <2>2, StoryTells
  <2>4. /\ At(r).token = bought[p] /\ At(r).receipt \in Auths
        /\ auth[At(r).receipt] = "spent"
    <3>1. At(r).receipt # None /\ At(r).token = bought[p]
      BY <2>1, <2>2, <2>3 DEF At
    <3>2. auth[At(r).receipt] = "spent"
      BY <1>1, <2>2, <2>3, <3>1 DEF At, OrderStory
    <3>3. QED
      BY <2>1, <3>1, <3>2, StoryTyped, AtTypes
  <2>5. MovesTo(r, "evidencing", At(r).token, At(r).receipt)
    BY <1>9, <2>1, StoryTyped, NoteMoves
  <2>6. QED
    BY <2>1, <2>2, <2>3, <2>4, <2>5, StoryReached DEF MovesTo
<1>10. ASSUME ReleaseSent(r)
      PROVE  CallTypes' /\ OthersWait(r) /\ StoryOf(bought, call[r])'
  <2>1. call[r].pc \in {"settling", "evidenced"}
    BY <1>10 DEF ReleaseSent, DepositNext, Running
  <2>2. PICK p : p = call[r].order
    OBVIOUS
  <2>3. Told(bought, r, p)
    BY <2>1, <2>2, StoryTells
  <2>4. At(r).token = bought[p] /\ token[bought[p]].evidence # None
    BY <1>10, <2>1, <2>2, <2>3 DEF At, ReleaseSent, DepositNext, Running, Evidenced
  <2>5. MovesTo(r, "releasing", At(r).token, call[r].auth)
    BY <1>10, <2>1, StoryTyped, NoteMoves
  <2>6. QED
    BY <2>1, <2>2, <2>3, <2>4, <2>5, StoryReached DEF MovesTo
<1>11. QED
  BY <1>2, <1>3, <1>4, <1>5, <1>6, <1>7, <1>8, <1>9, <1>10

\* A confirmation finds its handler waiting, or gone.
LEMMA ConfirmationsStayTold ==
    ASSUME NEW bought \in [Orders -> Tokens], Story(bought), Kept(bought), NEW r \in Requests,
           DecisionConfirmed(r) \/ EvidenceConfirmed(r) \/ ReleaseConfirmed(r)
    PROVE  CallTypes' /\ CallStory(bought)'
<1> USE DEF Told, Unmatched, Deciding, OnItsToken, Settling
<1> SUFFICES CallTypes' /\ OthersWait(r) /\ StoryOf(bought, call[r])'
  BY OthersKeepTheirs
<1>1. call[r].pc \in {"deciding", "evidencing", "releasing"}
  BY DEF DecisionConfirmed, EvidenceConfirmed, ReleaseConfirmed
<1>2. PICK p : p = call[r].order
  OBVIOUS
<1>3. Told(bought, r, p) /\ TokenStory /\ TokenTypes
  BY <1>1, <1>2, StoryTells DEF Story, Types
<1>4. p \in Orders /\ call[r].token = bought[p] /\ bought[p] \in Tokens /\ p # None
  BY <1>1, <1>3, OrdersAssumption
<1>5. CASE CallTypes' /\ OthersWait(r) /\ call'[r] = NoCall
  BY <1>5 DEF StoryOf
<1>6. ASSUME DecisionConfirmed(r), MovesTo(r, "decided", call[r].token, call[r].auth)
      PROVE  StoryOf(bought, call[r])'
  <2>1. Checked(bought, p)
    BY <1>3, <1>6 DEF DecisionConfirmed
  <2>2. /\ token'[bought[p]].decision # None
        /\ token'[bought[p]].work = token[bought[p]].work
    BY <1>2, <1>3, <1>4, <1>6, <2>1, DecisionEffect DEF Checked, TokenStory
  <2>3. order'[p] = order[p]
    BY <1>6 DEF DecisionConfirmed
  <2>4. Matched(bought, p)'
    BY <2>1, <2>2, <2>3 DEF Checked, Matched
  <2>5. QED
    BY <1>2, <1>3, <1>4, <1>6, <2>1, <2>4, StoryReached DEF MovesTo, Checked
<1>7. ASSUME EvidenceConfirmed(r), MovesTo(r, "evidenced", call[r].token, call[r].auth)
      PROVE  StoryOf(bought, call[r])'
  <2>1. call[r].pc = "evidencing"
    BY <1>7 DEF EvidenceConfirmed
  <2>2. Matched(bought, p) /\ call[r].auth \in Auths /\ order[p].receipt # None
    BY <1>3, <2>1
  <2>3. TakesEvidence(bought[p])
    BY <1>3, <1>4, <2>2 DEF Matched, TokenStory, TakesEvidence
  <2>4. token'[bought[p]].evidence # None
    BY <1>3, <1>4, <1>7, <2>2, <2>3, EvidenceEffect, OrdersAssumption
  <2>5. QED
    BY <1>2, <1>3, <1>4, <1>7, <2>1, <2>2, <2>4, StoryReached DEF MovesTo, Matched
<1>8. ASSUME ReleaseConfirmed(r), MovesTo(r, "settled", call[r].token, call[r].auth)
      PROVE  StoryOf(bought, call[r])'
  <2>1. call[r].pc = "releasing"
    BY <1>8 DEF ReleaseConfirmed
  <2>2. /\ Matched(bought, p) /\ order[p].receipt # None
        /\ token[bought[p]].evidence # None
    BY <1>3, <2>1
  <2>3. token[bought[p]].deposit \in {"held", "released"}
    BY <1>3, <1>4, <2>2 DEF Matched, TokenStory
  <2>4. token'[bought[p]].deposit = "released"
    BY <1>3, <1>4, <1>8, <2>3, ReleaseEffect
  <2>5. QED
    BY <1>2, <1>3, <1>4, <1>8, <2>1, <2>2, <2>4, StoryReached DEF MovesTo, Matched
<1>9. /\ DecisionConfirmed(r) => Confirm(r, "decided")
      /\ EvidenceConfirmed(r) => Confirm(r, "evidenced")
      /\ ReleaseConfirmed(r) => Confirm(r, "settled")
  BY DEF DecisionConfirmed, EvidenceConfirmed, ReleaseConfirmed
<1>10. {"decided", "evidenced", "settled"} \subseteq Pcs
  BY DEF Pcs
<1>11. QED
  BY <1>5, <1>6, <1>7, <1>8, <1>9, <1>10, StoryTyped, ConfirmMoves DEF MovesTo

LEMMA CallsStayTold ==
    ASSUME NEW bought \in [Orders -> Tokens], Story(bought), OrdersNext,
           \A r \in Requests, o \in Orders, t \in Tokens : recordMint(r, o, t) => t = bought[o]
    PROVE  CallTypes' /\ CallStory(bought)'
<1>1. Kept(bought) /\ Types
  BY EverythingIsKept DEF Story
<1>2. CASE Restart \/ \E r \in Requests : RequestFails(r)
  BY <1>1, <1>2, FailureMoves, UnmovedKeepTheirs
<1>3. CASE call' = call
  BY <1>1, <1>3, UnmovedKeepTheirs DEF Types, CallTypes, Unmoved
<1>4. ASSUME NEW r \in Requests, Handler(r) \/ Forgotten(r)
      PROVE  CallTypes' /\ CallStory(bought)'
  <2>1. CASE \/ MintRecorded(r) \/ DecisionSaved(r) \/ PreparedSaved(r) \/ OrderCompleted(r)
             \/ RequestRefused(r) \/ Forgotten(r)
    BY <1>1, <2>1, AnswerMoves, UnmovedKeepTheirs
  <2>2. CASE \/ WorkChecked(r) \/ DecisionSent(r)
             \/ \E a \in Auths : AuthorizationPrepared(r, a)
             \/ RetirementSigned(r) \/ RetirementSent(r) \/ RetirementCertified(r)
             \/ ReceiptSaved(r) \/ EvidenceSent(r) \/ ReleaseSent(r)
    BY <1>1, <2>2, HandlersStayTold
  <2>3. CASE DecisionConfirmed(r) \/ EvidenceConfirmed(r) \/ ReleaseConfirmed(r)
    BY <1>1, <2>3, ConfirmationsStayTold
  <2>4. CASE RetirementAccepted(r)
    BY <1>3, <2>4 DEF RetirementAccepted
  <2>5. QED
    BY <1>4, <2>1, <2>2, <2>3, <2>4 DEF Handler
<1>5. ASSUME NEW r \in Requests, NEW o \in Orders, Request(r, o)
      PROVE  CallTypes' /\ CallStory(bought)'
  BY <1>1, <1>5, StartsStayTold
<1>6. CASE Wallet \/ Base \/ \E key \in Tokens \X Works : resolveUnresolved(key)
  BY <1>3, <1>6 DEF Wallet, Base, previewCarbon, Purchase, submitParcel, Relay, Expire,
                    resolveUnresolved
<1>7. QED
  BY <1>2, <1>4, <1>5, <1>6 DEF OrdersNext

(***************************************************************************)
(* The retirement ledger.                                                  *)
(***************************************************************************)
KeyOf(bought, o) == <<bought[o], order[o].work>>

LEMMA KeyOfARequest ==
    ASSUME NEW bought \in [Orders -> Tokens], Story(bought), NEW r \in Requests,
           call[r].pc \in {"preparing", "fulfilling", "signed", "relaying"}
    PROVE  /\ call[r].order \in Orders /\ call[r].pc # "idle"
           /\ Key(r) = KeyOf(bought, call[r].order)
           /\ KeyOf(bought, call[r].order) \in Tokens \X Works
           /\ Matched(bought, call[r].order)
<1>1. Told(bought, r, call[r].order)
  BY StoryTells
<1>2. /\ call[r].order \in Orders /\ call[r].token = bought[call[r].order]
      /\ Matched(bought, call[r].order)
  BY <1>1 DEF Told, OnItsToken, Unmatched, Deciding
<1>3. At(r).work \in Works
  BY StandsAt DEF At
<1>4. QED
  BY <1>2, <1>3 DEF Key, KeyOf, At

\* What a step may do to the line of one key.
LineSent(bought, key) ==
  \E r \in Requests :
    /\ RetirementSent(r) /\ ~ Blocked(key)
    /\ key = KeyOf(bought, call[r].order) /\ Matched(bought, call[r].order)
    /\ ledger'[key].state = "attempting" /\ ledger'[key].auth = At(r).prepared

LineCertified(bought, key) ==
  \E r \in Requests :
    /\ call[r].pc = "relaying" /\ auth[call[r].auth] = "spent"
    /\ key = KeyOf(bought, call[r].order) /\ Matched(bought, call[r].order)
    /\ ledger'[key].state = "settled" /\ ledger'[key].auth = call[r].auth

LineResolved(key) ==
  /\ ledger[key].state = "attempting" /\ auth[ledger[key].auth] \in {"spent", "expired"}
  /\ ledger'[key].auth = ledger[key].auth
  /\ ledger'[key].state = IF auth[ledger[key].auth] = "spent" THEN "settled" ELSE "failed"

LEMMA LedgerEffect ==
    ASSUME NEW bought \in [Orders -> Tokens], Story(bought), [OrdersNext]_serviceVars
    PROVE  /\ LedgerTypes'
           /\ \A key \in Tokens \X Works :
                \/ ledger'[key] = ledger[key] \/ LineSent(bought, key)
                \/ LineCertified(bought, key) \/ LineResolved(key)
<1>1. LedgerTypes
  BY DEF Story, Types
<1>2. ASSUME NEW r \in Requests, RetirementSent(r)
      PROVE  /\ LedgerTypes'
             /\ \A key \in Tokens \X Works :
                  ledger'[key] = ledger[key] \/ LineSent(bought, key)
  <2>1. call[r].pc = "signed"
    BY <1>2 DEF RetirementSent, Running
  <2>2. At(r).prepared \in Auths
    BY <1>2, <2>1, StoryTyped, AtTypes DEF RetirementSent
  <2>3. /\ Key(r) = KeyOf(bought, call[r].order) /\ Key(r) \in Tokens \X Works
        /\ Matched(bought, call[r].order)
    BY <2>1, KeyOfARequest
  <2> DEFINE line == [state |-> "attempting", auth |-> At(r).prepared]
  <2>4. line \in LineRecord /\ line.state = "attempting" /\ line.auth = At(r).prepared
    BY <2>2 DEF LineRecord
  <2>5. ledger' = [ledger EXCEPT ![Key(r)] = line] /\ ~ Blocked(Key(r))
    BY <1>2 DEF RetirementSent
  <2> HIDE DEF line
  <2>6. QED
    BY <1>1, <1>2, <2>3, <2>4, <2>5 DEF LedgerTypes, LineSent
<1>3. ASSUME NEW r \in Requests, RetirementCertified(r)
      PROVE  /\ LedgerTypes'
             /\ \A key \in Tokens \X Works :
                  ledger'[key] = ledger[key] \/ LineCertified(bought, key)
  <2>1. call[r].pc = "relaying"
    BY <1>3 DEF RetirementCertified, Running
  <2>2. call[r].auth \in Auths /\ auth[call[r].auth] = "spent"
    BY <1>3, <2>1, StoryTells DEF RetirementCertified, Told
  <2>3. /\ Key(r) = KeyOf(bought, call[r].order) /\ Key(r) \in Tokens \X Works
        /\ Matched(bought, call[r].order)
    BY <2>1, KeyOfARequest
  <2> DEFINE line == [state |-> "settled", auth |-> call[r].auth]
  <2>4. line \in LineRecord /\ line.state = "settled" /\ line.auth = call[r].auth
    BY <2>2 DEF LineRecord
  <2>5. ledger' = [ledger EXCEPT ![Key(r)] = line]
    BY <1>3 DEF RetirementCertified
  <2> HIDE DEF line
  <2>6. QED
    BY <1>1, <2>1, <2>2, <2>3, <2>4, <2>5 DEF LedgerTypes, LineCertified
<1>4. ASSUME NEW k \in Tokens \X Works, resolveUnresolved(k)
      PROVE  /\ LedgerTypes'
             /\ \A key \in Tokens \X Works : ledger'[key] = ledger[key] \/ LineResolved(key)
  <2> DEFINE outcome == IF auth[ledger[k].auth] = "spent" THEN "settled" ELSE "failed"
             line == [ledger[k] EXCEPT !.state = outcome]
  <2>1. ledger' = [ledger EXCEPT ![k] = line]
    BY <1>4 DEF resolveUnresolved
  <2>2. ledger[k] \in LineRecord
    BY <1>1 DEF LedgerTypes
  <2>3. line \in LineRecord /\ line.state = outcome /\ line.auth = ledger[k].auth
    BY <2>2 DEF LineRecord
  <2> HIDE DEF line
  <2>4. QED
    BY <1>1, <1>4, <2>1, <2>3 DEF LedgerTypes, LineResolved, resolveUnresolved
<1>5. CASE ledger' = ledger
  BY <1>1, <1>5 DEF LedgerTypes
<1>6. QED
  BY <1>2, <1>3, <1>4, <1>5, WhoWritesTheLedger

LEMMA SpendStaysDecided ==
    ASSUME NEW bought \in [Orders -> Tokens], Story(bought), SpendOnlyOnDecision,
           [OrdersNext]_serviceVars
    PROVE  SpendOnlyOnDecision'
<1>1. SUFFICES ASSUME NEW t \in Tokens, NEW w \in Works, ledger'[<<t, w>>].state # "none"
               PROVE  token'[t].decision # None /\ token'[t].work = w
  BY DEF SpendOnlyOnDecision
<1>2. token[t].decision # None /\ token[t].work = w
  <2>1. CASE ledger[<<t, w>>].state # "none"
    BY <2>1 DEF SpendOnlyOnDecision
  <2>2. CASE LineSent(bought, <<t, w>>) \/ LineCertified(bought, <<t, w>>)
    BY <2>2 DEF LineSent, LineCertified, KeyOf, Matched
  <2>3. LineResolved(<<t, w>>) => ledger[<<t, w>>].state # "none"
    BY DEF LineResolved
  <2>4. QED
    BY <1>1, <2>1, <2>2, <2>3, LedgerEffect
<1>3. token[t].state = "activated"
  BY <1>2 DEF Story, TokenStory
<1>4. QED
  BY <1>2, <1>3, TokensAreKept DEF TokensKept

(***************************************************************************)
(* The stories hold throughout.                                            *)
(***************************************************************************)
Mints(bought) ==
  \A r \in Requests, o \in Orders, t \in Tokens : recordMint(r, o, t) => t = bought[o]

LEMMA StoryInit ==
    ASSUME NEW bought \in [Orders -> Tokens], OrdersInit
    PROVE  Story(bought) /\ SpendOnlyOnDecision
<1>1. Types
  BY TypedInit DEF Typed
<1>2. TokenStory
  BY DEF OrdersInit, TokenStory, NoToken
<1>3. OrderStory(bought)
  BY DEF OrdersInit, OrderStory, NoOrder, PastDecision
<1>4. CallStory(bought)
  BY DEF OrdersInit, CallStory, StoryOf
<1>5. SpendOnlyOnDecision
  BY DEF OrdersInit, SpendOnlyOnDecision
<1>6. QED
  BY <1>1, <1>2, <1>3, <1>4, <1>5 DEF Story

LEMMA StoryStep ==
    ASSUME NEW bought \in [Orders -> Tokens], Story(bought), [OrdersNext]_serviceVars,
           [Mints(bought)]_serviceVars
    PROVE  Story(bought)'
<1>1. Kept(bought) /\ OrderStory(bought)' /\ LedgerTypes'
  BY EverythingIsKept, OrdersStayTold, LedgerEffect
<1>2. failures' \in 0 .. MaxFailures
  BY FailuresAreCounted DEF Story, Types
<1>3. CallTypes' /\ CallStory(bought)'
  <2>1. CASE UNCHANGED serviceVars
    <3>1. CallTypes' /\ \A q \in Requests : Unmoved(q)
      BY <2>1 DEF serviceVars, Story, Types, CallTypes, Unmoved
    <3>2. QED
      BY <1>1, <3>1, UnmovedKeepTheirs
  <2>2. CASE OrdersNext /\ Mints(bought)
    BY <2>2, CallsStayTold DEF Mints
  <2>3. QED
    BY <2>1, <2>2
<1>4. QED
  BY <1>1, <1>2, <1>3 DEF Story, Types, Kept

\* What every order, token and request has behind it, when the buyer claims
\* one token for each order; and no line without a decision.
THEOREM OrdersCorrect ==
    ASSUME NEW bought \in [Orders -> Tokens]
    PROVE  OrdersSpec /\ OneTokenEach(bought) => [](Story(bought) /\ SpendOnlyOnDecision)
<1>1. OrdersInit => Story(bought) /\ SpendOnlyOnDecision
  BY StoryInit
<1>2. /\ Story(bought) /\ SpendOnlyOnDecision
      /\ [OrdersNext]_serviceVars /\ [Mints(bought)]_serviceVars
      => Story(bought)' /\ SpendOnlyOnDecision'
  BY StoryStep, SpendStaysDecided
<1>3. OneTokenEach(bought) <=> [][Mints(bought)]_serviceVars
  BY PTL DEF OneTokenEach, Mints
<1>4. QED
  BY <1>1, <1>2, <1>3, PTL DEF OrdersSpec

(***************************************************************************)
(* The money.  An authorization belongs to one key from the moment the     *)
(* endpoint mints it: whoever holds it, an order, a request or the ledger, *)
(* holds it for that key.                                                  *)
(***************************************************************************)
OrderHolds(o, a) == order[o].prepared = a \/ order[o].receipt = a

HeldAt(bought, a, key) ==
  \/ key \in Tokens \X Works /\ ledger[key].auth = a
  \/ \E o \in Orders : OrderHolds(o, a) /\ key = KeyOf(bought, o)
  \/ \E r \in Requests : /\ call[r].pc # "idle" /\ call[r].auth = a
                         /\ key = KeyOf(bought, call[r].order)

OneKey(bought) ==
  \A a \in Auths : \A j, k : HeldAt(bought, a, j) /\ HeldAt(bought, a, k) => j = k

Fresh(bought) == \A a \in Auths : \A k : HeldAt(bought, a, k) => auth[a] # "unseen"

\* The relayer may still run it, or has.
Live == {"prepared", "queued", "spent"}

BookedAt(a, key) == ledger[key].auth = a /\ Blocked(key)

\* A request that has sent a live authorization has it on the ledger.
RelayBooked(bought) ==
  \A r \in Requests :
    call[r].pc = "relaying" /\ auth[call[r].auth] \in Live
    => BookedAt(call[r].auth, KeyOf(bought, call[r].order))

\* What the endpoint has accepted is on the ledger, and stays there.
Booked ==
  \A a \in Auths :
    auth[a] \in {"queued", "spent"} => \E key \in Tokens \X Works : BookedAt(a, key)

\* Evidence on the chain is a spent authorization, booked for that token.
EvidenceBooked ==
  \A t \in Tokens :
    token[t].evidence # None =>
      /\ auth[token[t].evidence] = "spent"
      /\ \E w \in Works : BookedAt(token[t].evidence, <<t, w>>)

Money(bought) == OneKey(bought) /\ Fresh(bought) /\ RelayBooked(bought) /\ Booked /\ EvidenceBooked

\* The key of an order does not change once the order is ruled on.
LEMMA KeyStays ==
    ASSUME NEW bought \in [Orders -> Tokens], Story(bought), [OrdersNext]_serviceVars,
           NEW o \in Orders, order[o].state # "none"
    PROVE  KeyOf(bought, o)' = KeyOf(bought, o)
  BY OrdersAreKept DEF OrdersKept, KeyOf

\* What an order comes to hold, a request about it held.
LEMMA OrderHoldings ==
    ASSUME NEW bought \in [Orders -> Tokens], Story(bought), [OrdersNext]_serviceVars,
           NEW a \in Auths, NEW o \in Orders, OrderHolds(o, a)'
    PROVE  /\ order[o].state # "none"
           /\ \/ OrderHolds(o, a)
              \/ \E r \in Requests : call[r].pc # "idle" /\ call[r].auth = a /\ call[r].order = o
<1> USE DEF OrderHolds
<1>1. OrderTypes /\ a # None
  BY OrdersAssumption DEF Story, Types
<1>2. order[o].state = "none" => order[o].prepared = None /\ order[o].receipt = None
  BY DEF Story, OrderStory, NoOrder
<1>3. CASE OrderHolds(o, a)
  BY <1>1, <1>2, <1>3
<1>4. CASE ~ OrderHolds(o, a)
  <2>1. ASSUME NEW r \in Requests,
               \/ MintRecorded(r) \/ DecisionSaved(r) \/ PreparedSaved(r)
               \/ ReceiptSaved(r) \/ OrderCompleted(r)
        PROVE  call[r].pc # "idle" /\ call[r].order = o /\ call[r].auth = a
    <3>1. call[r].pc # "idle"
      BY <2>1 DEF MintRecorded, DecisionSaved, PreparedSaved, ReceiptSaved, OrderCompleted,
                  DepositNext, Running
    <3>2. PICK p \in Orders : p = call[r].order
      BY <3>1, StandsAt
    <3>3. CASE MintRecorded(r)
      <4>1. call[r].token \in Tokens
        BY <3>2, <3>3, StoryTells, <3>1 DEF MintRecorded, Running, Story, CallStory, StoryOf, NoCall
      <4>2. QED
        BY <1>1, <1>4, <3>2, <3>3, <4>1, MintEffect
    <3>4. CASE DecisionSaved(r) \/ OrderCompleted(r)
      BY <1>1, <1>4, <3>2, <3>4, AdvanceEffect
    <3>5. CASE PreparedSaved(r) \/ ReceiptSaved(r)
      <4>1. call[r].auth \in Auths
        BY <3>1, <3>2, <3>5, StoryTells DEF PreparedSaved, ReceiptSaved, Running, Told
      <4>2. QED
        BY <1>1, <1>4, <3>1, <3>2, <3>5, <4>1, PreparedEffect, ReceiptEffect
    <3>6. QED
      BY <2>1, <3>3, <3>4, <3>5
  <2>2. ASSUME NEW p \in Orders, NEW w \in Works, NEW approved \in BOOLEAN,
               previewCarbon(p, w, approved)
        PROVE  FALSE
    BY <1>1, <1>4, <2>2, PreviewEffect
  <2>3. PICK r \in Requests : call[r].pc # "idle" /\ call[r].order = o /\ call[r].auth = a
    BY <1>4, <2>1, <2>2, WhoWritesOrders
  <2>4. order[o].state # "none"
    BY <2>3, StandsAt
  <2>5. QED
    BY <2>3, <2>4
<1>5. QED
  BY <1>3, <1>4

\* What a request comes to hold it held, or takes from its order, or the
\* endpoint has just minted.
Taken(r, a) ==
  /\ call[r].pc # "idle" /\ call'[r].order = call[r].order
  /\ \/ call[r].auth = a \/ OrderHolds(call[r].order, a) \/ AuthorizationPrepared(r, a)

LEMMA CallHoldings ==
    ASSUME NEW bought \in [Orders -> Tokens], Story(bought), [OrdersNext]_serviceVars,
           NEW a \in Auths, NEW q \in Requests, call'[q].auth = a
    PROVE  Taken(q, a)
<1>1. a # None /\ NoCall.auth = None
  BY OrdersAssumption DEF NoCall
<1>2. call[q].auth = a => call[q].pc # "idle"
  BY <1>1 DEF Story, CallStory, StoryOf
<1>3. CASE Unmoved(q)
  BY <1>1, <1>2, <1>3 DEF Unmoved, Taken
<1>4. ASSUME NEW r \in Requests, NEW pc, NEW t, NEW b, MovesTo(r, pc, t, b), call[r].pc # "idle",
             b = a => Taken(r, a)
      PROVE  Taken(q, a)
  BY <1>2, <1>4 DEF MovesTo, OthersWait, Taken
<1>5. ASSUME NEW r \in Requests, NEW o \in Orders, Request(r, o) PROVE Taken(q, a)
  <2>1. PICK pc, t : StartsAt(r, o, pc, t)
    BY <1>5, StoryTyped, StartMoves DEF Request
  <2>2. QED
    BY <1>1, <1>2, <2>1 DEF StartsAt, OthersWait, Taken
<1>6. ASSUME NEW r \in Requests, Handler(r) \/ Forgotten(r) PROVE Taken(q, a)
  <2>1. CASE \/ MintRecorded(r) \/ DecisionSaved(r) \/ PreparedSaved(r) \/ OrderCompleted(r)
             \/ RequestRefused(r) \/ Forgotten(r)
    BY <1>3, <2>1, AnswerMoves DEF Story
  <2>2. CASE \/ WorkChecked(r) \/ DecisionSent(r) \/ RetirementSigned(r)
             \/ RetirementCertified(r) \/ ReceiptSaved(r) \/ ReleaseSent(r)
    <3>1. call[r].pc # "idle"
      BY <2>2 DEF WorkChecked, DecisionSent, RetirementSigned, RetirementCertified,
                  ReceiptSaved, ReleaseSent, DepositNext, Running
    <3>2. PICK pc, t : MovesTo(r, pc, t, call[r].auth)
      BY <2>2, <3>1, StoryTyped, GotoMoves, NoteMoves
    <3>3. QED
      BY <1>4, <3>1, <3>2 DEF MovesTo, Taken
  <2>3. ASSUME NEW b \in Auths, AuthorizationPrepared(r, b) PROVE Taken(q, a)
    <3>1. call[r].pc # "idle"
      BY <2>3 DEF AuthorizationPrepared, Running
    <3>2. MovesTo(r, "prepared", call[r].token, b)
      BY <2>3, <3>1, StoryTyped, NoteMoves
    <3>3. QED
      BY <1>4, <2>3, <3>1, <3>2 DEF MovesTo, Taken
  <2>4. CASE RetirementSent(r)
    <3>1. call[r].pc # "idle"
      BY <2>4 DEF RetirementSent, Running
    <3>2. MovesTo(r, "relaying", call[r].token, At(r).prepared)
      BY <2>4, <3>1, StoryTyped, NoteMoves
    <3>3. QED
      BY <1>4, <3>1, <3>2 DEF MovesTo, Taken, OrderHolds, At
  <2>5. CASE EvidenceSent(r)
    <3>1. call[r].pc # "idle"
      BY <2>5 DEF EvidenceSent, Running
    <3>2. MovesTo(r, "evidencing", At(r).token, At(r).receipt)
      BY <2>5, <3>1, StoryTyped, NoteMoves
    <3>3. QED
      BY <1>4, <3>1, <3>2 DEF MovesTo, Taken, OrderHolds, At
  <2>6. CASE DecisionConfirmed(r) \/ EvidenceConfirmed(r) \/ ReleaseConfirmed(r)
    <3>1. call[r].pc # "idle"
      BY <2>6 DEF DecisionConfirmed, EvidenceConfirmed, ReleaseConfirmed
    <3>2. PICK pc \in Pcs : Confirm(r, pc)
      BY <2>6 DEF DecisionConfirmed, EvidenceConfirmed, ReleaseConfirmed, Pcs
    <3>3. CASE OthersWait(r) /\ call'[r] = NoCall
      BY <1>3, <3>3 DEF OthersWait, Unmoved
    <3>4. CASE MovesTo(r, pc, call[r].token, call[r].auth)
      BY <1>4, <3>1, <3>4 DEF MovesTo, Taken
    <3>5. QED
      BY <3>2, <3>3, <3>4, StoryTyped, ConfirmMoves
  <2>7. CASE RetirementAccepted(r)
    BY <1>3, <2>7 DEF RetirementAccepted, Unmoved
  <2>8. QED
    BY <1>6, <2>1, <2>2, <2>3, <2>4, <2>5, <2>6, <2>7 DEF Handler
<1>7. CASE Restart \/ \E r \in Requests : RequestFails(r)
  BY <1>3, <1>7, FailureMoves DEF Story
<1>8. CASE Wallet \/ Base \/ (\E key \in Tokens \X Works : resolveUnresolved(key))
           \/ UNCHANGED serviceVars
  BY <1>3, <1>8 DEF Wallet, Base, previewCarbon, Purchase, submitParcel, Relay, Expire,
                    resolveUnresolved, serviceVars, Unmoved
<1>9. QED
  BY <1>5, <1>6, <1>7, <1>8 DEF OrdersNext

\* Nobody comes to hold an authorization for another key.
LEMMA HoldersStay ==
    ASSUME NEW bought \in [Orders -> Tokens], Story(bought), [OrdersNext]_serviceVars,
           NEW a \in Auths, NEW key, HeldAt(bought, a, key)'
    PROVE  \/ HeldAt(bought, a, key)
           \/ \E r \in Requests : /\ AuthorizationPrepared(r, a)
                                  /\ key = KeyOf(bought, call[r].order)
<1>1. CASE key \in Tokens \X Works /\ ledger'[key].auth = a
  <2>1. CASE ledger'[key] = ledger[key] \/ LineResolved(key)
    BY <1>1, <2>1 DEF LineResolved, HeldAt
  <2>2. CASE LineSent(bought, key)
    <3>1. PICK r \in Requests : /\ RetirementSent(r) /\ key = KeyOf(bought, call[r].order)
                                /\ At(r).prepared = a
      BY <1>1, <2>2 DEF LineSent
    <3>2. call[r].order \in Orders
      BY <3>1, StandsAt DEF RetirementSent, Running
    <3>3. QED
      BY <3>1, <3>2 DEF HeldAt, OrderHolds, At
  <2>3. CASE LineCertified(bought, key)
    BY <1>1, <2>3 DEF LineCertified, HeldAt
  <2>4. QED
    BY <1>1, <2>1, <2>2, <2>3, LedgerEffect
<1>2. ASSUME NEW o \in Orders, OrderHolds(o, a)', key = KeyOf(bought, o)'
      PROVE  HeldAt(bought, a, key)
  <2>1. key = KeyOf(bought, o)
    BY <1>2, OrderHoldings, KeyStays
  <2>2. QED
    BY <1>2, <2>1, OrderHoldings DEF HeldAt
<1>3. ASSUME NEW r \in Requests, call'[r].auth = a, key = KeyOf(bought, call[r].order)'
      PROVE  \/ HeldAt(bought, a, key)
             \/ AuthorizationPrepared(r, a) /\ key = KeyOf(bought, call[r].order)
  <2>1. Taken(r, a)
    BY <1>3, CallHoldings
  <2>2. PICK p \in Orders : p = call[r].order /\ p = call'[r].order /\ order[p].state # "none"
    BY <2>1, StandsAt DEF Taken
  <2>3. key = KeyOf(bought, p)
    BY <1>3, <2>2, KeyStays DEF KeyOf
  <2>4. QED
    BY <2>1, <2>2, <2>3 DEF Taken, HeldAt
<1>4. QED
  BY <1>1, <1>2, <1>3 DEF HeldAt

LEMMA OneKeyStays ==
    ASSUME NEW bought \in [Orders -> Tokens], Story(bought), OneKey(bought), Fresh(bought),
           [OrdersNext]_serviceVars
    PROVE  OneKey(bought)' /\ Fresh(bought)'
<1>1. ASSUME NEW a \in Auths, NEW r \in Requests, AuthorizationPrepared(r, a)
      PROVE  /\ \A key : ~ HeldAt(bought, a, key)
             /\ auth'[a] = "prepared"
             /\ \A q \in Requests : AuthorizationPrepared(q, a) => q = r
  <2>1. auth[a] = "unseen" /\ auth' = [auth EXCEPT ![a] = "prepared"]
    BY <1>1 DEF AuthorizationPrepared
  <2>2. call[r].pc = "preparing"
    BY <1>1 DEF AuthorizationPrepared, Running
  <2>3. call'[r].pc = "prepared"
    BY <1>1, <2>2, StoryTyped, NoteMoves DEF MovesTo
  <2>4. ASSUME NEW q \in Requests, AuthorizationPrepared(q, a), q # r PROVE FALSE
    <3>1. call[q].pc # "idle"
      BY <2>4 DEF AuthorizationPrepared, Running
    <3>2. call'[r] = call[r]
      BY <2>4, <3>1, StoryTyped, NoteMoves DEF MovesTo, OthersWait
    <3>3. QED
      BY <2>2, <2>3, <3>2
  <2>5. QED
    BY <2>1, <2>4 DEF Fresh, Story, Types, AuthTypes
<1>2. ASSUME NEW a \in Auths, NEW j, NEW k, HeldAt(bought, a, j)', HeldAt(bought, a, k)'
      PROVE  j = k
  <2>1. CASE \E r \in Requests : AuthorizationPrepared(r, a)
    BY <1>1, <1>2, <2>1, HoldersStay
  <2>2. CASE ~ \E r \in Requests : AuthorizationPrepared(r, a)
    BY <1>2, <2>2, HoldersStay DEF OneKey
  <2>3. QED
    BY <2>1, <2>2
<1>3. ASSUME NEW a \in Auths, NEW k, HeldAt(bought, a, k)' PROVE auth'[a] # "unseen"
  <2>1. CASE \E r \in Requests : AuthorizationPrepared(r, a)
    BY <1>1, <2>1
  <2>2. CASE ~ \E r \in Requests : AuthorizationPrepared(r, a)
    <3>1. auth[a] # "unseen"
      BY <1>3, <2>2, HoldersStay DEF Fresh
    <3>2. QED
      BY <3>1, WhoWritesAuths
         DEF AuthorizationPrepared, RetirementAccepted, Relay, Expire, Story, Types, AuthTypes
  <2>3. QED
    BY <2>1, <2>2
<1>4. QED
  BY <1>2, <1>3 DEF OneKey, Fresh

\* What has been recorded of a live authorization is not written over.
LEMMA BookingStays ==
    ASSUME NEW bought \in [Orders -> Tokens], Story(bought), RelayBooked(bought),
           [OrdersNext]_serviceVars,
           NEW a \in Auths, auth[a] \in Live, NEW key \in Tokens \X Works, BookedAt(a, key)
    PROVE  BookedAt(a, key)'
<1> USE DEF BookedAt, Blocked
<1>1. CASE ledger'[key] = ledger[key]
  BY <1>1
<1>2. CASE LineSent(bought, key)
  BY <1>2 DEF LineSent
<1>3. CASE LineCertified(bought, key)
  <2>1. PICK r \in Requests :
          /\ call[r].pc = "relaying" /\ auth[call[r].auth] = "spent"
          /\ key = KeyOf(bought, call[r].order)
          /\ ledger'[key].state = "settled" /\ ledger'[key].auth = call[r].auth
    BY <1>3 DEF LineCertified
  <2>2. BookedAt(call[r].auth, key)
    BY <2>1 DEF RelayBooked, Live
  <2>3. QED
    BY <2>1, <2>2
<1>4. CASE LineResolved(key)
  <2>1. auth[a] = "spent"
    BY <1>4 DEF LineResolved, Live
  <2>2. QED
    BY <1>4, <2>1 DEF LineResolved
<1>5. QED
  BY <1>1, <1>2, <1>3, <1>4, LedgerEffect

\* An authorization is alive only if it was, or has just been minted.
LEMMA LivesOn ==
    ASSUME Types, [OrdersNext]_serviceVars, NEW a \in Auths
    PROVE  /\ auth'[a] \in Live => auth[a] \in Live \cup {"unseen"}
           /\ auth'[a] \in {"queued", "spent"} =>
                \/ auth[a] \in {"queued", "spent"}
                \/ \E r \in Requests : RetirementAccepted(r) /\ call[r].auth = a
  BY WhoWritesAuths
     DEF AuthorizationPrepared, RetirementAccepted, Relay, Expire, Types, AuthTypes, Live

\* A request that relays has just sent, or was relaying.
LEMMA WhoRelays ==
    ASSUME NEW bought \in [Orders -> Tokens], Story(bought), [OrdersNext]_serviceVars,
           NEW q \in Requests, call'[q].pc = "relaying"
    PROVE  /\ call'[q].order = call[q].order
           /\ \/ call[q].pc = "relaying" /\ call'[q].auth = call[q].auth
              \/ RetirementSent(q) /\ call'[q].auth = At(q).prepared
<1>1. NoCall.pc # "relaying"
  BY DEF NoCall
<1>2. CASE Unmoved(q)
  BY <1>1, <1>2 DEF Unmoved
<1>3. ASSUME NEW r \in Requests, NEW o \in Orders, Request(r, o) PROVE Unmoved(q)
  <2>1. PICK pc, t : /\ pc \in {"minted", "submitted", "preparing", "fulfilling", "settling"}
                     /\ StartsAt(r, o, pc, t)
    BY <1>3, StoryTyped, StartMoves DEF Request
  <2>2. QED
    BY <2>1 DEF StartsAt, OthersWait, Unmoved
<1>4. ASSUME NEW r \in Requests, Handler(r) \/ Forgotten(r), ~ RetirementSent(r)
      PROVE  Unmoved(q)
  <2>1. CASE \/ MintRecorded(r) \/ DecisionSaved(r) \/ PreparedSaved(r) \/ OrderCompleted(r)
             \/ RequestRefused(r) \/ Forgotten(r)
    BY <2>1, AnswerMoves DEF Story
  <2>2. CASE \/ WorkChecked(r) \/ DecisionSent(r) \/ RetirementSigned(r)
             \/ RetirementCertified(r) \/ ReceiptSaved(r) \/ ReleaseSent(r) \/ EvidenceSent(r)
             \/ \E a \in Auths : AuthorizationPrepared(r, a)
    <3>1. call[r].pc # "idle"
      BY <2>2 DEF WorkChecked, DecisionSent, RetirementSigned, RetirementCertified,
                  ReceiptSaved, ReleaseSent, EvidenceSent, AuthorizationPrepared, DepositNext,
                  Running
    <3>2. PICK pc, t, a : pc # "relaying" /\ MovesTo(r, pc, t, a)
      BY <2>2, <3>1, StoryTyped, GotoMoves, NoteMoves
    <3>3. QED
      BY <3>2 DEF MovesTo, OthersWait, Unmoved
  <2>3. CASE DecisionConfirmed(r) \/ EvidenceConfirmed(r) \/ ReleaseConfirmed(r)
    <3>1. PICK pc \in Pcs \ {"relaying"} : Confirm(r, pc)
      BY <2>3 DEF DecisionConfirmed, EvidenceConfirmed, ReleaseConfirmed, Pcs
    <3>2. QED
      BY <3>1, StoryTyped, ConfirmMoves DEF MovesTo, OthersWait, Unmoved
  <2>4. CASE RetirementAccepted(r)
    BY <2>4 DEF RetirementAccepted, Unmoved
  <2>5. QED
    BY <1>4, <2>1, <2>2, <2>3, <2>4 DEF Handler
<1>5. ASSUME NEW r \in Requests, RetirementSent(r), ~ Unmoved(q)
      PROVE  /\ q = r /\ call'[q].order = call[q].order
             /\ call'[q].auth = At(q).prepared
  <2>1. call[r].pc # "idle"
    BY <1>5 DEF RetirementSent, Running
  <2>2. MovesTo(r, "relaying", call[r].token, At(r).prepared)
    BY <1>5, <2>1, StoryTyped, NoteMoves
  <2>3. QED
    BY <1>5, <2>2 DEF MovesTo, OthersWait, Unmoved
<1>6. CASE Restart \/ \E r \in Requests : RequestFails(r)
  BY <1>2, <1>6, FailureMoves DEF Story
<1>7. CASE Wallet \/ Base \/ (\E key \in Tokens \X Works : resolveUnresolved(key))
           \/ UNCHANGED serviceVars
  BY <1>2, <1>7 DEF Wallet, Base, previewCarbon, Purchase, submitParcel, Relay, Expire,
                    resolveUnresolved, serviceVars, Unmoved
<1>8. QED
  BY <1>2, <1>3, <1>4, <1>5, <1>6, <1>7 DEF OrdersNext

LEMMA RelayStaysBooked ==
    ASSUME NEW bought \in [Orders -> Tokens], Story(bought), Money(bought),
           [OrdersNext]_serviceVars
    PROVE  RelayBooked(bought)'
<1>1. SUFFICES ASSUME NEW q \in Requests, call'[q].pc = "relaying",
                      auth'[call'[q].auth] \in Live
               PROVE  BookedAt(call[q].auth, KeyOf(bought, call[q].order))'
  BY DEF RelayBooked
<1>2. PICK a : a = call'[q].auth
  OBVIOUS
<1>3. PICK p : p = call[q].order /\ p = call'[q].order
  BY <1>1, WhoRelays
<1>4. call[q].pc \in {"signed", "relaying"}
  BY <1>1, WhoRelays DEF RetirementSent, Running
<1>5. /\ p \in Orders /\ order[p].state # "none" /\ Key(q) = KeyOf(bought, p)
      /\ KeyOf(bought, p) \in Tokens \X Works
  BY <1>3, <1>4, KeyOfARequest, StandsAt
<1>6. KeyOf(bought, p)' = KeyOf(bought, p)
  BY <1>5, KeyStays
<1>7. PICK key \in Tokens \X Works : key = KeyOf(bought, p)
  BY <1>5
<1>8. BookedAt(a, key)'
  <2>1. CASE call[q].pc = "relaying" /\ a = call[q].auth
    <3>1. a \in Auths
      BY <2>1, StoryTells DEF Told
    <3>2. HeldAt(bought, a, key)
      BY <1>3, <1>7, <2>1 DEF HeldAt
    <3>3. auth[a] \in Live
      BY <1>1, <1>2, <3>1, <3>2, LivesOn DEF Story, Money, Fresh
    <3>4. BookedAt(a, key)
      BY <1>3, <1>7, <2>1, <3>3 DEF Money, RelayBooked
    <3>5. QED
      BY <3>1, <3>3, <3>4, BookingStays DEF Money
  <2>2. CASE RetirementSent(q) /\ a = At(q).prepared
    <3>1. ledger' = [ledger EXCEPT ![Key(q)] = [state |-> "attempting", auth |-> a]]
      BY <2>2 DEF RetirementSent
    <3>2. ledger'[key] = [state |-> "attempting", auth |-> a]
      BY <1>5, <1>7, <3>1 DEF Story, Types, LedgerTypes
    <3>3. QED
      BY <3>2 DEF BookedAt, Blocked
  <2>3. QED
    BY <1>1, <1>2, <2>1, <2>2, WhoRelays
<1>9. QED
  BY <1>2, <1>3, <1>6, <1>7, <1>8 DEF BookedAt, Blocked, KeyOf

LEMMA BookedStays ==
    ASSUME NEW bought \in [Orders -> Tokens], Story(bought), Money(bought),
           [OrdersNext]_serviceVars
    PROVE  Booked'
<1>1. SUFFICES ASSUME NEW a \in Auths, auth'[a] \in {"queued", "spent"}
               PROVE  \E key \in Tokens \X Works : BookedAt(a, key)'
  BY DEF Booked
<1>2. CASE auth[a] \in {"queued", "spent"}
  <2>1. PICK key \in Tokens \X Works : BookedAt(a, key)
    BY <1>2 DEF Money, Booked
  <2>2. QED
    BY <1>2, <2>1, BookingStays DEF Money, Live
<1>3. ASSUME NEW r \in Requests, RetirementAccepted(r), call[r].auth = a
      PROVE  \E key \in Tokens \X Works : BookedAt(a, key)'
  <2>1. call[r].pc = "relaying" /\ auth[a] = "prepared" /\ ledger' = ledger
    BY <1>3 DEF RetirementAccepted
  <2>2. PICK key \in Tokens \X Works : key = KeyOf(bought, call[r].order)
    BY <2>1, KeyOfARequest
  <2>3. BookedAt(a, key)
    BY <1>3, <2>1, <2>2 DEF Money, RelayBooked, Live
  <2>4. QED
    BY <2>1, <2>3 DEF BookedAt, Blocked
<1>4. QED
  BY <1>1, <1>2, <1>3, LivesOn DEF Story

LEMMA EvidenceStaysBooked ==
    ASSUME NEW bought \in [Orders -> Tokens], Story(bought), Money(bought),
           [OrdersNext]_serviceVars
    PROVE  EvidenceBooked'
<1>1. SUFFICES ASSUME NEW t \in Tokens, token'[t].evidence # None
               PROVE  /\ auth'[token'[t].evidence] = "spent"
                      /\ \E w \in Works : BookedAt(token[t].evidence, <<t, w>>)'
  BY DEF EvidenceBooked
<1>2. PICK e : e = token'[t].evidence
  OBVIOUS
<1>3. e \in Auths
  BY <1>1, <1>2, TokensAreKept DEF TokenTypes, TokenRecord
<1>4. SUFFICES ASSUME NEW w \in Works, auth[e] = "spent", BookedAt(e, <<t, w>>)
               PROVE  auth'[e] = "spent" /\ BookedAt(e, <<t, w>>)'
  <2>1. \E w \in Works : auth[e] = "spent" /\ BookedAt(e, <<t, w>>)
    <3>1. CASE token[t].evidence = e
      BY <1>1, <1>2, <3>1 DEF Money, EvidenceBooked
    <3>2. ASSUME NEW r \in Requests, EvidenceConfirmed(r), token[t].evidence # e
          PROVE  \E w \in Works : auth[e] = "spent" /\ BookedAt(e, <<t, w>>)
      <4>1. call[r].pc = "evidencing"
        BY <3>2 DEF EvidenceConfirmed
      <4>2. PICK p \in Orders : p = call[r].order /\ Told(bought, r, p)
        BY <4>1, StoryTells DEF Told
      <4>3. /\ call[r].token = bought[p] /\ call[r].auth \in Auths
            /\ auth[call[r].auth] = "spent"
        BY <4>1, <4>2 DEF Told, OnItsToken
      <4>4. e = call[r].auth /\ t = bought[p]
        BY <1>2, <3>2, <4>3, EvidenceEffect DEF Story, Types
      <4>5. PICK key \in Tokens \X Works : BookedAt(e, key)
        BY <1>3, <4>3, <4>4 DEF Money, Booked
      <4>6. key = KeyOf(bought, p)
        <5>1. HeldAt(bought, e, key)
          BY <4>5 DEF HeldAt, BookedAt
        <5>2. HeldAt(bought, e, KeyOf(bought, p))
          BY <4>1, <4>2, <4>4 DEF HeldAt
        <5>3. QED
          BY <1>3, <5>1, <5>2 DEF Money, OneKey
      <4>7. order[p].work \in Works
        BY <4>1, <4>2, StandsAt
      <4>8. BookedAt(e, <<t, order[p].work>>)
        BY <4>4, <4>5, <4>6 DEF KeyOf
      <4>9. QED
        BY <4>3, <4>4, <4>7, <4>8
    <3>3. (\E r \in Requests : EvidenceConfirmed(r)) \/ token'[t].evidence = token[t].evidence
      <4>1. ASSUME NEW r \in Requests, DecisionConfirmed(r)
            PROVE  token'[t].evidence = token[t].evidence
        <5>1. call[r].pc = "deciding"
          BY <4>1 DEF DecisionConfirmed
        <5>2. Told(bought, r, call[r].order)
          BY <5>1, StoryTells
        <5>3. call[r].token \in Tokens /\ call[r].order \in Orders
          BY <5>1, <5>2 DEF Told, OnItsToken
        <5>4. QED
          BY <4>1, <5>3, DecisionEffect DEF Story, Types
      <4>2. ASSUME NEW r \in Requests, ReleaseConfirmed(r)
            PROVE  token'[t].evidence = token[t].evidence
        <5>1. call[r].pc = "releasing"
          BY <4>2 DEF ReleaseConfirmed
        <5>2. Told(bought, r, call[r].order)
          BY <5>1, StoryTells
        <5>3. call[r].token \in Tokens
          BY <5>1, <5>2 DEF Told, OnItsToken
        <5>4. QED
          BY <4>2, <5>3, ReleaseEffect DEF Story, Types
      <4>3. QED
        BY <4>1, <4>2, WhoWritesTokens, PurchaseEffect, SubmitEffect DEF Story, Types
    <3>4. QED
      BY <1>2, <3>1, <3>2, <3>3
  <2>2. QED
    BY <1>2, <2>1 DEF BookedAt, Blocked
<1>5. auth'[e] = "spent"
  BY <1>3, <1>4, AuthsAreKept DEF AuthsKept, Story
<1>6. QED
  BY <1>3, <1>4, <1>5, BookingStays DEF Money, Live

LEMMA MoneyInit ==
    ASSUME NEW bought \in [Orders -> Tokens], OrdersInit
    PROVE  Money(bought)
<1>1. \A a \in Auths : \A key : ~ HeldAt(bought, a, key)
  BY OrdersAssumption DEF OrdersInit, HeldAt, OrderHolds, NoOrder, NoCall
<1>2. RelayBooked(bought)
  BY DEF OrdersInit, RelayBooked, NoCall
<1>3. QED
  BY <1>1, <1>2 DEF OrdersInit, Money, OneKey, Fresh, Booked, EvidenceBooked, NoToken

LEMMA MoneyStep ==
    ASSUME NEW bought \in [Orders -> Tokens], Story(bought), Money(bought),
           [OrdersNext]_serviceVars
    PROVE  Money(bought)'
  BY OneKeyStays, RelayStaysBooked, BookedStays, EvidenceStaysBooked DEF Money

(***************************************************************************)
(* What follows for the runs' properties.                                  *)
(***************************************************************************)
LEMMA MatchesChain ==
    ASSUME NEW bought \in [Orders -> Tokens], Story(bought)
    PROVE  OrderMatchesChain
  BY DEF Story, OrderStory, PastDecision, Matched, OrderMatchesChain

LEMMA SpentOnce ==
    ASSUME NEW bought \in [Orders -> Tokens], Money(bought)
    PROVE  SpentOncePerObligation
<1>1. SUFFICES ASSUME NEW a \in Auths, auth[a] = "spent"
               PROVE  Cardinality({key \in Tokens \X Works : ledger[key].auth = a}) = 1
  BY DEF SpentOncePerObligation
<1>2. PICK k \in Tokens \X Works : ledger[k].auth = a
  BY <1>1 DEF Money, Booked, BookedAt
<1>3. \A key \in Tokens \X Works : ledger[key].auth = a => key = k
  BY <1>2 DEF Money, OneKey, HeldAt
<1>4. {key \in Tokens \X Works : ledger[key].auth = a} = {k}
  BY <1>2, <1>3
<1>5. QED
  BY <1>4, FS_Singleton

LEMMA Released ==
    ASSUME NEW bought \in [Orders -> Tokens], Story(bought), Money(bought), SpendOnlyOnDecision
    PROVE  CompleteMeansReleased
<1>1. SUFFICES ASSUME NEW o \in Orders, order[o].state = "complete"
               PROVE  /\ token[order[o].token].deposit = "released"
                      /\ token[order[o].token].evidence = order[o].receipt
  BY DEF CompleteMeansReleased
<1> DEFINE t == bought[o]
           e == token[t].evidence
           a == order[o].receipt
<1>2. /\ t \in Tokens /\ order[o].token = t /\ token[t].work = order[o].work
      /\ token[t].deposit = "released" /\ e # None
      /\ a # None /\ auth[a] = "spent"
  BY <1>1 DEF Story, OrderStory, PastDecision, Matched
<1>3. a \in Auths /\ e \in Auths
  BY <1>2 DEF Story, Types, OrderTypes, OrderRecord, TokenTypes, TokenRecord
<1>4. PICK w \in Works : BookedAt(e, <<t, w>>)
  BY <1>2 DEF Money, EvidenceBooked
<1>5. w = order[o].work
  BY <1>2, <1>4 DEF SpendOnlyOnDecision, BookedAt, Blocked
<1>6. PICK key \in Tokens \X Works : BookedAt(a, key)
  BY <1>2, <1>3 DEF Money, Booked
<1>7. key = <<t, order[o].work>>
  <2>1. HeldAt(bought, a, key) /\ HeldAt(bought, a, KeyOf(bought, o))
    BY <1>6 DEF HeldAt, OrderHolds, BookedAt
  <2>2. QED
    BY <1>3, <2>1 DEF Money, OneKey, KeyOf
<1>8. e = a
  BY <1>4, <1>5, <1>6, <1>7 DEF BookedAt
<1>9. QED
  BY <1>2, <1>8

\* The story of the service and of its money, for any number of orders,
\* tokens, authorizations and overlapping requests.
THEOREM OrdersAndMoney ==
    ASSUME NEW bought \in [Orders -> Tokens]
    PROVE  OrdersSpec /\ OneTokenEach(bought)
             => [](Story(bought) /\ SpendOnlyOnDecision /\ Money(bought))
<1>1. OrdersInit => Story(bought) /\ SpendOnlyOnDecision /\ Money(bought)
  BY StoryInit, MoneyInit
<1>2. /\ Story(bought) /\ SpendOnlyOnDecision /\ Money(bought)
      /\ [OrdersNext]_serviceVars /\ [Mints(bought)]_serviceVars
      => Story(bought)' /\ SpendOnlyOnDecision' /\ Money(bought)'
  BY StoryStep, SpendStaysDecided, MoneyStep
<1>3. OneTokenEach(bought) <=> [][Mints(bought)]_serviceVars
  BY PTL DEF OneTokenEach, Mints
<1>4. QED
  BY <1>1, <1>2, <1>3, PTL DEF OrdersSpec

\* The store, the chains, the ledger and the requests hold what they may,
\* whatever tokens the buyer claims.
THEOREM OrdersTypesCorrect == OrdersSpec => []OrdersTypeOK
<1>1. OrdersInit => Typed
  BY TypedInit
<1>2. Typed /\ [OrdersNext]_serviceVars => Typed'
  BY TypedStep
<1>3. Typed => OrdersTypeOK
  BY TypesAreTypes DEF Typed
<1>4. QED
  BY <1>1, <1>2, <1>3, PTL DEF OrdersSpec

\* RouteLock's own money is committed only for a token the chain holds an
\* approval of, and only for the work that approval is about.
THEOREM SpendIsDecided ==
    ASSUME NEW bought \in [Orders -> Tokens]
    PROVE  OrdersSpec /\ OneTokenEach(bought) => []SpendOnlyOnDecision
  BY OrdersAndMoney, PTL

\* An order past the decision speaks of the token it names.
THEOREM OrdersMatchTheChain ==
    ASSUME NEW bought \in [Orders -> Tokens]
    PROVE  OrdersSpec /\ OneTokenEach(bought) => []OrderMatchesChain
<1>1. Story(bought) => OrderMatchesChain
  BY MatchesChain
<1>2. QED
  BY <1>1, OrdersAndMoney, PTL

\* Every credit burned is booked to one obligation and no obligation has
\* burned two, however many requests overlapped, failed or were cut short.
THEOREM OrdersSpendOnce ==
    ASSUME NEW bought \in [Orders -> Tokens]
    PROVE  OrdersSpec /\ OneTokenEach(bought) => []SpentOncePerObligation
<1>1. Money(bought) => SpentOncePerObligation
  BY SpentOnce
<1>2. QED
  BY <1>1, OrdersAndMoney, PTL

\* A complete order's deposit went to the issuer, on its own receipt.
THEOREM CompleteOrdersReleased ==
    ASSUME NEW bought \in [Orders -> Tokens]
    PROVE  OrdersSpec /\ OneTokenEach(bought) => []CompleteMeansReleased
<1>1. Story(bought) /\ SpendOnlyOnDecision /\ Money(bought) => CompleteMeansReleased
  BY Released
<1>2. QED
  BY <1>1, OrdersAndMoney, PTL

\* The issuer is paid only when a retirement that happened is on the chain
\* as the token's evidence.
THEOREM ReleasesAreForRetirements ==
    ASSUME NEW bought \in [Orders -> Tokens]
    PROVE  OrdersSpec /\ OneTokenEach(bought) => []ReleasedForRetirement
<1>1. Story(bought) /\ Money(bought) => ReleasedForRetirement
  BY DEF Story, TokenStory, Money, EvidenceBooked, ReleasedForRetirement
<1>2. QED
  BY <1>1, OrdersAndMoney, PTL

\* A service with one token to claim, shared by all its orders, needs no
\* assumption about the buyer.
THEOREM OneTokenService ==
    ASSUME NEW t, Tokens = {t}
    PROVE  OrdersSpec => [](SpentOncePerObligation /\ CompleteMeansReleased)
<1> DEFINE bought == [o \in Orders |-> t]
<1>1. bought \in [Orders -> Tokens]
  OBVIOUS
<1>2. Mints(bought)
  BY DEF Mints
<1> HIDE DEF bought
<1>3. OneTokenEach(bought)
  BY <1>2, PTL DEF OneTokenEach, Mints
<1>4. OrdersSpec /\ OneTokenEach(bought) => []SpentOncePerObligation
  BY <1>1, OrdersSpendOnce
<1>5. OrdersSpec /\ OneTokenEach(bought) => []CompleteMeansReleased
  BY <1>1, CompleteOrdersReleased
<1>6. QED
  BY <1>3, <1>4, <1>5, PTL

(***************************************************************************)
(* The customer's page.                                                    *)
(***************************************************************************)
PageSteps == WalletSteps \cup {"nothing", "post minted", "post submitted", "answer"}

PageRecord == [order : Orders \cup {None}, shows : StateNames, awaits : PageSteps,
               token : Tokens \cup {None}, request : Requests \cup {None}]

PageTypes == /\ page \in PageRecord /\ allowance \in BOOLEAN
             /\ left \subseteq [step : WalletSteps, order : Orders]

\* What the page waits for it has asked in the state it shows.
Phases ==
  /\ page.awaits \in {"approve", "mint", "post minted"} =>
       page.order \in Orders /\ page.shows = "awaiting_mint"
  /\ page.awaits \in {"submit", "post submitted"} =>
       page.order \in Orders /\ page.shows = "awaiting_submit"
  /\ page.awaits = "post minted" => page.token \in Tokens
  /\ page.awaits = "answer" => page.order \in Orders
  /\ page.request # None => page.awaits = "answer"

PageShape == Typed /\ PageTypes /\ Phases

\* Before anything has failed: the wallet is asked for one thing at a time,
\* the page is the one who asked for the request under way,
OneRequest ==
  \A r \in Requests :
    \/ call[r] = NoCall
    \/ /\ page.awaits = "answer" /\ page.request = r
       /\ call[r].live /\ call[r].pc # "idle" /\ call[r].order = page.order
       /\ call[r].pc = "minted" <=> page.shows = "awaiting_mint"

\* it does not offer a mint the service has recorded,
MintsShown ==
  page.order \in Orders /\ page.shows = "awaiting_mint"
    => order[page.order].state = "awaiting_mint"

\* and every token sold is an order's, but for one it is about to report or
\* has reported.
InHand(t) ==
  \/ page.awaits = "post minted" /\ page.token = t
  \/ \E r \in Requests : call[r].pc = "minted" /\ call[r].token = t

Claimed ==
  \A t \in Tokens :
    token[t].state # "none" => InHand(t) \/ \E o \in PastMint : order[o].token = t

Calm == left = {} /\ OneRequest /\ MintsShown /\ Claimed

PageInv == PageShape /\ (failures = 0 => Calm)

\* The counting: an order for each token sold.
LEMMA CalmMeansPaidOnce ==
    ASSUME PageShape, Calm
    PROVE  PaidOnce
<1> DEFINE sold == {t \in Tokens : token[t].state # "none"}
           ordered == {o \in Orders : order[o].state \notin {"none", "refused"}}
           tokenOf == [o \in ordered |-> IF \E t \in Tokens : InHand(t) /\ o = page.order
                                          THEN CHOOSE t \in Tokens : InHand(t)
                                          ELSE order[o].token]
           claimed == {tokenOf[o] : o \in ordered}
<1>1. ASSUME NEW t \in Tokens, InHand(t)
      PROVE  /\ page.order \in ordered \ PastMint
             /\ \A u : InHand(u) => u = t
  <2>1. page.order \in Orders /\ page.shows = "awaiting_mint"
    <3>1. CASE page.awaits = "post minted"
      BY <3>1 DEF PageShape, Phases
    <3>2. ASSUME NEW r \in Requests, call[r].pc = "minted"
          PROVE  page.order \in Orders /\ page.shows = "awaiting_mint"
      BY <3>2 DEF PageShape, Typed, Asking, Calm, OneRequest, NoCall
    <3>3. QED
      BY <1>1, <3>1, <3>2 DEF InHand
  <2>2. order[page.order].state = "awaiting_mint"
    BY <2>1 DEF Calm, MintsShown
  <2>3. ASSUME NEW u, InHand(u) PROVE u = t
    <3>1. \A r \in Requests : call[r].pc = "minted" =>
            page.awaits = "answer" /\ page.request = r
      BY DEF Calm, OneRequest, NoCall
    <3>2. CASE page.awaits = "post minted"
      <4>1. \A r \in Requests : call[r].pc # "minted"
        BY <3>1, <3>2
      <4>2. page.token = t
        BY <1>1, <4>1 DEF InHand
      <4>3. page.token = u
        BY <2>3, <4>1 DEF InHand
      <4>4. QED
        BY <4>2, <4>3
    <3>3. CASE page.awaits # "post minted"
      <4>1. PICK r \in Requests : call[r].pc = "minted" /\ call[r].token = t
        BY <1>1, <3>3 DEF InHand
      <4>2. PICK q \in Requests : call[q].pc = "minted" /\ call[q].token = u
        BY <2>3, <3>3 DEF InHand
      <4>3. q = r
        BY <3>1, <4>1, <4>2
      <4>4. QED
        BY <4>1, <4>2, <4>3
    <3>4. QED
      BY <3>2, <3>3
  <2>4. QED
    BY <2>1, <2>2, <2>3 DEF PastMint
<1>2. ASSUME NEW t \in sold PROVE t \in claimed
  <2>1. CASE InHand(t)
    <3>1. page.order \in ordered /\ \A u : InHand(u) => u = t
      BY <1>1, <2>1
    <3>2. (CHOOSE u \in Tokens : InHand(u)) = t
      BY <2>1, <3>1
    <3>3. tokenOf[page.order] = t
      BY <2>1, <3>1, <3>2
    <3>4. QED
      BY <3>1, <3>3
  <2>2. ASSUME NEW o \in PastMint, order[o].token = t PROVE t \in claimed
    <3>1. o \in ordered
      BY DEF PastMint
    <3>2. ~ \E u \in Tokens : InHand(u) /\ o = page.order
      BY <1>1
    <3>3. tokenOf[o] = t
      BY <2>2, <3>1, <3>2
    <3>4. QED
      BY <3>1, <3>3
  <2>3. QED
    BY <2>1, <2>2 DEF Calm, Claimed
<1>3. IsFiniteSet(ordered)
  <2>1. ordered \subseteq Orders
    OBVIOUS
  <2>2. QED
    BY <2>1, PageAssumption, FS_Subset DEF PageAssumption
<1>4. tokenOf \in Surjection(ordered, claimed)
  BY DEF Surjection
<1>5. IsFiniteSet(claimed) /\ Cardinality(claimed) <= Cardinality(ordered)
  BY <1>3, <1>4, FS_Surjection
<1>6. sold \in SUBSET claimed
  BY <1>2
<1>7. Cardinality(sold) <= Cardinality(claimed) /\ IsFiniteSet(sold)
  BY <1>5, <1>6, FS_Subset
<1>8. /\ Cardinality(sold) \in Nat /\ Cardinality(claimed) \in Nat
      /\ Cardinality(ordered) \in Nat
  BY <1>3, <1>5, <1>7, FS_CardinalityType
<1>9. Cardinality(sold) <= Cardinality(ordered)
  BY <1>5, <1>7, <1>8
<1>10. QED
  BY <1>9 DEF PaidOnce

LEMMA SubmitStaysTyped ==
    ASSUME Typed, NEW t, NEW w \in Works \cup {None}, submitParcel(t, w)
    PROVE  Typed' /\ SoldAsBefore
<1>1. TokenTypes
  BY DEF Typed, Types
<1>2. UNCHANGED <<order, auth, ledger, call, failures>>
  BY DEF submitParcel
<1>3. CASE t \in Tokens
  <2>1. TokenTypes' /\ SoldAsBefore
    BY <1>1, <1>3, SubmitEffect DEF SoldAsBefore
  <2>2. QED
    BY <1>2, <2>1 DEF Typed, Types, OrderTypes, AuthTypes, LedgerTypes, CallTypes, Asking
<1>4. CASE t \notin Tokens
  <2>1. [token EXCEPT ![t].state = "pending", ![t].work = w] = token
    BY <1>1, <1>4 DEF TokenTypes
  <2>2. token' = token
    BY <2>1 DEF submitParcel
  <2>3. QED
    BY <1>2, <2>2
       DEF Typed, Types, OrderTypes, TokenTypes, AuthTypes, LedgerTypes, CallTypes, Asking,
           SoldAsBefore
<1>5. QED
  BY <1>3, <1>4

\* The operator moves and settles tokens, and sells none.
LEMMA OperatorSellsNothing ==
    ASSUME Typed, Operator
    PROVE  /\ Typed' /\ SoldAsBefore /\ order' = order /\ call' = call
           /\ failures' = failures \/ (failures' = failures + 1 /\ failures < MaxFailures)
<1>1. Types /\ TokenTypes /\ Asking
  BY DEF Typed, Types
<1>2. UNCHANGED <<order, auth, ledger, call>>
  BY DEF Operator, Recovery, BeginPass, BeginSettling, PassEnds, ReadDeposit, ReadEvidence,
         ReadState, Settle, PassDies, MarkMoving, MarkDelivered, serviceVars
<1>3. failures' = failures \/ (failures' = failures + 1 /\ failures < MaxFailures)
  BY DEF Operator, Recovery, BeginPass, BeginSettling, PassEnds, ReadDeposit, ReadEvidence,
         ReadState, Settle, PassDies, MarkMoving, MarkDelivered, serviceVars
<1>4. failures' \in 0 .. MaxFailures
  BY <1>1, <1>3, OrdersAssumption DEF Types, OrdersAssumption
<1>5. ASSUME NEW t \in Tokens, NEW new \in TokenRecord, token' = [token EXCEPT ![t] = new],
             new.state = "none" <=> token[t].state = "none"
      PROVE  TokenTypes' /\ SoldAsBefore
  BY <1>1, <1>5 DEF TokenTypes, SoldAsBefore
<1>6. ASSUME NEW t \in Tokens, MarkMoving(t) \/ MarkDelivered(t)
      PROVE  TokenTypes' /\ SoldAsBefore
  <2>1. PICK s \in {"moving", "delivered"} :
          token' = [token EXCEPT ![t].state = s] /\ token[t].state # "none"
    BY <1>6 DEF MarkMoving, MarkDelivered
  <2> DEFINE new == [token[t] EXCEPT !.state = s]
  <2>2. new \in TokenRecord /\ new.state = s
    BY <1>1 DEF TokenTypes, TokenRecord
  <2>3. token' = [token EXCEPT ![t] = new]
    BY <2>1
  <2> HIDE DEF new
  <2>4. QED
    BY <1>5, <2>1, <2>2, <2>3
<1>7. ASSUME NEW t \in Tokens, Settle(t) PROVE TokenTypes' /\ SoldAsBefore
  <2> DEFINE s == IF plan[t] = "release" THEN "released" ELSE "refunded"
             new == [token[t] EXCEPT !.deposit = s]
  <2>1. token' = [token EXCEPT ![t] = new] \/ token' = token
    BY <1>7 DEF Settle
  <2>2. new \in TokenRecord /\ new.state = token[t].state
    BY <1>1 DEF TokenTypes, TokenRecord
  <2> HIDE DEF new
  <2>3. QED
    BY <1>1, <1>5, <2>1, <2>2 DEF TokenTypes, SoldAsBefore
<1>8. \/ token' = token
      \/ \E t \in Tokens : MarkMoving(t) \/ MarkDelivered(t) \/ Settle(t)
  BY DEF Operator, Recovery, BeginPass, BeginSettling, PassEnds, ReadDeposit, ReadEvidence,
         ReadState, PassDies, serviceVars
<1>9. TokenTypes' /\ SoldAsBefore
  BY <1>1, <1>6, <1>7, <1>8 DEF TokenTypes, SoldAsBefore
<1>10. QED
  BY <1>1, <1>2, <1>3, <1>4, <1>9
     DEF Typed, Types, OrderTypes, AuthTypes, LedgerTypes, CallTypes, Asking

\* Most of what page, wallet and chains do is a step of the service's world.
LEMMA PageStaysTyped ==
    ASSUME PageShape, [PageNext]_pageVars
    PROVE  Typed'
<1>1. Typed /\ PageTypes /\ Phases
  BY DEF PageShape
<1>2. ASSUME UNCHANGED serviceVars PROVE Typed'
  BY <1>1, <1>2, TypedStep
<1>3. ASSUME NEW o \in Orders, NEW w \in Works, NEW approved \in BOOLEAN,
             startConsumerOrder(o, w, approved)
      PROVE  Typed'
  BY <1>1, <1>3, TypedStep DEF startConsumerOrder, OrdersNext, Wallet
<1>4. ASSUME NEW asked \in [step : WalletSteps, order : Orders \cup {None}],
             asked.step # "approve" => asked.order \in Orders,
             Approved(asked) \/ (\E t \in Tokens : Minted(asked, t)) \/ Submitted(asked)
      PROVE  Typed'
  <2>1. CASE Approved(asked)
    BY <1>2, <2>1 DEF Approved, UnchangedOrders
  <2>2. ASSUME NEW t \in Tokens, Minted(asked, t) PROVE Typed'
    BY <1>1, <2>2, TypedStep DEF Minted, OrdersNext, Wallet
  <2>3. CASE Submitted(asked)
    <3>1. asked.order \in Orders
      BY <1>4, <2>3 DEF Submitted
    <3>2. order[asked.order].work \in Works \cup {None}
      BY <1>1, <3>1 DEF Typed, Types, OrderTypes, OrderRecord
    <3>3. QED
      BY <1>1, <2>3, <3>2, SubmitStaysTyped DEF Submitted
  <2>4. QED
    BY <1>4, <2>1, <2>2, <2>3
<1>5. ASSUME page.awaits \in WalletSteps
      PROVE  /\ Asked \in [step : WalletSteps, order : Orders \cup {None}]
             /\ Asked.order \in Orders
  BY <1>1, <1>5 DEF PageTypes, PageRecord, Phases, Asked, WalletSteps
<1>6. CASE Wallets
  <2>1. page.awaits \in WalletSteps
    BY <1>6 DEF Wallets, WalletApproves, WalletMints, WalletSubmits, Approved, Minted,
                Submitted, Asked, WalletSteps
  <2>2. \/ Approved(Asked) \/ (\E t \in Tokens : Minted(Asked, t)) \/ Submitted(Asked)
    BY <1>6 DEF Wallets, WalletApproves, WalletMints, WalletSubmits
  <2>3. QED
    BY <1>4, <1>5, <2>1, <2>2
<1>7. ASSUME NEW asked \in left, LateSigned(asked) PROVE Typed'
  <2>1. asked \in [step : WalletSteps, order : Orders]
    BY <1>1 DEF PageTypes
  <2>2. /\ asked \in [step : WalletSteps, order : Orders \cup {None}]
        /\ asked.order \in Orders
    BY <2>1
  <2>3. QED
    BY <1>4, <1>7, <2>2 DEF LateSigned
<1>8. ASSUME NEW r \in Requests, Endpoint(r) PROVE Typed'
  <2>1. \E o \in Orders : Request(r, o)
    BY <1>1, <1>8 DEF PageTypes, PageRecord, Phases, Endpoint, Offered, Request
  <2>2. QED
    BY <1>1, <2>1, TypedStep DEF OrdersNext
<1>9. ASSUME NEW r \in Requests, Serve(r) \/ ServeFails(r) PROVE Typed'
  BY <1>1, <1>9, TypedStep DEF Serve, ServeFails, OrdersNext
<1>10. CASE ServiceRestarts
  BY <1>1, <1>10, TypedStep DEF ServiceRestarts, OrdersNext
<1>11. CASE GivesUp \/ Reload
  <2>1. /\ failures' = failures + 1 /\ failures < MaxFailures
        /\ UNCHANGED <<order, token, auth, ledger, call>>
    BY <1>11 DEF GivesUp, Reload, Fails
  <2>2. failures' \in 0 .. MaxFailures
    BY <1>1, <2>1, OrdersAssumption DEF Typed, Types, OrdersAssumption
  <2>3. QED
    BY <1>1, <2>1, <2>2
       DEF Typed, Types, OrderTypes, TokenTypes, AuthTypes, LedgerTypes, CallTypes, Asking
<1>12. CASE Operator
  BY <1>1, <1>12, OperatorSellsNothing
<1>13. CASE Chains
  BY <1>1, <1>13, TypedStep DEF Chains, OrdersNext
<1>14. CASE \/ Click \/ WalletRefuses \/ PostRefused
            \/ (\E asked \in left : LateRefused(asked)) \/ UNCHANGED pageVars
  BY <1>2, <1>14
     DEF Click, ClickMint, ClickSubmit, WalletRefuses, PostRefused, LateRefused,
         UnchangedOrders, pageVars, recoveryVars
<1>15. QED
  BY <1>3, <1>6, <1>7, <1>8, <1>9, <1>10, <1>11, <1>12, <1>13, <1>14 DEF PageNext, Post

LEMMA IdleShape ==
    ASSUME page \in PageRecord, NEW s \in StateNames, page' = Idle(s)
    PROVE  page' \in PageRecord /\ Phases' /\ page'.awaits = "nothing" /\ page'.shows = s
           /\ page'.order = page.order
<1>1. /\ page' \in PageRecord /\ page'.awaits = "nothing" /\ page'.request = None
      /\ page'.shows = s /\ page'.order = page.order
  BY DEF Idle, PageRecord, PageSteps
<1>2. QED
  BY <1>1 DEF Phases, WalletSteps

LEMMA AwaitsShape ==
    ASSUME page \in PageRecord, NEW step \in PageSteps,
           page' = [page EXCEPT !.awaits = step]
    PROVE  /\ page' \in PageRecord /\ page'.awaits = step /\ page'.shows = page.shows
           /\ page'.order = page.order /\ page'.token = page.token
           /\ page'.request = page.request
  BY DEF PageRecord

LEMMA ClicksShape ==
    ASSUME PageShape, Click
    PROVE  PageTypes' /\ Phases'
<1>1. page \in PageRecord /\ page.order \in Orders /\ ~ consumerBusy
  BY DEF PageShape, PageTypes, PageRecord, Click, ClickMint, ClickSubmit, Offered
<1>2. page.request = None
  BY <1>1 DEF PageShape, Phases, consumerBusy
<1>3. left' = left /\ allowance' = allowance
  BY <1>1 DEF Click, ClickMint, ClickSubmit
<1>4. PICK step \in {"approve", "mint", "submit"} :
        /\ page' = [page EXCEPT !.awaits = step]
        /\ page.shows = IF step = "submit" THEN "awaiting_submit" ELSE "awaiting_mint"
  BY DEF Click, ClickMint, ClickSubmit, Offered
<1>5. step \in PageSteps
  BY DEF PageSteps, WalletSteps
<1>6. /\ page' \in PageRecord /\ page'.awaits = step /\ page'.shows = page.shows
      /\ page'.order = page.order /\ page'.request = page.request
  BY <1>1, <1>4, <1>5, AwaitsShape
<1>7. Phases'
  BY <1>1, <1>2, <1>4, <1>6 DEF Phases
<1>8. QED
  BY <1>3, <1>6, <1>7 DEF PageShape, PageTypes

\* The wallet signs: the page goes on with what it has been waiting for.
LEMMA WalletsShape ==
    ASSUME PageShape, Wallets
    PROVE  PageTypes' /\ Phases'
<1>1. page \in PageRecord /\ Phases /\ allowance \in BOOLEAN
  BY DEF PageShape, PageTypes
<1>2. left' = left
  BY DEF Wallets, WalletApproves, WalletMints, WalletSubmits
<1>3. allowance' \in BOOLEAN
  BY <1>1 DEF Wallets, WalletApproves, WalletMints, WalletSubmits, Approved, Minted, Submitted
<1>4. CASE WalletApproves
  <2>1. page.awaits = "approve" /\ page' = [page EXCEPT !.awaits = "mint"]
    BY <1>4 DEF WalletApproves, Approved, Asked
  <2>2. "mint" \in PageSteps
    BY DEF PageSteps, WalletSteps
  <2>3. QED
    BY <1>1, <1>2, <1>3, <2>1, <2>2, AwaitsShape DEF Phases, PageShape, PageTypes
<1>5. ASSUME NEW t \in Tokens, WalletMints(t) PROVE PageTypes' /\ Phases'
  <2>1. page.awaits = "mint" /\ page' = [page EXCEPT !.awaits = "post minted", !.token = t]
    BY <1>5 DEF WalletMints, Minted, Asked
  <2>2. /\ page' \in PageRecord /\ page'.awaits = "post minted" /\ page'.shows = page.shows
        /\ page'.order = page.order /\ page'.token = t /\ page'.request = page.request
    BY <1>1, <2>1 DEF PageRecord, PageSteps
  <2>3. QED
    BY <1>1, <1>2, <1>3, <2>1, <2>2 DEF Phases, PageShape, PageTypes
<1>6. CASE WalletSubmits
  <2>1. page.awaits = "submit" /\ page' = [page EXCEPT !.awaits = "post submitted"]
    BY <1>6 DEF WalletSubmits, Submitted, Asked
  <2>2. "post submitted" \in PageSteps
    BY DEF PageSteps
  <2>3. QED
    BY <1>1, <1>2, <1>3, <2>1, <2>2, AwaitsShape DEF Phases, PageShape, PageTypes
<1>7. QED
  BY <1>4, <1>5, <1>6 DEF Wallets

LEMMA PageKeepsShape ==
    ASSUME PageShape, Typed', [PageNext]_pageVars
    PROVE  PageTypes' /\ Phases'
<1>1. /\ page \in PageRecord /\ page.shows \in StateNames /\ Phases /\ allowance \in BOOLEAN
      /\ left \subseteq [step : WalletSteps, order : Orders]
  BY DEF PageShape, PageTypes, PageRecord
<1>2. ASSUME page' = page, allowance' = allowance, left' \subseteq left
      PROVE  PageTypes' /\ Phases'
  BY <1>1, <1>2 DEF PageTypes, Phases
<1>3. StillAsked \subseteq [step : WalletSteps, order : Orders]
  <2>1. page.awaits \in WalletSteps => Asked \in [step : WalletSteps, order : Orders]
    BY <1>1 DEF Asked, Phases, WalletSteps
  <2>2. QED
    BY <1>1, <2>1 DEF StillAsked
<1>4. ASSUME NEW s \in StateNames, page' = Idle(s), allowance' = allowance,
             left' \in {left, StillAsked}
      PROVE  PageTypes' /\ Phases'
  BY <1>1, <1>3, <1>4, IdleShape DEF PageTypes
<1>5. ASSUME NEW o \in Orders, NEW w \in Works, NEW approved \in BOOLEAN,
             startConsumerOrder(o, w, approved)
      PROVE  PageTypes' /\ Phases'
  <2>1. /\ page' = [NoPage EXCEPT !.order = o, !.shows = order'[o].state]
        /\ UNCHANGED <<allowance, left>>
    BY <1>5 DEF startConsumerOrder
  <2>2. order'[o].state \in StateNames
    BY DEF Typed, Types, OrderTypes, OrderRecord
  <2>3. page' \in PageRecord /\ page'.awaits = "nothing" /\ page'.request = None
    BY <2>1, <2>2 DEF NoPage, PageRecord, PageSteps
  <2>4. QED
    BY <1>1, <2>1, <2>3 DEF PageTypes, Phases
<1>6. ASSUME WalletRefuses \/ PostRefused PROVE PageTypes' /\ Phases'
  BY <1>1, <1>4, <1>6 DEF WalletRefuses, PostRefused
<1>7. ASSUME NEW asked \in left, LateSigned(asked) \/ LateRefused(asked)
      PROVE  PageTypes' /\ Phases'
  <2>1. page' = page /\ left' = left \ {asked} /\ allowance' \in BOOLEAN
    BY <1>1, <1>7 DEF LateSigned, LateRefused, Approved, Minted, Submitted
  <2>2. QED
    BY <1>1, <2>1 DEF PageTypes, Phases
<1>8. ASSUME NEW r \in Requests, Post(r) PROVE PageTypes' /\ Phases'
  <2>1. page.order \in Orders
    BY <1>1, <1>8 DEF Post, Endpoint, Offered, Phases, PageRecord
  <2>2. /\ page' = [page EXCEPT !.awaits = "answer", !.request = r]
        /\ UNCHANGED <<allowance, left>>
    BY <1>8 DEF Post
  <2>3. /\ page' \in PageRecord /\ page'.awaits = "answer" /\ page'.order = page.order
    BY <1>1, <2>2 DEF PageRecord, PageSteps
  <2>4. QED
    BY <1>1, <2>1, <2>2, <2>3 DEF PageTypes, Phases
<1>9. ASSUME NEW r \in Requests, Serve(r) PROVE PageTypes' /\ Phases'
  <2>1. UNCHANGED <<allowance, left>>
    BY <1>9 DEF Serve
  <2>2. CASE page' = page
    BY <1>2, <2>1, <2>2
  <2>3. CASE page' # page
    <3>1. PICK s : /\ page' = Idle(s) /\ page.request = r
                   /\ s = IF order' # order THEN order'[page.order].state ELSE page.shows
      BY <1>9, <2>3 DEF Serve, Answered
    <3>2. page.order \in Orders
      BY <1>1, <3>1, PageAssumption DEF PageAssumption, Phases
    <3>3. s \in StateNames
      BY <1>1, <3>1, <3>2 DEF Typed, Types, OrderTypes, OrderRecord
    <3>4. QED
      BY <1>4, <2>1, <3>1, <3>3
  <2>4. QED
    BY <2>2, <2>3
<1>10. ASSUME ServiceRestarts \/ \E r \in Requests : ServeFails(r)
       PROVE  PageTypes' /\ Phases'
  <2>1. UNCHANGED <<allowance, left>> /\ (page' = page \/ page' = Idle(page.shows))
    BY <1>10 DEF ServiceRestarts, ServeFails
  <2>2. QED
    BY <1>1, <1>2, <1>4, <2>1
<1>11. CASE GivesUp
  BY <1>1, <1>4, <1>11 DEF GivesUp
<1>12. CASE Reload
  <2>1. page' = NoPage /\ left' = StillAsked /\ allowance' = allowance
    BY <1>12 DEF Reload
  <2>2. page' \in PageRecord /\ page'.awaits = "nothing" /\ page'.request = None
    BY <2>1 DEF NoPage, PageRecord, PageSteps, StateNames
  <2>3. QED
    BY <1>1, <1>3, <2>1, <2>2 DEF PageTypes, Phases
<1>13. CASE UNCHANGED walletVars
  BY <1>2, <1>13 DEF walletVars
<1>14. QED
  BY <1>5, <1>6, <1>7, <1>8, <1>9, <1>10, <1>11, <1>12, <1>13, ClicksShape, WalletsShape
     DEF PageNext, pageVars, walletVars

\* Before anything has failed.
LEMMA NobodyElseAsks ==
    ASSUME Calm, page.awaits # "answer"
    PROVE  \A r \in Requests : call[r] = NoCall /\ call[r].pc = "idle"
<1>1. NoCall.pc = "idle"
  BY DEF NoCall
<1>2. QED
  BY <1>1 DEF Calm, OneRequest

LEMMA CalmCarried ==
    ASSUME Calm, page' = page, left' = left, order' = order, call' = call, SoldAsBefore
    PROVE  Calm'
<1>1. \A t : InHand(t) => InHand(t)'
  BY DEF InHand
<1>2. PastMint' = PastMint
  BY DEF PastMint
<1>3. Claimed'
  BY <1>1, <1>2 DEF Calm, Claimed, SoldAsBefore
<1>4. QED
  BY <1>3 DEF Calm, OneRequest, MintsShown

\* While the page neither reports a mint nor waits for an answer.
LEMMA CalmAtThePage ==
    ASSUME Calm, page.awaits \notin {"answer", "post minted"},
           page'.order = page.order, page'.shows = page.shows,
           left' = left, order' = order, call' = call, SoldAsBefore
    PROVE  Calm'
<1>1. \A r \in Requests : call[r] = NoCall /\ call[r].pc = "idle"
  BY NobodyElseAsks
<1>2. \A t : ~ InHand(t)
  BY <1>1 DEF InHand
<1>3. PastMint' = PastMint
  BY DEF PastMint
<1>4. Claimed'
  BY <1>2, <1>3 DEF Calm, Claimed, SoldAsBefore
<1>5. OneRequest'
  BY <1>1 DEF OneRequest
<1>6. QED
  BY <1>4, <1>5 DEF Calm, MintsShown

LEMMA CalmPreview ==
    ASSUME PageShape, Calm, NEW o \in Orders, NEW w \in Works, NEW approved \in BOOLEAN,
           startConsumerOrder(o, w, approved)
    PROVE  Calm'
<1>1. page.awaits = "nothing" /\ previewCarbon(o, w, approved)
  BY DEF startConsumerOrder, consumerBusy
<1>2. /\ page' = [NoPage EXCEPT !.order = o, !.shows = order'[o].state]
      /\ left' = left /\ token' = token /\ call' = call
  BY DEF startConsumerOrder, previewCarbon
<1>3. page'.order = o /\ page'.shows = order'[o].state
  BY <1>2 DEF NoPage
<1>4. \A p \in Orders : p # o => order'[p] = order[p]
  BY <1>1, PreviewEffect DEF PageShape, Typed, Types
<1>5. o \notin PastMint
  BY <1>1 DEF previewCarbon, NoOrder, PastMint
<1>6. \A p \in PastMint : p \in PastMint' /\ order'[p].token = order[p].token
  BY <1>4, <1>5 DEF PastMint
<1>7. \A r \in Requests : call[r] = NoCall /\ call[r].pc = "idle"
  BY <1>1, NobodyElseAsks
<1>8. \A t : ~ InHand(t)
  BY <1>1, <1>7 DEF InHand
<1>9. Claimed'
  BY <1>2, <1>6, <1>8 DEF Calm, Claimed
<1>10. OneRequest'
  BY <1>2, <1>7 DEF OneRequest
<1>11. QED
  BY <1>2, <1>3, <1>9, <1>10 DEF Calm, MintsShown

LEMMA CalmMint ==
    ASSUME PageShape, Calm, NEW t \in Tokens, WalletMints(t)
    PROVE  Calm'
<1>1. /\ page.awaits = "mint" /\ Purchase(t) /\ left' = left
      /\ page' = [page EXCEPT !.awaits = "post minted", !.token = t]
  BY DEF WalletMints, Minted, Asked
<1>2. /\ page'.awaits = "post minted" /\ page'.token = t /\ page'.order = page.order
      /\ page'.shows = page.shows
  BY <1>1 DEF PageShape, PageTypes, PageRecord
<1>3. order' = order /\ call' = call
  BY <1>1 DEF Purchase
<1>4. \A u \in Tokens : u # t => token'[u] = token[u]
  BY <1>1, PurchaseEffect DEF PageShape, Typed, Types
<1>5. \A r \in Requests : call[r] = NoCall /\ call[r].pc = "idle"
  BY <1>1, NobodyElseAsks
<1>6. \A u : ~ InHand(u)
  BY <1>1, <1>5 DEF InHand
<1>7. InHand(t)'
  BY <1>2 DEF InHand
<1>8. PastMint' = PastMint
  BY <1>3 DEF PastMint
<1>9. Claimed'
  <2>1. SUFFICES ASSUME NEW u \in Tokens, token'[u].state # "none"
                 PROVE  InHand(u)' \/ \E o \in PastMint' : order'[o].token = u
    BY DEF Claimed
  <2>2. CASE u = t
    BY <1>7, <2>2
  <2>3. CASE u # t
    BY <1>3, <1>4, <1>6, <1>8, <2>1, <2>3 DEF Calm, Claimed
  <2>4. QED
    BY <2>2, <2>3
<1>10. OneRequest'
  BY <1>3, <1>5 DEF OneRequest
<1>11. QED
  BY <1>1, <1>2, <1>3, <1>9, <1>10 DEF Calm, MintsShown

\* The page tells the service: what it held in hand the request holds.
LEMMA CalmPost ==
    ASSUME PageShape, Calm, NEW r \in Requests, Post(r)
    PROVE  Calm'
<1>1. page.awaits # "answer" /\ Typed /\ page.order \in Orders
  BY DEF Post, Endpoint, Offered, consumerBusy, PageShape, PageTypes, PageRecord, Phases
<1>2. /\ page' = [page EXCEPT !.awaits = "answer", !.request = r] /\ left' = left
      /\ order' = order /\ token' = token
  BY DEF Post, Endpoint, recordMint, recordSubmitted, prepareRetirement, fulfilRetirement,
         settleOrder, UnchangedChain
<1>3. /\ page'.awaits = "answer" /\ page'.request = r /\ page'.order = page.order
      /\ page'.shows = page.shows
  BY <1>2 DEF PageShape, PageTypes, PageRecord
<1>4. \A q \in Requests : call[q] = NoCall /\ call[q].pc = "idle"
  BY <1>1, NobodyElseAsks
<1> DEFINE Asks(pc, t) ==
             /\ StartsAt(r, page.order, pc, t)
             /\ pc \in {"minted", "submitted", "preparing", "fulfilling", "settling"}
             /\ pc = "minted" <=> page.awaits = "post minted"
             /\ pc = "minted" => t = page.token
             /\ pc = "minted" <=> page.shows = "awaiting_mint"
<1>5. PICK pc, t : Asks(pc, t)
  <2>1. CASE page.awaits = "post minted"
    <3>1. page.token \in Tokens /\ page.shows = "awaiting_mint"
      BY <2>1 DEF PageShape, Phases
    <3>2. recordMint(r, page.order, page.token)
      BY <2>1, <3>1 DEF Post, Endpoint, Offered, consumerBusy
    <3>3. StartsAt(r, page.order, "minted", page.token)
      BY <1>1, <3>1, <3>2, StartMoves
    <3>4. Asks("minted", page.token)
      BY <2>1, <3>1, <3>3
    <3> HIDE DEF Asks
    <3>5. QED
      BY <3>4
  <2>2. CASE page.awaits = "post submitted"
    <3>1. page.shows = "awaiting_submit"
      BY <2>2 DEF PageShape, Phases
    <3>2. recordSubmitted(r, page.order)
      BY <2>2, <3>1 DEF Post, Endpoint, Offered, consumerBusy
    <3>3. PICK t : StartsAt(r, page.order, "submitted", t)
      BY <1>1, <3>2, StartMoves
    <3>4. Asks("submitted", t)
      BY <2>2, <3>1, <3>3
    <3> HIDE DEF Asks
    <3>5. QED
      BY <3>4
  <2>3. CASE page.awaits \notin {"post minted", "post submitted"}
    <3>1. /\ page.shows # "awaiting_mint"
          /\ \/ prepareRetirement(r, page.order) \/ fulfilRetirement(r, page.order)
             \/ settleOrder(r, page.order)
      BY <2>3 DEF Post, Endpoint, Offered
    <3>2. PICK pc \in {"preparing", "fulfilling", "settling"} :
            \E t : StartsAt(r, page.order, pc, t)
      BY <1>1, <3>1, StartMoves
    <3>3. PICK t : StartsAt(r, page.order, pc, t)
      BY <3>2
    <3>4. Asks(pc, t)
      BY <2>3, <3>1, <3>3
    <3> HIDE DEF Asks
    <3>5. QED
      BY <3>4
  <2> HIDE DEF Asks
  <2>4. QED
    BY <2>1, <2>2, <2>3
<1>6. /\ \A q \in Requests : q # r => call'[q] = NoCall
      /\ call'[r].pc = pc /\ call'[r].order = page.order /\ call'[r].live
      /\ call'[r].token = t
  BY <1>4, <1>5 DEF StartsAt, OthersWait
<1>7. OneRequest'
  BY <1>3, <1>5, <1>6 DEF OneRequest
<1>8. \A u : InHand(u) => InHand(u)'
  BY <1>4, <1>5, <1>6 DEF InHand
<1>9. PastMint' = PastMint
  BY <1>2 DEF PastMint
<1>10. Claimed'
  BY <1>2, <1>8, <1>9 DEF Calm, Claimed
<1>11. QED
  BY <1>2, <1>3, <1>7, <1>10 DEF Calm, MintsShown

\* The service works on the request the page waits for, there is no other.
LEMMA CalmService ==
    ASSUME PageShape, Calm, NEW r \in Requests, Serve(r)
    PROVE  Calm'
<1>1. Typed /\ page \in PageRecord /\ Handler(r) /\ left' = left
  BY DEF PageShape, PageTypes, Serve
<1>2. call[r].pc # "idle" /\ GoesOn(r) /\ HandlersWrite(r) /\ SoldAsBefore
  BY <1>1, HandlersGoOn, HandlersAdvance, HandlersSellNothing
<1>3. call[r] # NoCall
  BY <1>2 DEF NoCall
<1>4. /\ page.awaits = "answer" /\ page.request = r /\ call[r].live
      /\ call[r].order = page.order
      /\ call[r].pc = "minted" <=> page.shows = "awaiting_mint"
  BY <1>3 DEF Calm, OneRequest
<1>5. page.order \in Orders
  BY <1>4 DEF PageShape, Phases
<1>6. \A q \in Requests : q # r => call[q] = NoCall /\ call'[q] = NoCall
  BY <1>2, <1>4 DEF Calm, OneRequest, GoesOn, OthersWait
<1>7. ASSUME NEW o \in PastMint
      PROVE  o \in PastMint' /\ order'[o].token = order[o].token
  <2>1. CASE order' = order
    BY <2>1 DEF PastMint
  <2>2. CASE o # call[r].order
    BY <1>2, <2>2 DEF HandlersWrite, PastMint
  <2>3. CASE o = call[r].order /\ order' # order
    <3>1. order[page.order].state # "awaiting_mint"
      BY <1>4, <2>3 DEF PastMint
    <3>2. call[r].pc # "minted"
      BY <1>4, <1>5, <3>1 DEF Calm, MintsShown
    <3>3. QED
      BY <1>2, <2>3, <3>2 DEF HandlersWrite
  <2>4. QED
    BY <2>1, <2>2, <2>3
<1>8. ASSUME NEW t \in Tokens, InHand(t)
      PROVE  \E o \in PastMint' : order'[o].token = t
  <2>1. PICK q \in Requests : call[q].pc = "minted" /\ call[q].token = t
    BY <1>4, <1>8 DEF InHand
  <2>2. q = r
    BY <1>6, <2>1 DEF NoCall
  <2>3. QED
    BY <1>2, <2>1, <2>2 DEF HandlersWrite
<1>9. Claimed'
  BY <1>2, <1>7, <1>8 DEF Calm, Claimed, SoldAsBefore
<1>10. OneRequest' /\ MintsShown'
  <2>1. CASE call'[r] = NoCall
    <3> DEFINE s == IF order' # order THEN order'[page.order].state ELSE page.shows
    <3>1. page' = Idle(s)
      BY <1>4, <2>1 DEF Serve, Answered
    <3>2. page'.order = page.order /\ page'.shows = s
      BY <1>1, <3>1 DEF Idle, PageRecord
    <3>3. OneRequest'
      BY <1>6, <2>1 DEF OneRequest
    <3>4. MintsShown'
      BY <1>5, <3>2 DEF Calm, MintsShown
    <3>5. QED
      BY <3>3, <3>4
  <2>2. CASE call'[r] # NoCall
    <3>1. page' = page
      BY <2>2 DEF Serve, Answered
    <3>2. call[r].pc # "minted"
      BY <1>2, <2>2 DEF HandlersWrite
    <3>3. /\ call'[r].order = call[r].order /\ call'[r].live = call[r].live
          /\ call'[r].pc \notin {"idle", "minted"}
      BY <1>2, <2>2 DEF GoesOn
    <3>4. OneRequest'
      BY <1>4, <1>6, <3>1, <3>2, <3>3 DEF OneRequest
    <3>5. MintsShown'
      BY <1>4, <3>1, <3>2 DEF MintsShown
    <3>6. QED
      BY <3>4, <3>5
  <2>3. QED
    BY <2>1, <2>2
<1>11. QED
  BY <1>1, <1>9, <1>10 DEF Calm

LEMMA CalmStep ==
    ASSUME PageShape, failures = 0, failures' = 0, Calm, [PageNext]_pageVars
    PROVE  Calm'
<1>1. Typed /\ TokenTypes /\ page \in PageRecord
  BY DEF PageShape, PageTypes, Typed, Types
<1>2. token' = token => SoldAsBefore
  BY DEF SoldAsBefore
<1>3. ASSUME NEW o \in Orders, NEW w \in Works, NEW approved \in BOOLEAN,
             startConsumerOrder(o, w, approved)
      PROVE  Calm'
  BY <1>3, CalmPreview
<1>4. CASE Click
  <2>1. /\ page.awaits = "nothing" /\ left' = left /\ UNCHANGED <<order, call, token>>
        /\ \E step : page' = [page EXCEPT !.awaits = step]
    BY <1>4 DEF Click, ClickMint, ClickSubmit, Offered, consumerBusy, UnchangedOrders,
                serviceVars
  <2>2. page'.order = page.order /\ page'.shows = page.shows
    BY <1>1, <2>1 DEF PageRecord
  <2>3. QED
    BY <1>2, <2>1, <2>2, CalmAtThePage
<1>5. CASE WalletApproves \/ WalletSubmits
  <2>1. page.awaits \in {"approve", "submit"} /\ left' = left /\ order' = order /\ call' = call
    BY <1>5 DEF WalletApproves, WalletSubmits, Approved, Submitted, Asked, UnchangedOrders,
                serviceVars, submitParcel
  <2>2. page'.order = page.order /\ page'.shows = page.shows
    BY <1>1, <1>5 DEF WalletApproves, WalletSubmits, PageRecord
  <2>3. SoldAsBefore
    <3>1. CASE WalletApproves
      BY <1>2, <3>1 DEF WalletApproves, Approved, UnchangedOrders, serviceVars
    <3>2. CASE WalletSubmits
      <4>1. page.awaits = "submit"
        BY <3>2 DEF WalletSubmits, Submitted, Asked
      <4>2. page.order \in Orders
        BY <4>1 DEF PageShape, Phases
      <4>3. order[page.order].work \in Works \cup {None}
        BY <1>1, <4>2 DEF Typed, Types, OrderTypes, OrderRecord
      <4>4. submitParcel(order[page.order].token, order[page.order].work)
        BY <3>2 DEF WalletSubmits, Submitted, Asked
      <4>5. QED
        BY <1>1, <4>3, <4>4, SubmitStaysTyped
    <3>3. QED
      BY <1>5, <3>1, <3>2
  <2>4. QED
    BY <2>1, <2>2, <2>3, CalmAtThePage
<1>6. ASSUME NEW t \in Tokens, WalletMints(t) PROVE Calm'
  BY <1>6, CalmMint
<1>7. CASE WalletRefuses \/ PostRefused
  <2>1. page' = Idle(page.shows) /\ left' = left /\ UNCHANGED <<order, call, token>>
    BY <1>7 DEF WalletRefuses, PostRefused, UnchangedOrders, serviceVars
  <2>2. page'.order = page.order /\ page'.shows = page.shows
    BY <1>1, <2>1 DEF Idle, PageRecord
  \* The service takes the report of a mint while nothing has failed.
  <2>3. page.awaits = "post minted" => order[page.order].state = "awaiting_mint"
    BY DEF PageShape, Phases, Calm, MintsShown
  <2>4. page.awaits \notin {"answer", "post minted"}
    BY <1>7, <2>3 DEF WalletRefuses, PostRefused, WalletSteps
  <2>5. QED
    BY <1>2, <2>1, <2>2, <2>4, CalmAtThePage
<1>8. left = {}
  BY DEF Calm
<1>9. ASSUME NEW r \in Requests, Post(r) PROVE Calm'
  BY <1>9, CalmPost
<1>10. ASSUME NEW r \in Requests, Serve(r) PROVE Calm'
  BY <1>10, CalmService
<1>11. ~ (GivesUp \/ Reload \/ ServiceRestarts \/ \E r \in Requests : ServeFails(r))
  BY DEF GivesUp, Reload, Fails, ServiceRestarts, Restart, ServeFails, RequestFails
<1>12. CASE Operator /\ UNCHANGED walletVars
  BY <1>1, <1>12, OperatorSellsNothing, CalmCarried DEF walletVars
<1>13. CASE Chains /\ UNCHANGED walletVars
  <2>1. \A r \in Requests : call[r].live
    BY DEF Calm, OneRequest, NoCall
  <2>2. UNCHANGED <<order, call, token>>
    BY <1>13, <2>1 DEF Chains, Base, Relay, Expire, Forgotten, resolveUnresolved
  <2>3. QED
    BY <1>2, <1>13, <2>2, CalmCarried DEF walletVars
<1>14. CASE UNCHANGED pageVars
  BY <1>2, <1>14, CalmCarried DEF pageVars, walletVars, recoveryVars, serviceVars
<1>15. QED
  BY <1>3, <1>4, <1>5, <1>6, <1>7, <1>8, <1>9, <1>10, <1>11, <1>12, <1>13, <1>14
     DEF PageNext, Wallets, walletVars

LEMMA PageInitially == ASSUME PageInit PROVE PageInv
<1>1. OrdersInit /\ page = NoPage /\ allowance = FALSE /\ left = {}
  BY DEF PageInit, RecoveryInit
<1>2. Typed
  BY <1>1, TypedInit
<1>3. page \in PageRecord /\ page.awaits = "nothing" /\ page.request = None /\ page.order = None
  BY <1>1 DEF NoPage, PageRecord, PageSteps, StateNames
<1>4. PageTypes /\ Phases
  BY <1>1, <1>3 DEF PageTypes, Phases
<1>5. Calm
  BY <1>1, <1>3, OrdersAssumption
     DEF OrdersInit, OrdersAssumption, NoToken, Calm, OneRequest, MintsShown, Claimed
<1>6. QED
  BY <1>2, <1>4, <1>5 DEF PageInv, PageShape

\* Failures are counted and never forgotten.
LEMMA FailuresStand ==
    ASSUME PageShape, [PageNext]_pageVars, failures' = 0
    PROVE  failures = 0
<1>1. failures \in Nat
  BY OrdersAssumption DEF PageShape, Typed, Types, OrdersAssumption
<1>2. ASSUME NEW r \in Requests, Post(r) PROVE failures' = failures
  BY <1>2 DEF Post, Endpoint, UnchangedChain, recordMint, recordSubmitted, prepareRetirement,
              fulfilRetirement, settleOrder
<1>3. ASSUME NEW r \in Requests, Serve(r) PROVE failures' = failures
  BY <1>3
     DEF Serve, Handler, UnchangedChain,
         MintRecorded, WorkChecked, DecisionSent, DecisionConfirmed, DecisionSaved,
         AuthorizationPrepared, PreparedSaved, RetirementSigned, RetirementSent,
         RetirementAccepted, RetirementCertified, ReceiptSaved, EvidenceSent,
         EvidenceConfirmed, ReleaseSent, ReleaseConfirmed, OrderCompleted, RequestRefused
<1>4. \/ GivesUp \/ Reload \/ ServiceRestarts \/ \E r \in Requests : ServeFails(r)
      => failures' = failures + 1
  BY DEF GivesUp, Reload, Fails, ServiceRestarts, Restart, ServeFails, RequestFails
<1>5. \/ Click \/ Wallets \/ WalletRefuses \/ PostRefused \/ UNCHANGED pageVars
      \/ \E asked \in left : LateSigned(asked) \/ LateRefused(asked)
      \/ \E o \in Orders, w \in Works, approved \in BOOLEAN : startConsumerOrder(o, w, approved)
      => failures' = failures
  BY DEF Click, ClickMint, ClickSubmit, Wallets, WalletApproves, WalletMints, WalletSubmits,
         WalletRefuses, PostRefused, LateSigned, LateRefused, startConsumerOrder,
         previewCarbon, Approved, Minted, Submitted, Purchase, submitParcel, UnchangedOrders,
         pageVars, recoveryVars, serviceVars
<1>6. Chains => failures' = failures
  BY DEF Chains, Base, Relay, Expire, Forgotten, UnchangedChain, resolveUnresolved
<1>7. Operator => failures' \in {failures, failures + 1}
  BY OperatorSellsNothing DEF PageShape
<1>8. failures' \in {failures, failures + 1}
  BY <1>2, <1>3, <1>4, <1>5, <1>6, <1>7 DEF PageNext
<1>9. QED
  BY <1>1, <1>8

\* A page's world keeps its shape, through failures and reloads; and until
\* something fails one order's mint is under way at a time.
THEOREM PageCorrect == PageSpec => []PageInv
<1>1. PageInit => PageInv
  BY PageInitially
<1>2. PageInv /\ [PageNext]_pageVars => PageInv'
  <2>1. SUFFICES ASSUME PageInv, [PageNext]_pageVars PROVE PageInv'
    OBVIOUS
  <2>2. Typed'
    BY <2>1, PageStaysTyped DEF PageInv
  <2>3. PageShape'
    BY <2>1, <2>2, PageKeepsShape DEF PageInv, PageShape
  <2>4. failures' = 0 => Calm'
    BY <2>1, FailuresStand, CalmStep DEF PageInv
  <2>5. QED
    BY <2>3, <2>4 DEF PageInv
<1>3. QED
  BY <1>1, <1>2, PTL DEF PageSpec

\* The store, the chain and what the page holds are what they may be.
THEOREM PageTypesCorrect == PageSpec => []PageTypeOK
<1>1. PageInv => PageTypeOK
  BY TypesAreTypes, StateNamesAreOrderStates
     DEF PageInv, PageShape, Typed, PageTypes, PageRecord, PageSteps, PageTypeOK
<1>2. QED
  BY <1>1, PageCorrect, PTL

\* A customer for whom nothing times out and nothing is reloaded pays once for
\* each order, however often the button is pressed and whatever the operator
\* and the recovery script do meanwhile.
THEOREM CustomerPaysOnce == PageSpec => []PaidOnce
<1>1. PageInv => PaidOnce
  <2>1. CASE failures = 0
    BY <2>1, CalmMeansPaidOnce DEF PageInv
  <2>2. CASE failures # 0
    BY <2>2 DEF PaidOnce
  <2>3. QED
    BY <2>1, <2>2
<1>2. QED
  BY <1>1, PageCorrect, PTL
=============================================================================
