--------------------------- MODULE ConsumerOrders ---------------------------
(***************************************************************************)
(* The consumer service (apps/api/src/consumer.ts): one order walks from   *)
(* an approved preview to a retirement and a settled deposit, in requests  *)
(* the browser sends one after the other.  Every handler checks the        *)
(* order's state when it starts, waits for chains and endpoints many       *)
(* times, and writes the order when it ends, without looking at the state  *)
(* again.  Nothing locks an order: requests on one order may overlap.      *)
(*                                                                         *)
(* A handler assigns the order's fields and appends it to the JSONL file   *)
(* in one synchronous stretch, so the map and the file agree on all that   *)
(* is modelled and a restart loses only the requests in flight.  The store *)
(* is the variable `order'.  Of the chain this module keeps what the       *)
(* service reads and writes; ActivationRegistry, SettlementEscrow and      *)
(* RetirementLedger hold the detail.  A piece of work is a model value:    *)
(* its hashes, its tonnes and its beneficiary are functions of it.         *)
(***************************************************************************)
EXTENDS Integers, FiniteSets

CONSTANTS
  Orders, Tokens, Works, Requests,
  Auths,        \* authorization nonces the x402 endpoint may mint
  None,
  Expiry,       \* TRUE: a prepared authorization may run out before it is used
  MaxFailures   \* bound: requests cut short

ASSUME OrdersAssumption ==
  /\ Expiry \in BOOLEAN /\ MaxFailures \in Nat
  /\ None \notin Orders \cup Tokens \cup Works \cup Auths

VARIABLES
  order,     \* the store: state, work, token, prepared authorization, receipt
  token,     \* per entitlement: lifecycle, bound work, decision, evidence, deposit
  auth,      \* what became of each authorization on Base
  ledger,    \* the retirement ledger's latest record per idempotency key
  call,      \* where each request in flight stands
  failures

serviceVars == <<order, token, auth, ledger, call, failures>>

NoOrder == [state |-> "none", work |-> None, token |-> None, prepared |-> None, receipt |-> None]
NoToken == [state |-> "none", work |-> None, decision |-> None, evidence |-> None,
            deposit |-> "none"]
NoCall  == [pc |-> "idle", order |-> None, token |-> None, signed |-> None, auth |-> None,
            live |-> TRUE]

OrdersInit ==
  /\ order = [o \in Orders |-> NoOrder]
  /\ token = [t \in Tokens |-> NoToken]
  /\ auth = [a \in Auths |-> "unseen"]
  /\ ledger = [key \in Tokens \X Works |-> [state |-> "none", auth |-> None]]
  /\ call = [r \in Requests |-> NoCall]
  /\ failures = 0

(***************************************************************************)
(* Requests.                                                               *)
(***************************************************************************)

\* The order a request is about, as the store holds it now.
At(r) == order[call[r].order]

\* The key the ledger files a request's retirement under.
Key(r) == <<call[r].token, At(r).work>>

Blocked(key) == ledger[key].state \in {"attempting", "settled"}

\* Nothing keeps a request waiting while another of the same order runs.
Start(r, o, pc, t) ==
  /\ call[r] = NoCall
  /\ call' = [call EXCEPT ![r] = [NoCall EXCEPT !.pc = pc, !.order = o, !.token = t]]

Running(r, pc) == call[r].live /\ call[r].pc = pc

Goto(r, pc) == call' = [call EXCEPT ![r].pc = pc]

\* A transaction confirms for a request that may be gone by then.
Confirm(r, pc) ==
  call' = [call EXCEPT ![r] = IF call[r].live THEN [@ EXCEPT !.pc = pc] ELSE NoCall]

Answer(r) == call' = [call EXCEPT ![r] = NoCall]

UnchangedChain == UNCHANGED <<token, auth, ledger, failures>>

(***************************************************************************)
(* previewCarbon.  The ruling is the compliance engine's.                  *)
(***************************************************************************)
previewCarbon(o, w, approved) ==
  /\ order[o] = NoOrder
  /\ order' = [order EXCEPT ![o].work = w,
                            ![o].state = IF approved THEN "awaiting_mint" ELSE "refused"]
  /\ UNCHANGED <<token, auth, ledger, call, failures>>

(***************************************************************************)
(* recordMint.  The transaction names the token; no other order is asked   *)
(* whether it has claimed it already.                                      *)
(***************************************************************************)
recordMint(r, o, t) ==
  /\ order[o].state = "awaiting_mint"
  /\ token[t].state # "none"
  /\ Start(r, o, "minted", t)
  /\ UNCHANGED order /\ UnchangedChain

MintRecorded(r) ==
  /\ Running(r, "minted")
  /\ order' = [order EXCEPT ![call[r].order].token = call[r].token,
                            ![call[r].order].state = "awaiting_submit"]
  /\ Answer(r)
  /\ UnchangedChain

(***************************************************************************)
(* recordSubmitted.  The token is read from the order again after each     *)
(* wait; the decision is sent for the one the order names then.            *)
(***************************************************************************)
recordSubmitted(r, o) ==
  /\ order[o].state = "awaiting_submit"
  /\ Start(r, o, "submitted", order[o].token)
  /\ UNCHANGED order /\ UnchangedChain

\* Mutant: the work the chain holds is not compared with the order's.
WorkUnchecked(r) ==
  /\ Running(r, "submitted")
  /\ token[At(r).token].state = "pending"
  /\ Goto(r, "checked")
  /\ UNCHANGED order /\ UnchangedChain

WorkChecked(r) ==
  /\ Running(r, "submitted")
  /\ token[At(r).token].state = "pending"
  /\ token[At(r).token].work = At(r).work
  /\ Goto(r, "checked")
  /\ UNCHANGED order /\ UnchangedChain

\* The client reads the token's state once more and simulates, then sends.
DecisionSent(r) ==
  /\ Running(r, "checked")
  /\ token[At(r).token].state = "pending"
  /\ call' = [call EXCEPT ![r].pc = "deciding", ![r].token = At(r).token]
  /\ UNCHANGED order /\ UnchangedChain

\* Mutant: goes on once the decision is sent.
DecisionUnwaited(r) ==
  /\ call[r].pc = "deciding"
  /\ Confirm(r, "decided")
  /\ UNCHANGED <<order, token, auth, ledger, failures>>

\* It waits for the receipt and does not look at its status: a reverted
\* transaction goes on like a successful one.
DecisionConfirmed(r) ==
  /\ call[r].pc = "deciding"
  /\ LET t == call[r].token
     IN  token' = IF token[t].state = "pending"
                  THEN [token EXCEPT ![t].state = "activated", ![t].decision = call[r].order]
                  ELSE token
  /\ Confirm(r, "decided")
  /\ UNCHANGED <<order, auth, ledger, failures>>

\* Only an approved order gets here.
DecisionSaved(r) ==
  /\ Running(r, "decided")
  /\ order' = [order EXCEPT ![call[r].order].state = "awaiting_retirement"]
  /\ Answer(r)
  /\ UnchangedChain

(***************************************************************************)
(* prepareRetirement.                                                      *)
(***************************************************************************)
prepareRetirement(r, o) ==
  /\ order[o].state = "awaiting_retirement"
  /\ ~Blocked(<<order[o].token, order[o].work>>)
  /\ Start(r, o, "preparing", order[o].token)
  /\ UNCHANGED order /\ UnchangedChain

\* prepare-auth answers with a fresh nonce, checked against the caps.
AuthorizationPrepared(r, a) ==
  /\ Running(r, "preparing")
  /\ auth[a] = "unseen" /\ ~Blocked(Key(r))
  /\ auth' = [auth EXCEPT ![a] = "prepared"]
  /\ call' = [call EXCEPT ![r].pc = "prepared", ![r].auth = a]
  /\ UNCHANGED <<order, token, ledger, failures>>

\* Mutant: the authorization is not kept.
PreparedForgotten(r) ==
  /\ Running(r, "prepared")
  /\ order' = [order EXCEPT ![call[r].order].state = "awaiting_relayer"]
  /\ Answer(r)
  /\ UnchangedChain

\* The relayer's balance suffices.
PreparedSaved(r) ==
  /\ Running(r, "prepared")
  /\ order' = [order EXCEPT ![call[r].order].prepared = call[r].auth,
                            ![call[r].order].state = "awaiting_relayer"]
  /\ Answer(r)
  /\ UnchangedChain

(***************************************************************************)
(* fulfilRetirement.  The obligation is fixed when the request starts, the *)
(* authorization is read again before signing and before sending.          *)
(***************************************************************************)
fulfilRetirement(r, o) ==
  /\ order[o].state = "awaiting_relayer"
  /\ order[o].prepared # None
  /\ Start(r, o, "fulfilling", order[o].token)
  /\ UNCHANGED order /\ UnchangedChain

RetirementSigned(r) ==
  /\ Running(r, "fulfilling")
  /\ At(r).prepared # None
  /\ call' = [call EXCEPT ![r].pc = "signed", ![r].signed = At(r).prepared]
  /\ UNCHANGED order /\ UnchangedChain

\* Mutant: the retirement is sent although the ledger has one outstanding.
SentUnlessSettled(r) ==
  /\ Running(r, "signed")
  /\ At(r).prepared # None
  /\ ledger[Key(r)].state # "settled"
  /\ ledger' = [ledger EXCEPT ![Key(r)] = [state |-> "attempting", auth |-> At(r).prepared]]
  /\ call' = [call EXCEPT ![r].pc = "relaying", ![r].auth = At(r).prepared]
  /\ UNCHANGED <<order, token, auth, failures>>

\* fulfilSigned: check, record, send, without a wait in between.
RetirementSent(r) ==
  /\ Running(r, "signed")
  /\ At(r).prepared # None
  /\ ~Blocked(Key(r))
  /\ ledger' = [ledger EXCEPT ![Key(r)] = [state |-> "attempting", auth |-> At(r).prepared]]
  /\ call' = [call EXCEPT ![r].pc = "relaying", ![r].auth = At(r).prepared]
  /\ UNCHANGED <<order, token, auth, failures>>

\* The endpoint takes the request if the signature is over the same
\* authorization, even when the service is no longer waiting.
RetirementAccepted(r) ==
  /\ call[r].pc = "relaying"
  /\ call[r].signed = call[r].auth /\ auth[call[r].auth] = "prepared"
  /\ auth' = [auth EXCEPT ![call[r].auth] = "queued"]
  /\ UNCHANGED <<order, token, ledger, call, failures>>

\* The retirement mined and its certificate is out.
RetirementCertified(r) ==
  /\ Running(r, "relaying")
  /\ auth[call[r].auth] = "spent"
  /\ ledger' = [ledger EXCEPT ![Key(r)] = [state |-> "settled", auth |-> call[r].auth]]
  /\ Goto(r, "certified")
  /\ UNCHANGED <<order, token, auth, failures>>

ReceiptSaved(r) ==
  /\ Running(r, "certified")
  /\ order' = [order EXCEPT ![call[r].order].receipt = call[r].auth,
                            ![call[r].order].state = "provider_settled",
                            ![call[r].order].prepared = None]
  /\ Goto(r, "settling")
  /\ UnchangedChain

(***************************************************************************)
(* settle, at the end of fulfilRetirement or for a request of its own.     *)
(***************************************************************************)
settleOrder(r, o) ==
  /\ order[o].state = "provider_settled"
  /\ Start(r, o, "settling", None)
  /\ UNCHANGED order /\ UnchangedChain

Evidenced(r) ==
  /\ At(r).token # None /\ At(r).receipt # None
  /\ token[At(r).token].evidence = At(r).receipt

\* The evidence was just sent, or was on the chain already.
DepositNext(r) == \/ Running(r, "evidenced")
                  \/ Running(r, "settling") /\ Evidenced(r)

\* recordCarrier is permitted from approval until delivery.
TakesEvidence(t) == token[t].state \in {"activated", "moving"}

EvidenceSent(r) ==
  /\ Running(r, "settling")
  /\ At(r).token # None /\ At(r).receipt # None
  /\ ~Evidenced(r) /\ TakesEvidence(At(r).token)
  /\ call' = [call EXCEPT ![r].pc = "evidencing", ![r].token = At(r).token,
                          ![r].auth = At(r).receipt]
  /\ UNCHANGED order /\ UnchangedChain

EvidenceConfirmed(r) ==
  /\ call[r].pc = "evidencing"
  /\ LET t == call[r].token
     IN  token' = IF TakesEvidence(t)
                  THEN [token EXCEPT ![t].evidence = call[r].auth] ELSE token
  /\ Confirm(r, "evidenced")
  /\ UNCHANGED <<order, auth, ledger, failures>>

ReleaseSent(r) ==
  /\ DepositNext(r)
  /\ token[At(r).token].deposit = "held"
  /\ call' = [call EXCEPT ![r].pc = "releasing", ![r].token = At(r).token]
  /\ UNCHANGED order /\ UnchangedChain

\* Here too a revert goes unnoticed.
ReleaseConfirmed(r) ==
  /\ call[r].pc = "releasing"
  /\ LET t == call[r].token
     IN  token' = IF token[t].deposit = "held"
                  THEN [token EXCEPT ![t].deposit = "released"] ELSE token
  /\ Confirm(r, "settled")
  /\ UNCHANGED <<order, auth, ledger, failures>>

\* Mutant: completes on the evidence, whatever became of the deposit.
CompletedOnEvidence(r) ==
  /\ Running(r, "settled") \/ DepositNext(r)
  /\ order' = [order EXCEPT ![call[r].order].state = "complete"]
  /\ Answer(r)
  /\ UnchangedChain

\* A deposit somebody else has settled is taken as settled, either way.
OrderCompleted(r) ==
  /\ \/ Running(r, "settled")
     \/ /\ DepositNext(r)
        /\ token[At(r).token].deposit # "held"
  /\ order' = [order EXCEPT ![call[r].order].state = "complete"]
  /\ Answer(r)
  /\ UnchangedChain

\* A check after a wait does not hold, or the endpoint declines: the handler
\* throws and the order stays as it is.
RequestRefused(r) ==
  /\ \/ /\ Running(r, "submitted")
        /\ \/ token[At(r).token].state # "pending"
           \/ token[At(r).token].work # At(r).work
     \/ Running(r, "checked") /\ token[At(r).token].state # "pending"
     \/ Running(r, "preparing") /\ Blocked(Key(r))
     \/ /\ Running(r, "fulfilling") \/ Running(r, "signed")
        /\ At(r).prepared = None \/ Blocked(Key(r))
     \/ /\ Running(r, "relaying")
        /\ call[r].signed # call[r].auth \/ auth[call[r].auth] = "expired"
     \/ /\ Running(r, "settling") /\ ~Evidenced(r)
        /\ At(r).token # None => ~TakesEvidence(At(r).token)
  /\ Answer(r)
  /\ UNCHANGED order /\ UnchangedChain

(***************************************************************************)
(* Failure.  A handler's RPC fails or times out; a restart does it to all  *)
(* of them.  What was sent may still confirm.                              *)
(***************************************************************************)
InFlight == {"deciding", "relaying", "evidencing", "releasing"}

Abandoned(c) == IF c.pc \in InFlight THEN [c EXCEPT !.live = FALSE] ELSE NoCall

RequestFails(r) ==
  /\ failures < MaxFailures
  /\ call[r].live /\ call[r].pc # "idle"
  /\ failures' = failures + 1
  /\ call' = [call EXCEPT ![r] = Abandoned(@)]
  /\ UNCHANGED <<order, token, auth, ledger>>

Restart ==
  /\ failures < MaxFailures
  /\ \E r \in Requests : call[r].live /\ call[r].pc # "idle"
  /\ failures' = failures + 1
  /\ call' = [r \in Requests |-> Abandoned(call[r])]
  /\ UNCHANGED <<order, token, auth, ledger>>

Forgotten(r) ==
  /\ ~call[r].live
  /\ Answer(r)
  /\ UNCHANGED order /\ UnchangedChain

(***************************************************************************)
(* The buyer's wallet, Base, and the ledger's recovery pass.               *)
(***************************************************************************)
Purchase(t) ==
  /\ token[t].state = "none"
  /\ token' = [token EXCEPT ![t].state = "available", ![t].deposit = "held"]
  /\ UNCHANGED <<order, auth, ledger, call, failures>>

\* The buyer binds work some order was ruled on.
submitParcel(t, w) ==
  /\ token[t].state = "available"
  /\ \E o \in Orders : order[o].token = t /\ order[o].work = w
  /\ token' = [token EXCEPT ![t].state = "pending", ![t].work = w]
  /\ UNCHANGED <<order, auth, ledger, call, failures>>

Relay(a) ==
  /\ auth[a] = "queued"
  /\ auth' = [auth EXCEPT ![a] = "spent"]
  /\ UNCHANGED <<order, token, ledger, call, failures>>

\* The authorization's validBefore passes.
Expire(a) ==
  /\ Expiry
  /\ auth[a] \in {"prepared", "queued"}
  /\ auth' = [auth EXCEPT ![a] = "expired"]
  /\ UNCHANGED <<order, token, ledger, call, failures>>

\* resolveUnresolved, run over an attempt nobody is waiting for any more.
resolveUnresolved(key) ==
  /\ ledger[key].state = "attempting"
  /\ auth[ledger[key].auth] \in {"spent", "expired"}
  /\ ledger' = [ledger EXCEPT ![key].state =
                  IF auth[ledger[key].auth] = "spent" THEN "settled" ELSE "failed"]
  /\ UNCHANGED <<order, token, auth, call, failures>>

Handler(r) ==
  \/ MintRecorded(r)
  \/ WorkChecked(r) \/ DecisionSent(r) \/ DecisionConfirmed(r) \/ DecisionSaved(r)
  \/ \E a \in Auths : AuthorizationPrepared(r, a)
  \/ PreparedSaved(r)
  \/ RetirementSigned(r) \/ RetirementSent(r) \/ RetirementAccepted(r)
  \/ RetirementCertified(r) \/ ReceiptSaved(r)
  \/ EvidenceSent(r) \/ EvidenceConfirmed(r) \/ ReleaseSent(r) \/ ReleaseConfirmed(r)
  \/ OrderCompleted(r) \/ RequestRefused(r)

Request(r, o) ==
  \/ \E t \in Tokens : recordMint(r, o, t)
  \/ recordSubmitted(r, o) \/ prepareRetirement(r, o)
  \/ fulfilRetirement(r, o) \/ settleOrder(r, o)

Wallet ==
  \/ \E o \in Orders, w \in Works, approved \in BOOLEAN : previewCarbon(o, w, approved)
  \/ \E t \in Tokens : Purchase(t) \/ \E w \in Works : submitParcel(t, w)

Base == \E a \in Auths : Relay(a) \/ Expire(a)

OrdersNext ==
  \/ \E r \in Requests : \/ Handler(r) \/ RequestFails(r) \/ Forgotten(r)
                         \/ \E o \in Orders : Request(r, o)
  \/ Restart
  \/ Wallet \/ Base
  \/ \E key \in Tokens \X Works : resolveUnresolved(key)

OrdersSpec == OrdersInit /\ [][OrdersNext]_serviceVars

(***************************************************************************)
(* Properties.                                                             *)
(***************************************************************************)
OrderStates ==
  <<"none", "refused", "awaiting_mint", "awaiting_submit", "awaiting_retirement",
    "awaiting_relayer", "provider_settled", "complete">>

Pcs ==
  {"idle", "minted", "submitted", "checked", "deciding", "decided", "preparing",
   "prepared", "fulfilling", "signed", "relaying", "certified", "settling",
   "evidencing", "evidenced", "releasing", "settled"}

\* Type invariant: what the store, the chains, the ledger and the requests hold.
OrdersTypeOK ==
  /\ order \in [Orders -> [state : {OrderStates[i] : i \in DOMAIN OrderStates},
                           work : Works \cup {None}, token : Tokens \cup {None},
                           prepared : Auths \cup {None}, receipt : Auths \cup {None}]]
  /\ token \in [Tokens -> [state : {"none", "available", "pending", "activated", "moving", "delivered"},
                           work : Works \cup {None}, decision : Orders \cup {None},
                           evidence : Auths \cup {None},
                           deposit : {"none", "held", "released", "refunded"}]]
  /\ auth \in [Auths -> {"unseen", "prepared", "queued", "spent", "expired"}]
  /\ ledger \in [Tokens \X Works -> [state : {"none", "attempting", "settled", "failed"},
                                     auth : Auths \cup {None}]]
  /\ call \in [Requests -> [pc : Pcs, order : Orders \cup {None}, token : Tokens \cup {None},
                            signed : Auths \cup {None}, auth : Auths \cup {None},
                            live : BOOLEAN]]
  /\ failures \in 0..MaxFailures

\* RouteLock's own money is committed on Base only for a token the chain
\* holds an approval of, and only for the work that approval is about.
SpendOnlyOnDecision ==
  \A t \in Tokens, w \in Works :
    ledger[<<t, w>>].state # "none" => token[t].decision # None /\ token[t].work = w

\* Every credit burned is booked to one obligation, and no obligation has
\* burned two, whoever was still waiting when it happened: two orders may
\* have claimed one token, and one order may be retired by two requests.
SpentOncePerObligation ==
  \A a \in Auths :
    auth[a] = "spent" => Cardinality({key \in Tokens \X Works : ledger[key].auth = a}) = 1

\* An order that has passed the decision speaks of the token it names: the
\* chain approved that token for that work, even when the order's own
\* transaction reverted behind another order's.
OrderMatchesChain ==
  \A o \in Orders :
    order[o].state \in {"awaiting_retirement", "awaiting_relayer", "provider_settled", "complete"}
    => /\ token[order[o].token].decision # None
       /\ token[order[o].token].work = order[o].work

\* The issuer is paid for a token only when the evidence on the chain is the
\* receipt of a retirement that happened, or delivery has been reported, which
\* closes the record to evidence.  This holds while a buyer purchases one token
\* for each order; with a second one (MCCustomerPage) a late recordMint gives an
\* order another token between its evidence and its release.
ReleasedForRetirement ==
  \A t \in Tokens :
    token[t].deposit = "released" =>
      \/ token[t].evidence # None /\ auth[token[t].evidence] = "spent"
      \/ token[t].state = "delivered" /\ token[t].evidence = None

\* A complete order's deposit went to the issuer, on its own receipt.
CompleteMeansReleased ==
  \A o \in Orders :
    order[o].state = "complete" =>
      /\ token[order[o].token].deposit = "released"
      /\ token[order[o].token].evidence = order[o].receipt

Rank(s) == CHOOSE i \in DOMAIN OrderStates : OrderStates[i] = s

\* An order never goes back to a step it has left.  It does: the slower of two
\* requests for one step writes its result over what the faster led to.
NeverBackwards ==
  [][\A o \in Orders : Rank(order[o].state) <= Rank(order[o].state)']_serviceVars
=============================================================================
