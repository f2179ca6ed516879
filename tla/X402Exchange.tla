---------------------------- MODULE X402Exchange ----------------------------
(***************************************************************************)
(* The conversation with the x402 endpoint behind the retirement ledger:   *)
(* KlimaX402Client's posts and retries, the terms the endpoint writes into *)
(* an authorization, the certificate its index serves, and what the API    *)
(* publishes of a retirement.                                              *)
(*                                                                         *)
(* Every post of `prepare-auth` that reaches the endpoint mints a nonce,   *)
(* whether or not its answer arrives, and a lost answer is asked for       *)
(* again.  `actions/retire` is posted once.  A certificate is what the     *)
(* index says: it may come late, and it may credit somebody else.          *)
(*                                                                         *)
(* An authorization's `value` is what the endpoint reports it to be: the   *)
(* caps are checked against that, and it is assumed to be what is signed.  *)
(***************************************************************************)
EXTENDS RetirementLedger

CONSTANTS
  Askers,   \* prepareAuthorization calls under way at one time
  Attempts  \* posts of one request: the backoff's length and one

ASSUME ExchangeAssumption == Attempts \in Nat \ {0}

VARIABLES
  asks,   \* where each prepareAuthorization call stands
  terms,  \* what the endpoint wrote into each nonce it has minted
  index,  \* what the certificate of each nonce's transaction says
  proof   \* the certificate in each nonce's settled record

exchangeVars == <<ledgerVars, asks, terms, index, proof>>

NotAsking == [state |-> "idle"]
NotMinted == [state |-> "unminted"]

\* The terms of an authorization against the order, whichever of chain, token,
\* tonnes, credit and beneficiary is off.
TermsKind == {"as ordered", "substituted"}

\* "no url" is a record without a certificate address.
Certificates == {"credits order", "credits other", "no url"}

ExchangeInit ==
  /\ LedgerInit
  /\ asks = [p \in Askers |-> NotAsking]
  /\ terms = [a \in Auths |-> NotMinted]
  /\ index = [a \in Auths |-> "not indexed"]
  /\ proof = [a \in Auths |-> "none"]

(***************************************************************************)
(* prepareAuthorization, from the duplicate check to the answer.           *)
(***************************************************************************)
asking(p) == asks[p] # NotAsking

prepareAuth(p, k) ==
  /\ ~asking(p)
  /\ ~DuplicateRetirement(k)
  /\ asks' = [asks EXCEPT ![p] = [state |-> "posted", key |-> k, posts |-> 1]]
  /\ UNCHANGED <<ledgerVars, terms, index, proof>>

\* The endpoint serves the post and mints a nonce nobody has seen.
Serves(p, a, value, kind) ==
  /\ asks[p].state = "posted"
  /\ terms[a] = NotMinted
  /\ terms' = [terms EXCEPT ![a] =
                [state |-> kind, key |-> asks[p].key, value |-> value]]
  /\ asks' = [asks EXCEPT ![p] =
               [state |-> "served", key |-> @.key, posts |-> @.posts, nonce |-> a]]
  /\ UNCHANGED <<ledgerVars, index, proof>>

\* A broken connection, or an error whose code is one of RETRYABLE_CODES: the
\* request is posted again after the backoff.
postAgain(p) ==
  /\ asking(p)
  /\ asks[p].posts < Attempts
  /\ asks' = [asks EXCEPT ![p] =
               [state |-> "posted", key |-> @.key, posts |-> @.posts + 1]]
  /\ UNCHANGED <<ledgerVars, terms, index, proof>>

\* Mutant: what comes back is signed unread.
MatchUnread(a) == terms[a] # NotMinted

assertAuthorizationMatchesOrder(a) == terms[a].state = "as ordered"

\* Mutant: only the quoted price is held against the caps, not the answer.
AnsweredUncapped(p) ==
  LET a == asks[p].nonce
  IN  /\ asks[p].state = "served"
      /\ assertAuthorizationMatchesOrder(a)
      /\ prepared' = [prepared EXCEPT ![a] = [key |-> terms[a].key, value |-> terms[a].value,
                                             validBefore |-> now + Validity]]
      /\ asks' = [asks EXCEPT ![p] = NotAsking]
      /\ UNCHANGED <<ledger, calls, chain, snapshot, answer, now, terms, index, proof>>

\* The caps and the duplicate guard, against the answer.
answered(p) ==
  LET a == asks[p].nonce
  IN  /\ asks[p].state = "served"
      /\ assertAuthorizationMatchesOrder(a)
      /\ prepareAuthorization(terms[a].key, a, terms[a].value)
      /\ asks' = [asks EXCEPT ![p] = NotAsking]
      /\ UNCHANGED <<terms, index, proof>>

\* The posts are used up, the error is final, the answer has no signable nonce,
\* does not match the order, or may not be spent.
prepareFails(p) ==
  /\ asking(p)
  /\ asks' = [asks EXCEPT ![p] = NotAsking]
  /\ UNCHANGED <<ledgerVars, terms, index, proof>>

(***************************************************************************)
(* fulfilSigned.                                                           *)
(***************************************************************************)
relaySigned(a) ==
  /\ assertAuthorizationMatchesOrder(a)
  /\ fulfilSigned(a)
  /\ UNCHANGED <<asks, terms, index, proof>>

creditedAsRequested(a) == index[a] = "credits order"

\* The certificate came with the answer or was polled for.
certified(a) ==
  /\ creditedAsRequested(a)
  /\ awaitCertificate(a)
  /\ proof' = [proof EXCEPT ![a] = index[a]]
  /\ UNCHANGED <<asks, terms, index>>

(***************************************************************************)
(* resolveUnresolved: a consumed authorization is settled with whatever    *)
(* certificate the endpoint has at that moment, or with none.              *)
(***************************************************************************)
recovered(a) ==
  IF index[a] \in {"not indexed", "no url"} THEN {"none"} ELSE {"none", index[a]}

closed ==
  /\ recordOutcome
  /\ LET a == answer.attempt.nonce
     IN  IF answer.spent THEN \E url \in recovered(a) : proof' = [proof EXCEPT ![a] = url]
                         ELSE UNCHANGED proof
  /\ UNCHANGED <<asks, terms, index>>

(***************************************************************************)
(* The endpoint's index, the process, and everything.                      *)
(***************************************************************************)
Indexes(a, certificate) ==
  /\ chain[a] = "spent" /\ index[a] = "not indexed"
  /\ index' = [index EXCEPT ![a] = certificate]
  /\ UNCHANGED <<ledgerVars, asks, terms, proof>>

\* The process dies: what it was asking is gone with what it was relaying.
Dies ==
  /\ Crash
  /\ asks' = [p \in Askers |-> NotAsking]
  /\ UNCHANGED <<terms, index, proof>>

Relays ==
  \/ \E a \in Auths : submitRetirement(a) \/ callFails(a) \/ Accept(a) \/ Relay(a)
  \/ resolveUnresolved
  \/ \E r \in snapshot : authorizationOutcome(r)
  \/ resolveFails
  \/ Tick

ExchangeNext ==
  \/ \E p \in Askers :
       \/ \E k \in Keys : prepareAuth(p, k)
       \/ \E a \in Auths, v \in Prices, kind \in TermsKind : Serves(p, a, v, kind)
       \/ postAgain(p) \/ answered(p) \/ prepareFails(p)
  \/ \E a \in Auths : relaySigned(a) \/ certified(a)
  \/ \E a \in Auths, c \in Certificates : Indexes(a, c)
  \/ closed
  \/ Dies
  \/ Relays /\ UNCHANGED <<asks, terms, index, proof>>

ExchangeSpec == ExchangeInit /\ [][ExchangeNext]_exchangeVars

(***************************************************************************)
(* Properties.                                                             *)
(***************************************************************************)

\* Whatever answers are lost, asked for again or substituted, money only moves
\* on the terms of the order it is recorded for.
SpentAsOrdered ==
  \A a \in Auths :
    chain[a] = "spent" => /\ terms[a].state = "as ordered"
                          /\ terms[a].key = prepared[a].key
                          /\ terms[a].value <= perRetirementUsdc

\* What the endpoint answers for a transaction now: its certificate, whoever it
\* credits, or that it knows of no retirement.
verify(a) == IF index[a] = "not indexed" THEN "none" ELSE index[a]

\* The proofs the API may show for an authorization: what verify finds, or the
\* record's own certificate when the endpoint cannot be asked.
readFulfilments(a) == {proof[a], verify(a)}

Settled == {ledger[i].nonce : i \in {j \in DOMAIN ledger : ledger[j].state = "settled"}}

\* What the adapter refuses to publish as proof of an obligation, a certificate
\* that credits somebody else, is published by nobody.
PublishedCreditsOrder == \A a \in Settled : "credits other" \notin readFulfilments(a)
=============================================================================
