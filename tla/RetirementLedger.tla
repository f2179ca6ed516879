------------------------- MODULE RetirementLedger -------------------------
(***************************************************************************)
(* Carbon retirement over x402: the append-only spending ledger, the       *)
(* adapter that writes to it before it spends, and the recovery pass that  *)
(* asks the chain what happened.                                           *)
(*                                                                         *)
(* A retirement is paid with a signed EIP-3009 authorization, identified   *)
(* by its nonce.  The endpoint relays it at most once and only before      *)
(* `validBefore`, possibly long after the caller's connection died.  The   *)
(* ledger is a file: it survives a crash, and the calls in flight do not.  *)
(***************************************************************************)
EXTENDS Totals, Sequences, FiniteSetsExt

CONSTANTS
  Keys,              \* idempotency keys, one per obligation
  Auths,             \* authorization nonces the endpoint may mint
  Prices,            \* values an authorization may have
  perRetirementUsdc, \* the cap on one authorization
  dailyUsdc,         \* the cap on a trailing day
  Day,               \* ticks in the trailing window
  Validity,          \* ticks an authorization stays relayable
  ExpiredOnly,       \* TRUE: recovery is run only over expired authorizations
  MaxRecords,        \* bound on the ledger's length
  MaxTime            \* bound on the clock

\* capsFromEnv refuses to start with any other.
SpendCaps == Nat \ {0}

ASSUME LedgerAssumption ==
  /\ Prices \subseteq Nat
  /\ perRetirementUsdc \in SpendCaps /\ dailyUsdc \in SpendCaps
  /\ Day \in Nat \ {0} /\ Validity \in Nat \ {0}
  /\ ExpiredOnly \in BOOLEAN
  /\ MaxRecords \in Nat /\ MaxTime \in Nat

VARIABLES
  ledger,    \* the JSONL file, oldest record first
  prepared,  \* what the endpoint prepared under each nonce, NotPrepared if nothing
  calls,     \* where each nonce's fulfilSigned call stands
  chain,     \* what became of each nonce outside this process
  snapshot,  \* the attempts a running resolveUnresolved has still to ask about
  answer,    \* the attempt it has just asked about, and the chain's answer
  now

ledgerVars == <<ledger, prepared, calls, chain, snapshot, answer, now>>

\* "abandoned" is declared too, and nothing writes it.
AttemptState == {"attempting", "settled", "failed"}

LedgerRecord ==
  [key : Keys, state : AttemptState, at : 0..MaxTime, value : Prices, nonce : Auths]

NotPrepared == [value |-> 0]
NoRecord    == [state |-> "none"]
NoAnswer    == [spent |-> FALSE]

LedgerInit ==
  /\ ledger = <<>>
  /\ prepared = [a \in Auths |-> NotPrepared]
  /\ calls = [a \in Auths |-> "none"]
  /\ chain = [a \in Auths |-> "unseen"]
  /\ snapshot = {}
  /\ answer = NoAnswer
  /\ now = 0

(***************************************************************************)
(* RetirementLedger: reading the file.                                     *)
(***************************************************************************)
latest(k) ==
  LET lines == {i \in DOMAIN ledger : ledger[i].key = k}
  IN  IF lines = {} THEN NoRecord ELSE ledger[Max(lines)]

\* An attempt outstanding or settled refuses another; a failed one does not.
DuplicateRetirement(k) == latest(k).state \notin {"none", "failed", "abandoned"}

\* Mutant: only confirmed spending counts.
ConfirmedSpending == {"settled"}

Spending == {"attempting", "settled"}

spentLast24h ==
  Total([i \in DOMAIN ledger |-> ledger[i].value],
        {i \in DOMAIN ledger : /\ ledger[i].state \in Spending
                               /\ ledger[i].at >= now - Day})

assertMaySpend(k, value) ==
  /\ ~DuplicateRetirement(k)
  /\ value <= perRetirementUsdc
  /\ spentLast24h + value <= dailyUsdc

unresolved == {r \in {latest(k) : k \in Keys} : r.state = "attempting"}

record(r) == ledger' = Append(ledger, r)

Attempt(a, state) ==
  [key |-> prepared[a].key, state |-> state, at |-> now,
   value |-> prepared[a].value, nonce |-> a]

(***************************************************************************)
(* CarbonmarkX402Adapter.                                                  *)
(***************************************************************************)

\* The endpoint mints a fresh nonce; the caps are checked against its price
\* before anything is signed, and nothing is written.
prepareAuthorization(k, a, value) ==
  /\ prepared[a] = NotPrepared
  /\ assertMaySpend(k, value)
  /\ prepared' = [prepared EXCEPT ![a] =
                    [key |-> k, value |-> value, validBefore |-> now + Validity]]
  /\ UNCHANGED <<ledger, calls, chain, snapshot, answer, now>>

\* Mutant: the attempt is not on disk when the request goes out.
FulfilUnrecorded(a) ==
  /\ Len(ledger) < MaxRecords
  /\ prepared[a] /= NotPrepared
  /\ calls[a] = "none"
  /\ assertMaySpend(prepared[a].key, prepared[a].value)
  /\ calls' = [calls EXCEPT ![a] = "submitting"]
  /\ UNCHANGED <<ledger, prepared, chain, snapshot, answer, now>>

\* Check, write `attempting`, send: one synchronous stretch up to the await.
fulfilSigned(a) ==
  /\ Len(ledger) < MaxRecords
  /\ prepared[a] /= NotPrepared
  /\ calls[a] = "none"
  /\ assertMaySpend(prepared[a].key, prepared[a].value)
  /\ record(Attempt(a, "attempting"))
  /\ calls' = [calls EXCEPT ![a] = "submitting"]
  /\ UNCHANGED <<prepared, chain, snapshot, answer, now>>

\* submitRetirement returned a transaction, mined or not; the certificate is
\* polled for.
submitRetirement(a) ==
  /\ calls[a] = "submitting"
  /\ chain[a] \in {"queued", "spent"}
  /\ calls' = [calls EXCEPT ![a] = "certifying"]
  /\ UNCHANGED <<ledger, prepared, chain, snapshot, answer, now>>

\* Mutant: a timeout is recorded as a failure.
CallFailsCleanly(a) ==
  /\ Len(ledger) < MaxRecords
  /\ calls[a] /= "none"
  /\ record(Attempt(a, "failed"))
  /\ calls' = [calls EXCEPT ![a] = "none"]
  /\ UNCHANGED <<prepared, chain, snapshot, answer, now>>

\* Timeout, dropped connection, 5xx: retirement_outcome_unknown.  Also a
\* certificate that is missing, late, or credits somebody else.  The record
\* stays `attempting`.
callFails(a) ==
  /\ calls[a] /= "none"
  /\ calls' = [calls EXCEPT ![a] = "none"]
  /\ UNCHANGED <<ledger, prepared, chain, snapshot, answer, now>>

\* Only a mined retirement has a certificate.
awaitCertificate(a) ==
  /\ Len(ledger) < MaxRecords
  /\ calls[a] = "certifying"
  /\ chain[a] = "spent"
  /\ record(Attempt(a, "settled"))
  /\ calls' = [calls EXCEPT ![a] = "none"]
  /\ UNCHANGED <<prepared, chain, snapshot, answer, now>>

\* resolveUnresolved reads the ledger once, before its first await.
resolveUnresolved ==
  /\ snapshot = {} /\ answer = NoAnswer
  /\ unresolved /= {}
  /\ ExpiredOnly => \A r \in unresolved : now >= prepared[r.nonce].validBefore
  /\ snapshot' = unresolved
  /\ UNCHANGED <<ledger, prepared, calls, chain, answer, now>>

\* Mutant: asks about the pending block.
OutcomePending(r) ==
  /\ r \in snapshot /\ answer = NoAnswer
  /\ answer' = [attempt |-> r, spent |-> chain[r.nonce] \in {"queued", "spent"}]
  /\ snapshot' = snapshot \ {r}
  /\ UNCHANGED <<ledger, prepared, calls, chain, now>>

authorizationOutcome(r) ==
  /\ r \in snapshot /\ answer = NoAnswer
  /\ answer' = [attempt |-> r, spent |-> chain[r.nonce] = "spent"]
  /\ snapshot' = snapshot \ {r}
  /\ UNCHANGED <<ledger, prepared, calls, chain, now>>

\* The attempt is written again under its new state, its own `at` included.
recordOutcome ==
  /\ Len(ledger) < MaxRecords
  /\ answer /= NoAnswer
  /\ record([answer.attempt EXCEPT !.state = IF answer.spent THEN "settled" ELSE "failed"])
  /\ answer' = NoAnswer
  /\ UNCHANGED <<prepared, calls, chain, snapshot, now>>

\* The RPC fails: the pass throws, and what it has not written stays as it was.
resolveFails ==
  /\ snapshot /= {} /\ answer = NoAnswer
  /\ snapshot' = {}
  /\ UNCHANGED <<ledger, prepared, calls, chain, answer, now>>

(***************************************************************************)
(* The endpoint, its executor, Base, the process and the clock.            *)
(***************************************************************************)
Accept(a) ==
  /\ calls[a] = "submitting" /\ chain[a] = "unseen"
  /\ chain' = [chain EXCEPT ![a] = "queued"]
  /\ UNCHANGED <<ledger, prepared, calls, snapshot, answer, now>>

\* transferWithAuthorization: once per nonce, and only before it expires.
Relay(a) ==
  /\ chain[a] = "queued" /\ now < prepared[a].validBefore
  /\ chain' = [chain EXCEPT ![a] = "spent"]
  /\ UNCHANGED <<ledger, prepared, calls, snapshot, answer, now>>

Crash ==
  /\ \/ \E a \in Auths : calls[a] /= "none"
     \/ snapshot /= {} \/ answer /= NoAnswer
  /\ calls' = [a \in Auths |-> "none"]
  /\ snapshot' = {} /\ answer' = NoAnswer
  /\ UNCHANGED <<ledger, prepared, chain, now>>

Tick ==
  /\ now < MaxTime
  /\ now' = now + 1
  /\ UNCHANGED <<ledger, prepared, calls, chain, snapshot, answer>>

LedgerNext ==
  \/ \E k \in Keys, a \in Auths, v \in Prices : prepareAuthorization(k, a, v)
  \/ \E a \in Auths : \/ fulfilSigned(a) \/ submitRetirement(a)
                      \/ callFails(a) \/ awaitCertificate(a)
                      \/ Accept(a) \/ Relay(a)
  \/ resolveUnresolved
  \/ \E r \in snapshot : authorizationOutcome(r)
  \/ recordOutcome
  \/ resolveFails
  \/ Crash
  \/ Tick

LedgerSpec == LedgerInit /\ [][LedgerNext]_ledgerVars

(***************************************************************************)
(* Properties.                                                             *)
(***************************************************************************)

\* Type invariant: what the file, the process and the chain may hold.
LedgerTypeOK ==
  /\ ledger \in Seq(LedgerRecord)
  /\ \A a \in Auths :
       \/ prepared[a] = NotPrepared /\ calls[a] = "none" /\ chain[a] = "unseen"
       \/ prepared[a] \in [key : Keys, value : Prices, validBefore : Nat]
  /\ calls \in [Auths -> {"none", "submitting", "certifying"}]
  /\ chain \in [Auths -> {"unseen", "queued", "spent"}]
  /\ snapshot \subseteq LedgerRecord
  /\ answer = NoAnswer \/ answer \in [attempt : LedgerRecord, spent : BOOLEAN]
  /\ now \in 0..MaxTime

Retired(k) == {a \in Auths : chain[a] = "spent" /\ prepared[a].key = k}

\* No obligation ever burns two credits, whatever crashes, timeouts, late
\* relays, repeated preparations and recovery passes happen in between.
AtMostOneRetirement == \A k \in Keys : Cardinality(Retired(k)) <= 1

\* An authorization that can still move money, or has, is the one its key's
\* last record names, and that record still refuses another attempt.
LiveAuthorizationOnRecord ==
  \A a \in Auths :
    (\/ chain[a] = "spent"
     \/ chain[a] = "queued" /\ now < prepared[a].validBefore
     \/ calls[a] = "submitting" /\ now < prepared[a].validBefore)
    => LET last == latest(prepared[a].key)
       IN  last.state \in {"attempting", "settled"} /\ last.nonce = a

\* What the ledger calls settled, the chain has consumed.
SettledIsSpent ==
  \A i \in DOMAIN ledger : ledger[i].state = "settled" => chain[ledger[i].nonce] = "spent"

AttemptedSince(t) ==
  {ledger[i].nonce : i \in {j \in DOMAIN ledger : /\ ledger[j].state = "attempting"
                                                  /\ ledger[j].at >= t}}

\* The authorizations handed out within any trailing day, whatever became of
\* them, cannot together move more than the daily cap.
DailyCapHolds ==
  Total([a \in Auths |-> prepared[a].value], AttemptedSince(now - Day)) <= dailyUsdc

=============================================================================
