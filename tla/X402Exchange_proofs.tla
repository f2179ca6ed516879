------------------------ MODULE X402Exchange_proofs ------------------------
(***************************************************************************)
(* Proofs about carbon retirement: the spending ledger for itself, then    *)
(* the conversation with the endpoint, which implements it.                *)
(***************************************************************************)
EXTENDS X402Exchange, Totals_proofs, SequenceTheorems, WellFoundedInduction

(***************************************************************************)
(* The last line of a key in an append-only file.                          *)
(***************************************************************************)

\* A finite set of integers that is not empty has its maximum: of the sets of
\* what is no less than a member, one is minimal, and it is the maximum's.
LEMMA MaxOfFinite ==
    ASSUME NEW S, S \subseteq Int, S # {}, IsFiniteSet(S)
    PROVE  Max(S) \in S /\ \A y \in S : y <= Max(S)
<1> DEFINE above(x) == {y \in S : x <= y}
           cones == {above(x) : x \in S}
           R == StrictSubsetOrdering(S)
<1>1. IsWellFoundedOn(R, FiniteSubsetsOf(S))
  BY FS_StrictSubsetOrderingWellFounded
<1>2. cones \subseteq FiniteSubsetsOf(S) /\ cones # {}
  <2>1. \A x \in S : above(x) \in SUBSET S /\ IsFiniteSet(above(x))
    BY FS_Subset
  <2>2. QED
    BY <2>1 DEF FiniteSubsetsOf
<1>3. PICK C \in cones : \A D \in cones : <<D, C>> \notin R
  <2> HIDE DEF cones, R
  <2>1. QED
    BY <1>1, <1>2, WFMin
<1>4. PICK m \in S : C = above(m)
  BY <1>3
<1>5. ASSUME NEW y \in S, ~ (y <= m) PROVE FALSE
  <2>1. m \in Int /\ y \in Int /\ \A z \in S : z \in Int
    OBVIOUS
  <2>2. m < y
    BY <2>1, <1>5
  <2>3. /\ above(y) \subseteq above(m)
        /\ m \in above(m) /\ m \notin above(y)
    <3>1. \A z \in S : y <= z => m <= z
      BY <2>1, <2>2
    <3>2. m <= m /\ ~ (y <= m)
      BY <2>1, <2>2
    <3>3. QED
      BY <3>1, <3>2, Zenon
  <2>4. <<above(y), above(m)>> \in R
    BY <2>3 DEF StrictSubsetOrdering
  <2>5. QED
    BY <1>3, <1>4, <1>5, <2>4
<1>6. \A y \in S : m >= y
  BY <1>5
<1>7. Max(S) \in S /\ \A y \in S : Max(S) >= y
  BY <1>4, <1>6 DEF Max
<1>8. QED
  BY <1>7

\* `latest`, of any file.
Lines(L, k) == {i \in DOMAIN L : L[i].key = k}
LatestIn(L, k) == IF Lines(L, k) = {} THEN NoRecord ELSE L[Max(Lines(L, k))]

LEMMA LatestIsLatestIn ==
    ASSUME NEW k
    PROVE  /\ latest(k) = LatestIn(ledger, k)
           /\ latest(k)' = LatestIn(ledger', k)
  BY DEF latest, LatestIn, Lines

LEMMA LinesFinite ==
    ASSUME NEW L \in Seq(LedgerRecord), NEW k
    PROVE  /\ IsFiniteSet(Lines(L, k)) /\ Lines(L, k) \subseteq Int
           /\ IsFiniteSet(DOMAIN L) /\ DOMAIN L = 1 .. Len(L) /\ Len(L) \in Nat
<1>1. DOMAIN L = 1 .. Len(L) /\ Len(L) \in Nat
  BY LenProperties
<1>2. IsFiniteSet(1 .. Len(L))
  BY <1>1, FS_Interval
<1>3. Lines(L, k) \subseteq DOMAIN L
  BY DEF Lines
<1>4. QED
  BY <1>1, <1>2, <1>3, FS_Subset

\* The last line of a key is one of its lines, and there is one as soon as
\* the key has any line.
LEMMA LatestLine ==
    ASSUME NEW L \in Seq(LedgerRecord), NEW k
    PROVE  /\ Lines(L, k) = {} => LatestIn(L, k) = NoRecord
           /\ Lines(L, k) # {} =>
                \E i \in DOMAIN L : L[i].key = k /\ LatestIn(L, k) = L[i]
<1>1. CASE Lines(L, k) # {}
  <2>1. Max(Lines(L, k)) \in Lines(L, k)
    BY <1>1, LinesFinite, MaxOfFinite
  <2>2. QED
    BY <1>1, <2>1 DEF Lines, LatestIn
<1>2. QED
  BY <1>1 DEF LatestIn

\* What an append does to the last line of each key.
LEMMA LatestAfterAppend ==
    ASSUME NEW L \in Seq(LedgerRecord), NEW r \in LedgerRecord, NEW k
    PROVE  LatestIn(Append(L, r), k) = IF r.key = k THEN r ELSE LatestIn(L, k)
<1> DEFINE M == Append(L, r)
           n == Len(L) + 1
<1>1. /\ M \in Seq(LedgerRecord) /\ DOMAIN L = 1 .. Len(L) /\ Len(L) \in Nat
      /\ DOMAIN M = 1 .. n /\ M[n] = r
      /\ \A i \in 1 .. Len(L) : M[i] = L[i]
  BY AppendProperties, LenProperties
<1> HIDE DEF M
<1>2. CASE r.key = k
  <2>1. n \in Lines(M, k) /\ \A i \in Lines(M, k) : i <= n
    BY <1>1, <1>2 DEF Lines
  <2>2. Max(Lines(M, k)) \in Lines(M, k) /\ \A y \in Lines(M, k) : y <= Max(Lines(M, k))
    BY <1>1, <2>1, LinesFinite, MaxOfFinite
  <2>3. Max(Lines(M, k)) = n
    <3>1. Max(Lines(M, k)) \in Int /\ n \in Int
      BY <1>1, <2>2, LinesFinite
    <3>2. QED
      BY <2>1, <2>2, <3>1
  <2>4. LatestIn(M, k) = r
    BY <1>1, <2>1, <2>3 DEF LatestIn
  <2>5. QED
    BY <1>2, <2>4 DEF M
<1>3. CASE r.key # k
  <2>1. Lines(M, k) = Lines(L, k)
    BY <1>1, <1>3 DEF Lines
  <2>2. CASE Lines(L, k) = {}
    BY <1>3, <2>1, <2>2 DEF LatestIn, M
  <2>3. CASE Lines(L, k) # {}
    <3>1. Max(Lines(L, k)) \in Lines(L, k)
      BY <2>3, LinesFinite, MaxOfFinite
    <3>2. M[Max(Lines(L, k))] = L[Max(Lines(L, k))]
      BY <1>1, <3>1 DEF Lines
    <3>3. QED
      BY <1>3, <2>1, <2>3, <3>2 DEF LatestIn, M
  <2>4. QED
    BY <2>2, <2>3
<1>4. QED
  BY <1>2, <1>3

(***************************************************************************)
(* The ledger, whenever recovery is run.                                   *)
(***************************************************************************)
Authorization == [key : Keys, value : Prices, validBefore : Nat]
Asked == [attempt : LedgerRecord, spent : BOOLEAN]

\* LedgerTypeOK, with what is a function said to be one.
LedgerTypes ==
  /\ ledger \in Seq(LedgerRecord)
  /\ prepared \in [Auths -> {NotPrepared} \cup Authorization]
  /\ calls \in [Auths -> {"none", "submitting", "certifying"}]
  /\ chain \in [Auths -> {"unseen", "queued", "spent"}]
  /\ \A a \in Auths : prepared[a] = NotPrepared => calls[a] = "none" /\ chain[a] = "unseen"
  /\ snapshot \subseteq LedgerRecord
  /\ answer \in {NoAnswer} \cup Asked
  /\ now \in 0..MaxTime

\* A record says what was prepared under its nonce.
Written(r) == /\ prepared[r.nonce] \in Authorization
              /\ prepared[r.nonce].key = r.key
              /\ prepared[r.nonce].value = r.value

LinesWritten == \A i \in DOMAIN ledger : Written(ledger[i])

\* What a recovery pass is asking about was read from the file.
PassWritten ==
  /\ \A r \in snapshot : Written(r)
  /\ answer # NoAnswer => Written(answer.attempt)

\* The chain does not take back what it answered.
AnswerSound ==
  answer # NoAnswer /\ answer.spent => chain[answer.attempt.nonce] = "spent"

LedgerFacts ==
  /\ LedgerTypes /\ LinesWritten /\ PassWritten
  /\ AnswerSound /\ SettledIsSpent /\ DailyCapHolds

LEMMA NotPreparedIsNone ==
    /\ NotPrepared \notin Authorization
    /\ NoAnswer \notin Asked
<1>1. \A r \in Authorization : DOMAIN r = {"key", "value", "validBefore"}
  BY DEF Authorization
<1>2. DOMAIN NotPrepared = {"value"} /\ DOMAIN NoAnswer = {"spent"}
  BY DEF NotPrepared, NoAnswer
<1>3. \A r \in Asked : DOMAIN r = {"attempt", "spent"}
  BY DEF Asked
<1>4. QED
  BY <1>1, <1>2, <1>3

LEMMA FileAfterAppend ==
    ASSUME NEW L \in Seq(LedgerRecord), NEW r \in LedgerRecord
    PROVE  /\ Append(L, r) \in Seq(LedgerRecord)
           /\ DOMAIN L = 1 .. Len(L) /\ Len(L) \in Nat
           /\ DOMAIN Append(L, r) = DOMAIN L \cup {Len(L) + 1}
           /\ Append(L, r)[Len(L) + 1] = r
           /\ \A i \in DOMAIN L : Append(L, r)[i] = L[i] /\ i # Len(L) + 1
           /\ \A i \in DOMAIN L : L[i] \in LedgerRecord
<1>1. /\ Append(L, r) \in Seq(LedgerRecord) /\ DOMAIN L = 1 .. Len(L) /\ Len(L) \in Nat
      /\ DOMAIN Append(L, r) = 1 .. Len(L) + 1 /\ Append(L, r)[Len(L) + 1] = r
      /\ \A i \in 1 .. Len(L) : Append(L, r)[i] = L[i]
  BY AppendProperties, LenProperties
<1>2. 1 .. Len(L) + 1 = 1 .. Len(L) \cup {Len(L) + 1}
  BY <1>1
<1>3. \A i \in 1 .. Len(L) : L[i] \in LedgerRecord
  BY ElementOfSeq
<1>4. QED
  BY <1>1, <1>2, <1>3

\* What an authorization's line looks like.
LEMMA AttemptIsRecord ==
    ASSUME LedgerTypes, NEW a \in Auths, prepared[a] # NotPrepared,
           NEW s \in AttemptState
    PROVE  /\ Attempt(a, s) \in LedgerRecord /\ Written(Attempt(a, s))
           /\ prepared[a] \in Authorization
           /\ Attempt(a, s).key = prepared[a].key /\ Attempt(a, s).nonce = a
           /\ Attempt(a, s).state = s /\ Attempt(a, s).value = prepared[a].value
           /\ Attempt(a, s).at = now
<1>1. prepared[a] \in Authorization
  BY DEF LedgerTypes
<1>2. prepared[a].key \in Keys /\ prepared[a].value \in Prices /\ now \in 0..MaxTime
  BY <1>1 DEF Authorization, LedgerTypes
<1>3. QED
  BY <1>1, <1>2 DEF Attempt, LedgerRecord, Written

\* The attempt that is closed is written again, under its new state.
LEMMA ClosedIsRecord ==
    ASSUME LedgerTypes, PassWritten, answer # NoAnswer, NEW s \in AttemptState
    PROVE  LET r == [answer.attempt EXCEPT !.state = s]
           IN  /\ r \in LedgerRecord /\ Written(r)
               /\ r.key = answer.attempt.key /\ r.nonce = answer.attempt.nonce
               /\ r.state = s /\ r.nonce \in Auths
<1>1. answer \in Asked /\ Written(answer.attempt)
  BY DEF LedgerTypes, PassWritten
<1>2. answer.attempt \in LedgerRecord
  BY <1>1 DEF Asked
<1>3. QED
  BY <1>1, <1>2 DEF LedgerRecord, Written

LEMMA LinesAreRecords ==
    ASSUME LedgerTypes, NEW i \in DOMAIN ledger
    PROVE  /\ ledger[i] \in LedgerRecord
           /\ ledger[i].nonce \in Auths /\ ledger[i].value \in Nat
<1>1. ledger[i] \in LedgerRecord
  BY LenProperties, ElementOfSeq DEF LedgerTypes
<1>2. QED
  BY <1>1, LedgerAssumption DEF LedgerRecord

\* A key without a record has none; another's last record is one of its lines.
LEMMA LatestIsLine ==
    ASSUME LedgerTypes, NEW k
    PROVE  \/ latest(k) = NoRecord
           \/ \E i \in DOMAIN ledger : ledger[i].key = k /\ latest(k) = ledger[i]
  BY LatestLine, LatestIsLatestIn DEF LedgerTypes

\* What a recovery pass reads: the last line of each key it is about.
LEMMA UnresolvedLines ==
    ASSUME LedgerTypes, NEW r \in unresolved
    PROVE  /\ r \in LedgerRecord /\ r.state = "attempting"
           /\ \E i \in DOMAIN ledger : r = ledger[i]
           /\ latest(r.key) = r
<1>1. PICK k \in Keys : r = latest(k) /\ r.state = "attempting"
  BY DEF unresolved
<1>2. r # NoRecord
  BY <1>1 DEF NoRecord
<1>3. PICK i \in DOMAIN ledger : ledger[i].key = k /\ r = ledger[i]
  BY <1>1, <1>2, LatestIsLine
<1>4. ledger[i] \in LedgerRecord
  BY <1>3, LinesAreRecords
<1>5. QED
  BY <1>1, <1>3, <1>4

\* The two ways a step leaves the file and what was prepared: as they were,
\* or with one more record.
Quiet == ledger' = ledger /\ prepared' = prepared
Writes(r) == ledger' = Append(ledger, r) /\ prepared' = prepared

LEMMA LinesAfterWrite ==
    ASSUME LedgerTypes, LinesWritten, NEW r \in LedgerRecord, Written(r), Writes(r)
    PROVE  /\ ledger' \in Seq(LedgerRecord) /\ LinesWritten'
           /\ \A k : latest(k)' = IF r.key = k THEN r ELSE latest(k)
<1>1. ledger \in Seq(LedgerRecord)
  BY DEF LedgerTypes
<1>2. \A i \in DOMAIN ledger' : ledger'[i] = r \/ (i \in DOMAIN ledger /\ ledger'[i] = ledger[i])
  BY <1>1, FileAfterAppend DEF Writes
<1>3. LinesWritten'
  BY <1>2 DEF LinesWritten, Written, Writes
<1>4. \A k : latest(k)' = IF r.key = k THEN r ELSE latest(k)
  BY <1>1, LatestAfterAppend, LatestIsLatestIn DEF Writes
<1>5. QED
  BY <1>1, <1>3, <1>4, FileAfterAppend DEF Writes

(***************************************************************************)
(* What each step writes.                                                  *)
(***************************************************************************)
LEMMA FulfilWrites ==
    ASSUME LedgerTypes, NEW a \in Auths, fulfilSigned(a)
    PROVE  /\ Writes(Attempt(a, "attempting")) /\ prepared[a] # NotPrepared
           /\ "attempting" \in AttemptState
  BY DEF fulfilSigned, record, Writes, AttemptState

LEMMA CertificateWrites ==
    ASSUME LedgerTypes, NEW a \in Auths, awaitCertificate(a)
    PROVE  /\ Writes(Attempt(a, "settled")) /\ prepared[a] # NotPrepared
           /\ "settled" \in AttemptState
  BY DEF awaitCertificate, record, Writes, AttemptState, LedgerTypes

Closed == [answer.attempt EXCEPT !.state = IF answer.spent THEN "settled" ELSE "failed"]

LEMMA OutcomeWrites ==
    ASSUME LedgerTypes, PassWritten, recordOutcome
    PROVE  /\ Writes(Closed) /\ answer # NoAnswer
           /\ Closed \in LedgerRecord /\ Written(Closed)
           /\ Closed.key = answer.attempt.key /\ Closed.nonce = answer.attempt.nonce
           /\ Closed.state = (IF answer.spent THEN "settled" ELSE "failed")
           /\ Closed.nonce \in Auths
<1>1. Writes(Closed) /\ answer # NoAnswer
  BY DEF recordOutcome, record, Writes, Closed
<1>2. (IF answer.spent THEN "settled" ELSE "failed") \in AttemptState
  BY DEF AttemptState
<1>3. QED
  BY <1>1, <1>2, ClosedIsRecord DEF Closed

\* Every other step but a preparation leaves the file and the prepared alone.
LEMMA QuietSteps ==
    ASSUME \/ \E a \in Auths : submitRetirement(a) \/ callFails(a) \/ Accept(a) \/ Relay(a)
           \/ resolveUnresolved \/ (\E r \in snapshot : authorizationOutcome(r))
           \/ resolveFails \/ Crash \/ Tick \/ UNCHANGED ledgerVars
    PROVE  Quiet
  BY DEF Quiet, submitRetirement, callFails, Accept, Relay, resolveUnresolved,
         authorizationOutcome, resolveFails, Crash, Tick, ledgerVars

LEMMA AfterPreparation ==
    ASSUME LedgerTypes, NEW k \in Keys, NEW a \in Auths, NEW v \in Prices,
           prepareAuthorization(k, a, v)
    PROVE  /\ prepared' \in [Auths -> {NotPrepared} \cup Authorization]
           /\ prepared[a] = NotPrepared
           /\ prepared'[a] \in Authorization
           /\ prepared'[a].key = k /\ prepared'[a].value = v
           /\ \A b \in Auths : b # a => prepared'[b] = prepared[b]
           /\ \A r \in LedgerRecord : Written(r) => Written(r)' /\ r.nonce # a
           /\ UNCHANGED <<ledger, calls, chain, snapshot, answer, now>>
<1> DEFINE new == [key |-> k, value |-> v, validBefore |-> now + Validity]
<1>1. /\ prepared[a] = NotPrepared /\ prepared' = [prepared EXCEPT ![a] = new]
      /\ UNCHANGED <<ledger, calls, chain, snapshot, answer, now>>
  BY DEF prepareAuthorization
<1>2. now + Validity \in Nat
  BY LedgerAssumption DEF LedgerTypes
<1>3. new \in Authorization
  BY <1>2 DEF Authorization
<1>4. prepared \in [Auths -> {NotPrepared} \cup Authorization]
  BY DEF LedgerTypes
<1>5. prepared'[a] = new /\ \A b \in Auths : b # a => prepared'[b] = prepared[b]
  BY <1>1, <1>4
<1>6. prepared' \in [Auths -> {NotPrepared} \cup Authorization]
  <2> HIDE DEF new
  <2>1. QED
    BY <1>1, <1>3, <1>4
<1>7. ASSUME NEW r \in LedgerRecord, Written(r) PROVE Written(r)' /\ r.nonce # a
  <2>1. r.nonce \in Auths
    BY DEF LedgerRecord
  <2>2. r.nonce # a
    BY <1>1, <1>7, NotPreparedIsNone DEF Written
  <2>3. QED
    BY <1>5, <1>7, <2>1, <2>2 DEF Written
<1>8. prepared'[a].key = k /\ prepared'[a].value = v
  BY <1>5
<1>9. QED
  BY <1>1, <1>3, <1>5, <1>6, <1>7, <1>8

LEMMA LedgerTypesInductive ==
    ASSUME LedgerTypes, LinesWritten, PassWritten, [LedgerNext]_ledgerVars
    PROVE  LedgerTypes'
<1>1. ASSUME NEW k \in Keys, NEW a \in Auths, NEW v \in Prices, prepareAuthorization(k, a, v)
      PROVE  LedgerTypes'
  <2>1. /\ prepared' \in [Auths -> {NotPrepared} \cup Authorization]
        /\ \A b \in Auths : prepared'[b] = NotPrepared => prepared[b] = NotPrepared
        /\ UNCHANGED <<ledger, calls, chain, snapshot, answer, now>>
    BY <1>1, AfterPreparation, NotPreparedIsNone
  <2>2. QED
    BY <2>1 DEF LedgerTypes
<1>2. ASSUME NEW a \in Auths, fulfilSigned(a) PROVE LedgerTypes'
  <2>1. ledger' \in Seq(LedgerRecord)
    BY <1>2, FulfilWrites, AttemptIsRecord, LinesAfterWrite
  <2>2. QED
    BY <1>2, <2>1 DEF fulfilSigned, LedgerTypes
<1>3. ASSUME NEW a \in Auths, awaitCertificate(a) PROVE LedgerTypes'
  <2>1. ledger' \in Seq(LedgerRecord)
    BY <1>3, CertificateWrites, AttemptIsRecord, LinesAfterWrite
  <2>2. QED
    BY <1>3, <2>1 DEF awaitCertificate, LedgerTypes
<1>4. CASE recordOutcome
  <2>1. ledger' \in Seq(LedgerRecord)
    BY <1>4, OutcomeWrites, LinesAfterWrite
  <2>2. QED
    BY <1>4, <2>1 DEF recordOutcome, LedgerTypes
<1>5. ASSUME NEW a \in Auths, submitRetirement(a) \/ callFails(a) PROVE LedgerTypes'
  BY <1>5 DEF submitRetirement, callFails, LedgerTypes
<1>6. ASSUME NEW a \in Auths, Accept(a) \/ Relay(a) PROVE LedgerTypes'
  BY <1>6 DEF Accept, Relay, LedgerTypes
<1>7. CASE resolveUnresolved
  <2>1. unresolved \subseteq LedgerRecord
    BY UnresolvedLines
  <2>2. QED
    BY <1>7, <2>1 DEF resolveUnresolved, LedgerTypes
<1>8. ASSUME NEW r \in snapshot, authorizationOutcome(r) PROVE LedgerTypes'
  <2>1. r \in LedgerRecord /\ r.nonce \in Auths
    BY DEF LedgerTypes, LedgerRecord
  <2>2. answer' \in Asked
    BY <1>8, <2>1 DEF authorizationOutcome, Asked
  <2>3. QED
    BY <1>8, <2>2 DEF authorizationOutcome, LedgerTypes
<1>9. CASE resolveFails
  BY <1>9 DEF resolveFails, LedgerTypes
<1>10. CASE Crash
  BY <1>10 DEF Crash, LedgerTypes
<1>11. CASE Tick
  <2>1. now' \in 0..MaxTime
    BY <1>11, LedgerAssumption DEF Tick, LedgerTypes
  <2>2. QED
    BY <1>11, <2>1 DEF Tick, LedgerTypes
<1>12. CASE UNCHANGED ledgerVars
  BY <1>12 DEF ledgerVars, LedgerTypes
<1>13. QED
  BY <1>1, <1>2, <1>3, <1>4, <1>5, <1>6, <1>7, <1>8, <1>9, <1>10, <1>11, <1>12 DEF LedgerNext

LEMMA WrittenInductive ==
    ASSUME LedgerTypes, LinesWritten, PassWritten, [LedgerNext]_ledgerVars
    PROVE  LinesWritten' /\ PassWritten'
<1> USE DEF Quiet
<1>1. ASSUME NEW k \in Keys, NEW a \in Auths, NEW v \in Prices, prepareAuthorization(k, a, v)
      PROVE  LinesWritten' /\ PassWritten'
  <2>1. /\ \A r \in LedgerRecord : Written(r) => Written(r)'
        /\ UNCHANGED <<ledger, calls, chain, snapshot, answer, now>>
    BY <1>1, AfterPreparation
  <2>2. \A i \in DOMAIN ledger : ledger[i] \in LedgerRecord
    BY LinesAreRecords
  <2>3. LinesWritten'
    BY <2>1, <2>2 DEF LinesWritten, Written
  <2>4. answer # NoAnswer => answer.attempt \in LedgerRecord
    BY DEF LedgerTypes, Asked
  <2>5. PassWritten'
    BY <2>1, <2>4 DEF PassWritten, Written, LedgerTypes
  <2>6. QED
    BY <2>3, <2>5
<1>2. ASSUME NEW a \in Auths, fulfilSigned(a) PROVE LinesWritten' /\ PassWritten'
  <2>1. LinesWritten'
    BY <1>2, FulfilWrites, AttemptIsRecord, LinesAfterWrite
  <2>2. QED
    BY <1>2, <2>1 DEF fulfilSigned, PassWritten, Written
<1>3. ASSUME NEW a \in Auths, awaitCertificate(a) PROVE LinesWritten' /\ PassWritten'
  <2>1. LinesWritten'
    BY <1>3, CertificateWrites, AttemptIsRecord, LinesAfterWrite
  <2>2. QED
    BY <1>3, <2>1 DEF awaitCertificate, PassWritten, Written
<1>4. CASE recordOutcome
  <2>1. LinesWritten'
    BY <1>4, OutcomeWrites, LinesAfterWrite
  <2>2. QED
    BY <1>4, <2>1 DEF recordOutcome, PassWritten, Written
<1>5. ASSUME Quiet PROVE LinesWritten'
  BY <1>5 DEF LinesWritten, Written
<1>6. ASSUME Quiet, UNCHANGED <<snapshot, answer>> PROVE PassWritten'
  BY <1>6 DEF PassWritten, Written
<1>7. ASSUME NEW a \in Auths, submitRetirement(a) \/ callFails(a) \/ Accept(a) \/ Relay(a)
      PROVE  LinesWritten' /\ PassWritten'
  <2>1. Quiet /\ UNCHANGED <<snapshot, answer>>
    BY <1>7 DEF submitRetirement, callFails, Accept, Relay
  <2>2. QED
    BY <1>5, <1>6, <2>1
<1>8. CASE resolveUnresolved
  <2>1. \A r \in unresolved : Written(r)
    BY UnresolvedLines DEF LinesWritten
  <2>2. Quiet /\ snapshot' = unresolved /\ answer' = answer
    BY <1>8 DEF resolveUnresolved
  <2>3. PassWritten'
    BY <2>1, <2>2 DEF PassWritten, Written
  <2>4. QED
    BY <1>5, <2>2, <2>3
<1>9. ASSUME NEW r \in snapshot, authorizationOutcome(r) PROVE LinesWritten' /\ PassWritten'
  <2>1. Quiet /\ snapshot' \subseteq snapshot /\ answer'.attempt = r
    BY <1>9 DEF authorizationOutcome
  <2>2. PassWritten'
    BY <2>1 DEF PassWritten, Written
  <2>3. QED
    BY <1>5, <2>1, <2>2
<1>10. CASE resolveFails \/ Crash \/ Tick \/ UNCHANGED ledgerVars
  <2>1. /\ Quiet /\ snapshot' \subseteq snapshot
        /\ answer' = answer \/ answer' = NoAnswer
    BY <1>10 DEF resolveFails, Crash, Tick, ledgerVars
  <2>2. PassWritten'
    BY <2>1 DEF PassWritten, Written
  <2>3. QED
    BY <1>5, <2>1, <2>2
<1>11. QED
  BY <1>1, <1>2, <1>3, <1>4, <1>7, <1>8, <1>9, <1>10 DEF LedgerNext

\* What has been consumed stays consumed.
LEMMA SpentStays ==
    ASSUME LedgerTypes, [LedgerNext]_ledgerVars
    PROVE  \A a \in Auths : chain[a] = "spent" => chain'[a] = "spent"
<1>1. ASSUME NEW a \in Auths, Accept(a) \/ Relay(a)
      PROVE  \A b \in Auths : chain[b] = "spent" => chain'[b] = "spent"
  BY <1>1 DEF Accept, Relay, LedgerTypes
<1>2. \/ \E a \in Auths : Accept(a) \/ Relay(a)
      \/ chain' = chain
  BY DEF LedgerNext, prepareAuthorization, fulfilSigned, submitRetirement, callFails,
         awaitCertificate, resolveUnresolved, authorizationOutcome, recordOutcome,
         resolveFails, Crash, Tick, ledgerVars
<1>3. QED
  BY <1>1, <1>2

LEMMA AnswerSoundInductive ==
    ASSUME LedgerTypes, AnswerSound, [LedgerNext]_ledgerVars
    PROVE  AnswerSound'
<1>1. ASSUME NEW r \in snapshot, authorizationOutcome(r) PROVE AnswerSound'
  <2>1. /\ answer' = [attempt |-> r, spent |-> chain[r.nonce] = "spent"]
        /\ chain' = chain
    BY <1>1 DEF authorizationOutcome
  <2>2. QED
    BY <2>1 DEF AnswerSound
<1>2. CASE ~ \E r \in snapshot : authorizationOutcome(r)
  <2>1. answer' = answer \/ answer' = NoAnswer
    BY <1>2 DEF LedgerNext, prepareAuthorization, fulfilSigned, submitRetirement, callFails,
           awaitCertificate, Accept, Relay, resolveUnresolved, recordOutcome,
           resolveFails, Crash, Tick, ledgerVars
  <2>2. CASE answer' = NoAnswer
    BY <2>2 DEF AnswerSound
  <2>3. CASE answer' = answer /\ answer # NoAnswer
    <3>1. answer.attempt.nonce \in Auths
      BY <2>3 DEF LedgerTypes, Asked, LedgerRecord
    <3>2. QED
      BY <2>3, <3>1, SpentStays DEF AnswerSound
  <2>4. QED
    BY <2>1, <2>2, <2>3
<1>3. QED
  BY <1>1, <1>2

\* A step that writes nothing or what is not `settled` adds no settled line;
\* a certificate and a confirmed answer are of a spent authorization.
LEMMA SettledIsSpentInductive ==
    ASSUME LedgerTypes, LinesWritten, PassWritten, AnswerSound, SettledIsSpent,
           [LedgerNext]_ledgerVars
    PROVE  SettledIsSpent'
<1>1. \A i \in DOMAIN ledger : ledger[i].nonce \in Auths
  BY LinesAreRecords
<1>2. ASSUME ledger' = ledger PROVE SettledIsSpent'
  BY <1>1, <1>2, SpentStays DEF SettledIsSpent
<1>3. ASSUME NEW r \in LedgerRecord, Writes(r), r.state = "settled" => chain'[r.nonce] = "spent"
      PROVE  SettledIsSpent'
  <2>1. \A i \in DOMAIN ledger' : ledger'[i] = r \/ (i \in DOMAIN ledger /\ ledger'[i] = ledger[i])
    BY <1>3, FileAfterAppend DEF Writes, LedgerTypes
  <2>2. QED
    BY <1>1, <1>3, <2>1, SpentStays DEF SettledIsSpent
<1>4. ASSUME NEW a \in Auths, fulfilSigned(a) PROVE SettledIsSpent'
  BY <1>3, <1>4, FulfilWrites, AttemptIsRecord
<1>5. ASSUME NEW a \in Auths, awaitCertificate(a) PROVE SettledIsSpent'
  <2>1. chain'[a] = "spent"
    BY <1>5 DEF awaitCertificate
  <2>2. QED
    BY <1>3, <1>5, <2>1, CertificateWrites, AttemptIsRecord
<1>6. CASE recordOutcome
  <2>1. chain' = chain
    BY <1>6 DEF recordOutcome
  <2>2. QED
    BY <1>3, <1>6, <2>1, OutcomeWrites DEF AnswerSound
<1>7. ASSUME NEW k \in Keys, NEW a \in Auths, NEW v \in Prices, prepareAuthorization(k, a, v)
      PROVE  ledger' = ledger
  BY <1>7 DEF prepareAuthorization
<1>8. QED
  BY <1>2, <1>4, <1>5, <1>6, <1>7, QuietSteps DEF LedgerNext, Quiet

(***************************************************************************)
(* The daily cap.                                                          *)
(***************************************************************************)
Worth == [a \in Auths |-> prepared[a].value]
Charged == [i \in DOMAIN ledger |-> ledger[i].value]
AttemptLines(t) == {j \in DOMAIN ledger : ledger[j].state = "attempting" /\ ledger[j].at >= t}

LEMMA WorthNatural ==
    ASSUME LedgerTypes
    PROVE  \A a \in Auths : Worth[a] \in Nat
<1>1. ASSUME NEW a \in Auths PROVE prepared[a].value \in Nat
  <2>1. prepared[a] = NotPrepared \/ prepared[a] \in Authorization
    BY DEF LedgerTypes
  <2>2. CASE prepared[a] = NotPrepared
    BY <2>2 DEF NotPrepared
  <2>3. CASE prepared[a] \in Authorization
    <3>1. prepared[a].value \in Prices
      BY <2>3 DEF Authorization
    <3>2. QED
      BY <3>1, LedgerAssumption
  <2>4. QED
    BY <2>1, <2>2, <2>3
<1>2. QED
  BY <1>1 DEF Worth

\* The authorizations attempted in a window are worth no more than the file
\* charges for that window: each has a line there, at its own value.
LEMMA AttemptsAreCharged ==
    ASSUME LedgerTypes, LinesWritten
    PROVE  /\ AttemptedSince(now - Day) \subseteq Auths
           /\ IsFiniteSet(AttemptedSince(now - Day))
           /\ spentLast24h \in Nat
           /\ Total(Worth, AttemptedSince(now - Day)) \in Nat
           /\ Total(Worth, AttemptedSince(now - Day)) <= spentLast24h
<1> DEFINE since == now - Day
           S == AttemptLines(since)
           all == {i \in DOMAIN ledger : ledger[i].state \in Spending /\ ledger[i].at >= since}
           nonceOf == [i \in DOMAIN ledger |-> ledger[i].nonce]
<1>1. /\ IsFiniteSet(DOMAIN ledger)
      /\ \A i \in DOMAIN ledger : ledger[i] \in LedgerRecord
  BY LinesFinite, LinesAreRecords DEF LedgerTypes
<1>2. \A i \in DOMAIN ledger : ledger[i].nonce \in Auths /\ ledger[i].value \in Nat
  BY LinesAreRecords
<1>3. \A i \in DOMAIN ledger : Charged[i] \in Nat /\ Worth[nonceOf[i]] = Charged[i]
  BY <1>2 DEF Charged, Worth, LinesWritten, Written
<1>4. S \subseteq all /\ all \subseteq DOMAIN ledger
  BY DEF AttemptLines, Spending
<1>5. IsFiniteSet(all) /\ IsFiniteSet(S)
  BY <1>1, <1>4, FS_Subset
<1>6. spentLast24h = Total(Charged, all)
  BY DEF spentLast24h, Charged
<1>7. AttemptedSince(since) = {nonceOf[i] : i \in S}
  <2>1. AttemptedSince(since) = {ledger[i].nonce : i \in S}
    BY DEF AttemptedSince, AttemptLines
  <2>2. \A i \in S : nonceOf[i] = ledger[i].nonce
    BY DEF AttemptLines
  <2>3. QED
    BY <2>1, <2>2, Zenon
<1>8. AttemptedSince(since) \subseteq Auths
  BY <1>2, <1>4, <1>7
<1>9. IsFiniteSet(AttemptedSince(since))
  <2>1. nonceOf \in [DOMAIN ledger -> Auths]
    BY <1>2
  <2>2. [i \in S |-> nonceOf[i]] \in Surjection(S, AttemptedSince(since))
    BY <1>7 DEF Surjection
  <2>3. QED
    BY <1>5, <2>2, FS_Surjection
<1>10. Total(Charged, S) <= Total(Charged, all) /\ Total(Charged, S) \in Nat
  BY <1>3, <1>4, <1>5, TotalSubset, TotalType
<1>11. Total(Charged, all) \in Nat
  BY <1>3, <1>4, <1>5, TotalType
<1>12. Total(Worth, AttemptedSince(since)) <= Total(Charged, S)
  <2>1. \A i \in S : Charged[i] \in Nat /\ Worth[nonceOf[i]] = Charged[i]
    BY <1>3, <1>4
  <2> HIDE DEF S, nonceOf
  <2>2. Total(Worth, {nonceOf[i] : i \in S}) <= Total(Charged, S)
    BY <1>5, <2>1, TotalImage
  <2>3. QED
    BY <1>7, <2>2
<1>13. Total(Worth, AttemptedSince(since)) \in Nat
  BY <1>8, <1>9, WorthNatural, TotalType
<1>14. QED
  BY <1>6, <1>8, <1>9, <1>10, <1>11, <1>12, <1>13

\* A smaller window, at the same prices, is worth no more.
LEMMA CapKept ==
    ASSUME LedgerTypes, LinesWritten, DailyCapHolds,
           AttemptedSince(now - Day)' \subseteq AttemptedSince(now - Day),
           \A a \in AttemptedSince(now - Day) : Worth'[a] = Worth[a]
    PROVE  DailyCapHolds'
<1> DEFINE S == AttemptedSince(now - Day)
           T == AttemptedSince(now - Day)'
<1>1. S \subseteq Auths /\ IsFiniteSet(S)
  BY AttemptsAreCharged
<1>2. \A a \in S : Worth[a] \in Nat
  BY <1>1, WorthNatural
<1>3. IsFiniteSet(T)
  BY <1>1, FS_Subset
<1>4. Total(Worth', T) = Total(Worth, T)
  <2> HIDE DEF S, T
  <2>1. \A a \in T : Worth'[a] = Worth[a]
    BY DEF S, T
  <2>2. QED
    BY <2>1, TotalSame
<1>5. Total(Worth, T) <= Total(Worth, S) /\ Total(Worth, S) \in Nat /\ Total(Worth, T) \in Nat
  <2>1. \A a \in T : Worth[a] \in Nat
    BY <1>2
  <2> HIDE DEF S, T
  <2>2. T \subseteq S
    BY DEF S, T
  <2>3. QED
    BY <1>1, <1>2, <1>3, <2>1, <2>2, TotalSubset, TotalType
<1>6. Total(Worth, S) <= dailyUsdc
  BY DEF DailyCapHolds, Worth
<1>7. Total(Worth, T) <= dailyUsdc
  BY <1>5, <1>6, LedgerAssumption DEF SpendCaps
<1>8. QED
  BY <1>4, <1>7 DEF DailyCapHolds, Worth

LEMMA DailyCapInductive ==
    ASSUME LedgerTypes, LinesWritten, PassWritten, DailyCapHolds, [LedgerNext]_ledgerVars
    PROVE  DailyCapHolds'
<1>1. ASSUME NEW k \in Keys, NEW a \in Auths, NEW v \in Prices, prepareAuthorization(k, a, v)
      PROVE  DailyCapHolds'
  <2>1. /\ UNCHANGED <<ledger, now>>
        /\ \A b \in Auths : b # a => prepared'[b] = prepared[b]
        /\ \A r \in LedgerRecord : Written(r) => r.nonce # a
    BY <1>1, AfterPreparation
  <2>2. AttemptedSince(now - Day)' = AttemptedSince(now - Day)
    BY <2>1 DEF AttemptedSince
  <2>3. \A b \in AttemptedSince(now - Day) : b \in Auths /\ b # a
    BY <2>1, LinesAreRecords DEF AttemptedSince, LinesWritten
  <2>4. \A b \in AttemptedSince(now - Day) : Worth'[b] = Worth[b]
    BY <2>1, <2>3 DEF Worth
  <2>5. QED
    BY <2>2, <2>4, CapKept
<1>2. ASSUME NEW r \in LedgerRecord, Writes(r), r.state # "attempting", now' = now
      PROVE  DailyCapHolds'
  <2>1. \A i \in DOMAIN ledger' : ledger'[i] = r \/ (i \in DOMAIN ledger /\ ledger'[i] = ledger[i])
    BY <1>2, FileAfterAppend DEF Writes, LedgerTypes
  <2>2. AttemptedSince(now - Day)' \subseteq AttemptedSince(now - Day)
    BY <1>2, <2>1 DEF AttemptedSince
  <2>3. QED
    BY <1>2, <2>2, CapKept DEF Writes, Worth
<1>3. ASSUME NEW a \in Auths, fulfilSigned(a) PROVE DailyCapHolds'
  <2> DEFINE S == AttemptedSince(now - Day)
  <2>1. /\ Writes(Attempt(a, "attempting")) /\ now' = now
        /\ Attempt(a, "attempting") \in LedgerRecord
        /\ Attempt(a, "attempting").nonce = a
    BY <1>3, FulfilWrites, AttemptIsRecord DEF fulfilSigned
  <2>2. AttemptedSince(now - Day)' \subseteq S \cup {a}
    <3>1. \A i \in DOMAIN ledger' :
            \/ ledger'[i] = Attempt(a, "attempting")
            \/ i \in DOMAIN ledger /\ ledger'[i] = ledger[i]
      BY <2>1, FileAfterAppend DEF Writes, LedgerTypes
    <3>2. QED
      BY <2>1, <3>1 DEF AttemptedSince
  <2>3. IsFiniteSet(S) /\ S \subseteq Auths
        /\ Total(Worth, S) \in Nat /\ spentLast24h \in Nat /\ Total(Worth, S) <= spentLast24h
    BY AttemptsAreCharged
  <2>4. IsFiniteSet(S \cup {a}) /\ S \cup {a} \subseteq Auths
    BY <2>3, FS_AddElement
  <2>5. \A b \in Auths : Worth[b] \in Nat
    BY WorthNatural
  <2>6. Total(Worth, S \cup {a}) \in Nat /\ Total(Worth, S \cup {a}) <= Total(Worth, S) + Worth[a]
    <3> HIDE DEF S
    <3>1. Total(Worth, S \cup {a}) = Total(Worth, (S \cup {a}) \ {a}) + Worth[a]
      BY <2>4, <2>5, TotalSplit
    <3>2. (S \cup {a}) \ {a} \subseteq S /\ IsFiniteSet((S \cup {a}) \ {a})
      BY <2>3, FS_Subset
    <3>3. /\ Total(Worth, (S \cup {a}) \ {a}) <= Total(Worth, S)
          /\ Total(Worth, (S \cup {a}) \ {a}) \in Nat
      BY <2>3, <2>5, <3>2, TotalSubset, TotalType
    <3>4. QED
      BY <2>3, <2>5, <3>1, <3>3
  <2>7. spentLast24h + Worth[a] <= dailyUsdc
    BY <1>3 DEF fulfilSigned, assertMaySpend, Worth
  <2>8. Total(Worth, S \cup {a}) <= dailyUsdc
    BY <2>3, <2>5, <2>6, <2>7, LedgerAssumption DEF SpendCaps
  <2>9. Worth' = Worth
    BY <2>1 DEF Writes, Worth
  <2>10. Total(Worth, AttemptedSince(now - Day)') <= Total(Worth, S \cup {a})
         /\ Total(Worth, AttemptedSince(now - Day)') \in Nat
    <3> DEFINE T == AttemptedSince(now - Day)'
    <3>1. T \subseteq S \cup {a}
      BY <2>2
    <3> HIDE DEF S, T
    <3>2. IsFiniteSet(T) /\ T \subseteq Auths
      BY <2>4, <3>1, FS_Subset
    <3>3. Total(Worth, T) <= Total(Worth, S \cup {a}) /\ Total(Worth, T) \in Nat
      BY <2>4, <2>5, <3>1, <3>2, TotalSubset, TotalType
    <3>4. QED
      BY <3>3 DEF T
  <2>11. Total(Worth, AttemptedSince(now - Day)') <= dailyUsdc
    <3> HIDE DEF S
    <3>1. QED
      BY <2>6, <2>8, <2>10, LedgerAssumption DEF SpendCaps
  <2>12. QED
    BY <2>9, <2>11 DEF DailyCapHolds, Worth
<1>4. ASSUME NEW a \in Auths, awaitCertificate(a) PROVE DailyCapHolds'
  BY <1>2, <1>4, CertificateWrites, AttemptIsRecord DEF awaitCertificate
<1>5. CASE recordOutcome
  BY <1>2, <1>5, OutcomeWrites DEF recordOutcome
<1>6. ASSUME Quiet, now' \in Nat, now <= now' PROVE DailyCapHolds'
  <2>1. now - Day <= now' - Day /\ now - Day \in Int /\ now' - Day \in Int
    <3>1. Day \in Nat /\ now \in Nat
      BY LedgerAssumption DEF LedgerTypes
    <3>2. \A x, y, d \in Nat : x <= y => x - d <= y - d /\ x - d \in Int /\ y - d \in Int
      OBVIOUS
    <3>3. QED
      BY <1>6, <3>1, <3>2, Zenon
  <2>2. \A i \in DOMAIN ledger : ledger[i].at \in Int
    BY LinesAreRecords DEF LedgerRecord
  <2>3. AttemptedSince(now - Day)' \subseteq AttemptedSince(now - Day)
    <3>1. \A i \in DOMAIN ledger : ledger[i].at >= now' - Day => ledger[i].at >= now - Day
      BY <2>1, <2>2
    <3>2. QED
      BY <1>6, <3>1 DEF AttemptedSince, Quiet
  <2>4. QED
    BY <1>6, <2>3, CapKept DEF Quiet, Worth
<1>7. now \in Nat /\ now <= now
  BY LedgerAssumption DEF LedgerTypes
<1>8. ASSUME NEW a \in Auths, submitRetirement(a) \/ callFails(a) \/ Accept(a) \/ Relay(a)
      PROVE  DailyCapHolds'
  BY <1>6, <1>7, <1>8, QuietSteps DEF submitRetirement, callFails, Accept, Relay
<1>9. ASSUME NEW r \in snapshot, authorizationOutcome(r) PROVE DailyCapHolds'
  BY <1>6, <1>7, <1>9, QuietSteps DEF authorizationOutcome
<1>10. CASE resolveUnresolved \/ resolveFails \/ Crash \/ UNCHANGED ledgerVars
  BY <1>6, <1>7, <1>10, QuietSteps DEF resolveUnresolved, resolveFails, Crash, ledgerVars
<1>11. CASE Tick
  <2>1. now' = now + 1
    BY <1>11 DEF Tick
  <2>2. now' \in Nat /\ now <= now'
    BY <1>7, <2>1
  <2>3. QED
    BY <1>6, <1>11, <2>2, QuietSteps
<1>12. QED
  BY <1>1, <1>3, <1>4, <1>5, <1>8, <1>9, <1>10, <1>11 DEF LedgerNext

LEMMA LedgerFactsInit == LedgerInit => LedgerFacts
<1> SUFFICES ASSUME LedgerInit PROVE LedgerFacts
  OBVIOUS
<1>1. ledger = <<>> /\ DOMAIN ledger = {} /\ ledger \in Seq(LedgerRecord)
  BY EmptySeq DEF LedgerInit
<1>2. LedgerTypes
  BY <1>1, LedgerAssumption DEF LedgerInit, LedgerTypes
<1>3. LinesWritten /\ PassWritten /\ AnswerSound /\ SettledIsSpent
  BY <1>1 DEF LedgerInit, LinesWritten, PassWritten, AnswerSound, SettledIsSpent
<1>4. DailyCapHolds
  <2>1. AttemptedSince(now - Day) = {}
    BY <1>1 DEF AttemptedSince
  <2>2. Total(Worth, {}) = 0
    BY TotalZero
  <2>3. Total(Worth, AttemptedSince(now - Day)) <= dailyUsdc
    BY <2>1, <2>2, LedgerAssumption DEF SpendCaps
  <2>4. QED
    BY <2>3 DEF DailyCapHolds, Worth
<1>5. QED
  BY <1>2, <1>3, <1>4 DEF LedgerFacts

LEMMA LedgerFactsInductive == LedgerFacts /\ [LedgerNext]_ledgerVars => LedgerFacts'
  BY LedgerTypesInductive, WrittenInductive, AnswerSoundInductive, SettledIsSpentInductive,
     DailyCapInductive DEF LedgerFacts

(***************************************************************************)
(* What recovery must respect for no obligation to be retired twice.       *)
(***************************************************************************)

\* An authorization that has moved money, or still can.
Live(a) == \/ chain[a] = "spent"
           \/ chain[a] = "queued" /\ now < prepared[a].validBefore
           \/ calls[a] = "submitting" /\ now < prepared[a].validBefore

\* The attempt being asked about can no longer be relayed, and is still what
\* its key's last record names.
Overdue(r) == now >= prepared[r.nonce].validBefore

Standing(r) == /\ latest(r.key).nonce = r.nonce
               /\ latest(r.key).state \in {"attempting", "settled"}

PassOverdue ==
  /\ \A r \in snapshot : Overdue(r) /\ Standing(r)
  /\ answer # NoAnswer => Overdue(answer.attempt) /\ Standing(answer.attempt)

\* The pass asks about one attempt of each key.
PassDistinct ==
  /\ \A r, s \in snapshot : r.key = s.key => r = s
  /\ answer # NoAnswer => \A r \in snapshot : r.key # answer.attempt.key

\* What the chain had not consumed when asked, it never will.
AnswerStands ==
  answer # NoAnswer /\ ~ answer.spent => chain[answer.attempt.nonce] # "spent"

LedgerInv ==
  /\ LedgerFacts
  /\ LiveAuthorizationOnRecord
  /\ PassOverdue /\ PassDistinct /\ AnswerStands

LEMMA LiveOnRecord ==
    LiveAuthorizationOnRecord <=>
      \A a \in Auths : Live(a) =>
        /\ latest(prepared[a].key).state \in {"attempting", "settled"}
        /\ latest(prepared[a].key).nonce = a
  BY DEF LiveAuthorizationOnRecord, Live

\* Only what was prepared is live.
LEMMA LiveIsPrepared ==
    ASSUME LedgerTypes, NEW a \in Auths, Live(a)
    PROVE  prepared[a] \in Authorization
  BY DEF LedgerTypes, Live

\* No step makes an authorization live but the one that submits it: the others
\* move it along, let it expire, or forget the call.
LEMMA LiveBefore ==
    ASSUME LedgerTypes, NEW a \in Auths, [LedgerNext]_ledgerVars, ~ fulfilSigned(a), Live(a)'
    PROVE  Live(a) /\ prepared'[a] = prepared[a]
<1>1. ASSUME NEW k \in Keys, NEW b \in Auths, NEW v \in Prices, prepareAuthorization(k, b, v)
      PROVE  Live(a) /\ prepared'[a] = prepared[a]
  <2>1. /\ prepared[b] = NotPrepared
        /\ UNCHANGED <<calls, chain, now>>
        /\ \A c \in Auths : c # b => prepared'[c] = prepared[c]
    BY <1>1, AfterPreparation
  <2>2. a # b
    BY <2>1 DEF LedgerTypes, Live
  <2>3. QED
    BY <2>1, <2>2 DEF Live
<1>2. ASSUME NEW b \in Auths, fulfilSigned(b) PROVE Live(a) /\ prepared'[a] = prepared[a]
  <2>1. b # a
    BY <1>2
  <2>2. QED
    BY <1>2, <2>1 DEF fulfilSigned, LedgerTypes, Live
<1>3. ASSUME NEW b \in Auths, submitRetirement(b) \/ callFails(b) \/ awaitCertificate(b)
      PROVE  Live(a) /\ prepared'[a] = prepared[a]
  BY <1>3 DEF submitRetirement, callFails, awaitCertificate, LedgerTypes, Live
<1>4. ASSUME NEW b \in Auths, Accept(b) \/ Relay(b)
      PROVE  Live(a) /\ prepared'[a] = prepared[a]
  BY <1>4 DEF Accept, Relay, LedgerTypes, Live
<1>5. CASE Crash
  BY <1>5 DEF Crash, Live
<1>6. CASE Tick
  <2>1. prepared'[a] = prepared[a] /\ chain' = chain /\ calls' = calls /\ now' = now + 1
    BY <1>6 DEF Tick
  <2>2. CASE chain[a] = "spent"
    BY <2>1, <2>2 DEF Live
  <2>3. CASE chain[a] # "spent"
    <3>1. (chain[a] = "queued" \/ calls[a] = "submitting") /\ now + 1 < prepared[a].validBefore
      BY <2>1, <2>3 DEF Live
    <3>2. prepared[a] \in Authorization
      BY <3>1 DEF LedgerTypes
    <3>3. prepared[a].validBefore \in Nat /\ now \in Nat
      BY <3>2, LedgerAssumption DEF LedgerTypes, Authorization
    <3>4. now < prepared[a].validBefore
      BY <3>1, <3>3
    <3>5. QED
      BY <2>1, <3>1, <3>4 DEF Live
  <2>4. QED
    BY <2>2, <2>3
<1>7. ASSUME UNCHANGED <<prepared, calls, chain, now>> PROVE Live(a) /\ prepared'[a] = prepared[a]
  BY <1>7 DEF Live
<1>8. QED
  BY <1>1, <1>2, <1>3, <1>4, <1>5, <1>6, <1>7
     DEF LedgerNext, resolveUnresolved, authorizationOutcome, recordOutcome, resolveFails, ledgerVars

LEMMA LiveOnRecordInductive ==
    ASSUME LedgerFacts, LiveAuthorizationOnRecord, PassOverdue, AnswerStands,
           [LedgerNext]_ledgerVars
    PROVE  LiveAuthorizationOnRecord'
<1> USE DEF LedgerFacts
<1> DEFINE OnRecord(a) == /\ latest(prepared[a].key).state \in {"attempting", "settled"}
                          /\ latest(prepared[a].key).nonce = a
<1>1. \A a \in Auths : Live(a) => OnRecord(a)
  BY LiveOnRecord
<1>2. SUFFICES ASSUME NEW b \in Auths, Live(b)' PROVE OnRecord(b)'
  BY DEF LiveAuthorizationOnRecord, Live
<1>3. ASSUME NEW a \in Auths, fulfilSigned(a) PROVE OnRecord(b)'
  <2> DEFINE r == Attempt(a, "attempting")
  <2>1. /\ r.key = prepared[a].key /\ r.nonce = a /\ r.state = "attempting"
        /\ prepared' = prepared
        /\ \A k : latest(k)' = IF r.key = k THEN r ELSE latest(k)
    BY <1>3, FulfilWrites, AttemptIsRecord, LinesAfterWrite DEF Writes
  <2> HIDE DEF r
  <2>2. CASE b = a
    BY <2>1, <2>2
  <2>3. CASE b # a
    <3>1. ~ fulfilSigned(b)
      BY <1>3, <2>3 DEF fulfilSigned, LedgerTypes
    <3>2. Live(b)
      BY <1>2, <3>1, LiveBefore
    <3>3. OnRecord(b)
      BY <1>1, <3>2
    <3>4. latest(prepared[a].key).state \notin {"attempting", "settled"}
      BY <1>3 DEF fulfilSigned, assertMaySpend, DuplicateRetirement
    <3>5. prepared[b].key # prepared[a].key
      BY <3>3, <3>4
    <3>6. QED
      BY <2>1, <3>3, <3>5
  <2>4. QED
    BY <2>2, <2>3
<1>4. CASE ~ \E a \in Auths : fulfilSigned(a)
  <2>1. Live(b) /\ prepared'[b] = prepared[b]
    BY <1>2, <1>4, LiveBefore
  <2>2. OnRecord(b)
    BY <1>1, <2>1
  <2>3. ASSUME ledger' = ledger PROVE OnRecord(b)'
    BY <2>1, <2>2, <2>3, LatestIsLatestIn
  <2>4. ASSUME NEW a \in Auths, awaitCertificate(a) PROVE OnRecord(b)'
    <3> DEFINE r == Attempt(a, "settled")
    <3>1. /\ r.key = prepared[a].key /\ r.nonce = a /\ r.state = "settled"
          /\ \A k : latest(k)' = IF r.key = k THEN r ELSE latest(k)
      BY <2>4, CertificateWrites, AttemptIsRecord, LinesAfterWrite
    <3> HIDE DEF r
    <3>2. OnRecord(a)
      BY <1>1, <2>4 DEF awaitCertificate, Live
    <3>3. CASE prepared[a].key = prepared[b].key
      <4>1. b = a
        BY <2>2, <3>2, <3>3
      <4>2. QED
        BY <2>1, <3>1, <4>1
    <3>4. CASE prepared[a].key # prepared[b].key
      BY <2>1, <2>2, <3>1, <3>4
    <3>5. QED
      BY <3>3, <3>4
  <2>5. CASE recordOutcome
    <3>1. /\ answer # NoAnswer /\ Closed.key = answer.attempt.key
          /\ Closed.nonce = answer.attempt.nonce
          /\ Closed.state = (IF answer.spent THEN "settled" ELSE "failed")
          /\ \A k : latest(k)' = IF Closed.key = k THEN Closed ELSE latest(k)
      BY <2>5, OutcomeWrites, LinesAfterWrite
    <3>2. CASE answer.attempt.key = prepared[b].key
      <4>1. b = answer.attempt.nonce
        BY <2>2, <3>1, <3>2 DEF PassOverdue, Standing
      <4>2. chain[b] = "spent"
        <5>1. now >= prepared[b].validBefore
          BY <3>1, <4>1 DEF PassOverdue, Overdue
        <5>2. prepared[b] \in Authorization
          BY <2>1, LiveIsPrepared
        <5>3. prepared[b].validBefore \in Nat /\ now \in Nat
          BY <5>2, LedgerAssumption DEF LedgerTypes, Authorization
        <5>4. ~ (now < prepared[b].validBefore)
          BY <5>1, <5>3
        <5>5. QED
          BY <2>1, <5>4 DEF Live
      <4>3. Closed.state = "settled"
        BY <3>1, <4>1, <4>2 DEF AnswerStands
      <4>4. QED
        BY <2>1, <3>1, <3>2, <4>1, <4>3
    <3>3. CASE answer.attempt.key # prepared[b].key
      BY <2>1, <2>2, <3>1, <3>3
    <3>4. QED
      BY <3>2, <3>3
  <2>6. CASE /\ ~ \E a \in Auths : awaitCertificate(a)
             /\ ~ recordOutcome
    <3>1. ledger' = ledger
      BY <1>4, <2>6, QuietSteps DEF LedgerNext, Quiet, prepareAuthorization
    <3>2. QED
      BY <2>3, <3>1
  <2>7. QED
    BY <2>4, <2>5, <2>6
<1>5. QED
  BY <1>3, <1>4

\* What the running pass has asked about, or has still to.
Pending(r) == r \in snapshot \/ (answer # NoAnswer /\ r = answer.attempt)

\* Only reading the file adds to it.
LEMMA PendingBefore ==
    ASSUME LedgerTypes, [LedgerNext]_ledgerVars, ~ resolveUnresolved, NEW r, Pending(r)'
    PROVE  /\ Pending(r)
           /\ recordOutcome => r \in snapshot
<1>1. ASSUME NEW s \in snapshot, authorizationOutcome(s) PROVE Pending(r) /\ ~ recordOutcome
  BY <1>1 DEF authorizationOutcome, recordOutcome, Pending
<1>2. CASE recordOutcome
  BY <1>2 DEF recordOutcome, Pending
<1>3. CASE ~ recordOutcome /\ ~ \E s \in snapshot : authorizationOutcome(s)
  <2>1. snapshot' \subseteq snapshot /\ (answer' = answer \/ answer' = NoAnswer)
    BY <1>3 DEF LedgerNext, prepareAuthorization, fulfilSigned, submitRetirement, callFails,
           awaitCertificate, Accept, Relay, resolveUnresolved, resolveFails, Crash, Tick, ledgerVars
  <2>2. QED
    BY <1>3, <2>1 DEF Pending
<1>4. QED
  BY <1>1, <1>2, <1>3

LEMMA ClockAdvances ==
    ASSUME LedgerTypes, [LedgerNext]_ledgerVars
    PROVE  now \in Nat /\ now' \in Nat /\ now <= now'
<1>1. now \in Nat
  BY LedgerAssumption DEF LedgerTypes
<1>2. now' = now \/ now' = now + 1
  BY DEF LedgerNext, prepareAuthorization, fulfilSigned, submitRetirement, callFails,
         awaitCertificate, Accept, Relay, resolveUnresolved, authorizationOutcome,
         recordOutcome, resolveFails, Crash, Tick, ledgerVars
<1>3. QED
  BY <1>1, <1>2

LEMMA PassOverdueInductive ==
    ASSUME ExpiredOnly, LedgerFacts, LiveAuthorizationOnRecord, PassOverdue, PassDistinct,
           [LedgerNext]_ledgerVars
    PROVE  PassOverdue'
<1> USE DEF LedgerFacts
<1>1. SUFFICES ASSUME NEW r, Pending(r)' PROVE Overdue(r)' /\ Standing(r)'
  BY DEF PassOverdue, Pending
<1>2. CASE resolveUnresolved
  <2>1. /\ r \in unresolved /\ Quiet /\ now' = now
        /\ \A s \in unresolved : Overdue(s)
    BY <1>1, <1>2 DEF resolveUnresolved, Pending, Quiet, Overdue
  <2>2. r.state = "attempting" /\ latest(r.key) = r
    BY <2>1, UnresolvedLines
  <2>3. QED
    BY <2>1, <2>2, LatestIsLatestIn DEF Overdue, Standing, Quiet
<1>3. CASE ~ resolveUnresolved
  <2>1. Pending(r) /\ Overdue(r) /\ Standing(r) /\ (recordOutcome => r \in snapshot)
    BY <1>1, <1>3, PendingBefore DEF PassOverdue, Pending
  <2>2. Written(r) /\ r \in LedgerRecord /\ r.nonce \in Auths
    BY <2>1 DEF Pending, PassWritten, LedgerTypes, Asked, LedgerRecord
  <2>3. prepared'[r.nonce] = prepared[r.nonce]
    <3>1. ASSUME NEW k \in Keys, NEW a \in Auths, NEW v \in Prices, prepareAuthorization(k, a, v)
          PROVE  prepared'[r.nonce] = prepared[r.nonce]
      BY <2>2, <3>1, AfterPreparation
    <3>2. QED
      BY <3>1, QuietSteps, FulfilWrites, CertificateWrites, OutcomeWrites DEF LedgerNext, Quiet, Writes
  <2>4. Overdue(r)'
    <3>1. prepared[r.nonce].validBefore \in Nat
      BY <2>2 DEF Written, Authorization
    <3>2. now' >= prepared[r.nonce].validBefore
      BY <2>1, <3>1, ClockAdvances DEF Overdue
    <3>3. QED
      BY <2>3, <3>2 DEF Overdue
  <2>5. ASSUME ledger' = ledger PROVE Standing(r)'
    BY <2>1, <2>5, LatestIsLatestIn DEF Standing
  <2>6. ASSUME NEW a \in Auths, fulfilSigned(a) PROVE Standing(r)'
    <3> DEFINE s == Attempt(a, "attempting")
    <3>1. /\ s.key = prepared[a].key
          /\ \A k : latest(k)' = IF s.key = k THEN s ELSE latest(k)
      BY <2>6, FulfilWrites, AttemptIsRecord, LinesAfterWrite
    <3> HIDE DEF s
    <3>2. prepared[a].key # r.key
      BY <2>1, <2>6 DEF fulfilSigned, assertMaySpend, DuplicateRetirement, Standing
    <3>3. QED
      BY <2>1, <3>1, <3>2 DEF Standing
  <2>7. ASSUME NEW a \in Auths, awaitCertificate(a) PROVE Standing(r)'
    <3> DEFINE s == Attempt(a, "settled")
    <3>1. /\ s.key = prepared[a].key /\ s.nonce = a /\ s.state = "settled"
          /\ \A k : latest(k)' = IF s.key = k THEN s ELSE latest(k)
      BY <2>7, CertificateWrites, AttemptIsRecord, LinesAfterWrite
    <3> HIDE DEF s
    <3>2. latest(prepared[a].key).nonce = a
      BY <2>7, LiveOnRecord DEF awaitCertificate, Live
    <3>3. CASE prepared[a].key = r.key
      BY <2>1, <3>1, <3>2, <3>3 DEF Standing
    <3>4. CASE prepared[a].key # r.key
      BY <2>1, <3>1, <3>4 DEF Standing
    <3>5. QED
      BY <3>3, <3>4
  <2>8. CASE recordOutcome
    <3>1. /\ answer # NoAnswer /\ Closed.key = answer.attempt.key
          /\ \A k : latest(k)' = IF Closed.key = k THEN Closed ELSE latest(k)
      BY <2>8, OutcomeWrites, LinesAfterWrite
    <3>2. r.key # answer.attempt.key
      BY <2>1, <2>8, <3>1 DEF PassDistinct
    <3>3. QED
      BY <2>1, <2>4, <3>1, <3>2 DEF Standing
  <2>9. ASSUME NEW k \in Keys, NEW a \in Auths, NEW v \in Prices, prepareAuthorization(k, a, v)
        PROVE  ledger' = ledger
    BY <2>9 DEF prepareAuthorization
  <2>10. QED
    BY <2>4, <2>5, <2>6, <2>7, <2>8, <2>9, QuietSteps DEF LedgerNext, Quiet
<1>4. QED
  BY <1>2, <1>3

LEMMA PassDistinctInductive ==
    ASSUME LedgerTypes, PassDistinct, [LedgerNext]_ledgerVars
    PROVE  PassDistinct'
<1>1. CASE resolveUnresolved
  <2>1. \A r, s \in unresolved : r.key = s.key => r = s
    BY UnresolvedLines
  <2>2. QED
    BY <1>1, <2>1 DEF resolveUnresolved, PassDistinct
<1>2. ASSUME NEW r \in snapshot, authorizationOutcome(r) PROVE PassDistinct'
  BY <1>2 DEF authorizationOutcome, PassDistinct
<1>3. CASE ~ resolveUnresolved /\ ~ \E r \in snapshot : authorizationOutcome(r)
  <2>1. snapshot' \subseteq snapshot /\ (answer' = answer \/ answer' = NoAnswer)
    BY <1>3 DEF LedgerNext, prepareAuthorization, fulfilSigned, submitRetirement, callFails,
           awaitCertificate, Accept, Relay, recordOutcome, resolveFails, Crash, Tick, ledgerVars
  <2>2. QED
    BY <2>1 DEF PassDistinct
<1>4. QED
  BY <1>1, <1>2, <1>3

\* An overdue authorization is not relayed any more.
LEMMA AnswerStandsInductive ==
    ASSUME LedgerTypes, PassOverdue, PassWritten, AnswerStands, [LedgerNext]_ledgerVars
    PROVE  AnswerStands'
<1>1. ASSUME NEW r \in snapshot, authorizationOutcome(r) PROVE AnswerStands'
  BY <1>1 DEF authorizationOutcome, AnswerStands
<1>2. CASE ~ \E r \in snapshot : authorizationOutcome(r)
  <2>1. answer' = answer \/ answer' = NoAnswer
    BY <1>2 DEF LedgerNext, prepareAuthorization, fulfilSigned, submitRetirement, callFails,
           awaitCertificate, Accept, Relay, resolveUnresolved, recordOutcome,
           resolveFails, Crash, Tick, ledgerVars
  <2>2. CASE answer' = NoAnswer
    BY <2>2 DEF AnswerStands
  <2>3. CASE answer' = answer /\ answer # NoAnswer
    <3> DEFINE b == answer.attempt.nonce
    <3>1. b \in Auths
      BY <2>3 DEF LedgerTypes, Asked, LedgerRecord
    <3>2. ~ (now < prepared[b].validBefore)
      <4>1. prepared[b] \in Authorization /\ now >= prepared[b].validBefore
        BY <2>3 DEF PassOverdue, PassWritten, Overdue, Written
      <4>2. prepared[b].validBefore \in Nat /\ now \in Nat
        BY <4>1, ClockAdvances DEF Authorization
      <4>3. QED
        BY <4>1, <4>2
    <3>3. chain[b] # "spent" => chain'[b] # "spent"
      <4>1. ASSUME NEW a \in Auths, Accept(a) PROVE chain[b] # "spent" => chain'[b] # "spent"
        BY <3>1, <4>1 DEF Accept, LedgerTypes
      <4>2. ASSUME NEW a \in Auths, Relay(a) PROVE chain[b] # "spent" => chain'[b] # "spent"
        BY <3>1, <3>2, <4>2 DEF Relay, LedgerTypes
      <4>3. (\E a \in Auths : Accept(a) \/ Relay(a)) \/ chain' = chain
        BY DEF LedgerNext, prepareAuthorization, fulfilSigned, submitRetirement, callFails,
               awaitCertificate, resolveUnresolved, authorizationOutcome, recordOutcome,
               resolveFails, Crash, Tick, ledgerVars
      <4>4. QED
        BY <4>1, <4>2, <4>3
    <3>4. QED
      BY <2>3, <3>3 DEF AnswerStands
  <2>4. QED
    BY <2>1, <2>2, <2>3
<1>3. QED
  BY <1>1, <1>2

(***************************************************************************)
(* The theorems about the ledger.                                          *)
(***************************************************************************)

\* The ledger's types, the file's agreement with what was prepared, the cap
\* and the soundness of `settled`, whenever recovery is run.
THEOREM LedgerFactsHold == LedgerSpec => []LedgerFacts
<1>1. QED
  BY LedgerFactsInit, LedgerFactsInductive, PTL DEF LedgerSpec

\* Every state of the ledger is of its type.
THEOREM LedgerTypesCorrect == LedgerSpec => []LedgerTypeOK
<1>1. LedgerTypes => LedgerTypeOK
  BY DEF LedgerTypes, LedgerTypeOK, Authorization, Asked
<1>2. QED
  BY <1>1, LedgerFactsHold, PTL DEF LedgerFacts

\* What the ledger calls settled, the chain has consumed, however late the
\* answer is written down.
THEOREM SettledWasSpent == LedgerSpec => []SettledIsSpent
  BY LedgerFactsHold, PTL DEF LedgerFacts

\* The authorizations handed out in any trailing day can together move no more
\* than the daily cap, for any caps, prices and window.
THEOREM DailyCapRespected == LedgerSpec => []DailyCapHolds
  BY LedgerFactsHold, PTL DEF LedgerFacts

LEMMA LedgerInvInit == LedgerInit => LedgerInv
<1> SUFFICES ASSUME LedgerInit PROVE LedgerInv
  OBVIOUS
<1>1. LiveAuthorizationOnRecord /\ PassOverdue /\ PassDistinct /\ AnswerStands
  BY DEF LedgerInit, LiveAuthorizationOnRecord, PassOverdue, PassDistinct, AnswerStands
<1>2. QED
  BY <1>1, LedgerFactsInit DEF LedgerInv

LEMMA LedgerInvInductive ==
    ASSUME ExpiredOnly
    PROVE  LedgerInv /\ [LedgerNext]_ledgerVars => LedgerInv'
<1> SUFFICES ASSUME LedgerInv, [LedgerNext]_ledgerVars PROVE LedgerInv'
  OBVIOUS
<1>1. LedgerTypes /\ PassWritten
  BY DEF LedgerInv, LedgerFacts
<1>2. QED
  BY <1>1, LedgerFactsInductive, LiveOnRecordInductive, PassOverdueInductive,
     PassDistinctInductive, AnswerStandsInductive DEF LedgerInv

\* With recovery run over expired authorizations only.
THEOREM LedgerInvHolds ==
    ASSUME ExpiredOnly
    PROVE  LedgerSpec => []LedgerInv
<1>1. QED
  BY LedgerInvInit, LedgerInvInductive, PTL DEF LedgerSpec

\* An authorization that has moved money, or still can, is the one its key's
\* last record names.
THEOREM LiveIsOnRecord ==
    ASSUME ExpiredOnly
    PROVE  LedgerSpec => []LiveAuthorizationOnRecord
  BY LedgerInvHolds, PTL DEF LedgerInv

\* Of one key, two authorizations cannot both be what its last record names.
LEMMA OnRecordIsAlone ==
    ASSUME LiveAuthorizationOnRecord
    PROVE  AtMostOneRetirement
<1> SUFFICES ASSUME NEW k \in Keys PROVE Cardinality(Retired(k)) <= 1
  BY DEF AtMostOneRetirement
<1>1. Retired(k) \subseteq {latest(k).nonce}
  BY DEF Retired, LiveAuthorizationOnRecord
<1>2. /\ IsFiniteSet({latest(k).nonce})
      /\ Cardinality({latest(k).nonce}) = 1
  BY FS_Singleton
<1>3. Cardinality(Retired(k)) <= Cardinality({latest(k).nonce})
  BY <1>1, <1>2, FS_Subset
<1>4. QED
  BY <1>2, <1>3

\* No obligation is retired twice, whatever crashes, timeouts, late relays,
\* repeated preparations and recovery passes happen in between.
THEOREM RetiredAtMostOnce ==
    ASSUME ExpiredOnly
    PROVE  LedgerSpec => []AtMostOneRetirement
  BY LiveIsOnRecord, OnRecordIsAlone, PTL

(***************************************************************************)
(* The conversation with the endpoint.                                     *)
(***************************************************************************)
Terms  == [state : TermsKind, key : Keys, value : Prices]
Posted == [state : {"posted"}, key : Keys, posts : Nat]
Served == [state : {"served"}, key : Keys, posts : Nat, nonce : Auths]

ExchangeTypes ==
  /\ asks \in [Askers -> {NotAsking} \cup Posted \cup Served]
  /\ terms \in [Auths -> {NotMinted} \cup Terms]

\* What was prepared is what the endpoint wrote for the order, under the cap.
PreparedAsOrdered ==
  \A a \in Auths :
    prepared[a] \in Authorization =>
      /\ terms[a].state = "as ordered" /\ terms[a].key = prepared[a].key
      /\ terms[a].value <= perRetirementUsdc

ExchangeInv == LedgerFacts /\ ExchangeTypes /\ PreparedAsOrdered

\* A served ask has its nonce, and terms as ordered were minted.
LEMMA AskKinds ==
    ASSUME ExchangeTypes, NEW p \in Askers
    PROVE  /\ asks[p].state = "posted" => asks[p] \in Posted
           /\ asks[p].state = "served" => asks[p] \in Served
           /\ asking(p) => asks[p].key \in Keys /\ asks[p].posts \in Nat
  BY DEF ExchangeTypes, NotAsking, Posted, Served, asking

LEMMA TermsKinds ==
    ASSUME ExchangeTypes, NEW a \in Auths, terms[a].state = "as ordered"
    PROVE  terms[a] # NotMinted /\ terms[a].key \in Keys /\ terms[a].value \in Prices
<1>1. NotMinted.state = "unminted"
  BY DEF NotMinted
<1>2. terms[a] # NotMinted
  BY <1>1
<1>3. terms[a] \in Terms
  BY <1>2 DEF ExchangeTypes
<1>4. QED
  BY <1>2, <1>3 DEF Terms

\* The answer a call takes is a preparation of the ledger's.
LEMMA AnswerPrepares ==
    ASSUME ExchangeTypes, NEW p \in Askers, answered(p)
    PROVE  \E a \in Auths :
             /\ a = asks[p].nonce /\ terms[a].state = "as ordered"
             /\ terms[a].key \in Keys /\ terms[a].value \in Prices
             /\ prepareAuthorization(terms[a].key, a, terms[a].value)
             /\ asks' = [asks EXCEPT ![p] = NotAsking] /\ UNCHANGED <<terms, index, proof>>
<1>1. asks[p].nonce \in Auths
  BY AskKinds DEF answered, Served
<1>2. QED
  BY <1>1, TermsKinds DEF answered, assertAuthorizationMatchesOrder

\* Each step is one of the ledger's, or leaves the ledger alone.
LEMMA ExchangeStepsAreLedgerSteps ==
    ASSUME ExchangeTypes, [ExchangeNext]_exchangeVars
    PROVE  [LedgerNext]_ledgerVars
<1>1. ASSUME NEW p \in Askers, answered(p) PROVE LedgerNext
  BY <1>1, AnswerPrepares DEF LedgerNext
<1>2. ASSUME NEW p \in Askers,
             \/ \E k \in Keys : prepareAuth(p, k)
             \/ \E a \in Auths, v \in Prices, kind \in TermsKind : Serves(p, a, v, kind)
             \/ postAgain(p) \/ prepareFails(p)
      PROVE  UNCHANGED ledgerVars
  BY <1>2 DEF prepareAuth, Serves, postAgain, prepareFails
<1>3. ASSUME NEW a \in Auths, relaySigned(a) \/ certified(a) PROVE LedgerNext
  BY <1>3 DEF relaySigned, certified, LedgerNext
<1>4. ASSUME NEW a \in Auths, NEW c \in Certificates, Indexes(a, c) PROVE UNCHANGED ledgerVars
  BY <1>4 DEF Indexes
<1>5. CASE closed
  BY <1>5 DEF closed, LedgerNext
<1>6. CASE Dies
  BY <1>6 DEF Dies, LedgerNext
<1>7. CASE Relays
  BY <1>7 DEF Relays, LedgerNext
<1>8. CASE UNCHANGED exchangeVars
  BY <1>8 DEF exchangeVars
<1>9. QED
  BY <1>1, <1>2, <1>3, <1>4, <1>5, <1>6, <1>7, <1>8 DEF ExchangeNext

LEMMA ExchangeInvInit == ExchangeInit => ExchangeInv
<1> SUFFICES ASSUME ExchangeInit PROVE ExchangeInv
  OBVIOUS
<1>1. LedgerFacts
  BY LedgerFactsInit DEF ExchangeInit
<1>2. ExchangeTypes
  BY DEF ExchangeInit, ExchangeTypes
<1>3. PreparedAsOrdered
  BY NotPreparedIsNone DEF ExchangeInit, LedgerInit, PreparedAsOrdered
<1>4. QED
  BY <1>1, <1>2, <1>3 DEF ExchangeInv

LEMMA ExchangeTypesInductive ==
    ASSUME ExchangeTypes, [ExchangeNext]_exchangeVars
    PROVE  ExchangeTypes'
<1>1. ASSUME NEW p \in Askers, NEW k \in Keys, prepareAuth(p, k) PROVE ExchangeTypes'
  <2>1. [state |-> "posted", key |-> k, posts |-> 1] \in Posted
    BY DEF Posted
  <2>2. QED
    BY <1>1, <2>1 DEF prepareAuth, ExchangeTypes
<1>2. ASSUME NEW p \in Askers, NEW a \in Auths, NEW v \in Prices, NEW kind \in TermsKind,
             Serves(p, a, v, kind)
      PROVE  ExchangeTypes'
  <2>1. asks[p] \in Posted
    BY <1>2, AskKinds DEF Serves
  <2>2. [state |-> "served", key |-> asks[p].key, posts |-> asks[p].posts, nonce |-> a] \in Served
    BY <2>1 DEF Posted, Served
  <2>3. [state |-> kind, key |-> asks[p].key, value |-> v] \in Terms
    BY <2>1 DEF Posted, Terms
  <2>4. asks' \in [Askers -> {NotAsking} \cup Posted \cup Served]
    BY <1>2, <2>2 DEF Serves, ExchangeTypes
  <2>5. terms' \in [Auths -> {NotMinted} \cup Terms]
    BY <1>2, <2>3 DEF Serves, ExchangeTypes
  <2>6. QED
    BY <2>4, <2>5 DEF ExchangeTypes
<1>3. ASSUME NEW p \in Askers, postAgain(p) PROVE ExchangeTypes'
  <2>1. asks[p].key \in Keys /\ asks[p].posts + 1 \in Nat
    BY <1>3, AskKinds DEF postAgain
  <2>2. [state |-> "posted", key |-> asks[p].key, posts |-> asks[p].posts + 1] \in Posted
    BY <2>1 DEF Posted
  <2>3. QED
    BY <1>3, <2>2 DEF postAgain, ExchangeTypes
<1>4. ASSUME NEW p \in Askers, answered(p) \/ prepareFails(p) PROVE ExchangeTypes'
  BY <1>4 DEF answered, prepareFails, ExchangeTypes
<1>5. CASE Dies
  BY <1>5 DEF Dies, ExchangeTypes
<1>6. ASSUME UNCHANGED <<asks, terms>> PROVE ExchangeTypes'
  BY <1>6 DEF ExchangeTypes
<1>7. QED
  BY <1>1, <1>2, <1>3, <1>4, <1>5, <1>6
     DEF ExchangeNext, relaySigned, certified, Indexes, closed, exchangeVars

LEMMA PreparedAsOrderedInductive ==
    ASSUME ExchangeInv, [ExchangeNext]_exchangeVars
    PROVE  PreparedAsOrdered'
<1> USE DEF ExchangeInv, LedgerFacts
<1>1. ASSUME NEW p \in Askers, answered(p) PROVE PreparedAsOrdered'
  <2>1. PICK a \in Auths :
          /\ terms[a].state = "as ordered" /\ terms[a].key \in Keys /\ terms[a].value \in Prices
          /\ prepareAuthorization(terms[a].key, a, terms[a].value) /\ terms' = terms
    BY <1>1, AnswerPrepares
  <2>2. /\ prepared'[a].key = terms[a].key
        /\ \A b \in Auths : b # a => prepared'[b] = prepared[b]
    <3>1. LedgerTypes
      OBVIOUS
    <3>2. ASSUME NEW k \in Keys, NEW v \in Prices, prepareAuthorization(k, a, v)
          PROVE  /\ prepared'[a].key = k
                 /\ \A b \in Auths : b # a => prepared'[b] = prepared[b]
      BY <3>1, <3>2, AfterPreparation
    <3>3. QED
      BY <2>1, <3>2
  <2>3. terms[a].value <= perRetirementUsdc
    BY <2>1 DEF prepareAuthorization, assertMaySpend
  <2>4. QED
    BY <2>1, <2>2, <2>3 DEF PreparedAsOrdered
<1>2. ASSUME NEW p \in Askers, NEW a \in Auths, NEW v \in Prices, NEW kind \in TermsKind,
             Serves(p, a, v, kind)
      PROVE  PreparedAsOrdered'
  <2>1. /\ terms[a] = NotMinted /\ prepared' = prepared
        /\ \A b \in Auths : b # a => terms'[b] = terms[b]
    BY <1>2 DEF Serves, ledgerVars, ExchangeTypes
  <2>2. prepared[a] \notin Authorization
    <3>1. terms[a].state # "as ordered"
      BY <2>1 DEF NotMinted
    <3>2. QED
      BY <3>1 DEF PreparedAsOrdered
  <2>3. QED
    BY <2>1, <2>2 DEF PreparedAsOrdered
<1>3. ASSUME UNCHANGED <<prepared, terms>> PROVE PreparedAsOrdered'
  BY <1>3 DEF PreparedAsOrdered
<1>4. ASSUME NEW p \in Askers,
             (\E k \in Keys : prepareAuth(p, k)) \/ postAgain(p) \/ prepareFails(p)
      PROVE  UNCHANGED <<prepared, terms>>
  BY <1>4 DEF prepareAuth, postAgain, prepareFails, ledgerVars
<1>5. ASSUME NEW a \in Auths, relaySigned(a) \/ certified(a)
      PROVE  UNCHANGED <<prepared, terms>>
  BY <1>5 DEF relaySigned, certified, fulfilSigned, awaitCertificate
<1>6. ASSUME NEW a \in Auths, NEW c \in Certificates, Indexes(a, c)
      PROVE  UNCHANGED <<prepared, terms>>
  BY <1>6 DEF Indexes, ledgerVars
<1>7. CASE closed \/ Dies
  <2>1. UNCHANGED <<prepared, terms>>
    BY <1>7 DEF closed, Dies, recordOutcome, Crash
  <2>2. QED
    BY <1>3, <2>1
<1>8. CASE Relays /\ UNCHANGED <<asks, terms, index, proof>>
  <2>1. UNCHANGED <<prepared, terms>>
    BY <1>8, QuietSteps DEF Relays, Quiet
  <2>2. QED
    BY <1>3, <2>1
<1>9. CASE UNCHANGED exchangeVars
  BY <1>3, <1>9 DEF exchangeVars, ledgerVars
<1>10. QED
  BY <1>1, <1>2, <1>3, <1>4, <1>5, <1>6, <1>7, <1>8, <1>9 DEF ExchangeNext

LEMMA ExchangeInvInductive == ExchangeInv /\ [ExchangeNext]_exchangeVars => ExchangeInv'
  BY ExchangeStepsAreLedgerSteps, LedgerFactsInductive, ExchangeTypesInductive,
     PreparedAsOrderedInductive DEF ExchangeInv

\* The ledger's facts, the terms of the conversation, and that only what the
\* endpoint wrote for the order is ever prepared.
THEOREM ExchangeCorrect == ExchangeSpec => []ExchangeInv
<1>1. QED
  BY ExchangeInvInit, ExchangeInvInductive, PTL DEF ExchangeSpec

\* The conversation, with its lost answers, repeated posts, substituted terms
\* and late certificates, is a behaviour of the ledger.
THEOREM ExchangeImplementsLedger == ExchangeSpec => LedgerSpec
<1>1. ExchangeInit => LedgerInit
  BY DEF ExchangeInit
<1>2. ExchangeInv /\ [ExchangeNext]_exchangeVars => [LedgerNext]_ledgerVars
  BY ExchangeStepsAreLedgerSteps DEF ExchangeInv
<1>3. QED
  BY <1>1, <1>2, ExchangeCorrect, PTL DEF ExchangeSpec, LedgerSpec

\* Money only moves on the terms of the order it is recorded for.
THEOREM SpentOnlyAsOrdered == ExchangeSpec => []SpentAsOrdered
<1>1. ExchangeInv => SpentAsOrdered
  BY DEF ExchangeInv, LedgerFacts, LedgerTypes, PreparedAsOrdered, SpentAsOrdered
<1>2. QED
  BY <1>1, ExchangeCorrect, PTL

\* So the conversation retires no obligation twice.
THEOREM ExchangeRetiresAtMostOnce ==
    ASSUME ExpiredOnly
    PROVE  ExchangeSpec => [](AtMostOneRetirement /\ LiveAuthorizationOnRecord)
  BY ExchangeImplementsLedger, RetiredAtMostOnce, LiveIsOnRecord, PTL

\* And, whenever recovery is run, it keeps the daily cap.
THEOREM ExchangeKeepsTheCap == ExchangeSpec => [](DailyCapHolds /\ SettledIsSpent)
  BY ExchangeImplementsLedger, DailyCapRespected, SettledWasSpent, PTL
=============================================================================
