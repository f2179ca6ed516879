------------------------ MODULE OperatorRuns_proofs ------------------------
(***************************************************************************)
(* Proofs about the operator's scripts, for any number of workloads,       *)
(* tokens, jobs and failures and any terms of the class.                   *)
(*                                                                         *)
(* The inductive invariant has two halves: what is always true of the      *)
(* chain and of the provider (World), and what a script may rely on at     *)
(* each of its steps (Position).                                           *)
(***************************************************************************)
EXTENDS OperatorRuns, FiniteSetTheorems, TLAPS

(***************************************************************************)
(* Types.                                                                  *)
(***************************************************************************)
TokenRecord == [owner : {"nobody", "operator", "other"}, ours : BOOLEAN,
                state : {"None", "Available", "PendingReview", "Activated"},
                parcel : Works \cup {None},
                deposit : {"none", "held", "released", "refunded"},
                evidence : Jobs \cup {None}]
JobRecord == [state : {"none", "open", "bid", "leased", "ready", "ended", "closed"},
              token : Tokens \cup {None}, work : Works \cup {None}]
ClassRecord == [issuer : BOOLEAN, open : BOOLEAN, posted : Nat]
Pcs == {"idle", "complete", "declined", "failed", "unlock", "preflight", "issuer", "class",
        "post", "mint", "minting", "minted", "rule", "submit", "decide", "retire", "record",
        "release", "credit", "claim", "freed", "owed", "withdraw", "check", "again",
        "find", "fulfil", "create", "bids", "lease", "wait", "verify", "caught"}
RunRecord == [pc : Pcs, resume : BOOLEAN, token : Tokens \cup {None},
              job : Jobs \cup {None}, work : Works \cup {None},
              free : Nat, attempted : BOOLEAN]

TokenTypes == token \in [Tokens -> TokenRecord]
JobTypes == job \in [Jobs -> JobRecord]
RunTypes == run \in RunRecord
MoneyTypes == class \in ClassRecord /\ wallet \in Nat /\ credit \in Nat
Types == /\ TokenTypes /\ JobTypes /\ RunTypes /\ MoneyTypes
         /\ lane \in {"carbon", "compute"} /\ failures \in 0 .. MaxFailures

LEMMA TypesAreTypes == Types => RunsTypeOK
  BY DEF Types, TokenTypes, JobTypes, RunTypes, MoneyTypes, RunsTypeOK, TokenRecord,
         JobRecord, ClassRecord, RunRecord

(***************************************************************************)
(* The inductive invariant.                                                *)
(***************************************************************************)
\* Ids are handed out in order, and what is not handed out yet is blank.
InOrder ==
  /\ \A t \in Tokens : token[t].state # "None" <=> t < NextToken
  /\ \A t \in Tokens : token[t].state = "None" => token[t] = NoToken
  /\ \A j \in Jobs : job[j].state # "none" <=> j < NextJob

\* Work is bound, and jobs are asked for, only for what the operator owns.
Owned ==
  /\ \A t \in Tokens : token[t].parcel # None => token[t].owner = "operator"
  /\ \A j \in Jobs : job[j].state # "none" =>
       /\ job[j].token \in Tokens /\ token[job[j].token].owner = "operator"
       /\ job[j].work \in Works

NoneOwned == \A t \in Tokens : token[t].owner # "operator"
Untouched == \A j \in Jobs : ~Bought(j)

\* In the carbon lane a job is a retirement, and done as soon as it is there.
CarbonWorld ==
  lane = "carbon" => \A j \in Jobs : job[j].state \in {"none", "ready"}

\* In the compute lane the operator ever buys one entitlement: the run that opens
\* the class is the only one that may mint.
ComputeWorld ==
  lane = "compute" =>
    /\ ~class.open => class.posted = 0 /\ NoneOwned
    /\ \A t, u \in Tokens :
         token[t].owner = "operator" /\ token[u].owner = "operator" => t = u

World == /\ InOrder /\ Owned /\ CarbonWorld /\ ComputeWorld
         /\ BoughtOnce /\ EvidenceOfOwnJob /\ RetiredAsBound

At(pcs) == run.pc \in pcs

\* What both scripts rely on.
CommonPosition ==
  /\ Going => run.work \in Works
  /\ At({"mint", "minting"}) => wallet >= Price
  /\ At({"record"}) =>
       /\ run.job \in Jobs /\ Bought(run.job)
       /\ run.token \in Tokens /\ job[run.job].token = run.token
  /\ At({"release"}) => run.token \in Tokens

\* A run that is not resumed goes on with an unbound token or not at all, so that
\* whatever is under review, or retired, is what this run was asked for.
CarbonPosition ==
  lane = "carbon" =>
    /\ ~At({"find", "minted", "fulfil", "create", "bids", "lease", "wait", "caught",
            "verify", "owed", "check", "again"})
    /\ At({"issuer", "class", "post"}) => ~run.resume /\ wallet >= Price + Collateral
    /\ At({"mint", "minting"}) => ~run.resume
    /\ At({"minting"}) => run.token \in Tokens /\ token[run.token].owner # "operator"
    /\ At({"unlock", "preflight", "rule", "submit"}) /\ run.resume => run.token \in Tokens
    /\ At({"rule", "submit"}) /\ ~run.resume =>
         run.token \in Tokens /\ token[run.token].parcel = None
    /\ At({"decide"}) =>
         /\ run.token \in Tokens
         /\ token[run.token].state = "PendingReview" => token[run.token].parcel = run.work
    /\ At({"retire"}) => run.token \in Tokens /\ token[run.token].parcel = run.work

\* Before a lease is asked for nothing was bought: for a fresh run because it minted
\* the operator's only token, for a resumed one because the operator looked.
ComputePosition ==
  lane = "compute" =>
    /\ ~At({"preflight", "retire", "freed"})
    /\ At({"post"}) => class.open /\ class.posted <= Collateral
    /\ At({"post", "mint", "minting"}) /\ ~run.resume => NoneOwned
    /\ At({"rule", "mint", "minting", "minted", "submit", "decide"}) => ~run.resume
    /\ At({"rule", "unlock", "issuer", "class", "post", "mint", "minting", "minted", "submit",
           "decide"}) /\ ~run.resume => run.job = None
    /\ At({"unlock", "issuer", "class", "post"}) /\ run.resume /\ run.job = None
         => Untouched
    /\ At({"minted", "submit", "decide", "create", "bids", "lease"}) => Untouched
    /\ At({"find", "fulfil"}) /\ run.job = None => Untouched
    /\ At({"minting", "minted"}) => run.token \in Tokens
    /\ At({"submit", "decide", "fulfil", "create", "bids", "lease", "wait", "verify"}) =>
         run.token \in Tokens /\ token[run.token].owner = "operator"
    /\ At({"bids", "lease", "wait", "verify", "caught"}) =>
         run.job \in Jobs /\ job[run.job].state # "none"
    /\ At({"bids", "lease", "wait", "verify"}) => job[run.job].token = run.token
    /\ At({"wait", "verify"}) => Bought(run.job)
    /\ At({"lease", "wait"}) => run.attempted
    /\ At({"caught"}) /\ ~run.attempted => ~Bought(run.job)
    /\ At({"credit", "claim", "owed", "withdraw", "check", "again", "complete"}) =>
         run.token \in Tokens /\ token[run.token].deposit = "released"
    /\ At({"again", "complete"}) => token[run.token].evidence = run.job

Position == CommonPosition /\ CarbonPosition /\ ComputePosition

RunsInv == Types /\ World /\ Position

(***************************************************************************)
(* Counting.                                                               *)
(***************************************************************************)
LEMMA Numbers ==
  /\ Price \in Nat /\ Price > 0 /\ Payout \in Nat /\ Collateral \in Nat
  /\ Wealth \in Nat /\ MaxFailures \in Nat /\ MaxTokens \in Nat /\ MaxJobs \in Nat
  /\ None \notin Works /\ None \notin Nat /\ None \notin Tokens /\ None \notin Jobs
  /\ Tokens \subseteq Nat /\ Jobs \subseteq Nat
  BY RunAssumption DEF usd, Tokens, Jobs

LEMMA FiniteTokens == ASSUME NEW S \in SUBSET Tokens
                      PROVE  IsFiniteSet(S) /\ Cardinality(S) \in Nat
<1>1. IsFiniteSet(1 .. MaxTokens)
  BY FS_Interval, Numbers
<1>2. QED
  BY <1>1, FS_Subset, FS_CardinalityType DEF Tokens

LEMMA FiniteJobs == ASSUME NEW S \in SUBSET Jobs
                    PROVE  IsFiniteSet(S) /\ Cardinality(S) \in Nat
<1>1. IsFiniteSet(1 .. MaxJobs)
  BY FS_Interval, Numbers
<1>2. QED
  BY <1>1, FS_Subset, FS_CardinalityType DEF Jobs

LEMMA NextTokenNat == NextToken \in Nat /\ NextToken > 0
  BY FiniteTokens DEF NextToken, Minted

LEMMA NextJobNat == NextJob \in Nat /\ NextJob > 0
  BY FiniteJobs DEF NextJob

LEMMA ObligationNat == Obligation \in Nat
<1>1. Cardinality({t \in Tokens : token[t].ours /\ token[t].deposit = "held"}) \in Nat
  BY FiniteTokens
<1>2. QED
  BY <1>1, Numbers DEF Obligation

\* A token that is handed out is the next one; no other change moves the count.
LEMMA SameTokensInOrder ==
  ASSUME InOrder, \A t \in Tokens : token'[t].state # "None" <=> token[t].state # "None",
         \A t \in Tokens : token'[t].state = "None" => token'[t] = NoToken,
         job' = job
  PROVE  InOrder'
<1>1. Minted' = Minted
  BY DEF Minted
<1>2. NextToken' = NextToken /\ NextJob' = NextJob
  BY <1>1 DEF NextToken, NextJob
<1>3. QED
  BY <1>2 DEF InOrder

LEMMA NextTokenInOrder ==
  ASSUME InOrder, NextToken \in Tokens, job' = job,
         token'[NextToken].state # "None",
         \A t \in Tokens \ {NextToken} : token'[t] = token[t]
  PROVE  InOrder'
<1>1. NextToken \notin Minted
  BY NextTokenNat DEF InOrder, Minted
<1>2. Minted' = Minted \cup {NextToken}
  BY DEF Minted
<1>3. Cardinality(Minted \cup {NextToken}) = Cardinality(Minted) + 1
  BY <1>1, FiniteTokens, FS_AddElement DEF Minted
<1>4. NextToken' = NextToken + 1 /\ NextJob' = NextJob
  BY <1>2, <1>3 DEF NextToken, NextJob
<1>5. \A t \in Tokens : t < NextToken + 1 <=> t < NextToken \/ t = NextToken
  BY NextTokenNat, Numbers
<1>6. QED
  BY <1>4, <1>5 DEF InOrder

LEMMA SameJobsInOrder ==
  ASSUME InOrder, token' = token,
         \A j \in Jobs : job'[j].state # "none" <=> job[j].state # "none"
  PROVE  InOrder'
<1>1. Minted' = Minted
  BY DEF Minted
<1>2. {j \in Jobs : job[j].state # "none"}' = {j \in Jobs : job[j].state # "none"}
  OBVIOUS
<1>3. NextToken' = NextToken /\ NextJob' = NextJob
  BY <1>1, <1>2 DEF NextToken, NextJob
<1>4. QED
  BY <1>3 DEF InOrder

LEMMA NextJobInOrder ==
  ASSUME InOrder, NextJob \in Jobs, token' = token,
         job'[NextJob].state # "none",
         \A j \in Jobs \ {NextJob} : job'[j] = job[j]
  PROVE  InOrder'
<1> DEFINE Opened == {j \in Jobs : job[j].state # "none"}
<1>1. NextJob \notin Opened
  BY NextJobNat DEF InOrder
<1>2. Opened' = Opened \cup {NextJob}
  OBVIOUS
<1>3. Cardinality(Opened \cup {NextJob}) = Cardinality(Opened) + 1
  BY <1>1, FiniteJobs, FS_AddElement
<1>4. NextJob' = NextJob + 1
  BY <1>2, <1>3 DEF NextJob
<1>5. NextToken' = NextToken
  BY DEF NextToken, Minted
<1>6. \A j \in Jobs : j < NextJob + 1 <=> j < NextJob \/ j = NextJob
  BY NextJobNat, Numbers
<1>7. QED
  BY <1>4, <1>5, <1>6 DEF InOrder

(***************************************************************************)
(* Who writes what.                                                        *)
(***************************************************************************)
MintStep ==
  /\ NextToken \in Tokens
  /\ \/ At({"minting"}) /\ MayMint /\ mint("operator", TRUE)
     \/ \E ours \in BOOLEAN : mint("other", ours) /\ run' = run

SubmitStep ==
  /\ At({"submit"}) /\ (lane = "carbon" => ~run.resume)
  /\ token[run.token].state = "Available" /\ token[run.token].owner = "operator"
  /\ submitParcel(run.token, run.work)

DecideStep ==
  /\ At({"decide"}) /\ token[run.token].state = "PendingReview"
  /\ \E approved \in BOOLEAN : recordDecision(run.token, approved)

RecordStep ==
  /\ At({"record"}) /\ token[run.token].state = "Activated"
  /\ recordCarrier(run.token, run.job)

SettleStep ==
  \E how \in {"released", "refunded"} :
    /\ class' = class
    /\ \/ /\ At({"release"}) /\ how = "released" /\ token[run.token].deposit = "held"
          /\ token' = [token EXCEPT ![run.token].deposit = how]
       \/ \E t \in Tokens : /\ ~Going /\ run' = run /\ token[t].deposit = "held"
                            /\ token' = [token EXCEPT ![t].deposit = how]

LEMMA TokenSteps ==
  ASSUME [RunsNext]_runVars
  PROVE  \/ token' = token
         \/ /\ MintStep \/ SubmitStep \/ DecideStep \/ RecordStep \/ SettleStep
            /\ job' = job
<1> USE DEF chainVars, Goto, Throws, Calm, Fault, Check, Send, SendByClient, At
<1>1. CASE UNCHANGED runVars
  BY <1>1 DEF runVars
<1>2. CASE Start
  BY <1>2 DEF Start, CarbonStart, ComputeStart, ResumeNew, ResumeLease, Begins
<1>3. CASE CarbonStep
  BY <1>3
     DEF CarbonStep, CarbonUnlock, Preflight, CarbonClass, CarbonPost, MintSimulated,
         CarbonMint, CarbonRule, CarbonBind, CarbonDecide, RefuseRetirement, Retire,
         CarbonCredit, CarbonClaim, CarbonFreed, CarbonWithdraw,
         RegisterIssuer, SubmitParcel, RecordCarrier, Release,
         registerIssuer, createClass, postCollateral, claim, withdrawCollateral,
         releaseToIssuer, MintStep, SubmitStep, DecideStep, RecordStep, SettleStep, MayMint
<1>4. CASE ComputeStep
  BY <1>4
     DEF ComputeStep, ComputeRule, ComputeUnlock, ComputeClass, ComputePost, FindToken,
         ReadMinted, ComputeMint, MintedByOne, ComputeDecide, FulfilStep, Verify,
         Fulfil, ChooseBid, BidTimeout, CreateLease, WaitForReady, NotReady, Caught,
         RefuseDeployment, CreateDeployment, AtProvider, ComputeCredit, ComputeClaim,
         ComputeOwed, ComputeWithdraw, ComputeCheck,
         RegisterIssuer, SubmitParcel, RecordCarrier, Release,
         registerIssuer, createClass, postCollateral, claim, withdrawCollateral,
         releaseToIssuer, MintStep, SubmitStep, DecideStep, RecordStep, SettleStep, MayMint
<1>5. CASE Killed \/ RecoverMoney \/ \E j \in Jobs : Provider(j)
  BY <1>5 DEF Killed, RecoverMoney, claim, withdrawCollateral, Provider
<1>6. CASE \E ours \in BOOLEAN : OtherMints(ours)
  BY <1>6 DEF OtherMints, MintStep
<1>7. CASE \E t \in Tokens : RecoverDeposit(t)
  BY <1>7 DEF RecoverDeposit, SettleStep, releaseToIssuer, Going
<1>8. QED
  BY <1>1, <1>2, <1>3, <1>4, <1>5, <1>6, <1>7 DEF RunsNext, RunStep

RetireStep ==
  /\ lane = "carbon" /\ At({"retire"}) /\ ~OnLedger /\ NextJob \in Jobs
  /\ job' = [job EXCEPT ![NextJob] =
               [state |-> "ready", token |-> run.token, work |-> run.work]]

OpenStep ==
  /\ lane = "compute" /\ At({"create"}) /\ NextJob \in Jobs
  /\ job' = [job EXCEPT ![NextJob] =
               [state |-> "open", token |-> run.token, work |-> run.work]]

LeaseStep ==
  /\ lane = "compute" /\ At({"lease"}) /\ job[run.job].state = "bid"
  /\ job' = [job EXCEPT ![run.job].state = "leased"]

CloseStep ==
  /\ lane = "compute" /\ At({"caught"}) /\ ~run.attempted
  /\ job' = [job EXCEPT ![run.job].state = "closed"]

LEMMA JobSteps ==
  ASSUME [RunsNext]_runVars
  PROVE  \/ job' = job
         \/ /\ \/ RetireStep \/ OpenStep \/ LeaseStep \/ CloseStep
               \/ \E j \in Jobs : Provider(j)
            /\ UNCHANGED chainVars
<1> USE DEF chainVars, Goto, Throws, Calm, Fault, Check, Send, SendByClient, At
<1>1. CASE UNCHANGED runVars
  BY <1>1 DEF runVars
<1>2. CASE Start
  BY <1>2 DEF Start, CarbonStart, ComputeStart, ResumeNew, ResumeLease, Begins
<1>3. CASE CarbonStep
  BY <1>3
     DEF CarbonStep, CarbonUnlock, Preflight, CarbonClass, CarbonPost, MintSimulated,
         CarbonMint, CarbonRule, CarbonBind, CarbonDecide, RefuseRetirement, Retire,
         CarbonCredit, CarbonClaim, CarbonFreed, CarbonWithdraw,
         RegisterIssuer, SubmitParcel, RecordCarrier, Release, RetireStep
<1>4. CASE ComputeStep
  BY <1>4
     DEF ComputeStep, ComputeRule, ComputeUnlock, ComputeClass, ComputePost, FindToken,
         ReadMinted, ComputeMint, MintedByOne, ComputeDecide, FulfilStep, Verify,
         Fulfil, ChooseBid, BidTimeout, CreateLease, WaitForReady, NotReady, Caught,
         RefuseDeployment, CreateDeployment, AtProvider, ComputeCredit, ComputeClaim,
         ComputeOwed, ComputeWithdraw, ComputeCheck,
         RegisterIssuer, SubmitParcel, RecordCarrier, Release,
         OpenStep, LeaseStep, CloseStep
<1>5. CASE \/ Killed \/ RecoverMoney \/ \E ours \in BOOLEAN : OtherMints(ours)
           \/ \E t \in Tokens : RecoverDeposit(t)
  BY <1>5 DEF Killed, RecoverMoney, OtherMints, RecoverDeposit
<1>6. CASE \E j \in Jobs : Provider(j)
  BY <1>6 DEF Provider
<1>7. QED
  BY <1>1, <1>2, <1>3, <1>4, <1>5, <1>6 DEF RunsNext, RunStep

LEMMA LaneIsFinal ==
  ASSUME [RunsNext]_runVars
  PROVE  lane' = lane
  BY DEF RunsNext, runVars, Start, RunStep, CarbonStart, ComputeStart, ResumeNew, ResumeLease,
         Begins, Killed, RecoverMoney, OtherMints, RecoverDeposit, Provider, Check, Send,
         SendByClient, CarbonStep, CarbonUnlock, Preflight, CarbonClass, CarbonPost,
         MintSimulated, CarbonMint, CarbonRule, CarbonBind, CarbonDecide, RefuseRetirement,
         Retire, CarbonCredit, CarbonClaim, CarbonFreed, CarbonWithdraw,
         RegisterIssuer, SubmitParcel, RecordCarrier, Release,
         ComputeStep, ComputeRule, ComputeUnlock, ComputeClass, ComputePost, FindToken,
         ReadMinted, ComputeMint, MintedByOne, ComputeDecide, FulfilStep, Verify,
         Fulfil, ChooseBid, BidTimeout, CreateLease, WaitForReady, NotReady, Caught,
         RefuseDeployment, CreateDeployment, AtProvider, ComputeCredit, ComputeClaim,
         ComputeOwed, ComputeWithdraw, ComputeCheck

(***************************************************************************)
(* The chain and the provider.                                             *)
(***************************************************************************)
LEMMA RunHasToken ==
  ASSUME RunsInv, At({"submit", "decide", "record", "release"})
  PROVE  run.token \in Tokens
<1>1. lane = "carbon" \/ lane = "compute"
  BY DEF RunsInv, Types
<1>2. QED
  BY <1>1 DEF RunsInv, Types, Position, CommonPosition, CarbonPosition, ComputePosition, At,
              RunTypes, RunRecord

\* The parts of World that a change of the tokens can disturb.
TokenWorld == /\ TokenTypes /\ InOrder /\ Owned /\ EvidenceOfOwnJob /\ RetiredAsBound
              /\ BoughtOnce /\ CarbonWorld

LEMMA MintKeepsWorld ==
  ASSUME RunsInv, MintStep, job' = job, lane' = lane
  PROVE  TokenWorld'
<1> DEFINE n == NextToken
<1>1. n \in Tokens /\ token[n] = NoToken /\ token \in [Tokens -> TokenRecord]
  BY NextTokenNat DEF MintStep, RunsInv, World, InOrder, Types, TokenTypes
<1>2. PICK owner \in {"operator", "other"}, ours \in BOOLEAN :
        token' = [token EXCEPT ![n] = [NoToken EXCEPT !.owner = owner, !.ours = ours,
                                       !.state = "Available", !.deposit = "held"]]
  BY DEF MintStep, mint
<1>3. token'[n] = [owner |-> owner, ours |-> ours, state |-> "Available", parcel |-> None,
                   deposit |-> "held", evidence |-> None]
  BY <1>1, <1>2 DEF NoToken
<1>4. \A t \in Tokens \ {n} : token'[t] = token[t]
  BY <1>1, <1>2
<1>5. TokenTypes'
  <2>1. token'[n] \in TokenRecord
    BY <1>3 DEF TokenRecord
  <2>2. QED
    BY <1>1, <1>2, <2>1 DEF TokenTypes
<1>6. InOrder'
  BY <1>1, <1>3, <1>4, NextTokenInOrder DEF RunsInv, World
<1>7. \A j \in Jobs : job[j].state # "none" => job[j].token # n
  BY <1>1 DEF RunsInv, World, Owned, NoToken
<1>8. Owned'
  BY <1>3, <1>4, <1>7 DEF RunsInv, World, Owned
<1>9. EvidenceOfOwnJob' /\ BoughtOnce' /\ CarbonWorld'
  BY <1>3, <1>4 DEF RunsInv, World, EvidenceOfOwnJob, BoughtOnce, CarbonWorld, Bought, Leased
<1>10. RetiredAsBound'
  BY <1>4, <1>7 DEF RunsInv, World, RetiredAsBound, Bought, Leased, Owned
<1>11. QED
  BY <1>5, <1>6, <1>8, <1>9, <1>10 DEF TokenWorld

\* A change of one token that is handed out: what it may touch.
LEMMA OneTokenChanges ==
  ASSUME RunsInv, job' = job, lane' = lane, NEW t \in Tokens, NEW rec \in TokenRecord,
         token[t].state # "None", rec.state # "None", rec.owner = token[t].owner,
         token' = [token EXCEPT ![t] = rec],
         \/ rec.parcel = token[t].parcel
         \/ rec.owner = "operator" /\ (lane = "carbon" => token[t].parcel = None),
         \/ rec.evidence = token[t].evidence
         \/ Bought(rec.evidence) /\ job[rec.evidence].token = t
  PROVE  TokenWorld'
<1>0. token \in [Tokens -> TokenRecord]
  BY DEF RunsInv, Types, TokenTypes
<1>1. token'[t] = rec /\ \A u \in Tokens \ {t} : token'[u] = token[u]
  BY <1>0
<1>2. TokenTypes'
  BY <1>0 DEF TokenTypes
<1>3. InOrder'
  BY <1>1, SameTokensInOrder DEF RunsInv, World, InOrder
<1>4. Owned' /\ EvidenceOfOwnJob' /\ BoughtOnce' /\ CarbonWorld'
  BY <1>1 DEF RunsInv, World, Owned, EvidenceOfOwnJob, BoughtOnce, CarbonWorld, Bought, Leased
<1>5. RetiredAsBound'
  <2>1. \A j \in Jobs : lane = "carbon" /\ Bought(j) =>
          job[j].token \in Tokens /\ token[job[j].token].parcel # None
    BY Numbers DEF RunsInv, World, RetiredAsBound, Owned, Bought, Leased
  <2>2. QED
    BY <1>1, <2>1 DEF RunsInv, World, RetiredAsBound, Bought, Leased, Owned
<1>6. QED
  BY <1>2, <1>3, <1>4, <1>5 DEF TokenWorld

LEMMA TokensKeepWorld ==
  ASSUME RunsInv, job' = job, lane' = lane,
         MintStep \/ SubmitStep \/ DecideStep \/ RecordStep \/ SettleStep
  PROVE  TokenWorld'
<1>0. token \in [Tokens -> TokenRecord] /\ run \in RunRecord /\ lane \in {"carbon", "compute"}
  BY DEF RunsInv, Types, TokenTypes, RunTypes
<1> DEFINE t == run.token
<1>1. CASE MintStep
  BY <1>1, MintKeepsWorld
<1>2. CASE SubmitStep
  <2> DEFINE rec == [token[t] EXCEPT !.state = "PendingReview", !.parcel = run.work]
  <2>1. t \in Tokens /\ token[t].state = "Available" /\ token[t].owner = "operator"
    BY <1>2, RunHasToken DEF SubmitStep, At
  <2>2. lane = "carbon" => token[t].parcel = None
    BY <1>2, <2>1 DEF SubmitStep, RunsInv, Position, CarbonPosition, At
  <2>3. rec \in TokenRecord /\ rec.state = "PendingReview" /\ rec.owner = token[t].owner
          /\ rec.evidence = token[t].evidence
    <3>1. token[t] \in TokenRecord /\ run.work \in Works \cup {None}
      BY <1>0, <2>1 DEF RunRecord
    <3>2. QED
      BY <3>1 DEF TokenRecord
  <2>4. token' = [token EXCEPT ![t] = rec]
    BY <1>0, <1>2, <2>1 DEF SubmitStep, submitParcel
  <2>5. QED
    BY <2>1, <2>2, <2>3, <2>4, OneTokenChanges
<1>3. CASE DecideStep
  <2>1. t \in Tokens /\ token[t].state = "PendingReview"
    BY <1>3, RunHasToken DEF DecideStep, At
  <2>2. PICK approved \in BOOLEAN : recordDecision(t, approved)
    BY <1>3 DEF DecideStep
  <2> DEFINE rec == [token[t] EXCEPT !.state = IF approved THEN "Activated" ELSE "Available"]
  <2>3. rec \in TokenRecord /\ rec.state # "None" /\ rec.owner = token[t].owner
          /\ rec.evidence = token[t].evidence /\ rec.parcel = token[t].parcel
    BY <1>0, <2>1 DEF TokenRecord
  <2>4. token' = [token EXCEPT ![t] = rec]
    BY <1>0, <2>1, <2>2 DEF recordDecision
  <2>5. QED
    BY <2>1, <2>3, <2>4, OneTokenChanges
<1>4. CASE RecordStep
  <2> DEFINE rec == [token[t] EXCEPT !.evidence = run.job]
  <2>1. t \in Tokens /\ token[t].state = "Activated"
    BY <1>4, RunHasToken DEF RecordStep, At
  <2>2. run.job \in Jobs /\ Bought(run.job) /\ job[run.job].token = t
    BY <1>4 DEF RecordStep, RunsInv, Position, CommonPosition, At
  <2>3. rec \in TokenRecord /\ rec.state # "None" /\ rec.owner = token[t].owner
          /\ rec.evidence = run.job /\ rec.parcel = token[t].parcel
    BY <1>0, <2>1, <2>2 DEF TokenRecord
  <2>4. token' = [token EXCEPT ![t] = rec]
    BY <1>0, <1>4, <2>1 DEF RecordStep, recordCarrier
  <2>5. QED
    BY <2>1, <2>2, <2>3, <2>4, OneTokenChanges
<1>5. CASE SettleStep
  <2>1. PICK u \in Tokens, how \in {"released", "refunded"} :
          token[u].deposit = "held" /\ token' = [token EXCEPT ![u].deposit = how]
    BY <1>5, RunHasToken DEF SettleStep, At
  <2> DEFINE rec == [token[u] EXCEPT !.deposit = how]
  <2>2. token[u].state # "None"
    BY <2>1 DEF RunsInv, World, InOrder, NoToken
  <2>3. rec \in TokenRecord /\ rec.state # "None" /\ rec.owner = token[u].owner
          /\ rec.evidence = token[u].evidence /\ rec.parcel = token[u].parcel
    BY <1>0, <2>1, <2>2 DEF TokenRecord
  <2>4. token' = [token EXCEPT ![u] = rec]
    BY <1>0, <2>1
  <2>5. QED
    BY <2>2, <2>3, <2>4, OneTokenChanges
<1>6. QED
  BY <1>1, <1>2, <1>3, <1>4, <1>5

\* The parts of World and the types that a change of the jobs can disturb.
JobWorld == /\ JobTypes /\ InOrder /\ Owned /\ EvidenceOfOwnJob /\ RetiredAsBound
            /\ BoughtOnce /\ CarbonWorld

LEMMA NextJobIsFree ==
  ASSUME RunsInv, NextJob \in Jobs
  PROVE  job[NextJob].state = "none"
  BY NextJobNat DEF RunsInv, World, InOrder

LEMMA RetireKeepsWorld ==
  ASSUME RunsInv, RetireStep, UNCHANGED chainVars, lane' = lane
  PROVE  JobWorld'
<1> DEFINE n == NextJob
           t == run.token
<1>0. /\ job \in [Jobs -> JobRecord] /\ n \in Jobs /\ job[n].state = "none"
      /\ token' = token /\ lane = "carbon"
  BY NextJobIsFree DEF RetireStep, RunsInv, Types, JobTypes, chainVars
<1>1. t \in Tokens /\ token[t].parcel = run.work /\ run.work \in Works
  BY DEF RetireStep, RunsInv, Position, CarbonPosition, CommonPosition, At, Going, Ended
<1>2. token[t].owner = "operator"
  BY <1>1, Numbers DEF RunsInv, World, Owned
<1>3. /\ job'[n] = [state |-> "ready", token |-> t, work |-> run.work]
      /\ \A j \in Jobs \ {n} : job'[j] = job[j]
  BY <1>0 DEF RetireStep
<1>4. JobTypes'
  <2>1. [state |-> "ready", token |-> t, work |-> run.work] \in JobRecord
    BY <1>1 DEF JobRecord
  <2>2. QED
    BY <1>0, <2>1 DEF RetireStep, JobTypes
<1>5. InOrder'
  BY <1>0, <1>3, NextJobInOrder DEF RunsInv, World
<1>6. Owned' /\ CarbonWorld'
  BY <1>0, <1>1, <1>2, <1>3 DEF RunsInv, World, Owned, CarbonWorld
<1>7. EvidenceOfOwnJob'
  <2>1. \A u \in Tokens : token[u].evidence # n
    BY <1>0, Numbers DEF RunsInv, World, EvidenceOfOwnJob, Bought, Leased
  <2>2. \A u \in Tokens : token[u].evidence # None => token[u].evidence \in Jobs
    BY DEF RunsInv, Types, TokenTypes, TokenRecord
  <2>3. QED
    BY <1>0, <1>3, <2>1, <2>2 DEF RunsInv, World, EvidenceOfOwnJob, Bought, Leased
<1>8. RetiredAsBound'
  BY <1>0, <1>1, <1>3 DEF RunsInv, World, RetiredAsBound, Bought, Leased
<1>9. BoughtOnce'
  <2>1. \A j \in Jobs : Bought(j) => job[j].token # t
    BY <1>0, <1>1 DEF RetireStep, OnLedger, RunsInv, World, RetiredAsBound
  <2>2. QED
    BY <1>0, <1>3, <2>1 DEF RunsInv, World, BoughtOnce, Bought, Leased
<1>10. QED
  BY <1>4, <1>5, <1>6, <1>7, <1>8, <1>9 DEF JobWorld

\* In the compute lane all jobs are for the operator's one token: one that is bought
\* when nothing was is the only one.
LEMMA OpenKeepsWorld ==
  ASSUME RunsInv, OpenStep, UNCHANGED chainVars, lane' = lane
  PROVE  JobWorld'
<1> DEFINE n == NextJob
           t == run.token
<1>0. /\ job \in [Jobs -> JobRecord] /\ n \in Jobs /\ job[n].state = "none"
      /\ token' = token /\ lane = "compute"
  BY NextJobIsFree DEF OpenStep, RunsInv, Types, JobTypes, chainVars
<1>1. t \in Tokens /\ token[t].owner = "operator" /\ run.work \in Works
  BY <1>0 DEF OpenStep, RunsInv, Position, ComputePosition, CommonPosition, At, Going, Ended
<1>3. /\ job'[n] = [state |-> "open", token |-> t, work |-> run.work]
      /\ \A j \in Jobs \ {n} : job'[j] = job[j]
  BY <1>0 DEF OpenStep
<1>4. JobTypes'
  <2>1. [state |-> "open", token |-> t, work |-> run.work] \in JobRecord
    BY <1>1 DEF JobRecord
  <2>2. QED
    BY <1>0, <2>1 DEF OpenStep, JobTypes
<1>5. InOrder'
  BY <1>0, <1>3, NextJobInOrder DEF RunsInv, World
<1>6. Owned' /\ CarbonWorld' /\ RetiredAsBound'
  BY <1>0, <1>1, <1>3 DEF RunsInv, World, Owned, CarbonWorld, RetiredAsBound
<1>7. \A j \in Jobs : Bought(j)' <=> Bought(j)
  BY <1>0, <1>3 DEF Bought, Leased
<1>8. EvidenceOfOwnJob'
  <2>1. \A u \in Tokens : token[u].evidence # None =>
          token[u].evidence \in Jobs \ {n}
    BY <1>0 DEF RunsInv, World, EvidenceOfOwnJob, Bought, Leased, Types, TokenTypes, TokenRecord
  <2>2. QED
    BY <1>0, <1>3, <2>1 DEF RunsInv, World, EvidenceOfOwnJob, Bought, Leased
<1>9. BoughtOnce'
  BY <1>0, <1>3, <1>7 DEF RunsInv, World, BoughtOnce, Bought, Leased
<1>10. QED
  BY <1>4, <1>5, <1>6, <1>8, <1>9 DEF JobWorld

\* The state of one job changes: it may be bought if none was, and never un-bought.
LEMMA OneJobChanges ==
  ASSUME RunsInv, UNCHANGED chainVars, lane' = lane, NEW j \in Jobs,
         NEW now \in {"open", "bid", "leased", "ready", "ended", "closed"},
         job[j].state # "none", job' = [job EXCEPT ![j].state = now],
         lane = "compute" \/ now = "ready",
         now \in Leased \cup {"ended"} /\ ~Bought(j) => Untouched,
         Bought(j) => now \in Leased \cup {"ended"}
  PROVE  JobWorld'
<1>0. job \in [Jobs -> JobRecord] /\ token' = token
  BY DEF RunsInv, Types, JobTypes, chainVars
<1>1. /\ job'[j] = [job[j] EXCEPT !.state = now] /\ job'[j].state = now
      /\ job'[j].token = job[j].token /\ job'[j].work = job[j].work
      /\ \A k \in Jobs \ {j} : job'[k] = job[k]
  BY <1>0 DEF JobRecord
<1>2. JobTypes'
  BY <1>0 DEF JobTypes, JobRecord
<1>3. InOrder'
  BY <1>0, <1>1, SameJobsInOrder DEF RunsInv, World
<1>4. Owned' /\ CarbonWorld'
  BY <1>0, <1>1 DEF RunsInv, World, Owned, CarbonWorld
<1>5. EvidenceOfOwnJob'
  <2>1. \A u \in Tokens : token[u].evidence # None => token[u].evidence \in Jobs
    BY DEF RunsInv, Types, TokenTypes, TokenRecord
  <2>2. QED
    BY <1>0, <1>1, <2>1 DEF RunsInv, World, EvidenceOfOwnJob, Bought, Leased
<1>6. RetiredAsBound'
  BY <1>0, <1>1 DEF RunsInv, World, RetiredAsBound, CarbonWorld, Bought, Leased
<1>7. BoughtOnce'
  BY <1>0, <1>1 DEF RunsInv, World, BoughtOnce, Bought, Leased, Untouched
<1>8. QED
  BY <1>2, <1>3, <1>4, <1>5, <1>6, <1>7 DEF JobWorld

LEMMA JobsKeepWorld ==
  ASSUME RunsInv, UNCHANGED chainVars, lane' = lane,
         \/ RetireStep \/ OpenStep \/ LeaseStep \/ CloseStep
         \/ \E j \in Jobs : Provider(j)
  PROVE  JobWorld'
<1>1. CASE RetireStep
  BY <1>1, RetireKeepsWorld
<1>2. CASE OpenStep
  BY <1>2, OpenKeepsWorld
<1>3. CASE LeaseStep
  <2>1. lane = "compute" /\ run.job \in Jobs /\ Untouched /\ job[run.job].state = "bid"
    BY <1>3 DEF LeaseStep, RunsInv, Position, ComputePosition, At
  <2>2. QED
    BY <1>3, <2>1, OneJobChanges DEF LeaseStep, Untouched, Leased
<1>4. CASE CloseStep
  <2>1. /\ lane = "compute" /\ run.job \in Jobs /\ ~Bought(run.job)
        /\ job[run.job].state # "none"
    BY <1>4 DEF CloseStep, RunsInv, Position, ComputePosition, At
  <2>2. QED
    BY <1>4, <2>1, OneJobChanges DEF CloseStep, Leased
<1>5. CASE \E j \in Jobs : Provider(j)
  <2>1. PICK j \in Jobs : Provider(j)
    BY <1>5
  <2>2. lane \in {"carbon", "compute"} /\ (lane = "carbon" => job[j].state \in {"none", "ready"})
    BY DEF RunsInv, Types, World, CarbonWorld
  <2>3. CASE job[j].state = "open" /\ job' = [job EXCEPT ![j].state = "bid"]
    BY <2>2, <2>3, OneJobChanges DEF Bought, Leased
  <2>4. CASE job[j].state = "bid" /\ job' = [job EXCEPT ![j].state = "open"]
    BY <2>2, <2>4, OneJobChanges DEF Bought, Leased
  <2>5. CASE job[j].state = "leased" /\ job' = [job EXCEPT ![j].state = "ready"]
    BY <2>2, <2>5, OneJobChanges DEF Bought, Leased
  <2>6. CASE job[j].state \in Leased /\ lane = "compute" /\ job' = [job EXCEPT ![j].state = "ended"]
    BY <2>2, <2>6, OneJobChanges DEF Bought, Leased
  <2>7. QED
    BY <2>1, <2>3, <2>4, <2>5, <2>6 DEF Provider
<1>6. QED
  BY <1>1, <1>2, <1>3, <1>4, <1>5

(***************************************************************************)
(* The carbon script.                                                      *)
(***************************************************************************)
Shape == /\ run \in RunRecord /\ token \in [Tokens -> TokenRecord]
         /\ job \in [Jobs -> JobRecord] /\ class \in ClassRecord
         /\ wallet \in Nat /\ credit \in Nat /\ lane \in {"carbon", "compute"}

LEMMA Shapes ==
  ASSUME RunsInv
  PROVE  Shape
  BY DEF RunsInv, Types, RunTypes, TokenTypes, JobTypes, MoneyTypes, Shape

\* What a step of a script has to establish, the world apart.
Kept == RunTypes /\ MoneyTypes /\ Position

LEMMA ThrowsKeeps ==
  ASSUME RunsInv, Throws, lane' = lane, MoneyTypes'
  PROVE  Kept'
<1>1. run' = [pc |-> "failed", resume |-> FALSE, token |-> None, job |-> None,
              work |-> None, free |-> 0, attempted |-> FALSE]
  BY DEF Throws, Idle
<1>2. RunTypes'
  BY <1>1 DEF RunTypes, RunRecord, Pcs
<1>3. run'.pc = "failed"
  BY <1>1
<1>4. Position'
  BY <1>3 DEF Position, CommonPosition, CarbonPosition, ComputePosition, At, Going, Ended
<1>5. QED
  BY <1>2, <1>4 DEF Kept

\* The amounts are never negative: what a run asks the wallet for before it sends
\* anything is enough for all it sends.
LEMMA CarbonMoney ==
  ASSUME RunsInv, CarbonStep
  PROVE  MoneyTypes'
<1> USE Shapes, Numbers, ObligationNat DEF Shape, MoneyTypes, ClassRecord
<1>1. CASE UNCHANGED <<class, wallet, credit>>
  BY <1>1
<1>2. CASE registerIssuer \/ createClass
  BY <1>2 DEF registerIssuer, createClass
<1>3. CASE At({"post"}) /\ postCollateral(Collateral)
  <2>1. wallet >= Price + Collateral
    BY <1>3 DEF RunsInv, Position, CarbonPosition, CarbonStep, At
  <2>2. QED
    BY <1>3, <2>1 DEF postCollateral
<1>4. CASE At({"minting"}) /\ mint("operator", TRUE)
  <2>1. wallet >= Price
    BY <1>4 DEF RunsInv, Position, CommonPosition, At
  <2>2. QED
    BY <1>4, <2>1 DEF mint
<1>5. CASE releaseToIssuer(run.token) \/ claim
  BY <1>5 DEF releaseToIssuer, claim
<1>6. CASE MayWithdraw(run.free) /\ withdrawCollateral(run.free)
  <2>1. run.free \in Nat
    BY DEF RunRecord
  <2>2. QED
    BY <1>6, <2>1 DEF withdrawCollateral, MayWithdraw
<1>7. QED
  BY <1>1, <1>2, <1>3, <1>4, <1>5, <1>6
     DEF CarbonStep, CarbonUnlock, Preflight, CarbonClass, CarbonPost, MintSimulated,
         CarbonMint, CarbonRule, CarbonBind, CarbonDecide, RefuseRetirement, Retire,
         CarbonCredit, CarbonClaim, CarbonFreed, CarbonWithdraw,
         RegisterIssuer, SubmitParcel, RecordCarrier, Release,
         submitParcel, recordDecision, recordCarrier,
         chainVars, Check, Send, SendByClient, At

\* A step that only moves on.
LEMMA GotoTypes ==
  ASSUME RunsInv, NEW next \in Pcs, Goto(next)
  PROVE  /\ RunTypes' /\ run'.pc = next
         /\ run'.resume = run.resume /\ run'.token = run.token /\ run'.job = run.job
         /\ run'.work = run.work /\ run'.free = run.free /\ run'.attempted = run.attempted
  BY Shapes DEF Goto, Shape, RunTypes, RunRecord

LEMMA CarbonKeeps ==
  ASSUME RunsInv, CarbonStep, lane' = lane
  PROVE  Kept'
<1>0. /\ MoneyTypes' /\ lane = "carbon" /\ lane' = "carbon" /\ Shape
      /\ CommonPosition /\ CarbonPosition
  BY CarbonMoney, Shapes DEF CarbonStep, RunsInv, Position
<1>a. CASE Throws
  BY <1>0, <1>a, ThrowsKeeps
<1> USE DEF Position, CommonPosition, CarbonPosition, ComputePosition, At, Going, Ended, Kept
<1>1. CASE CarbonUnlock /\ ~Throws
  <2>1. Goto("preflight") /\ run.pc = "unlock" /\ token' = token
    BY <1>1 DEF CarbonUnlock, Check, chainVars
  <2>2. QED
    BY <1>0, <2>1, GotoTypes DEF Pcs
<1>2. CASE Preflight /\ ~Throws
  <2>1. /\ Goto(IF run.resume THEN "rule" ELSE "issuer") /\ run.pc = "preflight"
        /\ wallet >= Price + Collateral /\ UNCHANGED <<token, wallet>>
    BY <1>2 DEF Preflight, AfterPreflight, Check, chainVars
  <2>2. QED
    BY <1>0, <2>1, GotoTypes DEF Pcs
<1>3. CASE RegisterIssuer /\ ~Throws
  <2>1. Goto("class") /\ run.pc = "issuer" /\ UNCHANGED <<token, wallet>>
    BY <1>3 DEF RegisterIssuer, registerIssuer, Check, Send, chainVars
  <2>2. QED
    BY <1>0, <2>1, GotoTypes DEF Pcs
<1>4. CASE CarbonClass /\ ~Throws
  <2>1. Goto("post") /\ run.pc = "class" /\ UNCHANGED <<token, wallet>>
    BY <1>4 DEF CarbonClass, createClass, Check, Send, chainVars
  <2>2. QED
    BY <1>0, <2>1, GotoTypes DEF Pcs
<1>5. CASE CarbonPost /\ ~Throws
  <2>1. Goto("mint") /\ run.pc = "post" /\ token' = token /\ wallet' = wallet - Collateral
    BY <1>5 DEF CarbonPost, postCollateral, Send
  <2>2. QED
    BY <1>0, <2>1, GotoTypes, Numbers DEF Pcs, Shape
<1>6. CASE MintSimulated /\ ~Throws
  <2>1. /\ run' = [run EXCEPT !.pc = "minting", !.token = NextToken] /\ run.pc = "mint"
        /\ NextToken \in Tokens /\ UNCHANGED <<token, wallet>>
    BY <1>6 DEF MintSimulated, MayMint, Check, chainVars
  <2>2. token[NextToken].owner # "operator"
    BY <2>1, NextTokenNat DEF RunsInv, World, InOrder, NoToken
  <2>3. RunTypes'
    BY <1>0, <2>1 DEF Shape, RunTypes, RunRecord, Pcs
  <2>4. QED
    BY <1>0, <2>1, <2>2, <2>3 DEF Shape, RunRecord
<1>7. CASE CarbonMint /\ ~Throws
  <2>1. /\ Goto("rule") /\ run.pc = "minting" /\ NextToken \in Tokens
        /\ token' = [token EXCEPT ![NextToken] =
             [NoToken EXCEPT !.owner = "operator", !.ours = TRUE,
                             !.state = "Available", !.deposit = "held"]]
    BY <1>7 DEF CarbonMint, MayMint, mint, Send
  <2>2. run.token \in Tokens /\ token[run.token].owner # "operator" /\ ~run.resume
    BY <1>0, <2>1
  <2>3. token[run.token].parcel = None
    BY <2>2 DEF RunsInv, World, Owned
  <2>4. token'[run.token].parcel = None
    BY <1>0, <2>1, <2>2, <2>3 DEF NoToken, Shape
  <2>5. QED
    BY <1>0, <2>1, <2>2, <2>4, GotoTypes DEF Pcs
<1>8. CASE CarbonRule /\ ~Throws
  <2>1. Goto("submit") /\ run.pc = "rule" /\ token' = token
    BY <1>8 DEF CarbonRule, Check, chainVars
  <2>2. QED
    BY <1>0, <2>1, GotoTypes DEF Pcs
<1>9. CASE CarbonBind /\ ~Throws
  <2>1. Goto("decide") /\ run.pc = "submit" /\ run.token \in Tokens
    BY <1>0, <1>9 DEF CarbonBind, SubmitParcel, Check, Send, SendByClient
  <2>2. \/ token[run.token].parcel = run.work /\ token' = token
        \/ token' = [token EXCEPT ![run.token].state = "PendingReview",
                                  ![run.token].parcel = run.work]
        \/ token[run.token].state = "Available" /\ token' = token
    BY <1>9, <2>1
       DEF CarbonBind, SubmitParcel, submitParcel, Check, Send, SendByClient, chainVars,
           Goto, Throws, Idle
  <2>3. token'[run.token].state = "PendingReview" => token'[run.token].parcel = run.work
    BY <1>0, <2>1, <2>2 DEF Shape, TokenRecord
  <2>4. QED
    BY <1>0, <2>1, <2>3, GotoTypes DEF Pcs
<1>10. ASSUME NEW approved \in BOOLEAN, CarbonDecide(approved), ~Throws
       PROVE  Kept'
  <2> DEFINE next == IF approved THEN "retire" ELSE "declined"
  <2>1. /\ Goto(next) /\ run.pc = "decide" /\ run.token \in Tokens
        /\ token[run.token].state = "PendingReview"
        /\ \/ token' = token
           \/ token' = [token EXCEPT ![run.token].state =
                          IF approved THEN "Activated" ELSE "Available"]
    BY <1>0, <1>10 DEF CarbonDecide, recordDecision, Send, SendByClient, chainVars
  <2>2. token'[run.token].parcel = run.work
    BY <1>0, <2>1 DEF Shape, TokenRecord
  <2>3. next \in Pcs
    BY DEF Pcs
  <2>4. QED
    BY <1>0, <2>1, <2>2, <2>3, GotoTypes
<1>11. CASE Retire /\ ~Throws
  <2>1. /\ run' = [run EXCEPT !.pc = "record", !.job = NextJob] /\ run.pc = "retire"
        /\ NextJob \in Jobs
        /\ job' = [job EXCEPT ![NextJob] =
                     [state |-> "ready", token |-> run.token, work |-> run.work]]
    BY <1>11 DEF Retire
  <2>2. run' \in RunRecord /\ run'.pc = "record" /\ run'.job = NextJob
          /\ run'.token = run.token /\ run'.work = run.work
    BY <1>0, <2>1 DEF Shape, RunRecord, Pcs
  <2>3. run.token \in Tokens /\ run.work \in Works
    BY <1>0, <2>1
  <2>4. job'[NextJob].state = "ready" /\ job'[NextJob].token = run.token
    BY <1>0, <2>1 DEF Shape
  <2>5. QED
    BY <1>0, <2>1, <2>2, <2>3, <2>4 DEF Bought, Leased, RunTypes
<1>12. CASE RecordCarrier /\ ~Throws
  <2>1. Goto("release") /\ run.pc = "record"
    BY <1>12 DEF RecordCarrier, Send, SendByClient
  <2>2. QED
    BY <1>0, <2>1, GotoTypes DEF Pcs
<1>13. CASE Release("credit") /\ ~Throws
  <2>1. Goto("credit") /\ run.pc = "release"
    BY <1>13 DEF Release, Send
  <2>2. QED
    BY <1>0, <2>1, GotoTypes DEF Pcs
<1>14. CASE CarbonCredit /\ ~Throws
  <2>1. PICK next \in {"claim", "freed"} : Goto(next) /\ run.pc = "credit"
    BY <1>14 DEF CarbonCredit
  <2>2. QED
    BY <1>0, <2>1, GotoTypes DEF Pcs
<1>15. CASE CarbonClaim /\ ~Throws
  <2>1. Goto("freed") /\ run.pc = "claim"
    BY <1>15 DEF CarbonClaim, Send
  <2>2. QED
    BY <1>0, <2>1, GotoTypes DEF Pcs
<1>16. CASE CarbonFreed /\ ~Throws
  <2>1. PICK owed \in {Obligation, Obligation + Payout} :
          run' = IF class.posted > owed
                 THEN [run EXCEPT !.pc = "withdraw", !.free = class.posted - owed]
                 ELSE [run EXCEPT !.pc = "complete"]
    BY <1>16 DEF CarbonFreed
  <2>2. owed \in Nat /\ class.posted \in Nat /\ run.pc = "freed"
    BY <1>0, <1>16, <2>1, ObligationNat, Numbers DEF Shape, ClassRecord, CarbonFreed
  <2>3. class.posted > owed => class.posted - owed \in Nat
    BY <2>2
  <2>4. /\ run' \in RunRecord /\ run'.pc \in {"withdraw", "complete"}
        /\ run'.work = run.work
    BY <1>0, <2>1, <2>3 DEF Shape, RunRecord, Pcs
  <2>5. run.work \in Works
    BY <1>0, <2>2
  <2>6. QED
    BY <1>0, <2>4, <2>5 DEF RunTypes
<1>17. CASE CarbonWithdraw /\ ~Throws
  <2>1. Goto("complete") /\ run.pc = "withdraw"
    BY <1>17 DEF CarbonWithdraw, Send
  <2>2. QED
    BY <1>0, <2>1, GotoTypes DEF Pcs
<1>18. CASE RefuseRetirement
  BY <1>0, <1>18, ThrowsKeeps DEF RefuseRetirement
<1>19. QED
  BY <1>a, <1>1, <1>2, <1>3, <1>4, <1>5, <1>6, <1>7, <1>8, <1>9, <1>10, <1>11, <1>12, <1>13,
     <1>14, <1>15, <1>16, <1>17, <1>18 DEF CarbonStep

(***************************************************************************)
(* The compute script.                                                     *)
(***************************************************************************)
LEMMA RequiredInt ==
  ASSUME RunsInv
  PROVE  Missing \in Int /\ Required \in Int
  BY Shapes, Numbers DEF Shape, ClassRecord, Missing, Required

LEMMA ComputeMoney ==
  ASSUME RunsInv, ComputeStep
  PROVE  MoneyTypes'
<1>0. \/ UNCHANGED <<class, wallet, credit>>
      \/ registerIssuer \/ createClass \/ releaseToIssuer(run.token) \/ claim
      \/ At({"post"}) /\ ~(wallet < Required) /\ postCollateral(Missing)
      \/ At({"minting"}) /\ mint("operator", TRUE)
      \/ MayWithdraw(class.posted) /\ withdrawCollateral(class.posted)
  BY DEF ComputeStep, ComputeRule, ComputeUnlock, ComputeClass, ComputePost, FindToken,
         ReadMinted, ComputeMint, MintedByOne, ComputeDecide, FulfilStep, Verify,
         Fulfil, ChooseBid, BidTimeout, CreateLease, WaitForReady, NotReady, Caught,
         RefuseDeployment, CreateDeployment, AtProvider, ComputeCredit, ComputeClaim,
         ComputeOwed, ComputeWithdraw, ComputeCheck,
         RegisterIssuer, SubmitParcel, RecordCarrier, Release,
         submitParcel, recordDecision, recordCarrier,
         chainVars, Check, Send, SendByClient, At
<1> USE Shapes, Numbers, ObligationNat DEF Shape, MoneyTypes, ClassRecord
<1>1. CASE UNCHANGED <<class, wallet, credit>>
  BY <1>1
<1>2. CASE registerIssuer \/ createClass
  BY <1>2 DEF registerIssuer, createClass
<1>3. CASE At({"post"}) /\ ~(wallet < Required) /\ postCollateral(Missing)
  <2>1. class.posted <= Collateral
    BY <1>3 DEF RunsInv, Position, ComputePosition, ComputeStep, At
  <2>2. Missing \in Nat /\ wallet >= Missing
    BY <1>3, <2>1 DEF Missing, Required
  <2>3. QED
    BY <1>3, <2>2 DEF postCollateral
<1>4. CASE At({"minting"}) /\ mint("operator", TRUE)
  <2>1. wallet >= Price
    BY <1>4 DEF RunsInv, Position, CommonPosition, At
  <2>2. QED
    BY <1>4, <2>1 DEF mint
<1>5. CASE releaseToIssuer(run.token) \/ claim
  BY <1>5 DEF releaseToIssuer, claim
<1>6. CASE MayWithdraw(class.posted) /\ withdrawCollateral(class.posted)
  BY <1>6 DEF withdrawCollateral, MayWithdraw
<1>7. QED
  BY <1>0, <1>1, <1>2, <1>3, <1>4, <1>5, <1>6

LEMMA PurchaseKeeps ==
  ASSUME RunsInv, lane = "compute", lane' = lane, ~Throws, MoneyTypes',
         \/ \E approved \in BOOLEAN : ComputeRule(approved)
         \/ ComputeUnlock \/ RegisterIssuer \/ ComputeClass \/ ComputePost
         \/ FindToken \/ ReadMinted \/ ComputeMint \/ MintedByOne
         \/ SubmitParcel \/ ComputeDecide
  PROVE  Kept'
<1>0. MoneyTypes' /\ lane' = "compute" /\ Shape /\ CommonPosition /\ ComputePosition
  BY Shapes DEF RunsInv, Position
<1> USE DEF Position, CommonPosition, CarbonPosition, ComputePosition, At, Going, Ended, Kept,
            NoneOwned, Untouched, Bought, Leased
<1>1. ASSUME NEW approved \in BOOLEAN, ComputeRule(approved)
      PROVE  Kept'
  <2>1. PICK next \in {"unlock", "declined"} :
          Goto(next) /\ run.pc = "rule" /\ UNCHANGED <<class, token, job, wallet>>
    BY <1>1 DEF ComputeRule, Check, chainVars
  <2>2. QED
    BY <1>0, <2>1, GotoTypes DEF Pcs
<1>2. CASE ComputeUnlock
  <2>1. Goto("issuer") /\ run.pc = "unlock" /\ UNCHANGED <<class, token, job, wallet>>
    BY <1>2 DEF ComputeUnlock, Check, chainVars
  <2>2. QED
    BY <1>0, <2>1, GotoTypes DEF Pcs
<1>3. CASE RegisterIssuer
  <2>1. Goto("class") /\ run.pc = "issuer" /\ UNCHANGED <<token, job, wallet>>
    BY <1>3 DEF RegisterIssuer, registerIssuer, Check, Send, chainVars
  <2>2. QED
    BY <1>0, <2>1, GotoTypes DEF Pcs
<1>4. CASE ComputeClass
  <2>1. Goto("post") /\ run.pc = "class" /\ UNCHANGED <<token, job, wallet>>
    BY <1>4 DEF ComputeClass, createClass, Check, Send, chainVars
  <2>2. \/ class.open /\ run.resume /\ class.posted <= Collateral /\ class' = class
        \/ ~class.open /\ class' = [class EXCEPT !.issuer = TRUE, !.open = TRUE]
    BY <1>4 DEF ComputeClass, createClass, Check, Send, chainVars
  <2>3. ~class.open => class.posted = 0 /\ NoneOwned
    BY <1>0 DEF RunsInv, World, ComputeWorld
  <2>4. class'.open /\ class'.posted <= Collateral
    <3>1. class \in ClassRecord /\ Collateral \in Nat
      BY <1>0, Numbers DEF Shape
    <3>2. CASE class.open /\ class.posted <= Collateral /\ class' = class
      BY <3>2
    <3>3. CASE ~class.open /\ class' = [class EXCEPT !.issuer = TRUE, !.open = TRUE]
      <4>1. class'.open = TRUE /\ class'.posted = class.posted
        BY <3>1, <3>3 DEF ClassRecord
      <4>2. class.posted = 0
        BY <2>3, <3>3
      <4>3. QED
        BY <3>1, <4>1, <4>2
    <3>4. QED
      BY <2>2, <3>2, <3>3
  <2>5. QED
    BY <1>0, <2>1, <2>2, <2>3, <2>4, GotoTypes DEF Pcs
<1>5. CASE ComputePost
  <2> DEFINE next == IF run.resume THEN "find" ELSE "mint"
  <2>1. Goto(next) /\ run.pc = "post" /\ UNCHANGED <<token, job>>
    BY <1>5 DEF ComputePost, postCollateral, Check, Send, chainVars
  <2>2. /\ wallet >= Required
        /\ \/ Missing = 0 /\ wallet' = wallet
           \/ wallet' = wallet - Missing
    <3>1. wallet \in Nat /\ Required \in Int
      BY <1>0, RequiredInt DEF Shape
    <3>2. QED
      BY <1>5, <3>1 DEF ComputePost, postCollateral, Check, Send, chainVars
  <2>3. ~run.resume => wallet' >= Price
    <3>1. wallet \in Nat /\ Price \in Nat /\ Missing \in Int
      BY <1>0, Numbers, RequiredInt DEF Shape
    <3>2. QED
      BY <2>2, <3>1 DEF Required
  <2>4. QED
    BY <1>0, <2>1, <2>3, GotoTypes DEF Pcs
<1>6. CASE FindToken
  <2>1. /\ run' = [run EXCEPT !.pc = "fulfil", !.token = FirstOwn] /\ run.pc = "find"
        /\ OwnUnits # {} /\ UNCHANGED <<token, job>>
    BY <1>6 DEF FindToken, Check, chainVars
  <2>2. FirstOwn \in Tokens /\ token[FirstOwn].owner = "operator"
    <3>1. PICK t \in OwnUnits : TRUE
      BY <2>1
    <3>2. \A u \in OwnUnits : u = t
      BY <1>0, <3>1 DEF OwnUnits, Minted, RunsInv, World, ComputeWorld
    <3>3. t \in Nat
      BY <3>1, Numbers DEF OwnUnits, Minted
    <3>4. \E v \in OwnUnits : \A u \in OwnUnits : v <= u
      BY <3>1, <3>2, <3>3
    <3>5. FirstOwn \in OwnUnits
      BY <3>4 DEF FirstOwn
    <3>6. QED
      BY <3>5 DEF OwnUnits, Minted
  <2>3. /\ run' \in RunRecord /\ run'.pc = "fulfil" /\ run'.token = FirstOwn
        /\ run'.job = run.job /\ run'.work = run.work
    BY <1>0, <2>1, <2>2 DEF Shape, RunRecord, Pcs
  <2>4. run.job = None => Untouched
    BY <1>0, <2>1 DEF Shape
  <2>5. QED
    BY <1>0, <2>1, <2>2, <2>3, <2>4 DEF RunTypes
<1>7. CASE ReadMinted
  <2>1. /\ run' = [run EXCEPT !.pc = "minting", !.token = NextToken] /\ run.pc = "mint"
        /\ NextToken \in Tokens /\ UNCHANGED <<token, job, wallet>>
    BY <1>7 DEF ReadMinted, Check, chainVars
  <2>2. /\ run' \in RunRecord /\ run'.pc = "minting" /\ run'.token = NextToken
        /\ run'.job = run.job /\ run'.work = run.work /\ run'.resume = run.resume
    BY <1>0, <2>1 DEF Shape, RunRecord, Pcs
  <2>3. QED
    BY <1>0, <2>1, <2>2 DEF RunTypes
<1>8. CASE ComputeMint
  <2>1. Goto("minted") /\ run.pc = "minting" /\ job' = job
    BY <1>8 DEF ComputeMint, Send
  <2>2. run.token \in Tokens /\ ~run.resume /\ run.job = None /\ NoneOwned
    BY <1>0, <2>1
  <2>3. Untouched
    BY <2>2 DEF RunsInv, World, Owned
  <2>4. QED
    BY <1>0, <2>1, <2>2, <2>3, GotoTypes DEF Pcs
<1>9. CASE MintedByOne
  <2>1. /\ Goto("submit") /\ run.pc = "minted" /\ UNCHANGED <<token, job>>
        /\ token[run.token].owner = "operator"
    BY <1>9 DEF MintedByOne, Check, chainVars
  <2>2. QED
    BY <1>0, <2>1, GotoTypes DEF Pcs
<1>10. CASE SubmitParcel
  <2>1. Goto("decide") /\ run.pc = "submit" /\ job' = job
    BY <1>10 DEF SubmitParcel, Send, SendByClient
  <2>2. \/ token' = token
        \/ token' = [token EXCEPT ![run.token].state = "PendingReview",
                                  ![run.token].parcel = run.work]
    BY <1>10 DEF SubmitParcel, submitParcel, Send, SendByClient, chainVars
  <2>3. run.token \in Tokens /\ token'[run.token].owner = "operator"
    BY <1>0, <2>1, <2>2 DEF Shape, TokenRecord
  <2>4. QED
    BY <1>0, <2>1, <2>3, GotoTypes DEF Pcs
<1>11. CASE ComputeDecide
  <2>1. Goto("fulfil") /\ run.pc = "decide" /\ job' = job
    BY <1>11 DEF ComputeDecide, Send, SendByClient
  <2>2. \/ token' = token
        \/ token' = [token EXCEPT ![run.token].state = "Activated"]
    BY <1>11 DEF ComputeDecide, recordDecision, Send, SendByClient, chainVars
  <2>3. run.token \in Tokens /\ token'[run.token].owner = "operator"
    BY <1>0, <2>1, <2>2 DEF Shape, TokenRecord
  <2>4. QED
    BY <1>0, <2>1, <2>3, GotoTypes DEF Pcs
<1>12. QED
  BY <1>1, <1>2, <1>3, <1>4, <1>5, <1>6, <1>7, <1>8, <1>9, <1>10, <1>11

\* From the deployment that is asked for to the evidence that is written.
LEMMA FulfilmentKeeps ==
  ASSUME RunsInv, lane = "compute", lane' = lane, ~Throws, MoneyTypes',
         FulfilStep \/ Verify("verify", "record")
  PROVE  Kept'
<1>0. MoneyTypes' /\ lane' = "compute" /\ Shape /\ CommonPosition /\ ComputePosition
  BY Shapes DEF RunsInv, Position
<1> USE DEF Position, CommonPosition, CarbonPosition, ComputePosition, At, Going, Ended, Kept,
            NoneOwned, Untouched, Bought, Leased
<1>a. token' = token
  BY DEF FulfilStep, Fulfil, ChooseBid, BidTimeout, CreateLease, WaitForReady, NotReady,
         Caught, RefuseDeployment, CreateDeployment, AtProvider, Verify, Check, chainVars
<1>1. CASE Fulfil
  <2>1. run.pc = "fulfil" /\ job' = job
    BY <1>1 DEF Fulfil
  <2>2. CASE run.job = None /\ Goto("create")
    BY <1>0, <1>a, <2>1, <2>2, GotoTypes DEF Pcs
  <2>3. CASE /\ run.job # None /\ job[run.job].state \in Leased
             /\ run' = [run EXCEPT !.pc = "wait", !.attempted = TRUE]
    <3>1. /\ run' \in RunRecord /\ run'.pc = "wait" /\ run'.attempted
          /\ run'.job = run.job /\ run'.work = run.work /\ run'.token = run.token
      BY <1>0, <2>3 DEF Shape, RunRecord, Pcs
    <3>2. run.job \in Jobs /\ run.token \in Tokens /\ token[run.token].owner = "operator"
      BY <1>0, <2>1, <2>3 DEF Shape, RunRecord
    <3>3. job[run.job].token = run.token
      BY <2>3, <3>2 DEF RunsInv, World, Owned, ComputeWorld
    <3>4. QED
      BY <1>0, <1>a, <2>1, <2>3, <3>1, <3>2, <3>3 DEF RunTypes
  <2>4. QED
    BY <1>1, <2>2, <2>3 DEF Fulfil
<1>2. CASE CreateDeployment
  <2> DEFINE n == NextJob
  <2>1. /\ run.pc = "create" /\ n \in Jobs
        /\ job' = [job EXCEPT ![n] = [state |-> "open", token |-> run.token, work |-> run.work]]
        /\ run' = [run EXCEPT !.pc = "bids", !.job = n, !.attempted = FALSE]
    BY <1>2 DEF CreateDeployment
  <2>2. /\ run' \in RunRecord /\ run'.pc = "bids" /\ run'.job = n
        /\ run'.work = run.work /\ run'.token = run.token
    BY <1>0, <2>1 DEF Shape, RunRecord, Pcs
  <2>3. /\ job'[n] = [state |-> "open", token |-> run.token, work |-> run.work]
        /\ \A j \in Jobs \ {n} : job'[j] = job[j]
    BY <1>0, <2>1 DEF Shape
  <2>4. Untouched'
    BY <1>0, <2>1, <2>3
  <2>5. QED
    BY <1>0, <1>a, <2>1, <2>2, <2>3, <2>4 DEF RunTypes
<1>3. CASE ChooseBid
  <2>1. /\ run.pc = "bids" /\ job' = job
        /\ run' = [run EXCEPT !.pc = "lease", !.attempted = TRUE]
    BY <1>3 DEF ChooseBid
  <2>2. /\ run' \in RunRecord /\ run'.pc = "lease" /\ run'.job = run.job /\ run'.attempted
        /\ run'.work = run.work /\ run'.token = run.token
    BY <1>0, <2>1 DEF Shape, RunRecord, Pcs
  <2>3. QED
    BY <1>0, <1>a, <2>1, <2>2 DEF RunTypes
<1>4. CASE BidTimeout
  <2>1. run.pc = "bids" /\ job' = job /\ Goto("caught")
    BY <1>4 DEF BidTimeout
  <2>2. QED
    BY <1>0, <1>a, <2>1, GotoTypes DEF Pcs
<1>5. CASE CreateLease
  <2> DEFINE j == run.job
  <2>1. run.pc = "lease" /\ j \in Jobs /\ run.attempted /\ job[j].state # "none"
    BY <1>0, <1>5 DEF CreateLease
  <2>2. CASE job' = [job EXCEPT ![j].state = "leased"] /\ Goto("wait")
    <3>1. job'[j].state = "leased" /\ job'[j].token = job[j].token
      BY <1>0, <2>1, <2>2 DEF Shape, JobRecord
    <3>2. QED
      BY <1>0, <1>a, <2>1, <2>2, <3>1, GotoTypes DEF Pcs
  <2>3. CASE (job' = [job EXCEPT ![j].state = "leased"] \/ job' = job) /\ Goto("caught")
    <3>1. job'[j].state # "none"
      BY <1>0, <2>1, <2>3 DEF Shape, JobRecord
    <3>2. QED
      BY <1>0, <1>a, <2>1, <2>3, <3>1, GotoTypes DEF Pcs
  <2>4. QED
    BY <1>5, <2>2, <2>3 DEF CreateLease
<1>6. CASE WaitForReady
  <2>1. run.pc = "wait" /\ job' = job /\ Goto("verify")
    BY <1>6 DEF WaitForReady
  <2>2. QED
    BY <1>0, <1>a, <2>1, GotoTypes DEF Pcs
<1>7. CASE NotReady
  <2>1. run.pc = "wait" /\ job' = job /\ Goto("caught")
    BY <1>7 DEF NotReady
  <2>2. QED
    BY <1>0, <1>a, <2>1, GotoTypes DEF Pcs
<1>8. CASE Verify("verify", "record")
  <2>1. run.pc = "verify" /\ job' = job /\ Goto("record")
    BY <1>8 DEF Verify, Check
  <2>2. QED
    BY <1>0, <1>a, <2>1, GotoTypes DEF Pcs
<1>9. QED
  BY <1>1, <1>2, <1>3, <1>4, <1>5, <1>6, <1>7, <1>8 DEF FulfilStep, Caught, RefuseDeployment

\* A release that is not mined throws: what comes after it has been paid.
LEMMA SettlementKeeps ==
  ASSUME RunsInv, lane = "compute", lane' = lane, ~Throws, MoneyTypes',
         \/ RecordCarrier \/ Release("credit")
         \/ ComputeCredit \/ ComputeClaim \/ ComputeOwed \/ ComputeWithdraw
         \/ ComputeCheck \/ Verify("again", "complete")
  PROVE  Kept'
<1>0. MoneyTypes' /\ lane' = "compute" /\ Shape /\ CommonPosition /\ ComputePosition
  BY Shapes DEF RunsInv, Position
<1> USE DEF Position, CommonPosition, CarbonPosition, ComputePosition, At, Going, Ended, Kept
<1>1. CASE RecordCarrier
  <2>1. run.pc = "record" /\ Goto("release")
    BY <1>1 DEF RecordCarrier, Send, SendByClient
  <2>2. QED
    BY <1>0, <2>1, GotoTypes DEF Pcs
<1>2. CASE Release("credit")
  <2>1. /\ run.pc = "release" /\ Goto("credit") /\ run.token \in Tokens
        /\ token' = [token EXCEPT ![run.token].deposit = "released"]
    BY <1>0, <1>2 DEF Release, releaseToIssuer, Send
  <2>2. token'[run.token].deposit = "released"
    BY <1>0, <2>1 DEF Shape, TokenRecord
  <2>3. QED
    BY <1>0, <2>1, <2>2, GotoTypes DEF Pcs
<1>3. CASE ComputeCredit
  <2>1. run.pc = "credit" /\ Goto("claim") /\ token' = token
    BY <1>3 DEF ComputeCredit, Check, chainVars
  <2>2. QED
    BY <1>0, <2>1, GotoTypes DEF Pcs
<1>4. CASE ComputeClaim
  <2>1. run.pc = "claim" /\ Goto("owed") /\ token' = token
    BY <1>4 DEF ComputeClaim, Send, claim
  <2>2. QED
    BY <1>0, <2>1, GotoTypes DEF Pcs
<1>5. CASE ComputeOwed
  <2>1. PICK next \in {"withdraw", "check"} : run.pc = "owed" /\ Goto(next) /\ token' = token
    BY <1>5 DEF ComputeOwed, Check, chainVars
  <2>2. QED
    BY <1>0, <2>1, GotoTypes DEF Pcs
<1>6. CASE ComputeWithdraw
  <2>1. run.pc = "withdraw" /\ Goto("check") /\ token' = token
    BY <1>6 DEF ComputeWithdraw, Send, withdrawCollateral
  <2>2. QED
    BY <1>0, <2>1, GotoTypes DEF Pcs
<1>7. CASE ComputeCheck
  <2>1. /\ run.pc = "check" /\ Goto("again") /\ token' = token
        /\ token[run.token].evidence = run.job
    BY <1>7 DEF ComputeCheck, Check, chainVars
  <2>2. QED
    BY <1>0, <2>1, GotoTypes DEF Pcs
<1>8. CASE Verify("again", "complete")
  <2>1. run.pc = "again" /\ Goto("complete") /\ token' = token
    BY <1>8 DEF Verify, Check, chainVars
  <2>2. QED
    BY <1>0, <2>1, GotoTypes DEF Pcs
<1>9. QED
  BY <1>1, <1>2, <1>3, <1>4, <1>5, <1>6, <1>7, <1>8

LEMMA ComputeKeeps ==
  ASSUME RunsInv, ComputeStep, lane' = lane
  PROVE  Kept'
<1>1. MoneyTypes' /\ lane = "compute"
  BY ComputeMoney DEF ComputeStep
<1>2. CASE Throws
  BY <1>1, <1>2, ThrowsKeeps
<1>3. CASE ~Throws
  BY <1>1, <1>3, PurchaseKeeps, FulfilmentKeeps, SettlementKeeps DEF ComputeStep
<1>4. QED
  BY <1>2, <1>3

(***************************************************************************)
(* Everybody else, and the start of a run.                                 *)
(***************************************************************************)
LEMMA StartKeeps ==
  ASSUME RunsInv, Start, lane' = lane
  PROVE  Kept'
<1>0. Shape /\ UNCHANGED <<class, token, wallet, credit, job>>
  BY Shapes DEF Start, CarbonStart, ComputeStart, ResumeNew, ResumeLease, Begins, chainVars
<1>1. MoneyTypes'
  BY <1>0 DEF MoneyTypes, Shape
<1> USE DEF Position, CommonPosition, CarbonPosition, ComputePosition, At, Going, Ended, Kept
<1>2. ASSUME NEW work \in Works, NEW resumed \in Tokens \cup {None}, CarbonStart(work, resumed)
      PROVE  Kept'
  <2>1. /\ run' \in RunRecord /\ run'.pc = "unlock" /\ run'.token = resumed
        /\ run'.work = work /\ run'.resume = (resumed # None) /\ lane = "carbon"
    BY <1>0, <1>2 DEF CarbonStart, Shape, RunRecord, Pcs
  <2>2. QED
    BY <1>0, <1>1, <2>1 DEF RunTypes
<1>3. ASSUME NEW work \in Works, ComputeStart(work)
      PROVE  Kept'
  <2>1. /\ run' \in RunRecord /\ run'.pc = "rule" /\ run'.job = None
        /\ run'.work = work /\ run'.resume = FALSE /\ lane = "compute"
    BY <1>0, <1>3 DEF ComputeStart, Begins, Shape, RunRecord, Pcs
  <2>2. QED
    BY <1>0, <1>1, <2>1 DEF RunTypes
<1>4. ASSUME NEW work \in Works, ResumeNew(work)
      PROVE  Kept'
  <2>1. /\ run' \in RunRecord /\ run'.pc = "unlock" /\ run'.job = None
        /\ run'.work = work /\ run'.resume = TRUE /\ lane = "compute"
    BY <1>0, <1>4 DEF ResumeNew, Begins, Shape, RunRecord, Pcs
  <2>2. Untouched'
    BY <1>0, <1>4 DEF ResumeNew, Untouched, Bought
  <2>3. QED
    BY <1>0, <1>1, <2>1, <2>2 DEF RunTypes
<1>5. ASSUME NEW work \in Works, NEW j \in Jobs, ResumeLease(work, j)
      PROVE  Kept'
  <2>1. /\ run' \in RunRecord /\ run'.pc = "unlock" /\ run'.job = j /\ j # None
        /\ run'.work = work /\ run'.resume = TRUE /\ lane = "compute"
    BY <1>0, <1>5, Numbers DEF ResumeLease, Begins, Shape, RunRecord, Pcs
  <2>2. QED
    BY <1>0, <1>1, <2>1 DEF RunTypes
<1>6. QED
  BY <1>2, <1>3, <1>4, <1>5 DEF Start

\* What others do to the chain and at the provider disturbs no run under way.
LEMMA OthersKeep ==
  ASSUME RunsInv, lane' = lane, run' = run,
         \/ UNCHANGED <<class, token, wallet, credit, job>>
         \/ \E ours \in BOOLEAN : OtherMints(ours)
         \/ \E t \in Tokens : RecoverDeposit(t)
         \/ RecoverMoney
         \/ \E j \in Jobs : Provider(j)
  PROVE  Kept'
<1>0. Shape /\ Position /\ RunTypes'
  BY Shapes DEF RunsInv, Types, RunTypes
<1>1. CASE UNCHANGED <<class, token, wallet, credit, job>>
  BY <1>0, <1>1
     DEF Position, CommonPosition, CarbonPosition, ComputePosition, At, Going, Kept, MoneyTypes,
         Shape, Untouched, NoneOwned, Bought
<1>2. ASSUME NEW ours \in BOOLEAN, OtherMints(ours)
      PROVE  Kept'
  <2>1. /\ NextToken \in Tokens /\ UNCHANGED <<class, wallet, credit, job>>
        /\ token' = [token EXCEPT ![NextToken] =
             [NoToken EXCEPT !.owner = "other", !.ours = ours,
                             !.state = "Available", !.deposit = "held"]]
    BY <1>2 DEF OtherMints, mint
  <2>2. token[NextToken] = NoToken
    BY <2>1, NextTokenNat DEF RunsInv, World, InOrder
  <2>3. token'[NextToken].owner = "other" /\ token'[NextToken].parcel = None
          /\ token'[NextToken].state = "Available" /\ token'[NextToken].deposit = "held"
    BY <1>0, <2>1 DEF Shape, NoToken
  <2>4. \A t \in Tokens : t # NextToken => token'[t] = token[t]
    BY <1>0, <2>1 DEF Shape
  <2>5. MoneyTypes'
    BY <1>0, <2>1 DEF Shape, MoneyTypes
  <2>6. /\ NoneOwned => NoneOwned'
        /\ Untouched' = Untouched
    BY <2>1, <2>3, <2>4 DEF NoneOwned, Untouched, Bought
  <2>7. CommonPosition'
    BY <1>0, <2>1 DEF Position, CommonPosition, At, Going, Bought
  <2>8. CarbonPosition'
    <3>1. At({"retire"}) /\ lane = "carbon" => run.token # NextToken
      BY <1>0, <2>1, <2>2, Numbers
         DEF Position, CommonPosition, CarbonPosition, At, Going, Ended, NoToken
    <3>2. QED
      BY <1>0, <2>1, <2>3, <2>4, <3>1 DEF Position, CarbonPosition, At
  <2>9. ComputePosition'
    <3>1. lane = "compute" =>
            /\ At({"credit", "claim", "owed", "withdraw", "check", "again", "complete"}) =>
                 run.token # NextToken
            /\ At({"submit", "decide", "fulfil", "create", "bids", "lease", "wait", "verify"}) =>
                 run.token # NextToken
      BY <1>0, <2>2 DEF Position, ComputePosition, At, NoToken
    <3>2. QED
      BY <1>0, <2>1, <2>4, <2>6, <3>1 DEF Position, ComputePosition, At, Bought
  <2>10. QED
    BY <1>0, <2>5, <2>7, <2>8, <2>9 DEF Kept, Position
<1>3. ASSUME NEW t \in Tokens, RecoverDeposit(t)
      PROVE  Kept'
  <2>1. /\ ~Going /\ token[t].deposit = "held" /\ UNCHANGED <<class, job>>
        /\ \E how \in {"released", "refunded"} : token' = [token EXCEPT ![t].deposit = how]
        /\ \/ wallet' = wallet /\ (credit' = credit \/ credit' = credit + Price)
           \/ wallet' = wallet + Price /\ credit' = credit
    BY <1>3 DEF RecoverDeposit, releaseToIssuer
  <2>2. MoneyTypes'
    BY <1>0, <2>1, Numbers DEF MoneyTypes, Shape
  <2>3. \A u \in Tokens : u # t => token'[u] = token[u]
    BY <1>0, <2>1 DEF Shape
  <2>4. lane = "compute" /\ At({"complete"}) => run.token \in Tokens /\ run.token # t
    BY <1>0, <2>1 DEF Position, ComputePosition, At
  <2>5. QED
    BY <1>0, <2>1, <2>2, <2>3, <2>4
       DEF Kept, Position, CommonPosition, CarbonPosition, ComputePosition, At, Going, Ended
<1>4. CASE RecoverMoney
  <2>1. ~Going /\ UNCHANGED <<token, job>>
    BY <1>4 DEF RecoverMoney, claim, withdrawCollateral
  <2>2. MoneyTypes'
    BY <1>0, <1>4, ObligationNat
       DEF MoneyTypes, Shape, ClassRecord, RecoverMoney, claim, withdrawCollateral
  <2>3. QED
    BY <1>0, <2>1, <2>2
       DEF Kept, Position, CommonPosition, CarbonPosition, ComputePosition, At, Going, Ended
<1>5. ASSUME NEW j \in Jobs, Provider(j)
      PROVE  Kept'
  <2>1. /\ UNCHANGED <<class, token, wallet, credit>>
        /\ \/ job[j].state = "open" /\ job' = [job EXCEPT ![j].state = "bid"]
           \/ job[j].state = "bid" /\ job' = [job EXCEPT ![j].state = "open"]
           \/ job[j].state = "leased" /\ job' = [job EXCEPT ![j].state = "ready"]
           \/ job[j].state \in {"leased", "ready"} /\ job' = [job EXCEPT ![j].state = "ended"]
    BY <1>5 DEF Provider, chainVars, Leased
  <2>2. \A k \in Jobs : /\ Bought(k)' = Bought(k) /\ job'[k].token = job[k].token
                        /\ job[k].state # "none" => job'[k].state # "none"
    BY <1>0, <2>1 DEF Shape, JobRecord, Bought, Leased
  <2>3. Untouched' = Untouched
    BY <2>2 DEF Untouched
  <2>4. MoneyTypes'
    BY <1>0, <2>1 DEF MoneyTypes, Shape
  <2>5. CommonPosition' /\ CarbonPosition'
    BY <1>0, <2>1, <2>2 DEF Position, CommonPosition, CarbonPosition, At, Going
  <2>6. ComputePosition'
    BY <1>0, <2>1, <2>2, <2>3 DEF Position, ComputePosition, At, NoneOwned
  <2>7. QED
    BY <1>0, <2>4, <2>5, <2>6 DEF Kept, Position
<1>6. QED
  BY <1>1, <1>2, <1>3, <1>4, <1>5

(***************************************************************************)
(* The invariant is inductive.                                             *)
(***************************************************************************)
LEMMA FailuresCounted ==
  ASSUME RunsInv, [RunsNext]_runVars
  PROVE  failures' \in 0 .. MaxFailures
<1> DEFINE Counted == \/ failures' = failures
                      \/ failures < MaxFailures /\ failures' = failures + 1
<1> USE DEF Check, Send, SendByClient, Calm, Fault
<1>1. CASE CarbonStep
  <2>1. Counted
    BY <1>1
       DEF CarbonStep, CarbonUnlock, Preflight, CarbonClass, CarbonPost, MintSimulated,
           CarbonMint, CarbonRule, CarbonBind, CarbonDecide, RefuseRetirement, Retire,
           CarbonCredit, CarbonClaim, CarbonFreed, CarbonWithdraw,
           RegisterIssuer, SubmitParcel, RecordCarrier, Release
  <2>2. QED
    BY <2>1, Numbers DEF RunsInv, Types
<1>2. CASE ComputeStep
  <2>1. Counted
    BY <1>2
       DEF ComputeStep, ComputeRule, ComputeUnlock, ComputeClass, ComputePost, FindToken,
           ReadMinted, ComputeMint, MintedByOne, ComputeDecide, FulfilStep, Verify,
           Fulfil, ChooseBid, BidTimeout, CreateLease, WaitForReady, NotReady, Caught,
           RefuseDeployment, CreateDeployment, AtProvider, ComputeCredit, ComputeClaim,
           ComputeOwed, ComputeWithdraw, ComputeCheck,
           RegisterIssuer, SubmitParcel, RecordCarrier, Release
  <2>2. QED
    BY <2>1, Numbers DEF RunsInv, Types
<1>3. CASE Killed
  BY <1>3, Numbers DEF Killed, RunsInv, Types
<1>4. CASE failures' = failures
  BY <1>4 DEF RunsInv, Types
<1>5. QED
  BY <1>1, <1>2, <1>3, <1>4
     DEF RunsNext, runVars, RunStep, Start, CarbonStart, ComputeStart, ResumeNew, ResumeLease,
         Begins, RecoverMoney, OtherMints, RecoverDeposit, Provider

LEMMA ClassSteps ==
  ASSUME [RunsNext]_runVars, lane = "compute"
  PROVE  \/ class' = class
         \/ registerIssuer \/ createClass
         \/ At({"post"}) /\ postCollateral(Missing)
         \/ withdrawCollateral(class.posted)
         \/ class.posted > Obligation /\ withdrawCollateral(class.posted - Obligation)
  BY DEF RunsNext, runVars, Start, RunStep, CarbonStart, ComputeStart, ResumeNew, ResumeLease,
         Begins, Killed, RecoverMoney, OtherMints, RecoverDeposit, Provider, chainVars,
         Check, Send, SendByClient, CarbonStep, At,
         claim, mint, submitParcel, recordDecision, recordCarrier, releaseToIssuer,
         RegisterIssuer, SubmitParcel, RecordCarrier, Release,
         ComputeStep, ComputeRule, ComputeUnlock, ComputeClass, ComputePost, FindToken,
         ReadMinted, ComputeMint, MintedByOne, ComputeDecide, FulfilStep, Verify,
         Fulfil, ChooseBid, BidTimeout, CreateLease, WaitForReady, NotReady, Caught,
         RefuseDeployment, CreateDeployment, AtProvider, ComputeCredit, ComputeClaim,
         ComputeOwed, ComputeWithdraw, ComputeCheck

\* A class that is not open holds nothing and has sold nothing; the run that opens
\* it is the one that may buy.
LEMMA ComputeWorldKept ==
  ASSUME RunsInv, [RunsNext]_runVars
  PROVE  ComputeWorld'
<1>1. SUFFICES ASSUME lane = "compute"
               PROVE  ComputeWorld'
  BY LaneIsFinal DEF ComputeWorld
<1>2. Shape /\ ComputePosition
  BY Shapes DEF RunsInv, Position
<1>3. /\ ~class.open => class.posted = 0 /\ NoneOwned
      /\ \A t, u \in Tokens :
           token[t].owner = "operator" /\ token[u].owner = "operator" => t = u
  BY <1>1 DEF RunsInv, World, ComputeWorld
<1>4. ~class'.open => ~class.open /\ class'.posted = 0
  <2>1. CASE class' = class
    BY <1>3, <2>1
  <2>2. CASE registerIssuer
    BY <1>2, <1>3, <2>2 DEF registerIssuer, Shape, ClassRecord
  <2>3. CASE createClass
    <3>1. class'.open = TRUE
      BY <1>2, <2>3 DEF createClass, Shape, ClassRecord
    <3>2. QED
      BY <3>1
  <2>4. CASE At({"post"}) /\ postCollateral(Missing)
    <3>1. class.open
      BY <1>1, <1>2, <2>4 DEF ComputePosition, At
    <3>2. class'.open = class.open
      BY <1>2, <2>4 DEF postCollateral, Shape, ClassRecord
    <3>3. QED
      BY <3>1, <3>2
  <2>5. CASE withdrawCollateral(class.posted)
    BY <1>2, <2>5 DEF withdrawCollateral, Shape, ClassRecord
  <2>6. CASE class.posted > Obligation /\ withdrawCollateral(class.posted - Obligation)
    <3>1. class'.open = class.open
      BY <1>2, <2>6 DEF withdrawCollateral, Shape, ClassRecord
    <3>2. class.posted # 0
      BY <2>6, ObligationNat
    <3>3. QED
      BY <1>3, <3>1, <3>2
  <2>7. QED
    BY <1>1, <2>1, <2>2, <2>3, <2>4, <2>5, <2>6, ClassSteps
<1>5. CASE \A t \in Tokens : token'[t].owner = token[t].owner
  BY <1>3, <1>4, <1>5 DEF ComputeWorld, NoneOwned
<1>6. CASE MintStep
  <2> DEFINE n == NextToken
  <2>1. n \in Tokens /\ \A t \in Tokens : t # n => token'[t] = token[t]
    BY <1>2, <1>6 DEF MintStep, mint, Shape
  <2>2. CASE \E ours \in BOOLEAN : mint("other", ours)
    <3>1. token'[n].owner = "other"
      BY <1>2, <2>1, <2>2 DEF mint, Shape, NoToken
    <3>2. QED
      BY <1>3, <1>4, <2>1, <3>1 DEF ComputeWorld, NoneOwned
  <2>3. CASE At({"minting"}) /\ MayMint
    <3>1. NoneOwned
      BY <1>1, <1>2, <2>3 DEF ComputePosition, At
    <3>2. class.open
      BY <2>3 DEF MayMint
    <3>3. QED
      BY <1>4, <2>1, <3>1, <3>2 DEF ComputeWorld, NoneOwned
  <2>4. QED
    BY <1>6, <2>2, <2>3 DEF MintStep
<1>7. CASE SubmitStep \/ DecideStep \/ RecordStep \/ SettleStep
  <2>1. \A t \in Tokens : token'[t].owner = token[t].owner
    <3>1. token \in [Tokens -> TokenRecord]
      BY <1>2 DEF Shape
    <3>2. CASE SubmitStep
      BY <3>1, <3>2 DEF SubmitStep, submitParcel, TokenRecord
    <3>3. CASE DecideStep
      BY <3>1, <3>3 DEF DecideStep, recordDecision, TokenRecord
    <3>4. CASE RecordStep
      BY <3>1, <3>4 DEF RecordStep, recordCarrier, TokenRecord
    <3>5. CASE SettleStep
      BY <3>1, <3>5 DEF SettleStep, TokenRecord
    <3>6. QED
      BY <1>7, <3>2, <3>3, <3>4, <3>5
  <2>2. QED
    BY <1>5, <2>1
<1>8. QED
  BY <1>5, <1>6, <1>7, TokenSteps

LEMMA KeptByAll ==
  ASSUME RunsInv, [RunsNext]_runVars
  PROVE  Kept'
<1>0. lane' = lane
  BY LaneIsFinal
<1>1. CASE UNCHANGED runVars
  BY <1>0, <1>1, OthersKeep DEF runVars, chainVars
<1>2. CASE Start
  BY <1>0, <1>2, StartKeeps
<1>3. CASE RunStep
  BY <1>0, <1>3, CarbonKeeps, ComputeKeeps DEF RunStep
<1>4. CASE Killed
  <2>1. Throws /\ MoneyTypes'
    BY <1>4 DEF Killed, chainVars, RunsInv, Types, MoneyTypes
  <2>2. QED
    BY <1>0, <2>1, ThrowsKeeps
<1>5. CASE \/ \E ours \in BOOLEAN : OtherMints(ours)
           \/ \E t \in Tokens : RecoverDeposit(t)
           \/ RecoverMoney
           \/ \E j \in Jobs : Provider(j)
  <2>1. run' = run
    BY <1>5 DEF OtherMints, RecoverDeposit, RecoverMoney, Provider
  <2>2. QED
    BY <1>0, <1>5, <2>1, OthersKeep
<1>6. QED
  BY <1>1, <1>2, <1>3, <1>4, <1>5 DEF RunsNext

LEMMA WorldKept ==
  ASSUME RunsInv, [RunsNext]_runVars
  PROVE  /\ TokenTypes' /\ JobTypes' /\ World'
<1>0. lane' = lane /\ ComputeWorld'
  BY LaneIsFinal, ComputeWorldKept
<1>1. CASE job' = job /\ (MintStep \/ SubmitStep \/ DecideStep \/ RecordStep \/ SettleStep)
  <2>1. TokenWorld'
    BY <1>0, <1>1, TokensKeepWorld
  <2>2. JobTypes'
    BY <1>1 DEF RunsInv, Types, JobTypes
  <2>3. QED
    BY <1>0, <2>1, <2>2 DEF TokenWorld, World
<1>2. CASE /\ \/ RetireStep \/ OpenStep \/ LeaseStep \/ CloseStep
              \/ \E j \in Jobs : Provider(j)
           /\ UNCHANGED chainVars
  <2>1. JobWorld'
    BY <1>0, <1>2, JobsKeepWorld
  <2>2. TokenTypes'
    BY <1>2 DEF RunsInv, Types, TokenTypes, chainVars
  <2>3. QED
    BY <1>0, <2>1, <2>2 DEF JobWorld, World
<1>3. CASE token' = token /\ job' = job
  <2>1. InOrder'
    BY <1>3, SameJobsInOrder DEF RunsInv, World
  <2>2. QED
    BY <1>0, <1>3, <2>1
       DEF RunsInv, World, Types, TokenTypes, JobTypes, Owned, CarbonWorld, BoughtOnce,
           EvidenceOfOwnJob, RetiredAsBound, Bought
<1>4. QED
  BY <1>1, <1>2, <1>3, TokenSteps, JobSteps

LEMMA RunsInvInit ==
  ASSUME RunsInit
  PROVE  RunsInv
<1>1. Types
  BY Numbers
     DEF RunsInit, ChainInit, Types, TokenTypes, JobTypes, RunTypes, MoneyTypes, TokenRecord,
         JobRecord, ClassRecord, RunRecord, Pcs, NoToken, NoJob, Idle
<1>2. World
  <2>1. InOrder
    <3>1. Minted = {} /\ {j \in Jobs : job[j].state # "none"} = {}
      BY DEF RunsInit, ChainInit, Minted, NoToken, NoJob
    <3>2. NextToken = 1 /\ NextJob = 1
      BY <3>1, FS_EmptySet DEF NextToken, NextJob
    <3>3. \A t \in Tokens : token[t] = NoToken /\ token[t].state = "None" /\ ~(t < NextToken)
      BY <3>2, Numbers DEF RunsInit, ChainInit, Tokens, NoToken
    <3>4. \A j \in Jobs : job[j].state = "none" /\ ~(j < NextJob)
      BY <3>2, Numbers DEF RunsInit, ChainInit, Jobs, NoJob
    <3>5. QED
      BY <3>3, <3>4 DEF InOrder
  <2>2. QED
    BY <2>1
       DEF RunsInit, ChainInit, World, Owned, CarbonWorld, ComputeWorld, NoneOwned, BoughtOnce,
           EvidenceOfOwnJob, RetiredAsBound, NoToken, NoJob, Bought, Leased
<1>3. Position
  BY DEF RunsInit, ChainInit, Idle, Position, CommonPosition, CarbonPosition, ComputePosition,
         At, Going, Ended
<1>4. QED
  BY <1>1, <1>2, <1>3 DEF RunsInv

LEMMA RunsInvStep ==
  ASSUME RunsInv, [RunsNext]_runVars
  PROVE  RunsInv'
<1>1. TokenTypes' /\ JobTypes' /\ World'
  BY WorldKept
<1>2. RunTypes' /\ MoneyTypes' /\ Position'
  BY KeptByAll DEF Kept
<1>3. lane' \in {"carbon", "compute"} /\ failures' \in 0 .. MaxFailures
  BY LaneIsFinal, FailuresCounted DEF RunsInv, Types
<1>4. QED
  BY <1>1, <1>2, <1>3 DEF RunsInv, Types

THEOREM RunsCorrect == RunsSpec => []RunsInv
<1>1. RunsInit => RunsInv
  BY RunsInvInit
<1>2. RunsInv /\ [RunsNext]_runVars => RunsInv'
  BY RunsInvStep
<1>3. QED
  BY <1>1, <1>2, PTL DEF RunsSpec

(***************************************************************************)
(* What follows from it.                                                   *)
(***************************************************************************)
\* Types; the wallet never goes below nothing, whatever dies half-way: the balance
\* each script asks for before its first transaction is enough for all of them.
THEOREM RunsTypesCorrect == RunsSpec => []RunsTypeOK
<1>1. RunsInv => RunsTypeOK
  BY TypesAreTypes DEF RunsInv
<1>2. QED
  BY <1>1, RunsCorrect, PTL

\* One entitlement is bought for at most once, however often a script is killed,
\* resumed or begun again.
THEOREM EntitlementBoughtOnce == RunsSpec => []BoughtOnce
<1>1. RunsInv => BoughtOnce
  BY DEF RunsInv, World
<1>2. QED
  BY <1>1, RunsCorrect, PTL

\* Committed evidence is of a job done for that very token.
THEOREM EvidenceIsOwn == RunsSpec => []EvidenceOfOwnJob
<1>1. RunsInv => EvidenceOfOwnJob
  BY DEF RunsInv, World
<1>2. QED
  BY <1>1, RunsCorrect, PTL

\* A compute run that reports completion has evidence and release on chain, in spite
\* of transactions that reverted unnoticed on the way.
THEOREM CompletionIsSquare == RunsSpec => []CompleteMeansSquare
<1>1. RunsInv => CompleteMeansSquare
  BY DEF RunsInv, Position, ComputePosition, At, CompleteMeansSquare
<1>2. QED
  BY <1>1, RunsCorrect, PTL

\* The carbon script retires what the chain was told, whatever a resumed run asks for.
THEOREM RetirementsAreAsBound == RunsSpec => []RetiredAsBound
<1>1. RunsInv => RetiredAsBound
  BY DEF RunsInv, World
<1>2. QED
  BY <1>1, RunsCorrect, PTL

\* No deployment with a lease is closed, although the adapter closes deployments
\* without knowing which request for a lease was carried out.
THEOREM LeasesSurvive == RunsSpec => LeasedNeverClosed
<1>1. RunsInv /\ [RunsNext]_runVars =>
        [\A j \in Jobs : Bought(j) => job'[j].state # "closed"]_runVars
  <2>1. SUFFICES ASSUME RunsInv, [RunsNext]_runVars, NEW j \in Jobs, Bought(j)
                 PROVE  job'[j].state # "closed"
    OBVIOUS
  <2>2. job \in [Jobs -> JobRecord] /\ job[j].state \in {"leased", "ready", "ended"}
    BY <2>1 DEF RunsInv, Types, JobTypes, Bought, Leased
  <2>3. CASE job' = job
    BY <2>2, <2>3
  <2>4. CASE RetireStep \/ OpenStep
    BY <2>2, <2>4, NextJobIsFree, <2>1 DEF RetireStep, OpenStep
  <2>5. CASE LeaseStep
    BY <2>2, <2>5 DEF LeaseStep, JobRecord
  <2>6. CASE CloseStep
    <3>1. run.job \in Jobs /\ ~Bought(run.job)
      BY <2>1, <2>6 DEF CloseStep, RunsInv, Position, ComputePosition, At
    <3>2. run.job # j
      BY <2>1, <3>1
    <3>3. QED
      BY <2>2, <2>6, <3>2 DEF CloseStep
  <2>7. CASE \E k \in Jobs : Provider(k)
    BY <2>2, <2>7 DEF Provider, JobRecord
  <2>8. QED
    BY <2>1, <2>3, <2>4, <2>5, <2>6, <2>7, JobSteps
<1>2. QED
  BY <1>1, RunsCorrect, PTL DEF RunsSpec, LeasedNeverClosed
=============================================================================
