------------------------------- MODULE RunChain -------------------------------
(***************************************************************************)
(* What the two operator scripts (packages/attest/scripts/e2e.ts and       *)
(* compute-e2e.ts) share: the class they open, the tokens of the           *)
(* deployment, the escrowed money, the provider's jobs, and the way a      *)
(* script sends a transaction.  A script is a straight line of awaits with *)
(* no undo: whatever throws ends the run and leaves behind what it had     *)
(* already done, for the next run or for the recovery script.              *)
(*                                                                         *)
(* The contracts are those of ServiceEntitlement, ActivationRegistry and   *)
(* SettlementEscrow, cut down to one class of the operator's; allowances,  *)
(* which each script sets just before they are used, are left out.         *)
(***************************************************************************)
EXTENDS Integers, FiniteSets

CONSTANTS
  Works,          \* workloads, or credit classes: what a run is asked to buy
  None,           \* no work bound, no job
  Price, Collateral, Payout,     \* the terms of the class and of a run
  Wealth,         \* what the operator starts with
  MaxTokens,      \* bound: tokens ever minted on the deployment
  MaxJobs,        \* bound: jobs ever opened at the provider
  MaxFailures     \* bound: lost or refused calls, timeouts and killed runs

\* Amounts read from the environment.
usd == Nat \ {0}

ASSUME RunAssumption ==
  /\ {Price, Payout} \subseteq usd /\ {Wealth, MaxFailures} \subseteq Nat
  /\ Collateral \in Nat \ 0 .. Payout - 1       \* both scripts refuse less
  /\ {MaxTokens, MaxJobs} \subseteq Nat
  /\ None \notin Works \cup Nat

VARIABLES
  lane,           \* which of the two scripts the operator runs
  class,          \* the issuer is registered, the class is open, collateral
  token,          \* the tokens of the deployment
  wallet, credit, \* the operator's money and what the escrow lets it claim
  job,            \* retirements, or deployments with their lease
  run,            \* the running script
  failures

chainVars == <<class, token, wallet, credit>>
runVars == <<lane, chainVars, job, run, failures>>

Tokens == 1 .. MaxTokens
Jobs == 1 .. MaxJobs

NoToken == [owner |-> "nobody", ours |-> FALSE, state |-> "None",
            parcel |-> None, deposit |-> "none", evidence |-> None]
NoJob == [state |-> "none", token |-> None, work |-> None]

\* A job the provider was paid for: a retired credit, an accepted lease.
Leased == {"leased", "ready"}
Bought(j) == job[j].state \in Leased \cup {"ended"}

Ended == {"idle", "complete", "declined", "failed"}
Going == run.pc \notin Ended

Minted == {t \in Tokens : token[t].state # "None"}
NextToken == Cardinality(Minted) + 1
NextJob == Cardinality({j \in Jobs : job[j].state # "none"}) + 1

Obligation ==
  Payout * Cardinality({t \in Tokens : token[t].ours /\ token[t].deposit = "held"})

Idle == [pc |-> "idle", resume |-> FALSE, token |-> None, job |-> None,
         work |-> None, free |-> 0, attempted |-> FALSE]

ChainInit ==
  /\ class = [issuer |-> FALSE, open |-> FALSE, posted |-> 0]
  /\ token = [t \in Tokens |-> NoToken]
  /\ wallet = Wealth /\ credit = 0
  /\ job = [j \in Jobs |-> NoJob]
  /\ run = Idle
  /\ failures = 0

(***************************************************************************)
(* Steps of a script.                                                      *)
(***************************************************************************)
Goto(pc) == run' = [run EXCEPT !.pc = pc]
Throws == run' = [Idle EXCEPT !.pc = "failed"]
Fault == failures < MaxFailures /\ failures' = failures + 1
Calm == UNCHANGED failures

\* A step that reads, or calls nothing: it goes on, or it throws.
Check(pc, holds, then) ==
  /\ run.pc = pc
  /\ \/ holds /\ then /\ Calm
     \/ ~holds /\ Throws /\ Calm
     \/ Fault /\ Throws
  /\ UNCHANGED <<lane, chainVars, job>>

\* Simulated up to five times, written, awaited.  The simulation meets a node
\* that is behind; the call reverts; it is mined and the receipt never seen.
Send(pc, may, effect, next) ==
  /\ run.pc = pc
  /\ \/ may /\ effect /\ Goto(next) /\ Calm
     \/ may /\ effect /\ Throws /\ Fault
     \/ Throws /\ UNCHANGED chainVars /\ (IF may THEN Fault ELSE Calm)
  /\ UNCHANGED <<lane, job>>

\* The registry's client reads the state first and refuses what would revert,
\* but waits for the receipt without looking at its status: a transaction that
\* was mined and reverted counts as done.
SendByClient(pc, may, effect, next) ==
  \/ Send(pc, may, effect, next)
  \/ run.pc = pc /\ may /\ Fault /\ Goto(next) /\ UNCHANGED <<lane, chainVars, job>>

(***************************************************************************)
(* The transactions.                                                       *)
(***************************************************************************)
registerIssuer ==
  class' = [class EXCEPT !.issuer = TRUE] /\ UNCHANGED <<token, wallet, credit>>

\* Creating a class registers its issuer too.
createClass ==
  /\ class' = [class EXCEPT !.issuer = TRUE, !.open = TRUE]
  /\ UNCHANGED <<token, wallet, credit>>

postCollateral(amount) ==
  /\ class' = [class EXCEPT !.posted = @ + amount]
  /\ wallet' = wallet - amount
  /\ UNCHANGED <<token, credit>>

MayMint == class.open /\ class.posted >= Obligation + Payout /\ NextToken \in Tokens

\* A unit of the class, or of somebody else's.
mint(owner, ours) ==
  /\ token' = [token EXCEPT ![NextToken] =
        [NoToken EXCEPT !.owner = owner, !.ours = ours,
                        !.state = "Available", !.deposit = "held"]]
  /\ wallet' = IF owner = "operator" THEN wallet - Price ELSE wallet
  /\ UNCHANGED <<class, credit>>

submitParcel(t, work) ==
  /\ token' = [token EXCEPT ![t].state = "PendingReview", ![t].parcel = work]
  /\ UNCHANGED <<class, wallet, credit>>

recordDecision(t, approved) ==
  /\ token' = [token EXCEPT ![t].state = IF approved THEN "Activated" ELSE "Available"]
  /\ UNCHANGED <<class, wallet, credit>>

recordCarrier(t, evidence) ==
  /\ token' = [token EXCEPT ![t].evidence = evidence]
  /\ UNCHANGED <<class, wallet, credit>>

releaseToIssuer(t) ==
  /\ token' = [token EXCEPT ![t].deposit = "released"]
  /\ credit' = credit + Price
  /\ UNCHANGED <<class, wallet>>

MayWithdraw(amount) == class.posted - amount >= Obligation

claim == wallet' = wallet + credit /\ credit' = 0 /\ UNCHANGED <<class, token>>

withdrawCollateral(amount) ==
  /\ class' = [class EXCEPT !.posted = @ - amount]
  /\ wallet' = wallet + amount
  /\ UNCHANGED <<token, credit>>

(***************************************************************************)
(* The steps both scripts take, and where each goes next.                  *)
(***************************************************************************)
RegisterIssuer ==
  IF class.issuer THEN Check("issuer", TRUE, Goto("class"))
  ELSE Send("issuer", TRUE, registerIssuer, "class")

SubmitParcel ==
  SendByClient("submit",
    token[run.token].state = "Available" /\ token[run.token].owner = "operator",
    submitParcel(run.token, run.work), "decide")

RecordCarrier ==
  SendByClient("record", token[run.token].state = "Activated",
               recordCarrier(run.token, run.job), "release")

Release(next) ==
  Send("release", token[run.token].deposit = "held", releaseToIssuer(run.token), next)

(***************************************************************************)
(* Everybody else.                                                         *)
(***************************************************************************)
\* The class is on sale, and it is not the only one.
OtherMints(ours) ==
  /\ NextToken \in Tokens /\ (ours => MayMint)
  /\ mint("other", ours)
  /\ UNCHANGED <<lane, job, run, failures>>

\* The process dies, or the operator stops it.
Killed == Going /\ Fault /\ Throws /\ UNCHANGED <<lane, chainVars, job>>

\* recover-escrow.ts, run between two runs (EscrowRecovery has its own races):
\* deposits by their evidence, then whatever is free.
RecoverDeposit(t) ==
  /\ ~Going /\ token[t].ours /\ token[t].deposit = "held"
  /\ IF token[t].evidence # None THEN releaseToIssuer(t)
     ELSE /\ token' = [token EXCEPT ![t].deposit = "refunded"]
          /\ wallet' = IF token[t].owner = "operator" THEN wallet + Price ELSE wallet
          /\ UNCHANGED <<class, credit>>
  /\ UNCHANGED <<lane, job, run, failures>>

RecoverMoney ==
  /\ ~Going
  /\ \/ credit > 0 /\ claim
     \/ class.posted > Obligation /\ withdrawCollateral(class.posted - Obligation)
  /\ UNCHANGED <<lane, job, run, failures>>
===============================================================================
