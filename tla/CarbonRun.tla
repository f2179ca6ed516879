------------------------------ MODULE CarbonRun ------------------------------
(***************************************************************************)
(* The carbon script (packages/attest/scripts/e2e.ts) with --broadcast and *)
(* --retire: open a class, back it, buy one unit of it, bind the work, rule*)
(* on it, retire the credit, record the evidence, settle.  A dry run sends *)
(* nothing and is not modelled.                                            *)
(*                                                                         *)
(* The ruling is InferenceRulings', and the retirement's own ledger is     *)
(* RetirementLedger's: here each simply succeeds or does not.              *)
(***************************************************************************)
EXTENDS RunChain

\* A resumed run is given a token, and starts where its review did.  The chain is
\* one that carries carbon, and the deployment file is that chain's.
CarbonStart(work, resumed) ==
  /\ lane = "carbon" /\ ~Going
  /\ resumed # None => resumed \in Minted
  /\ run' = [run EXCEPT !.pc = "unlock", !.resume = resumed # None, !.token = resumed,
                        !.job = None, !.work = work]
  /\ UNCHANGED <<lane, chainVars, job, failures>>

\* Three signers, of which the deployment says who they have to be.
CarbonUnlock == Check("unlock", TRUE, Goto("preflight"))

AfterPreflight == Goto(IF run.resume THEN "rule" ELSE "issuer")

\* Gas, roles, inference budget and balance, before anything is sent.  The
\* balance is asked for in full even when issuance is to be skipped.
Preflight == Check("preflight", wallet >= Price + Collateral, AfterPreflight)

\* A class of that label is reused, and its collateral posted once more.
CarbonClass ==
  IF class.open THEN Check("class", TRUE, Goto("post"))
  ELSE Send("class", TRUE, createClass, "post")

CarbonPost == Send("post", TRUE, postCollateral(Collateral), "mint")

\* The id the run goes on with is the simulation's.
MintSimulated ==
  Check("mint", MayMint, run' = [run EXCEPT !.pc = "minting", !.token = NextToken])

CarbonMint == Send("minting", MayMint, mint("operator", TRUE), "rule")

\* Facts, proposal and verdict: money is in escrow by now.
CarbonRule == Check("rule", TRUE, Goto("submit"))

\* Mutant: a resumed run does not compare the parcel hashes.
BindUnchecked ==
  IF ~run.resume THEN SubmitParcel ELSE Check("submit", TRUE, Goto("decide"))

\* A resumed run compares its work with what the chain has.
CarbonBind ==
  IF ~run.resume THEN SubmitParcel
  ELSE Check("submit", token[run.token].parcel = run.work, Goto("decide"))

\* Whatever the verdict, it is recorded; only an approval goes on.
CarbonDecide(approved) ==
  SendByClient("decide", token[run.token].state = "PendingReview",
    recordDecision(run.token, approved), IF approved THEN "retire" ELSE "declined")

\* The ledger on disk holds what was already paid for, by token and by work.
OnLedger == \E j \in Jobs : Bought(j) /\ job[j].token = run.token /\ job[j].work = run.work

\* Mutant: a response that says nothing is taken for a retirement.
RetireUnconfirmed ==
  /\ run.pc = "retire" /\ ~OnLedger /\ NextJob \in Jobs
  /\ run' = [run EXCEPT !.pc = "record", !.job = NextJob]
  /\ UNCHANGED job /\ Fault
  /\ UNCHANGED <<lane, chainVars>>

\* Irreversible: retired and reported, refused, or retired with the answer lost.
Retire ==
  /\ run.pc = "retire" /\ ~OnLedger /\ NextJob \in Jobs
  /\ LET retired ==
           job' = [job EXCEPT ![NextJob] =
                        [state |-> "ready", token |-> run.token, work |-> run.work]]
     IN \/ retired /\ Calm /\ run' = [run EXCEPT !.pc = "record", !.job = NextJob]
        \/ retired /\ Fault /\ Throws
        \/ UNCHANGED job /\ Fault /\ Throws
  /\ UNCHANGED <<lane, chainVars>>

\* Retired before, or the caps of the ledger or the bound on jobs are reached.
RefuseRetirement ==
  /\ run.pc = "retire" /\ (OnLedger \/ NextJob \notin Jobs)
  /\ Throws /\ Calm /\ UNCHANGED <<lane, chainVars, job>>

\* Read up to five times; a node that stays behind leaves it to the recovery
\* script, and the run goes on.
CarbonCredit ==
  /\ run.pc = "credit"
  /\ \/ credit > 0 /\ Calm /\ Goto("claim")
     \/ credit = 0 /\ Calm /\ Goto("freed")
     \/ Fault /\ (Goto("freed") \/ Throws)
  /\ UNCHANGED <<lane, chainVars, job>>

CarbonClaim == Send("claim", credit > 0, claim, "freed")

\* Read once.  A node that has not seen the release counts it as still owed.
CarbonFreed ==
  /\ run.pc = "freed"
  /\ \E owed \in {Obligation, Obligation + Payout} :
       /\ IF owed = Obligation THEN Calm ELSE Fault
       /\ run' = IF class.posted > owed
                 THEN [run EXCEPT !.pc = "withdraw", !.free = class.posted - owed]
                 ELSE [run EXCEPT !.pc = "complete"]
  /\ UNCHANGED <<lane, chainVars, job>>

CarbonWithdraw ==
  Send("withdraw", MayWithdraw(run.free), withdrawCollateral(run.free), "complete")

CarbonStep ==
  /\ lane = "carbon"
  /\ \/ CarbonUnlock \/ Preflight
     \/ RegisterIssuer \/ CarbonClass \/ CarbonPost \/ MintSimulated \/ CarbonMint
     \/ CarbonRule \/ CarbonBind
     \/ \E approved \in BOOLEAN : CarbonDecide(approved)
     \/ RefuseRetirement \/ Retire
     \/ RecordCarrier \/ Release("credit")
     \/ CarbonCredit \/ CarbonClaim \/ CarbonFreed \/ CarbonWithdraw
===============================================================================
