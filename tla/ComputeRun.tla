------------------------------ MODULE ComputeRun ------------------------------
(***************************************************************************)
(* The compute script (packages/attest/scripts/compute-e2e.ts).  It rules  *)
(* before it unlocks a key, then opens and backs a class, buys one unit,   *)
(* binds the work and the decision, leases a deployment on Akash, records  *)
(* the evidence and settles.                                               *)
(*                                                                         *)
(* --resume goes on with a run that died after its approval was recorded:  *)
(* from an existing deployment (AKASH_RESUME_DSEQ), or with a new one if   *)
(* none was leased (AKASH_RESUME_NEW_DEPLOYMENT=yes).  Which of the two is *)
(* right is for the operator to see in the provider's console.             *)
(***************************************************************************)
EXTENDS AkashFulfil

\* The environment, the deployment file and the live chain agree: a run that
\* does not get that far does nothing.
Begins(pc, resume, from, work) ==
  /\ lane = "compute" /\ ~Going
  /\ run' = [run EXCEPT !.pc = pc, !.resume = resume, !.token = None,
                        !.job = from, !.work = work]
  /\ UNCHANGED <<lane, chainVars, job, failures>>

ComputeStart(work) == Begins("rule", FALSE, None, work)

ResumeLease(work, j) == job[j].state # "none" /\ Begins("unlock", TRUE, j, work)

\* Nothing was leased so far, nor is a lease still to come of what was asked.
ResumeNew(work) ==
  /\ \A j \in Jobs : ~Bought(j) /\ job[j].state # "bid"
  /\ Begins("unlock", TRUE, None, work)

\* A refusal costs nothing: no key has been unlocked.
ComputeRule(approved) ==
  Check("rule", TRUE, Goto(IF approved THEN "unlock" ELSE "declined"))

\* Keys, then gas and roles, all as the deployment has them.
ComputeUnlock == Check("unlock", TRUE, Goto("issuer"))

\* A class that exists needs --resume; one that does not is created even so.
ComputeClass ==
  IF class.open
  THEN Check("class", run.resume /\ class.posted <= Collateral, Goto("post"))
  ELSE Send("class", TRUE, createClass, "post")

Missing == Collateral - class.posted

Required == (IF run.resume THEN 0 ELSE Price) + Missing

\* Only what is missing of the collateral is posted.
ComputePost ==
  LET next == IF run.resume THEN "find" ELSE "mint" IN
  IF wallet < Required \/ Missing = 0
  THEN Check("post", wallet >= Required, Goto(next))
  ELSE Send("post", TRUE, postCollateral(Missing), next)

OwnUnits == {t \in Minted : token[t].ours /\ token[t].owner = "operator"}
FirstOwn == CHOOSE t \in OwnUnits : \A u \in OwnUnits : t <= u

Resumable(t) == token[t].state = "Activated" /\ token[t].evidence = None

\* The first unit of the class the operator owns: approved, without evidence.
FindToken ==
  Check("find", OwnUnits # {} /\ Resumable(FirstOwn),
        run' = [run EXCEPT !.pc = "fulfil", !.token = FirstOwn])

\* totalMinted, read before the sale
ReadMinted ==
  Check("mint", NextToken \in Tokens, run' = [run EXCEPT !.pc = "minting", !.token = NextToken])

ComputeMint == Send("minting", MayMint, mint("operator", TRUE), "minted")

\* and after it: one more, and the operator's.
MintedByOne ==
  Check("minted", Cardinality(Minted) = run.token /\ token[run.token].owner = "operator",
        Goto("submit"))

ComputeDecide ==
  SendByClient("decide", token[run.token].state = "PendingReview",
               recordDecision(run.token, TRUE), "fulfil")

\* Less than the price after five reads ends the run.
ComputeCredit == Check("credit", credit >= Price, Goto("claim"))

ComputeClaim == Send("claim", credit > 0, claim, "owed")

\* Five reads again; somebody else's unit of the class ends the run too.
ComputeOwed ==
  Check("owed", Obligation = 0,
        Goto(IF class.posted > 0 THEN "withdraw" ELSE "check"))

ComputeWithdraw ==
  Send("withdraw", MayWithdraw(class.posted), withdrawCollateral(class.posted), "check")

\* Mutant: settled or not, the run is reported complete.
CheckNothing == Check("check", TRUE, Goto("again"))

\* The chain has what was published, and the class owes and holds nothing.
ComputeCheck ==
  Check("check", /\ token[run.token].evidence = run.job
                 /\ token[run.token].deposit \in {"released", "refunded"}
                 /\ class.posted = 0 /\ Obligation = 0,
        Goto("again"))

ComputeStep ==
  /\ lane = "compute"
  /\ \/ \E approved \in BOOLEAN : ComputeRule(approved)
     \/ ComputeUnlock \/ RegisterIssuer \/ ComputeClass \/ ComputePost
     \/ FindToken \/ ReadMinted \/ ComputeMint \/ MintedByOne
     \/ SubmitParcel \/ ComputeDecide
     \/ FulfilStep \/ Verify("verify", "record")
     \/ RecordCarrier \/ Release("credit")
     \/ ComputeCredit \/ ComputeClaim \/ ComputeOwed \/ ComputeWithdraw
     \/ ComputeCheck \/ Verify("again", "complete")
===============================================================================
