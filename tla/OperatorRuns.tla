----------------------------- MODULE OperatorRuns -----------------------------
(***************************************************************************)
(* An operator at a console: one script after the other, in one of the two *)
(* lanes, resumed or started afresh when one died, with the recovery script*)
(* between them, on a deployment where others buy as well.                 *)
(***************************************************************************)
EXTENDS CarbonRun, ComputeRun

RunsInit == ChainInit /\ lane \in {"carbon", "compute"}

Start ==
  \E work \in Works :
    \/ \E resumed \in Tokens \cup {None} : CarbonStart(work, resumed)
    \/ ComputeStart(work) \/ ResumeNew(work)
    \/ \E j \in Jobs : ResumeLease(work, j)

RunStep == CarbonStep \/ ComputeStep

RunsNext ==
  \/ Start \/ RunStep \/ Killed
  \/ \E ours \in BOOLEAN : OtherMints(ours)
  \/ \E t \in Tokens : RecoverDeposit(t)
  \/ RecoverMoney
  \/ \E j \in Jobs : Provider(j)

RunsSpec == RunsInit /\ [][RunsNext]_runVars

\* A script that has begun goes on by itself; its waits have deadlines.
RunsFairSpec == RunsSpec /\ WF_runVars(RunStep)

(***************************************************************************)
(* Properties.                                                             *)
(***************************************************************************)

\* Type invariant.  The wallet in it says more than a type: the balance that is
\* asked for before the first transaction is enough for all of them.
RunsTypeOK ==
  /\ lane \in {"carbon", "compute"}
  /\ class \in [issuer : BOOLEAN, open : BOOLEAN, posted : Nat]
  /\ token \in [Tokens -> [owner : {"nobody", "operator", "other"}, ours : BOOLEAN,
                           state : {"None", "Available", "PendingReview", "Activated"},
                           parcel : Works \cup {None},
                           deposit : {"none", "held", "released", "refunded"},
                           evidence : Jobs \cup {None}]]
  /\ wallet \in Nat /\ credit \in Nat
  /\ job \in [Jobs -> [state : {"none", "open", "bid", "leased", "ready", "ended", "closed"},
                       token : Tokens \cup {None}, work : Works \cup {None}]]
  /\ run.token \in Tokens \cup {None} /\ run.job \in Jobs \cup {None}
  /\ run.work \in Works \cup {None}
  /\ failures \in 0 .. MaxFailures

\* The adapter never closes a deployment that has a lease, although it cannot
\* tell a lease request that was refused from one whose answer was lost.
LeasedNeverClosed ==
  [][\A j \in Jobs : Bought(j) => job'[j].state # "closed"]_runVars

\* However many runs it takes, one entitlement is fulfilled at the provider at
\* most once: no second retirement, no second lease.
BoughtOnce ==
  \A j, k \in Jobs : Bought(j) /\ Bought(k) /\ job[j].token = job[k].token => j = k

\* Evidence on the chain stands for work really bought for this very token.
EvidenceOfOwnJob ==
  \A t \in Tokens : token[t].evidence # None =>
    Bought(token[t].evidence) /\ job[token[t].evidence].token = t

\* What the compute script reports as complete is settled, although it may have
\* gone on from a transaction that reverted: evidence and release are on chain.
CompleteMeansSquare ==
  lane = "compute" /\ run.pc = "complete" =>
    /\ token[run.token].evidence = run.job
    /\ token[run.token].deposit = "released"

\* The issuer is paid against committed evidence: "the retirement happened three
\* lines ago and its evidence is committed" (e2e.ts, step 10).  Not when the
\* transaction that was to commit it reverted, which the scripts take for done.
ReleasedOnEvidence ==
  \A t \in Tokens : token[t].deposit = "released" => token[t].evidence # None

\* In the carbon lane the credit class that is retired is the one the chain was
\* told of, whatever the environment of a resumed run says.
RetiredAsBound ==
  lane = "carbon" => \A j \in Jobs : Bought(j) => job[j].work = token[job[j].token].parcel

\* The compute lane leases what it bound: "it does not assess or approve a new
\* order" (approveCommitted).  A run resumed with another workload in its
\* environment leases that one on the approval of the first.
LeasedAsBound ==
  lane = "compute" => \A j \in Jobs : Bought(j) => job[j].work = token[job[j].token].parcel

\* Every run ends: no wait for a bid, a workload or a node lasts for ever.
RunEnds == Going ~> ~Going
===============================================================================
