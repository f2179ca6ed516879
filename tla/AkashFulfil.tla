----------------------------- MODULE AkashFulfil -----------------------------
(***************************************************************************)
(* fulfil and verify of the Akash adapter (packages/compute/src/adapter.ts *)
(* and client.ts) as the compute script calls them.  A deployment is asked *)
(* for, bids come in, one of them is accepted as a lease, the workload     *)
(* becomes reachable; each of these may never happen, and the answer to    *)
(* each request may be lost with the request itself carried out or not.    *)
(*                                                                         *)
(* Until a lease has been asked for, a failure closes the deployment and   *)
(* gets the deposit back; afterwards it is left for the operator, since a  *)
(* closed deployment takes a running workload with it.                     *)
(***************************************************************************)
EXTENDS RunChain

AtProvider == UNCHANGED <<lane, chainVars>>

\* Mutant: an existing deployment is not looked for.
FulfilAnew == run.pc = "fulfil" /\ Goto("create") /\ Calm /\ AtProvider /\ UNCHANGED job

\* A resumed order names the deployment it had opened before.  This path has no
\* catch block, which comes to the same as a lease having been attempted.
Fulfil ==
  /\ run.pc = "fulfil"
  /\ \/ run.job = None /\ Goto("create") /\ Calm
     \/ /\ run.job # None
        /\ \/ /\ job[run.job].state \in Leased /\ Calm
              /\ run' = [run EXCEPT !.pc = "wait", !.attempted = TRUE]
           \/ job[run.job].state \notin Leased /\ Throws /\ Calm
           \/ Fault /\ Throws
  /\ UNCHANGED job /\ AtProvider

\* Nothing before the answer is in the try block: a lost one loses the dseq.
CreateDeployment ==
  /\ run.pc = "create" /\ NextJob \in Jobs
  /\ LET opened == job' = [job EXCEPT ![NextJob] =
                      [state |-> "open", token |-> run.token, work |-> run.work]]
     IN \/ opened /\ Calm
           /\ run' = [run EXCEPT !.pc = "bids", !.job = NextJob, !.attempted = FALSE]
        \/ opened /\ Fault /\ Throws
        \/ UNCHANGED job /\ Fault /\ Throws
  /\ AtProvider

\* The account has no credit left, or the bound on jobs is reached.
RefuseDeployment ==
  run.pc = "create" /\ NextJob \notin Jobs /\ Throws /\ Calm /\ UNCHANGED job /\ AtProvider

\* Mutant: the lease is not marked as attempted before it is asked for.
ChooseUnmarked ==
  /\ run.pc = "bids" /\ job[run.job].state = "bid"
  /\ Goto("lease")
  /\ UNCHANGED <<job, failures>> /\ AtProvider

\* Polled: an eligible open bid, the cheapest if there are several.  From here
\* on a lease may exist.
ChooseBid ==
  /\ run.pc = "bids" /\ job[run.job].state = "bid"
  /\ run' = [run EXCEPT !.pc = "lease", !.attempted = TRUE]
  /\ UNCHANGED <<job, failures>> /\ AtProvider

\* Mutant: the deadline is never looked at.
BidsForever == FALSE

\* The deadline passes, or listing the bids fails.
BidTimeout ==
  /\ run.pc = "bids" /\ Goto("caught")
  /\ IF job[run.job].state = "open" THEN Calm ELSE Fault
  /\ UNCHANGED job /\ AtProvider

\* Accepted; accepted and not heard of; refused, or the bid has gone.
CreateLease ==
  /\ run.pc = "lease"
  /\ LET accepted == job' = [job EXCEPT ![run.job].state = "leased"]
         open == job[run.job].state = "bid"
     IN \/ open /\ accepted /\ Goto("wait") /\ Calm
        \/ open /\ accepted /\ Goto("caught") /\ Fault
        \/ UNCHANGED job /\ Goto("caught") /\ (IF open THEN Fault ELSE Calm)
  /\ AtProvider

\* Active, every replica ready, and its ingress answers a probe.
WaitForReady ==
  /\ run.pc = "wait" /\ job[run.job].state = "ready"
  /\ Goto("verify") /\ Calm /\ UNCHANGED job /\ AtProvider

\* The deadline passes, a read fails, or the provider is not who it should be.
NotReady ==
  /\ run.pc = "wait" /\ Goto("caught")
  /\ IF job[run.job].state = "ready" THEN Fault ELSE Calm
  /\ UNCHANGED job /\ AtProvider

\* The catch block closes the deployment unless a lease was attempted.
Caught ==
  /\ run.pc = "caught" /\ Throws
  /\ \/ run.attempted /\ UNCHANGED job /\ Calm
     \/ ~run.attempted /\ job' = [job EXCEPT ![run.job].state = "closed"] /\ Calm
     \/ ~run.attempted /\ UNCHANGED job /\ Fault
  /\ AtProvider

\* Before the evidence is written, and again when all is settled.
Verify(pc, next) == Check(pc, job[run.job].state = "ready", Goto(next))

FulfilStep ==
  \/ Fulfil \/ ChooseBid \/ BidTimeout \/ CreateLease
  \/ WaitForReady \/ NotReady \/ Caught
  \/ RefuseDeployment \/ CreateDeployment

\* The provider's side: bids come and go, workloads start, leases end.
Provider(j) ==
  /\ \/ job[j].state = "open"   /\ job' = [job EXCEPT ![j].state = "bid"]
     \/ job[j].state = "bid"    /\ job' = [job EXCEPT ![j].state = "open"]
     \/ job[j].state = "leased" /\ job' = [job EXCEPT ![j].state = "ready"]
     \/ job[j].state \in Leased /\ lane = "compute"
          /\ job' = [job EXCEPT ![j].state = "ended"]
  /\ UNCHANGED <<lane, chainVars, run, failures>>
===============================================================================
