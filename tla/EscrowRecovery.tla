--------------------------- MODULE EscrowRecovery ---------------------------
(***************************************************************************)
(* The recovery script (packages/attest/scripts/recover-escrow.ts) beside  *)
(* the running consumer service.  Both settle deposits with the oracle's   *)
(* key, and neither knows of the other.  The script reads every token,     *)
(* decides from the evidence it saw, and only then sends its settlements,  *)
(* one after the other.                                                    *)
(*                                                                         *)
(* Claiming and withdrawing, which follow, are SettlementEscrow's.         *)
(***************************************************************************)
EXTENDS ConsumerOrders

VARIABLES
  plan,      \* what the running pass has decided for each token it is to read
  sending    \* the pass has read them all and is sending

recoveryVars == <<serviceVars, plan, sending>>

NoPlan == [t \in Tokens |-> "none"]

RecoveryInit == OrdersInit /\ plan = NoPlan /\ sending = FALSE

Deposited == {t \in Tokens : token[t].deposit # "none"}

\* The oracle reports movement without having committed any evidence.
Contradictory(t) ==
  token[t].state \in {"moving", "delivered"} /\ token[t].evidence = None

decideSettlement(fulfilled, state) ==
  IF fulfilled THEN "release"
  ELSE IF state \in {"moving", "delivered"} THEN "refuse" ELSE "refund"

\* totalMinted bounds the pass: tokens sold later are not in it.
BeginPass ==
  /\ plan = NoPlan /\ Deposited # {}
  /\ plan' = [t \in Tokens |-> IF t \in Deposited THEN "unread" ELSE "none"]
  /\ UNCHANGED <<serviceVars, sending>>

\* What the pass knows of the token it is reading.
Reading == {"held", "fulfilled", "unproven"}

\* Three reads of the chain, one token at a time: the deposit,
ReadDeposit(t) ==
  /\ plan[t] = "unread"
  /\ \A u \in Tokens : plan[u] \notin Reading
  /\ plan' = [plan EXCEPT ![t] = IF token[t].deposit = "held" THEN "held" ELSE "settled"]
  /\ UNCHANGED <<serviceVars, sending>>

\* the evidence,
ReadEvidence(t) ==
  /\ plan[t] = "held"
  /\ plan' = [plan EXCEPT ![t] = IF token[t].evidence # None THEN "fulfilled" ELSE "unproven"]
  /\ UNCHANGED <<serviceVars, sending>>

\* and the token's state, on which the choice is made.
ReadState(t) ==
  /\ plan[t] \in {"fulfilled", "unproven"}
  /\ plan' = [plan EXCEPT ![t] = decideSettlement(plan[t] = "fulfilled", token[t].state)]
  /\ UNCHANGED <<serviceVars, sending>>

\* The keys are unlocked and must hold their roles before anything is sent; a
\* pass whose keys do not is one that dies here.
BeginSettling ==
  /\ ~sending /\ plan # NoPlan
  /\ \A t \in Tokens : plan[t] \notin Reading \cup {"unread"}
  /\ sending' = TRUE
  /\ UNCHANGED <<serviceVars, plan>>

\* Mutant: only releases are sent.
SettleReleases(t) ==
  /\ sending /\ plan[t] = "release"
  /\ token' = IF token[t].deposit = "held"
              THEN [token EXCEPT ![t].deposit = "released"] ELSE token
  /\ plan' = [plan EXCEPT ![t] = "settled"]
  /\ UNCHANGED <<order, auth, ledger, call, failures, sending>>

\* Simulated, then sent; a call that would revert is reported and passed over.
Settle(t) ==
  /\ sending /\ plan[t] \in {"release", "refund"}
  /\ token' = IF token[t].deposit = "held"
              THEN [token EXCEPT ![t].deposit =
                      IF plan[t] = "release" THEN "released" ELSE "refunded"]
              ELSE token
  /\ plan' = [plan EXCEPT ![t] = "settled"]
  /\ UNCHANGED <<order, auth, ledger, call, failures, sending>>

PassEnds ==
  /\ sending /\ \A t \in Tokens : plan[t] \notin {"release", "refund"}
  /\ plan' = NoPlan /\ sending' = FALSE
  /\ UNCHANGED serviceVars

\* The next pass starts from the chain again.  A settlement sent before a pass
\* died counts as confirmed before it did.
PassDies ==
  /\ failures < MaxFailures /\ plan # NoPlan
  /\ failures' = failures + 1
  /\ plan' = NoPlan /\ sending' = FALSE
  /\ UNCHANGED <<order, token, auth, ledger, call>>

\* recordLabel and recordPickup, then recordDelivery, by the operator's hand.
MarkMoving(t) ==
  /\ token[t].state = "activated"
  /\ token' = [token EXCEPT ![t].state = "moving"]
  /\ UNCHANGED <<order, auth, ledger, call, failures, plan, sending>>

MarkDelivered(t) ==
  /\ token[t].state = "moving"
  /\ token' = [token EXCEPT ![t].state = "delivered"]
  /\ UNCHANGED <<order, auth, ledger, call, failures, plan, sending>>

Recovery ==
  \/ BeginPass \/ BeginSettling \/ PassEnds
  \/ \E t \in Tokens : ReadDeposit(t) \/ ReadEvidence(t) \/ ReadState(t) \/ Settle(t)

(***************************************************************************)
(* Properties.                                                             *)
(***************************************************************************)

\* No deposit stays stuck for ever: the passes settle each one, unless the
\* chain's two accounts of it contradict each other when it is read.
DepositSettles ==
  \A t \in Tokens :
    token[t].deposit = "held" ~> token[t].deposit # "held" \/ Contradictory(t)

\* Evidence on the chain means the issuer is owed: a buyer is refunded only
\* while there is none.  It is not so: the script refunds on what it read before
\* it sent anything, and the service may commit evidence in between.
RefundMeansUnproven ==
  [][\A t \in Tokens :
       token'[t].deposit = "refunded" /\ token[t].deposit = "held"
         => token[t].evidence = None]_recoveryVars
=============================================================================
