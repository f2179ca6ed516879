-------------------------- MODULE ActivationRegistry --------------------------
(***************************************************************************)
(* The audit anchor (packages/contracts/src/ActivationRegistry.sol) with   *)
(* the token whose review it alone drives.  The registry keeps the hashes, *)
(* the token keeps the state: the two must tell the same story although    *)
(* each function writes its own fields first and leaves the check that the *)
(* token may move to the call it makes last.                               *)
(*                                                                         *)
(* A hash is a member of a small set: all that matters is which one is on  *)
(* record and whether one is.  parcelHash and documentsHash are written    *)
(* together and are one value here, like carrierRefHash and carrierRawHash.*)
(***************************************************************************)
EXTENDS ServiceEntitlement

CONSTANTS
    Hashes,             \* commitments to parcels, decisions and evidence
    NoHash,             \* bytes32(0)
    MaxAttempts         \* bound: submissions of one token

ASSUME RegistryAssumption ==
    /\ NoHash \notin Hashes
    /\ MaxAttempts \in Nat

VARIABLES
    activations,        \* activations[id]
    tracking            \* tokens whose tracking number has been published

registryVars == <<activations, tracking>>

Verdicts == {"None", "Approved", "NeedsInformation", "Refused"}

\* submittedAt and activatedAt are kept as whether they have been set.
Activation ==
    [parcel : Hashes \union {NoHash}, decision : Hashes \union {NoHash},
     carrier : Hashes \union {NoHash}, submitted : BOOLEAN, activated : BOOLEAN,
     attempt : Nat, verdict : Verdicts]

NoActivation ==
    [parcel |-> NoHash, decision |-> NoHash, carrier |-> NoHash,
     submitted |-> FALSE, activated |-> FALSE, attempt |-> 0, verdict |-> "None"]

-----------------------------------------------------------------------------
RegistryInit ==
    /\ EntitlementInit
    /\ activations = [id \in TokenIds |-> NoActivation]
    /\ tracking = {}

\* Mutant: a resubmission keeps the previous verdict.
SubmitKeepingVerdict(id, caller, parcel) ==
    /\ ownerOf[id] = caller
    /\ activations[id].attempt < MaxAttempts
    /\ activations' = [activations EXCEPT
            ![id].parcel = parcel, ![id].submitted = TRUE, ![id].attempt = @ + 1]
    /\ submitForReview(id)
    /\ UNCHANGED tracking

\* The holder binds a parcel.  The previous verdict and decision are erased.
submitParcel(id, caller, parcel) ==
    /\ ownerOf[id] = caller
    /\ activations[id].attempt < MaxAttempts
    /\ activations' = [activations EXCEPT
            ![id].parcel = parcel, ![id].submitted = TRUE,
            ![id].attempt = @ + 1, ![id].verdict = "None", ![id].decision = NoHash]
    /\ submitForReview(id)
    /\ UNCHANGED tracking

\* COMPLIANCE_ROLE.  The client that sends this refuses the zero hash.
recordDecision(id, decision, verdict) ==
    /\ stateOf[id] = "PendingReview"
    /\ verdict # "None"
    /\ activations' = [activations EXCEPT
            ![id].decision = decision, ![id].verdict = verdict,
            ![id].activated = @ \/ verdict = "Approved"]
    /\ IF verdict = "Approved" THEN approveActivation(id) ELSE rejectActivation(id)
    /\ UNCHANGED tracking

\* Mutant: evidence is accepted for a token in any state.
RecordCarrierAnytime(id, evidence) ==
    /\ stateOf[id] # "None"
    /\ activations' = [activations EXCEPT ![id].carrier = evidence]
    /\ UNCHANGED <<tracking, entitlementVars>>

\* ORACLE_ROLE, again through a client that refuses the zero hash.
recordCarrier(id, evidence) ==
    /\ stateOf[id] \in Bound
    /\ activations' = [activations EXCEPT ![id].carrier = evidence]
    /\ UNCHANGED <<tracking, entitlementVars>>

\* ORACLE_ROLE.
publishTracking(id) ==
    /\ stateOf[id] = "Delivered"
    /\ activations[id].submitted
    /\ tracking' = tracking \union {id}
    /\ UNCHANGED <<activations, entitlementVars>>

\* What happens to the token without the registry.
TokenStep ==
    /\ \/ setClasses
       \/ Tick
       \/ \E id \in TokenIds :
            \/ \E c \in Classes, to \in Accounts : mint(id, c, to)
            \/ \E to \in Accounts : transfer(id, to)
            \/ Progress(id)
    /\ UNCHANGED registryVars

RegistryNext ==
    \/ TokenStep
    \/ \E id \in TokenIds :
         \/ \E caller \in Accounts, parcel \in Hashes : submitParcel(id, caller, parcel)
         \/ \E decision \in Hashes, verdict \in Verdicts :
              recordDecision(id, decision, verdict)
         \/ \E evidence \in Hashes : recordCarrier(id, evidence)
         \/ publishTracking(id)

RegistrySpec == RegistryInit /\ [][RegistryNext]_<<entitlementVars, registryVars>>

-----------------------------------------------------------------------------
(* Properties                                                              *)

\* Type invariant: the activation records, beside the token's own.
RegistryTypeOK ==
    /\ EntitlementTypeOK
    /\ activations \in [TokenIds -> Activation]
    /\ tracking \subseteq TokenIds

\* Where a token is, read from the registry alone.
StatesFor(act) ==
    IF act.verdict = "Approved" THEN Bound \union {"Delivered", "Remedied"}
    ELSE IF act.attempt > 0 /\ act.verdict = "None" THEN {"PendingReview"}
    ELSE {"None", "Available", "Expired"}

\* The registry and the token tell the same story: what the registry has on
\* record for a token - nothing, an open submission, a refusal, an approval -
\* says which states the token can be in, and a decision hash is on record
\* exactly when a verdict is.
VerdictMatchesState ==
    \A id \in TokenIds :
        LET act == activations[id] IN
        /\ stateOf[id] \in StatesFor(act)
        /\ act.decision # NoHash <=> act.verdict # "None"
        /\ act.activated <=> act.verdict = "Approved"

\* Provider evidence exists only for work compliance approved, and a tracking
\* number is public only for a delivered parcel.  The recovery policy settles a
\* deposit for the issuer because carrier evidence is on record, so evidence
\* that could outlive its approval would pay for nothing.
EvidenceOnlyForApproved ==
    \A id \in TokenIds :
        /\ activations[id].carrier # NoHash => activations[id].verdict = "Approved"
        /\ id \in tracking => stateOf[id] = "Delivered"

\* From submission to the end of the review, and for ever after an approval,
\* nobody can rewrite what was bound: the holder and the parcel stay, and an
\* approved decision is final.
BindingNeverRewritten ==
    [][ \A id \in TokenIds :
          stateOf[id] \notin {"None", "Available", "Expired"} =>
            /\ ownerOf'[id] = ownerOf[id]
            /\ activations'[id].parcel = activations[id].parcel
            /\ activations[id].verdict = "Approved" =>
                 /\ activations'[id].verdict = "Approved"
                 /\ activations'[id].decision = activations[id].decision
      ]_<<entitlementVars, registryVars>>
=============================================================================
