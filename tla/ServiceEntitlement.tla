-------------------------- MODULE ServiceEntitlement --------------------------
(***************************************************************************)
(* The transferable token of the system                                    *)
(* (packages/contracts/src/ServiceEntitlement.sol): who holds it, which    *)
(* class it belongs to and where it is in its lifecycle.                   *)
(*                                                                         *)
(* Every function is guarded by a role, so who may take an action is said  *)
(* by the module that composes it: the factory mints, the registry drives  *)
(* the review, the oracle reports the carrier, the admin records a remedy, *)
(* anyone expires.  On its own (EntitlementNext) every role may act at any *)
(* time, in any order.                                                     *)
(***************************************************************************)
EXTENDS Integers, FiniteSets

CONSTANTS
    Classes,            \* class identifiers
    Accounts,           \* accounts that can hold a token
    NoOne,              \* address(0)
    NoClass,            \* bytes32(0): the class of a token never minted
    validUntil,         \* classes.classValidUntil: the last instant of a class
    MaxTokens,          \* bound: tokens ever minted
    MaxTime             \* bound: how far the clock runs

ASSUME EntitlementAssumption ==
    /\ NoOne \notin Accounts
    /\ NoClass \notin Classes
    /\ validUntil \in [Classes -> Nat]
    /\ MaxTokens \in Nat
    /\ MaxTime \in Nat

VARIABLES
    classOf,            \* set at mint, immutable afterwards
    stateOf,            \* lifecycle state of each token
    ownerOf,            \* ERC-721 owner
    nextTokenId,
    classesSet,         \* setClasses has been called
    now                 \* block.timestamp

entitlementVars == <<classOf, stateOf, ownerOf, nextTokenId, classesSet, now>>

TokenIds == 1 .. MaxTokens

States == {"None", "Available", "PendingReview", "Activated", "LabelCreated",
           "InTransit", "Delivered", "Remedied", "Expired"}

\* The entitlement describes work an issuer has accepted and not yet done.
Bound == {"Activated", "LabelCreated", "InTransit"}

-----------------------------------------------------------------------------
EntitlementInit ==
    /\ classOf = [id \in TokenIds |-> NoClass]
    /\ stateOf = [id \in TokenIds |-> "None"]
    /\ ownerOf = [id \in TokenIds |-> NoOne]
    /\ nextTokenId = 1
    /\ classesSet = FALSE
    /\ now = 0

\* The admin points the token at the factory, once.
setClasses ==
    /\ ~classesSet
    /\ classesSet' = TRUE
    /\ UNCHANGED <<classOf, stateOf, ownerOf, nextTokenId, now>>

\* Mutant: the counter does not move.
MintWithoutCounting(id, c, to) ==
    /\ id = nextTokenId
    /\ nextTokenId <= MaxTokens
    /\ classOf' = [classOf EXCEPT ![id] = c]
    /\ stateOf' = [stateOf EXCEPT ![id] = "Available"]
    /\ ownerOf' = [ownerOf EXCEPT ![id] = to]
    /\ UNCHANGED <<nextTokenId, classesSet, now>>

\* FACTORY_ROLE.
mint(id, c, to) ==
    /\ id = nextTokenId
    /\ nextTokenId <= MaxTokens
    /\ nextTokenId' = nextTokenId + 1
    /\ classOf' = [classOf EXCEPT ![id] = c]
    /\ stateOf' = [stateOf EXCEPT ![id] = "Available"]
    /\ ownerOf' = [ownerOf EXCEPT ![id] = to]
    /\ UNCHANGED <<classesSet, now>>

\* _transition, for a token in one of the states `from`.
Transition(id, from, to) ==
    /\ stateOf[id] \in from
    /\ stateOf' = [stateOf EXCEPT ![id] = to]
    /\ UNCHANGED <<classOf, ownerOf, nextTokenId, classesSet, now>>

\* REGISTRY_ROLE.
submitForReview(id)   == Transition(id, {"Available"}, "PendingReview")
rejectActivation(id)  == Transition(id, {"PendingReview"}, "Available")
approveActivation(id) == Transition(id, {"PendingReview"}, "Activated")

\* ORACLE_ROLE.
recordLabel(id)    == Transition(id, {"Activated"}, "LabelCreated")
recordPickup(id)   == Transition(id, {"LabelCreated"}, "InTransit")
recordDelivery(id) == Transition(id, {"InTransit"}, "Delivered")

\* ADMIN_ROLE.
recordRemedy(id) == Transition(id, Bound, "Remedied")

\* Anyone, once the class is past its validity.
expire(id) ==
    /\ classesSet
    /\ Transition(id, {"Available"}, "Expired")
    /\ now > validUntil[classOf[id]]

\* Mutant: the lock starts at the approval, not at the submission.
TransferUnderReview(id, to) ==
    /\ stateOf[id] \in {"Available", "PendingReview"}
    /\ ownerOf' = [ownerOf EXCEPT ![id] = to]
    /\ UNCHANGED <<classOf, stateOf, nextTokenId, classesSet, now>>

\* ERC-721 transferFrom under the lock of _update; who may move a token is for
\* the composing module to say.
transfer(id, to) ==
    /\ stateOf[id] = "Available"
    /\ ownerOf' = [ownerOf EXCEPT ![id] = to]
    /\ UNCHANGED <<classOf, stateOf, nextTokenId, classesSet, now>>

\* Time passes between blocks.
Tick ==
    /\ now < MaxTime
    /\ now' = now + 1
    /\ UNCHANGED <<classOf, stateOf, ownerOf, nextTokenId, classesSet>>

\* The transitions that neither mint nor drive the review.
Progress(id) ==
    \/ recordLabel(id)
    \/ recordPickup(id)
    \/ recordDelivery(id)
    \/ recordRemedy(id)
    \/ expire(id)

Review(id) ==
    \/ submitForReview(id)
    \/ rejectActivation(id)
    \/ approveActivation(id)

EntitlementNext ==
    \/ setClasses
    \/ Tick
    \/ \E id \in TokenIds :
         \/ \E c \in Classes, to \in Accounts : mint(id, c, to)
         \/ \E to \in Accounts : transfer(id, to)
         \/ Review(id)
         \/ Progress(id)

EntitlementSpec == EntitlementInit /\ [][EntitlementNext]_entitlementVars

-----------------------------------------------------------------------------
(* Properties                                                              *)

\* Type invariant: class, lifecycle state and owner of every token.
EntitlementTypeOK ==
    /\ classOf \in [TokenIds -> Classes \union {NoClass}]
    /\ stateOf \in [TokenIds -> States]
    /\ ownerOf \in [TokenIds -> Accounts \union {NoOne}]
    /\ nextTokenId \in 1 .. MaxTokens + 1
    /\ classesSet \in BOOLEAN
    /\ now \in Nat
=============================================================================
