---------------------------- MODULE OcpDecisions ----------------------------
(***************************************************************************)
(* The OCP server's decisions: draft, sign, seal and the operator's cancel. *)
(*                                                                         *)
(* Only signing awaits, between its look at the draft and the signature's  *)
(* write; drafting and sealing are one turn each.                          *)
(***************************************************************************)
EXTENDS Naturals, FiniteSets

CONSTANTS
  Drafts,     \* the decisions that may be drafted
  Signers,    \* the agents that may be declared
  Signings,   \* slots for requests to sign
  MaxListed   \* bound: entries of a draft's list of signers

ASSUME DecisionAssumption == IsFiniteSet(Signers) /\ MaxListed \in Nat

NoSigning == [at |-> "idle"]

VARIABLES
  sgn,          \* per request: none, or the signer and the draft it is verified for
  dStatus,      \* ocp_decisions.status, "absent" before the row is there
  declared,     \* ocp_decision_signers
  listed,       \* the entries of the list that declared them (history)
  required,     \* ocp_decisions.required_signers
  signed,       \* ocp_decision_signatures
  sealedBy      \* the signatures the seal's answer names (history)

draftRows == <<declared, listed, required>>
dVars     == <<sgn, dStatus, draftRows, signed, sealedBy>>

SigningOf(d) == \E g \in Signings : sgn[g] # NoSigning /\ sgn[g].of = d

DInit ==
  /\ sgn = [g \in Signings |-> NoSigning]
  /\ dStatus = [d \in Drafts |-> "absent"]
  /\ declared = [d \in Drafts |-> {}] /\ listed = [d \in Drafts |-> 0]
  /\ required = [d \in Drafts |-> 0]
  /\ signed = [d \in Drafts |-> {}] /\ sealedBy = [d \in Drafts |-> {}]

\* What-if: the threshold asked for is not capped.
ThresholdUncapped(k, n) == k

\* The threshold: what was asked for, at most as many as the list has entries.
Threshold(k, n) == IF k < n THEN k ELSE n

\* An entry of the list may repeat an agent; addDecisionSigner ignores the repetition.
Draft(d) ==
  /\ dStatus[d] = "absent"
  /\ \E S \in SUBSET Signers \ {{}}, n \in 1 .. MaxListed, k \in 1 .. MaxListed :
       /\ Cardinality(S) <= n
       /\ declared' = [declared EXCEPT ![d] = S]
       /\ listed' = [listed EXCEPT ![d] = n]
       /\ required' = [required EXCEPT ![d] = Threshold(k, n)]
  /\ dStatus' = [dStatus EXCEPT ![d] = "draft"]
  /\ UNCHANGED <<sgn, signed, sealedBy>>

\* What-if: any registered agent may sign.
MaySignAnyone(a, d) == dStatus[d] = "draft"

\* The draft is open and the caller one of its declared signers.
MaySign(a, d) == dStatus[d] = "draft" /\ a \in declared[d]

\* The checks before the signature's verification.
Sign(g) ==
  /\ sgn[g] = NoSigning
  /\ \E a \in Signers, d \in Drafts :
       MaySign(a, d) /\ sgn' = [sgn EXCEPT ![g] = [at |-> "verifying", by |-> a, of |-> d]]
  /\ UNCHANGED <<dStatus, draftRows, signed, sealedBy>>

\* storeDecisionSignature, whatever the status is now.
StoreDecisionSignature(g) ==
  /\ sgn[g] # NoSigning
  /\ signed' = [signed EXCEPT ![sgn[g].of] = @ \cup {sgn[g].by}]
  /\ sgn' = [sgn EXCEPT ![g] = NoSigning]
  /\ UNCHANGED <<dStatus, draftRows, sealedBy>>

\* The signature does not verify.
RefuseSigning(g) ==
  /\ sgn[g] # NoSigning
  /\ sgn' = [sgn EXCEPT ![g] = NoSigning]
  /\ UNCHANGED <<dStatus, draftRows, signed, sealedBy>>

\* What-if: a sealed decision may be sealed again.
SealableAgain(d) == dStatus[d] # "absent"

\* The seal's look at the status.
Sealable(d) == dStatus[d] = "draft"

\* The initiator seals a draft that has the signatures required.
SealDecision(d) ==
  /\ Sealable(d) /\ Cardinality(signed[d]) >= required[d]
  /\ dStatus' = [dStatus EXCEPT ![d] = "sealed"]
  /\ sealedBy' = [sealedBy EXCEPT ![d] = signed[d]]
  /\ UNCHANGED <<sgn, draftRows, signed>>

\* The operator cancels a draft.
CancelDecision(d) ==
  /\ dStatus[d] = "draft"
  /\ dStatus' = [dStatus EXCEPT ![d] = "cancelled"]
  /\ UNCHANGED <<sgn, draftRows, signed, sealedBy>>

\* The requests in flight are gone.
SigningsLost == sgn' = [g \in Signings |-> NoSigning]

\* Death between two turns.
DeathQuiet == SigningsLost /\ UNCHANGED <<dStatus, draftRows, signed, sealedBy>>

\* Death inside Draft: the row is on file, some of its signers are not.
DeathDrafting(d) ==
  /\ dStatus[d] = "absent" /\ SigningsLost
  /\ \E S \in SUBSET Signers, n \in 1 .. MaxListed, k \in 1 .. MaxListed :
       /\ Cardinality(S) < n
       /\ declared' = [declared EXCEPT ![d] = S]
       /\ listed' = [listed EXCEPT ![d] = n]
       /\ required' = [required EXCEPT ![d] = Threshold(k, n)]
  /\ dStatus' = [dStatus EXCEPT ![d] = "draft"]
  /\ UNCHANGED <<signed, sealedBy>>

=============================================================================
