------------------------------ MODULE OcpProps ------------------------------
(***************************************************************************)
(* What must hold of Ocp.                                                  *)
(***************************************************************************)
EXTENDS Ocp, TLC

\* Every variable of the agreements stays in its type.
AgreementTypeOK ==
  /\ prop \in [Proposals -> [at : {"idle", "signing", "paying", "SIG_A_INVALID"},
                             id : Ids \cup {None}, terms : Terms \cup {None},
                             tx : Payments \cup {None}]]
  /\ acc \in [Acceptances -> [at : {"idle", "verifying", "minting"}, id : Ids \cup {None},
                              attempt : 0 .. MintAttempts]]
  /\ status \in [Ids -> {"absent", "pending", "accepted", "sealed", "expired", "cancelled"}]
  /\ terms \in [Ids -> Terms \cup {None}] /\ paidBy \in [Ids -> Payments \cup {None}]
  /\ sigs \in [Ids -> SUBSET Parties]
  /\ receipt \in [Ids -> {"none", "minting", "minted", "failed"}]
  /\ usedTx \subseteq Payments
  /\ mints \in [Ids -> Nat]

\* Every variable of the decisions stays in its type.
DecisionTypeOK ==
  /\ sgn \in [Signings -> [at : {"verifying"}, by : Signers, of : Drafts] \cup {NoSigning}]
  /\ dStatus \in [Drafts -> {"absent", "draft", "sealed", "cancelled"}]
  /\ declared \in [Drafts -> SUBSET Signers]
  /\ listed \in [Drafts -> 0 .. MaxListed] /\ required \in [Drafts -> 0 .. MaxListed]
  /\ signed \in [Drafts -> SUBSET Signers] /\ sealedBy \in [Drafts -> SUBSET Signers]

\* Every variable of the requests stays in its type.
RequestTypeOK ==
  /\ now \in Nat
  /\ pc \in [Requests -> {"idle", "verifying", "unheard", "proposing", "refused",
                          "repeated", "answered", "torn"}]
  /\ msg \in [Requests -> Messages \cup {Nothing}] /\ key \in [Requests -> Keys \cup {Nothing}]
  /\ \A r \in Requests : pc[r] # "idle" => msg[r] \in Messages
  /\ nonces \in [Nonces -> SUBSET Nat]
  /\ kept \in [Keys -> [Endpoints -> SUBSET Requests]]
  /\ waited \in [Requests -> BOOLEAN] /\ passed \in [Requests -> Nat]
  /\ before \in [Requests -> SUBSET Requests]

\* Every variable stays in its type.
TypeOK == AgreementTypeOK /\ DecisionTypeOK /\ RequestTypeOK /\ restarts \in 0 .. MaxRestarts

-----------------------------------------------------------------------------
(* Agreements                                                               *)

\* A payment funds one agreement, also when two proposals waited on chain for the same
\* one, or the process died before it was saved as used.
PaymentFundsOneAgreement ==
  /\ \A i, j \in Stored : paidBy[i] = paidBy[j] /\ paidBy[i] # None => i = j
  /\ \A t \in usedTx : \E i \in Stored : paidBy[i] = t

\* Terms are agreed once, whatever proposals overlapped and whatever became of the first.
TermsAgreedOnce == \A i, j \in Stored : terms[i] = terms[j] => i = j

\* A sealed agreement carries both signatures, and its receipt unless a death tore the
\* seal; an agreement is left "accepted" by a death only.
SealedIsComplete ==
  \A i \in Ids :
    /\ status[i] \in {"accepted", "sealed"} => sigs[i] = Parties
    /\ status[i] = "sealed" /\ receipt[i] = "none" => restarts > 0
    /\ status[i] = "accepted" => restarts > 0

\* One acceptance seals an agreement: its attempts bound the receipts minted, and a
\* receipt said to be minted was.
OneAcceptanceMints ==
  /\ \A i \in Ids : mints[i] <= MintAttempts /\ (receipt[i] = "minted" => mints[i] > 0)
  /\ \A a, b \in Acceptances :
       acc[a].at = "minting" /\ acc[b].at = "minting" /\ acc[a].id = acc[b].id => a = b

\* A cancelled or expired agreement stays as it is, unless an acceptance was already
\* verifying its signatures.
EndedStands ==
  [][ \A i \in Ids :
        status[i] \in {"cancelled", "expired"} /\ ~Verifying(i) =>
          status'[i] = status[i] /\ ~Verifying(i)' ]_vars

-----------------------------------------------------------------------------
(* Decisions                                                                *)

\* A decision is sealed by as many declared signers as it requires.
SealedByQuorum ==
  \A d \in Drafts : dStatus[d] = "sealed" =>
    /\ Cardinality(sealedBy[d]) >= required[d]
    /\ sealedBy[d] \subseteq declared[d]

\* A draft that all its declared signers signed has the signatures it requires, unless the
\* list that declared them repeats an agent or was cut short by a death.
AllSignedIsReady ==
  \A d \in Drafts :
    dStatus[d] = "draft" /\ signed[d] = declared[d] =>
      Cardinality(signed[d]) >= required[d] \/ listed[d] > Cardinality(declared[d])

\* A sealed or cancelled decision keeps its status and the signatures of its seal, and
\* gains none but of a signer whose signature was being verified.
DecisionStands ==
  [][ \A d \in Drafts : dStatus[d] \in {"sealed", "cancelled"} =>
        /\ dStatus'[d] = dStatus[d] /\ sealedBy'[d] = sealedBy[d]
        /\ ~SigningOf(d) => signed'[d] = signed[d] /\ ~SigningOf(d)' ]_vars

-----------------------------------------------------------------------------
(* Requests                                                                 *)

\* "nonce must be unique within the timestamp window" (main.ts), so that a signed request
\* passes once.  It passes again at the end of that window only: after its nonce expired, and
\* if it first passed before the second of its timestamp was over, as an ordinary client's
\* does, or if the clock moved while the copy was verified.
PassesOnce ==
  \A r, q \in Passed : r # q /\ msg[r] = msg[q] /\ passed[r] <= passed[q] =>
    /\ passed[q] > passed[r] + Tick * Window
    /\ passed[r] < Tick * (msg[r].stamp + 1) \/ waited[q]

SameKey(r, q) == key[r] = key[q] /\ key[r] # Nothing /\ msg[r].endpoint = msg[q].endpoint

\* "Repeating the same key returns the cached response without side-effects"
\* (docs/OCP_API_V1.md): a key writes once, but for two proposals that overlapped or a
\* first request whose response was lost in a death; what is repeated was answered.
KeyWritesOnce ==
  /\ \A r, q \in Written : r # q /\ SameKey(r, q) =>
       \/ msg[r].endpoint = "propose" /\ r \notin before[q] /\ q \notin before[r]
       \/ r \in before[q] /\ pc[r] = "torn"
       \/ q \in before[r] /\ pc[q] = "torn"
  /\ \A r \in Requests : pc[r] = "repeated" =>
       \E q \in Requests : pc[q] = "answered" /\ SameKey(r, q)

\* Ids and terms are interchangeable, and so are requests and nonces.
Symmetry == Permutations(Ids) \cup Permutations(Terms)
            \cup Permutations(Requests) \cup Permutations(Nonces)

-----------------------------------------------------------------------------
(* Bounds: the parts share the process alone, so a behaviour explores one of *)
(* them while the others wait; requests with neither nonce nor key in common *)
(* share nothing.                                                            *)

AgreementsIdle == Stored = {} /\ \A p \in Proposals : prop[p] = NoProposal
DecisionsIdle  == \A d \in Drafts : dStatus[d] = "absent"
RequestsIdle   == now = 0 /\ \A r \in Requests : pc[r] = "idle"

OneSideBusy ==
  \/ AgreementsIdle /\ DecisionsIdle
  \/ AgreementsIdle /\ RequestsIdle
  \/ DecisionsIdle /\ RequestsIdle

RequestsMeet ==
  \A r, q \in Requests :
    pc[r] # "idle" /\ pc[q] # "idle" => msg[r].nonce = msg[q].nonce \/ SameKey(r, q)

=============================================================================
