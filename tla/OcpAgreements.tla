--------------------------- MODULE OcpAgreements ---------------------------
(***************************************************************************)
(* The OCP server's agreements: POST propose and accept (v1 and legacy),   *)
(* the operator's cancel, the receipt's mint and the process's death.      *)
(*                                                                         *)
(* A proposal awaits party A's signature and, where a fee is due, its      *)
(* payment on chain; an acceptance awaits both signatures and, once the    *)
(* agreement is sealed, the mint worker.  The rows are written without a   *)
(* transaction, and neither handler looks at the agreement again after its *)
(* awaits: the keys of the tables are what is left.                        *)
(*                                                                         *)
(* Requests are authenticated and come from registered, active parties,    *)
(* and the chain is switched on (rpc mode).  A request that was answered   *)
(* leaves its slot to another one.  The terms stand for a proposal's       *)
(* parties too: the agreement's code, which is unique, is derived from the *)
(* terms alone.                                                            *)
(***************************************************************************)
EXTENDS Naturals, FiniteSets

CONSTANTS
  Ids,           \* proposal ids
  Proposals,     \* slots for requests to propose
  Acceptances,   \* slots for requests to accept
  Terms, Payments,
  None,          \* no payment (the legacy endpoint asks for none), no terms, no id
  MintAttempts   \* attempts of postToMintWorker

ASSUME AgreementAssumption ==
  /\ None \notin Ids \cup Terms \cup Payments
  /\ MintAttempts \in Nat \ {0}

Parties == {"party_a", "party_b"}

VARIABLES
  prop,      \* per proposal: where it is, the id the server made up, its terms and payment
  acc,       \* per acceptance: where it is, the agreement, the attempt to mint
  status,    \* ocp_agreements.status, "absent" before the row is there
  terms,     \* its terms_hash
  paidBy,    \* its treasury_tx_sig
  sigs,      \* ocp_signatures: the parties that have one
  receipt,   \* ocp_receipts.mint_status, "none" before the row is there
  usedTx,    \* ocp_used_treasury_txs
  mints      \* receipts minted on chain per agreement (history)

rows  == <<status, terms, paidBy>>
aVars == <<prop, acc, rows, sigs, receipt, usedTx, mints>>

NoProposal == [at |-> "idle", id |-> None, terms |-> None, tx |-> None]
NoAcceptance == [at |-> "idle", id |-> None, attempt |-> 0]

Stored == {i \in Ids : status[i] # "absent"}
Verifying(i) == \E a \in Acceptances : acc[a].at = "verifying" /\ acc[a].id = i

AInit ==
  /\ prop = [p \in Proposals |-> NoProposal] /\ acc = [a \in Acceptances |-> NoAcceptance]
  /\ status = [i \in Ids |-> "absent"]
  /\ terms = [i \in Ids |-> None] /\ paidBy = [i \in Ids |-> None]
  /\ sigs = [i \in Ids |-> {}] /\ receipt = [i \in Ids |-> "none"]
  /\ usedTx = {}
  /\ mints = [i \in Ids |-> 0]

-----------------------------------------------------------------------------
(* Propose                                                                  *)

\* isTermsHashDuplicate.
Duplicate(m) == \E i \in Stored : terms[i] = m /\ status[i] \notin {"expired", "cancelled"}

\* The checks before the first await; the server makes up the id, and awaits the
\* verification of a signature that is over the id its client made up.
Propose(p) ==
  /\ prop[p].at \in {"idle", "SIG_A_INVALID"}
  /\ \E i \in Ids \ Stored, own \in Ids, m \in Terms, t \in Payments \cup {None} :
       /\ ~Duplicate(m)
       /\ prop' = [prop EXCEPT ![p] =
            IF own = i THEN [at |-> "signing", id |-> i, terms |-> m, tx |-> t]
                       ELSE [NoProposal EXCEPT !.at = "SIG_A_INVALID"]]
  /\ UNCHANGED <<acc, rows, sigs, receipt, usedTx, mints>>

\* The signature holds and a fee is due: the payment, if not used yet, is looked up on chain.
SigVerified(p) ==
  /\ prop[p].at = "signing"
  /\ prop[p].tx # None /\ prop[p].tx \notin usedTx
  /\ prop' = [prop EXCEPT ![p].at = "paying"]
  /\ UNCHANGED <<acc, rows, sigs, receipt, usedTx, mints>>

\* What-if: the key of ocp_agreements.treasury_tx_sig is missing.
PaymentFreeUnkeyed(t) == TRUE

\* The unique key of ocp_agreements.treasury_tx_sig, where it is not null.
PaymentFree(t) == t = None \/ \A i \in Stored : paidBy[i] # t

\* What-if: the keys on the terms and on the code let ended agreements be repeated.
TermsFreeOnceEnded(m) == ~Duplicate(m)

\* The unique keys on the terms and on the code derived from them.
TermsFree(m) == \A i \in Stored : terms[i] # m

\* The last await is over.
Storing(p) == (prop[p].at = "signing" /\ prop[p].tx = None) \/ prop[p].at = "paying"

\* createAgreement.
CreateAgreement(i, m, t) ==
  /\ status[i] = "absent" /\ TermsFree(m) /\ PaymentFree(t)
  /\ status' = [status EXCEPT ![i] = "pending"]
  /\ terms' = [terms EXCEPT ![i] = m]
  /\ paidBy' = [paidBy EXCEPT ![i] = t]

\* createAgreement, storeSignature and saveUsedTreasuryTx, then the answer.
StoreProposal(p) ==
  /\ Storing(p)
  /\ CreateAgreement(prop[p].id, prop[p].terms, prop[p].tx)
  /\ sigs' = [sigs EXCEPT ![prop[p].id] = @ \cup {"party_a"}]
  /\ usedTx' = usedTx \cup ({prop[p].tx} \ {None})
  /\ prop' = [prop EXCEPT ![p] = NoProposal]
  /\ UNCHANGED <<acc, receipt, mints>>

\* Any check refuses, or a key of the tables throws.
RefuseProposal(p) ==
  /\ prop[p].at \in {"signing", "paying"}
  /\ prop' = [prop EXCEPT ![p] = NoProposal]
  /\ UNCHANGED <<acc, rows, sigs, receipt, usedTx, mints>>

-----------------------------------------------------------------------------
(* Accept                                                                   *)

\* What-if: acceptance does not ask for a pending agreement.
AcceptableAlways(i) == status[i] # "absent"

\* processAgreementAcceptance's look at the status.
Acceptable(i) == status[i] = "pending"

\* An acceptance before expires_at awaits its signatures.
Accept(a) ==
  /\ acc[a].at = "idle"
  /\ \E i \in Ids : /\ Acceptable(i)
                    /\ acc' = [acc EXCEPT ![a] = [at |-> "verifying", id |-> i, attempt |-> 0]]
  /\ UNCHANGED <<prop, rows, sigs, receipt, usedTx, mints>>

\* One after expires_at marks the agreement and is refused.
AcceptExpired(i) ==
  /\ Acceptable(i)
  /\ status' = [status EXCEPT ![i] = "expired"]
  /\ UNCHANGED <<prop, acc, terms, paidBy, sigs, receipt, usedTx, mints>>

\* What-if: storeSignature replaces the signature that is there.
SignatureFreeAlways(i) == TRUE

\* The key of ocp_signatures.
SignatureFree(i) == "party_b" \notin sigs[i]

\* Both signatures hold, so party A's is on file, and party B's can be stored.
Attested(a) ==
  acc[a].at = "verifying" /\ "party_a" \in sigs[acc[a].id] /\ SignatureFree(acc[a].id)

\* storeSignature of party B.
SignedByB(i) == [sigs EXCEPT ![i] = @ \cup {"party_b"}]

\* What-if: the signature is stored after the status.
SignaturesAtDeathLast(i) == sigs

\* A death among the seal's writes finds the signature stored, the first of them.
SignaturesAtDeath(i) == SignedByB(i)

\* storeSignature, markAgreementAccepted, markAgreementSealed, createReceipt, and the first
\* call of the mint worker: the status is written whatever it is.
SealAgreement(a) ==
  /\ Attested(a)
  /\ sigs' = SignedByB(acc[a].id)
  /\ status' = [status EXCEPT ![acc[a].id] = "sealed"]
  /\ receipt' = [receipt EXCEPT ![acc[a].id] = "minting"]
  /\ acc' = [acc EXCEPT ![a] = [at |-> "minting", id |-> @.id, attempt |-> 1]]
  /\ UNCHANGED <<prop, terms, paidBy, usedTx, mints>>

\* Any check refuses, or the key of ocp_signatures throws.
RefuseAcceptance(a) ==
  /\ acc[a].at = "verifying"
  /\ acc' = [acc EXCEPT ![a] = NoAcceptance]
  /\ UNCHANGED <<prop, rows, sigs, receipt, usedTx, mints>>

\* What-if: the attempts are counted from none.
RetriesOneMore(n) == n <= MintAttempts

\* postToMintWorker tries again.
Retries(n) == n < MintAttempts

\* The worker's answer to an attempt is lost, whether or not it minted.
MintAnswerLost(a) ==
  /\ acc[a].at = "minting"
  /\ mints' \in {mints, [mints EXCEPT ![acc[a].id] = @ + 1]}
  /\ IF Retries(acc[a].attempt)
     THEN /\ acc' = [acc EXCEPT ![a].attempt = @ + 1]
          /\ UNCHANGED receipt
     ELSE /\ receipt' = [receipt EXCEPT ![acc[a].id] = "failed"]
          /\ acc' = [acc EXCEPT ![a] = NoAcceptance]
  /\ UNCHANGED <<prop, rows, sigs, usedTx>>

\* The worker answers: it minted, or it says that it could not.
MintAnswered(a) ==
  /\ acc[a].at = "minting"
  /\ \/ /\ mints' = [mints EXCEPT ![acc[a].id] = @ + 1]
        /\ receipt' = [receipt EXCEPT ![acc[a].id] = "minted"]
     \/ /\ receipt' = [receipt EXCEPT ![acc[a].id] = "failed"]
        /\ UNCHANGED mints
  /\ acc' = [acc EXCEPT ![a] = NoAcceptance]
  /\ UNCHANGED <<prop, rows, sigs, usedTx>>

-----------------------------------------------------------------------------
(* Operator and death                                                       *)

\* The operator cancels a pending agreement: look and write are one turn.
CancelAgreement(i) ==
  /\ status[i] = "pending"
  /\ status' = [status EXCEPT ![i] = "cancelled"]
  /\ UNCHANGED <<prop, acc, terms, paidBy, sigs, receipt, usedTx, mints>>

\* The requests in flight are gone.
AgreementsLost ==
  /\ prop' = [p \in Proposals |-> NoProposal]
  /\ acc' = [a \in Acceptances |-> NoAcceptance]
  /\ UNCHANGED mints

\* Death between two turns.
DeathIdle == AgreementsLost /\ UNCHANGED <<rows, sigs, receipt, usedTx>>

\* Death inside StoreProposal: the first write or the first two are on file.
DeathStoring(p) ==
  /\ Storing(p) /\ AgreementsLost
  /\ CreateAgreement(prop[p].id, prop[p].terms, prop[p].tx)
  /\ sigs' \in {sigs, [sigs EXCEPT ![prop[p].id] = @ \cup {"party_a"}]}
  /\ UNCHANGED <<receipt, usedTx>>

\* Death inside SealAgreement: one to three of the four writes are on file.
DeathSealing(a) ==
  /\ Attested(a) /\ AgreementsLost
  /\ sigs' = SignaturesAtDeath(acc[a].id)
  /\ \/ UNCHANGED status
     \/ \E s \in {"accepted", "sealed"} : status' = [status EXCEPT ![acc[a].id] = s]
  /\ UNCHANGED <<terms, paidBy, receipt, usedTx>>

=============================================================================
