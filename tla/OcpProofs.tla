----------------------------- MODULE OcpProofs -----------------------------
(***************************************************************************)
(* Proofs about Ocp: what an agreement, a decision, a nonce and a key      *)
(* promise, for any proposals, acceptances, payments, signers, requests,   *)
(* windows, attempts and restarts.                                         *)
(***************************************************************************)
EXTENDS OcpProps, FiniteSetTheorems, TLAPS

(***************************************************************************)
(* Agreements.  What the properties need to be inductive: requests know an *)
(* agreement that is there, and what is minted belongs to the one          *)
(* acceptance that stored party B's signature.                             *)
(***************************************************************************)

\* A proposal that awaits something has an id and terms.
PropInv ==
  \A p \in Proposals : prop[p].at \in {"signing", "paying"} =>
    prop[p].id \in Ids /\ prop[p].terms \in Terms

\* An acceptance that awaits something has an agreement, which is stored.
AccInv ==
  \A a \in Acceptances : acc[a].at # "idle" => acc[a].id \in Stored

\* An acceptance mints what it signed, and has minted less than it tried; what nobody
\* accepted is not minted.
MintInv ==
  /\ \A a \in Acceptances : acc[a].at = "minting" =>
       /\ "party_b" \in sigs[acc[a].id]
       /\ mints[acc[a].id] < acc[a].attempt
  /\ \A i \in Ids : "party_b" \notin sigs[i] => mints[i] = 0 /\ receipt[i] # "minted"

AgreementInv ==
  /\ AgreementTypeOK /\ PropInv /\ AccInv /\ MintInv
  /\ PaymentFundsOneAgreement /\ TermsAgreedOnce /\ SealedIsComplete /\ OneAcceptanceMints

\* The process may die, and never comes back to an earlier life.
RestartsGrow == restarts \in Nat /\ restarts' \in {restarts, restarts + 1}

\* The initial states satisfy the invariant.
LEMMA AgreementInvInit == Init => AgreementInv
<1> SUFFICES ASSUME Init PROVE AgreementInv
  OBVIOUS
<1> USE AgreementAssumption DEF Init, AInit, NoProposal, NoAcceptance
<1>1. AgreementTypeOK
  BY DEF AgreementTypeOK, Parties
<1>2. PropInv /\ AccInv /\ MintInv
  BY DEF PropInv, AccInv, MintInv
<1>3. PaymentFundsOneAgreement /\ TermsAgreedOnce
  BY DEF PaymentFundsOneAgreement, TermsAgreedOnce, Stored
<1>4. SealedIsComplete
  BY DEF SealedIsComplete
<1>5. OneAcceptanceMints
  BY DEF OneAcceptanceMints
<1> QED
  BY <1>1, <1>2, <1>3, <1>4, <1>5 DEF AgreementInv

\* A step that leaves the tables alone and sends nothing to the mint worker keeps the
\* invariant, if its requests know what they await.
LEMMA AgreementInvMoves ==
  ASSUME AgreementInv, RestartsGrow,
         UNCHANGED <<rows, sigs, receipt, usedTx, mints>>,
         prop' \in [Proposals -> [at : {"idle", "signing", "paying", "SIG_A_INVALID"},
                                  id : Ids \cup {None}, terms : Terms \cup {None},
                                  tx : Payments \cup {None}]],
         acc' \in [Acceptances -> [at : {"idle", "verifying", "minting"}, id : Ids \cup {None},
                                   attempt : 0 .. MintAttempts]],
         PropInv', AccInv',
         \A a \in Acceptances : acc'[a].at = "minting" => acc'[a] = acc[a]
  PROVE  AgreementInv'
<1> USE DEF AgreementInv, rows
<1>1. AgreementTypeOK'
  BY DEF AgreementTypeOK
<1>2. MintInv'
  BY DEF MintInv
<1>3. PaymentFundsOneAgreement' /\ TermsAgreedOnce'
  BY DEF PaymentFundsOneAgreement, TermsAgreedOnce, Stored
<1>4. SealedIsComplete'
  BY DEF SealedIsComplete, RestartsGrow
<1>5. OneAcceptanceMints'
  BY DEF OneAcceptanceMints
<1> QED
  BY <1>1, <1>2, <1>3, <1>4, <1>5

\* Proposals on their way, and refused.
LEMMA AgreementInvProposals ==
  ASSUME AgreementInv, RestartsGrow, NEW p \in Proposals,
         Propose(p) \/ SigVerified(p) \/ RefuseProposal(p)
  PROVE  AgreementInv'
<1> USE DEF AgreementInv
<1>1. UNCHANGED <<acc, rows, sigs, receipt, usedTx, mints>>
  BY DEF Propose, SigVerified, RefuseProposal
<1>2. PICK q \in [at : {"idle", "signing", "paying", "SIG_A_INVALID"},
                  id : Ids \cup {None}, terms : Terms \cup {None},
                  tx : Payments \cup {None}] :
        /\ prop' = [prop EXCEPT ![p] = q]
        /\ q.at \in {"signing", "paying"} => q.id \in Ids /\ q.terms \in Terms
  <2>1. CASE Propose(p)
    <3>1. PICK i \in Ids, own \in Ids, m \in Terms, t \in Payments \cup {None} :
            prop' = [prop EXCEPT ![p] =
              IF own = i THEN [at |-> "signing", id |-> i, terms |-> m, tx |-> t]
                         ELSE [NoProposal EXCEPT !.at = "SIG_A_INVALID"]]
      BY <2>1 DEF Propose
    <3> DEFINE q == IF own = i THEN [at |-> "signing", id |-> i, terms |-> m, tx |-> t]
                              ELSE [NoProposal EXCEPT !.at = "SIG_A_INVALID"]
    <3>2. /\ q \in [at : {"idle", "signing", "paying", "SIG_A_INVALID"},
                    id : Ids \cup {None}, terms : Terms \cup {None},
                    tx : Payments \cup {None}]
          /\ q.at \in {"signing", "paying"} => q.id \in Ids /\ q.terms \in Terms
      <4>1. CASE own = i
        <5>1. q = [at |-> "signing", id |-> i, terms |-> m, tx |-> t]
          BY <4>1
        <5> QED
          BY <5>1
      <4>2. CASE own # i
        <5>1. q = [NoProposal EXCEPT !.at = "SIG_A_INVALID"]
          BY <4>2
        <5>2. [NoProposal EXCEPT !.at = "SIG_A_INVALID"]
                = [at |-> "SIG_A_INVALID", id |-> None, terms |-> None, tx |-> None]
          BY DEF NoProposal
        <5> QED
          BY <5>1, <5>2
      <4> QED
        BY <4>1, <4>2
    <3>3. prop' = [prop EXCEPT ![p] = q]
      BY <3>1
    <3> HIDE DEF q
    <3> QED
      BY <3>2, <3>3
  <2>2. CASE SigVerified(p)
    <3>1. prop' = [prop EXCEPT ![p] = [prop[p] EXCEPT !.at = "paying"]] /\ prop[p].at = "signing"
      BY <2>2 DEF SigVerified
    <3>2. /\ [prop[p] EXCEPT !.at = "paying"]
               \in [at : {"idle", "signing", "paying", "SIG_A_INVALID"},
                   id : Ids \cup {None}, terms : Terms \cup {None}, tx : Payments \cup {None}]
          /\ [prop[p] EXCEPT !.at = "paying"].id \in Ids
          /\ [prop[p] EXCEPT !.at = "paying"].terms \in Terms
      <4>1. prop[p] \in [at : {"idle", "signing", "paying", "SIG_A_INVALID"},
                         id : Ids \cup {None}, terms : Terms \cup {None},
                         tx : Payments \cup {None}]
        BY DEF AgreementTypeOK
      <4>2. prop[p].id \in Ids /\ prop[p].terms \in Terms
        BY <3>1 DEF PropInv
      <4> HIDE DEF AgreementInv
      <4> QED
        BY <4>1, <4>2
    <3> QED
      BY <3>1, <3>2
  <2>3. CASE RefuseProposal(p)
    <3>1. prop' = [prop EXCEPT ![p] = NoProposal]
      BY <2>3 DEF RefuseProposal
    <3>2. /\ NoProposal \in [at : {"idle", "signing", "paying", "SIG_A_INVALID"},
                             id : Ids \cup {None}, terms : Terms \cup {None},
                             tx : Payments \cup {None}]
          /\ NoProposal.at = "idle"
      BY DEF NoProposal
    <3> QED
      BY <3>1, <3>2
  <2> QED
    BY <2>1, <2>2, <2>3
<1>3. prop' \in [Proposals -> [at : {"idle", "signing", "paying", "SIG_A_INVALID"},
                               id : Ids \cup {None}, terms : Terms \cup {None},
                               tx : Payments \cup {None}]]
  BY <1>2 DEF AgreementTypeOK
<1>4. PropInv'
  BY <1>2 DEF AgreementTypeOK, PropInv
<1>5. AccInv'
  BY <1>1 DEF AccInv, Stored, rows
<1> QED
  BY <1>1, <1>3, <1>4, <1>5, AgreementInvMoves DEF AgreementTypeOK

\* Acceptances on their way, and refused.
LEMMA AgreementInvAcceptances ==
  ASSUME AgreementInv, RestartsGrow, NEW a \in Acceptances, Accept(a) \/ RefuseAcceptance(a)
  PROVE  AgreementInv'
<1> USE DEF AgreementInv
<1>1. UNCHANGED <<prop, rows, sigs, receipt, usedTx, mints>>
  BY DEF Accept, RefuseAcceptance
<1>2. PICK q \in [at : {"idle", "verifying"}, id : Ids \cup {None}, attempt : {0}] :
        acc' = [acc EXCEPT ![a] = q] /\ (q.at # "idle" => q.id \in Stored)
  <2>1. CASE Accept(a)
    <3>1. PICK i \in Ids : /\ status[i] = "pending"
                          /\ acc' = [acc EXCEPT ![a] = [at |-> "verifying", id |-> i, attempt |-> 0]]
      BY <2>1 DEF Accept, Acceptable
    <3>2. /\ [at |-> "verifying", id |-> i, attempt |-> 0]
               \in [at : {"idle", "verifying"}, id : Ids \cup {None}, attempt : {0}]
          /\ i \in Stored
      BY <3>1 DEF Stored
    <3> QED
      BY <3>1, <3>2
  <2>2. CASE RefuseAcceptance(a)
    <3>1. /\ NoAcceptance \in [at : {"idle", "verifying"}, id : Ids \cup {None}, attempt : {0}]
          /\ NoAcceptance.at = "idle"
      BY DEF NoAcceptance
    <3> QED
      BY <2>2, <3>1 DEF RefuseAcceptance
  <2> QED
    BY <2>1, <2>2
<1>3. acc' \in [Acceptances -> [at : {"idle", "verifying", "minting"}, id : Ids \cup {None},
                                attempt : 0 .. MintAttempts]]
  BY <1>2, AgreementAssumption DEF AgreementTypeOK
<1>4. PropInv'
  BY <1>1 DEF PropInv
<1>5. AccInv'
  BY <1>1, <1>2 DEF AgreementTypeOK, AccInv, Stored, rows
<1>6. \A b \in Acceptances : acc'[b].at = "minting" => acc'[b] = acc[b]
  BY <1>2 DEF AgreementTypeOK
<1> QED
  BY <1>1, <1>3, <1>4, <1>5, <1>6, AgreementInvMoves DEF AgreementTypeOK

\* The keys of the tables are what keeps a new agreement apart from those that are there.
LEMMA AgreementInvCreates ==
  ASSUME AgreementInv, RestartsGrow, NEW i \in Ids, NEW m \in Terms,
         NEW t \in Payments \cup {None},
         CreateAgreement(i, m, t),
         sigs' = sigs \/ sigs' = [sigs EXCEPT ![i] = @ \cup {"party_a"}],
         usedTx' = usedTx \/ usedTx' = usedTx \cup ({t} \ {None}),
         prop' \in [Proposals -> [at : {"idle", "signing", "paying", "SIG_A_INVALID"},
                                  id : Ids \cup {None}, terms : Terms \cup {None},
                                  tx : Payments \cup {None}]],
         PropInv',
         acc' = acc \/ acc' = [a \in Acceptances |-> NoAcceptance],
         UNCHANGED <<receipt, mints>>
  PROVE  AgreementInv'
<1> USE DEF AgreementInv
<1>1. /\ status[i] = "absent" /\ status' = [status EXCEPT ![i] = "pending"]
      /\ terms' = [terms EXCEPT ![i] = m] /\ paidBy' = [paidBy EXCEPT ![i] = t]
      /\ \A j \in Stored : terms[j] # m
      /\ t = None \/ \A j \in Stored : paidBy[j] # t
  BY DEF CreateAgreement, TermsFree, PaymentFree
<1>2. i \notin Stored /\ Stored' = Stored \cup {i}
  BY <1>1 DEF Stored, AgreementTypeOK
<1>3. \A j \in Ids : /\ j # i => /\ status'[j] = status[j] /\ terms'[j] = terms[j]
                                 /\ paidBy'[j] = paidBy[j] /\ sigs'[j] = sigs[j]
                     /\ sigs[j] \subseteq sigs'[j]
                     /\ "party_b" \in sigs'[j] => "party_b" \in sigs[j]
  BY <1>1 DEF AgreementTypeOK
<1>4. status'[i] = "pending" /\ terms'[i] = m /\ paidBy'[i] = t
  BY <1>1 DEF AgreementTypeOK
<1>5. AgreementTypeOK'
  <2>1. /\ status' \in [Ids -> {"absent", "pending", "accepted", "sealed", "expired", "cancelled"}]
        /\ terms' \in [Ids -> Terms \cup {None}] /\ paidBy' \in [Ids -> Payments \cup {None}]
    BY <1>1 DEF AgreementTypeOK
  <2>2. sigs' \in [Ids -> SUBSET Parties] /\ usedTx' \subseteq Payments
    BY DEF AgreementTypeOK, Parties
  <2>3. acc' \in [Acceptances -> [at : {"idle", "verifying", "minting"}, id : Ids \cup {None},
                                  attempt : 0 .. MintAttempts]]
    BY AgreementAssumption DEF AgreementTypeOK, NoAcceptance
  <2> QED
    BY <2>1, <2>2, <2>3 DEF AgreementTypeOK
<1>6. \A a \in Acceptances : acc'[a].at # "idle" => acc'[a] = acc[a]
  BY DEF NoAcceptance
<1>7. AccInv'
  BY <1>2, <1>6 DEF AccInv
<1>8. MintInv'
  <2>1. \A a \in Acceptances : acc[a].at = "minting" => acc[a].id \in Ids
    BY DEF AccInv, Stored
  <2> QED
    BY <1>3, <1>6, <2>1 DEF MintInv
<1>9. PaymentFundsOneAgreement'
  <2>1. ASSUME NEW j \in Stored', NEW k \in Stored', paidBy'[j] = paidBy'[k], paidBy'[j] # None
        PROVE  j = k
    BY <1>1, <1>2, <1>3, <1>4, <2>1 DEF PaymentFundsOneAgreement, Stored
  <2>2. ASSUME NEW u \in usedTx' PROVE \E j \in Stored' : paidBy'[j] = u
    <3>1. CASE u \in usedTx
      <4>1. PICK j \in Stored : paidBy[j] = u
        BY <3>1 DEF PaymentFundsOneAgreement
      <4> QED
        BY <1>2, <1>3, <4>1 DEF Stored
    <3>2. CASE u = t
      BY <1>2, <1>4, <3>2
    <3> QED
      BY <3>1, <3>2
  <2> QED
    BY <2>1, <2>2 DEF PaymentFundsOneAgreement
<1>10. TermsAgreedOnce'
  BY <1>1, <1>2, <1>3, <1>4 DEF TermsAgreedOnce, Stored
<1>11. SealedIsComplete'
  <2> SUFFICES ASSUME NEW j \in Ids
               PROVE  /\ status'[j] \in {"accepted", "sealed"} => sigs'[j] = Parties
                      /\ status'[j] = "sealed" /\ receipt[j] = "none" => restarts' > 0
                      /\ status'[j] = "accepted" => restarts' > 0
    BY DEF SealedIsComplete
  <2> QED
    BY <1>3, <1>4 DEF SealedIsComplete, RestartsGrow
<1>12. OneAcceptanceMints'
  BY <1>6 DEF OneAcceptanceMints
<1> QED
  BY <1>5, <1>7, <1>8, <1>9, <1>10, <1>11, <1>12

\* A proposal's last turn, whole or cut short by a death.
LEMMA AgreementInvStores ==
  ASSUME AgreementInv, RestartsGrow, NEW p \in Proposals, StoreProposal(p) \/ DeathStoring(p)
  PROVE  AgreementInv'
<1>1. /\ CreateAgreement(prop[p].id, prop[p].terms, prop[p].tx)
      /\ prop[p].at \in {"signing", "paying"}
      /\ \/ sigs' = sigs
         \/ sigs' = [sigs EXCEPT ![prop[p].id] = @ \cup {"party_a"}]
      /\ usedTx' = usedTx \/ usedTx' = usedTx \cup ({prop[p].tx} \ {None})
      /\ \/ prop' = [prop EXCEPT ![p] = NoProposal] /\ acc' = acc
         \/ /\ prop' = [q \in Proposals |-> NoProposal]
            /\ acc' = [a \in Acceptances |-> NoAcceptance]
      /\ UNCHANGED <<receipt, mints>>
  BY DEF StoreProposal, DeathStoring, Storing, AgreementsLost
<1>2. /\ prop[p].id \in Ids /\ prop[p].terms \in Terms /\ prop[p].tx \in Payments \cup {None}
  BY <1>1 DEF AgreementInv, PropInv, AgreementTypeOK
<1>3. prop' \in [Proposals -> [at : {"idle", "signing", "paying", "SIG_A_INVALID"},
                               id : Ids \cup {None}, terms : Terms \cup {None},
                               tx : Payments \cup {None}]]
  BY <1>1 DEF AgreementInv, AgreementTypeOK, NoProposal
<1>4. PropInv'
  BY <1>1 DEF AgreementInv, AgreementTypeOK, PropInv, NoProposal
<1> QED
  BY <1>1, <1>2, <1>3, <1>4, AgreementInvCreates

\* Party B's signature is stored first, once, and by the acceptance that goes on to mint.
LEMMA AgreementInvSeals ==
  ASSUME AgreementInv, RestartsGrow, NEW a \in Acceptances,
         \/ SealAgreement(a)
         \/ DeathSealing(a) /\ restarts' = restarts + 1
  PROVE  AgreementInv'
<1> DEFINE i == acc[a].id
<1>1. /\ acc[a].at = "verifying" /\ "party_a" \in sigs[i] /\ "party_b" \notin sigs[i]
      /\ sigs' = [sigs EXCEPT ![i] = @ \cup {"party_b"}]
      /\ \/ status' = status
         \/ \E s \in {"accepted", "sealed"} : status' = [status EXCEPT ![i] = s]
      /\ UNCHANGED <<terms, paidBy, usedTx, mints>>
  BY DEF SealAgreement, DeathSealing, Attested, SignatureFree, SignedByB, SignaturesAtDeath,
         AgreementsLost
<1>2. \/ /\ status' = [status EXCEPT ![i] = "sealed"]
         /\ receipt' = [receipt EXCEPT ![i] = "minting"]
         /\ acc' = [acc EXCEPT ![a] = [at |-> "minting", id |-> i, attempt |-> 1]]
         /\ UNCHANGED prop
      \/ /\ acc' = [b \in Acceptances |-> NoAcceptance]
         /\ prop' = [q \in Proposals |-> NoProposal]
         /\ receipt' = receipt /\ restarts' = restarts + 1
  <2>1. CASE SealAgreement(a)
    BY <2>1 DEF SealAgreement
  <2>2. CASE DeathSealing(a) /\ restarts' = restarts + 1
    BY <2>2 DEF DeathSealing, AgreementsLost
  <2> QED
    BY <2>1, <2>2
<1>3. i \in Stored /\ i \in Ids
  BY <1>1 DEF AgreementInv, AccInv, Stored
<1> HIDE DEF i
<1>5. \A b \in Acceptances : acc'[b].at # "idle" =>
        \/ b # a /\ acc'[b] = acc[b]
        \/ b = a /\ acc'[b].at = "minting" /\ acc'[b].id = i /\ acc'[b].attempt = 1
  BY <1>2 DEF AgreementInv, AgreementTypeOK, NoAcceptance
<1>6. sigs'[i] = Parties /\ \A j \in Ids : j # i => sigs'[j] = sigs[j]
  BY <1>1, <1>3 DEF AgreementInv, AgreementTypeOK, Parties
<1>7. /\ \A j \in Ids : j # i => status'[j] = status[j] /\ receipt'[j] = receipt[j]
      /\ status'[i] \in {status[i], "accepted", "sealed"}
      /\ receipt'[i] \in {receipt[i], "minting"}
      /\ status'[i] = "absent" <=> status[i] = "absent"
      /\ Stored' = Stored
  <2>1. /\ \A j \in Ids : j # i => status'[j] = status[j]
        /\ status'[i] \in {status[i], "accepted", "sealed"}
    BY <1>1, <1>3 DEF AgreementInv, AgreementTypeOK
  <2>2. /\ \A j \in Ids : j # i => receipt'[j] = receipt[j]
        /\ receipt'[i] \in {receipt[i], "minting"}
    BY <1>2, <1>3 DEF AgreementInv, AgreementTypeOK
  <2>3. status[i] # "absent" /\ status'[i] # "absent"
    BY <1>3, <2>1 DEF Stored
  <2>4. Stored' = Stored
    BY <2>1, <2>3 DEF Stored
  <2> QED
    BY <2>1, <2>2, <2>3, <2>4
<1>8. AgreementTypeOK'
  <2>1. acc' \in [Acceptances -> [at : {"idle", "verifying", "minting"}, id : Ids \cup {None},
                                  attempt : 0 .. MintAttempts]]
    <3>1. [at |-> "minting", id |-> i, attempt |-> 1]
            \in [at : {"idle", "verifying", "minting"}, id : Ids \cup {None},
                 attempt : 0 .. MintAttempts]
      BY <1>3, AgreementAssumption
    <3>2. NoAcceptance \in [at : {"idle", "verifying", "minting"}, id : Ids \cup {None},
                            attempt : 0 .. MintAttempts]
      BY AgreementAssumption DEF NoAcceptance
    <3>3. CASE acc' = [acc EXCEPT ![a] = [at |-> "minting", id |-> i, attempt |-> 1]]
      BY <3>1, <3>3 DEF AgreementInv, AgreementTypeOK
    <3>4. CASE acc' = [b \in Acceptances |-> NoAcceptance]
      BY <3>2, <3>4
    <3> QED
      BY <1>2, <3>3, <3>4
  <2>2. prop' \in [Proposals -> [at : {"idle", "signing", "paying", "SIG_A_INVALID"},
                                 id : Ids \cup {None}, terms : Terms \cup {None},
                                 tx : Payments \cup {None}]]
    BY <1>2 DEF AgreementInv, AgreementTypeOK, NoProposal
  <2>3. /\ status' \in [Ids -> {"absent", "pending", "accepted", "sealed", "expired", "cancelled"}]
        /\ receipt' \in [Ids -> {"none", "minting", "minted", "failed"}]
        /\ sigs' \in [Ids -> SUBSET Parties]
    BY <1>1, <1>2, <1>3 DEF AgreementInv, AgreementTypeOK, Parties
  <2> QED
    BY <1>1, <2>1, <2>2, <2>3 DEF AgreementInv, AgreementTypeOK
<1>9. PropInv'
  BY <1>2 DEF AgreementInv, PropInv, NoProposal
<1>10. AccInv'
  BY <1>3, <1>5, <1>7 DEF AgreementInv, AccInv
<1>11. \A b \in Acceptances : acc[b].at = "minting" => acc[b].id # i
  BY <1>1 DEF AgreementInv, MintInv, i
<1>12. mints[i] = 0
  BY <1>1, <1>3 DEF AgreementInv, MintInv, i
<1>13. MintInv'
  <2>1. ASSUME NEW b \in Acceptances, acc'[b].at = "minting"
        PROVE  "party_b" \in sigs'[acc'[b].id] /\ mints[acc'[b].id] < acc'[b].attempt
    <3>1. CASE acc'[b] = acc[b]
      <4>1. acc[b].id \in Ids /\ acc[b].id # i
        BY <1>11, <2>1, <3>1 DEF AgreementInv, AccInv, Stored
      <4> QED
        BY <1>6, <2>1, <3>1, <4>1 DEF AgreementInv, MintInv
    <3>2. CASE acc'[b].id = i /\ acc'[b].attempt = 1
      BY <1>6, <1>12, <3>2 DEF Parties
    <3> QED
      BY <1>5, <2>1, <3>1, <3>2
  <2>2. ASSUME NEW j \in Ids, "party_b" \notin sigs'[j]
        PROVE  mints[j] = 0 /\ receipt'[j] # "minted"
    BY <1>6, <1>7, <2>2 DEF AgreementInv, MintInv, Parties
  <2> QED
    BY <1>1, <2>1, <2>2 DEF MintInv
<1>14. PaymentFundsOneAgreement' /\ TermsAgreedOnce'
  BY <1>1, <1>7 DEF AgreementInv, PaymentFundsOneAgreement, TermsAgreedOnce
<1>15. SealedIsComplete'
  <2> SUFFICES ASSUME NEW j \in Ids
               PROVE  /\ status'[j] \in {"accepted", "sealed"} => sigs'[j] = Parties
                      /\ status'[j] = "sealed" /\ receipt'[j] = "none" => restarts' > 0
                      /\ status'[j] = "accepted" => restarts' > 0
    BY DEF SealedIsComplete
  <2>1. CASE j # i
    BY <1>6, <1>7, <2>1 DEF AgreementInv, SealedIsComplete, RestartsGrow
  <2>2. CASE j = i /\ restarts' = restarts + 1
    BY <1>6, <2>2 DEF RestartsGrow
  <2>3. CASE j = i /\ status' = [status EXCEPT ![i] = "sealed"]
             /\ receipt' = [receipt EXCEPT ![i] = "minting"]
    BY <1>3, <1>6, <2>3 DEF AgreementInv, AgreementTypeOK
  <2> QED
    BY <1>2, <2>1, <2>2, <2>3 DEF i
<1>16. OneAcceptanceMints'
  <2>1. \A j \in Ids : mints'[j] <= MintAttempts /\ (receipt'[j] = "minted" => mints'[j] > 0)
    BY <1>1, <1>7 DEF AgreementInv, OneAcceptanceMints
  <2>2. ASSUME NEW b \in Acceptances, NEW d \in Acceptances,
               acc'[b].at = "minting", acc'[d].at = "minting", acc'[b].id = acc'[d].id
        PROVE  b = d
    BY <1>5, <1>11, <2>2 DEF AgreementInv, OneAcceptanceMints
  <2> QED
    BY <2>1, <2>2 DEF OneAcceptanceMints
<1> QED
  BY <1>8, <1>9, <1>10, <1>13, <1>14, <1>15, <1>16 DEF AgreementInv

\* A pending agreement that expires or is cancelled.
LEMMA AgreementInvEnds ==
  ASSUME AgreementInv, RestartsGrow, NEW i \in Ids, AcceptExpired(i) \/ CancelAgreement(i)
  PROVE  AgreementInv'
<1>1. PICK s \in {"expired", "cancelled"} :
        /\ status[i] = "pending" /\ status' = [status EXCEPT ![i] = s]
        /\ UNCHANGED <<prop, acc, terms, paidBy, sigs, receipt, usedTx, mints>>
  BY DEF AcceptExpired, Acceptable, CancelAgreement
<1>2. Stored' = Stored
  BY <1>1 DEF AgreementInv, AgreementTypeOK, Stored
<1>3. AgreementTypeOK' /\ PropInv'
  BY <1>1 DEF AgreementInv, AgreementTypeOK, PropInv
<1>4. AccInv'
  BY <1>1, <1>2 DEF AgreementInv, AccInv
<1>5. MintInv' /\ OneAcceptanceMints'
  BY <1>1 DEF AgreementInv, MintInv, OneAcceptanceMints
<1>6. PaymentFundsOneAgreement' /\ TermsAgreedOnce'
  BY <1>1, <1>2 DEF AgreementInv, PaymentFundsOneAgreement, TermsAgreedOnce
<1>7. SealedIsComplete'
  BY <1>1 DEF AgreementInv, AgreementTypeOK, SealedIsComplete, RestartsGrow
<1> QED
  BY <1>3, <1>4, <1>5, <1>6, <1>7 DEF AgreementInv

\* An attempt mints at most once, and the attempts are counted.
LEMMA AgreementInvMints ==
  ASSUME AgreementInv, RestartsGrow, NEW a \in Acceptances, MintAnswerLost(a) \/ MintAnswered(a)
  PROVE  AgreementInv'
<1> DEFINE i == acc[a].id
           n == acc[a].attempt
<1>1. /\ acc[a].at = "minting" /\ i \in Ids /\ n \in 0 .. MintAttempts
      /\ "party_b" \in sigs[i] /\ mints[i] \in Nat /\ mints[i] < n
  BY DEF MintAnswerLost, MintAnswered, AgreementInv, AgreementTypeOK, AccInv, MintInv, Stored
<1>2. UNCHANGED <<prop, rows, sigs, usedTx>>
  BY DEF MintAnswerLost, MintAnswered
<1>3. mints' = mints \/ mints' = [mints EXCEPT ![i] = @ + 1]
  BY DEF MintAnswerLost, MintAnswered
<1>4. \/ /\ n < MintAttempts /\ receipt' = receipt
         /\ acc' = [acc EXCEPT ![a].attempt = n + 1]
      \/ /\ acc' = [acc EXCEPT ![a] = NoAcceptance]
         /\ \/ receipt' = [receipt EXCEPT ![i] = "failed"]
            \/ receipt' = [receipt EXCEPT ![i] = "minted"] /\ mints' = [mints EXCEPT ![i] = @ + 1]
  BY DEF MintAnswerLost, MintAnswered, Retries
<1>5. \A b \in Acceptances : acc'[b].at # "idle" =>
        \/ b # a /\ acc'[b] = acc[b]
        \/ b = a /\ acc'[b].at = "minting" /\ acc'[b].id = i /\ acc'[b].attempt = n + 1
  BY <1>1, <1>4 DEF AgreementInv, AgreementTypeOK, NoAcceptance
<1>6. AgreementTypeOK'
  <2>1. acc' \in [Acceptances -> [at : {"idle", "verifying", "minting"}, id : Ids \cup {None},
                                  attempt : 0 .. MintAttempts]]
    <3>1. CASE n < MintAttempts /\ acc' = [acc EXCEPT ![a].attempt = n + 1]
      <4>1. n + 1 \in 0 .. MintAttempts
        BY <1>1, <3>1, AgreementAssumption
      <4> HIDE DEF n
      <4> QED
        BY <3>1, <4>1 DEF AgreementInv, AgreementTypeOK
    <3>2. CASE acc' = [acc EXCEPT ![a] = NoAcceptance]
      <4>1. NoAcceptance \in [at : {"idle", "verifying", "minting"}, id : Ids \cup {None},
                              attempt : 0 .. MintAttempts]
        BY AgreementAssumption DEF NoAcceptance
      <4> QED
        BY <3>2, <4>1 DEF AgreementInv, AgreementTypeOK
    <3> QED
      BY <1>4, <3>1, <3>2
  <2>2. receipt' \in [Ids -> {"none", "minting", "minted", "failed"}]
    BY <1>4 DEF AgreementInv, AgreementTypeOK
  <2>3. mints' \in [Ids -> Nat]
    BY <1>1, <1>3 DEF AgreementInv, AgreementTypeOK
  <2> QED
    BY <1>2, <2>1, <2>2, <2>3 DEF AgreementInv, AgreementTypeOK, rows
<1>7. PropInv'
  BY <1>2 DEF AgreementInv, PropInv
<1> HIDE DEF i, n
<1>8. AccInv'
  <2>1. i \in Stored
    BY <1>1 DEF AgreementInv, AccInv, i
  <2> QED
    BY <1>2, <1>5, <2>1 DEF AgreementInv, AccInv, Stored, rows
<1>9. /\ mints'[i] \in {mints[i], mints[i] + 1}
      /\ \A j \in Ids : j # i => mints'[j] = mints[j] /\ receipt'[j] = receipt[j]
  BY <1>1, <1>3, <1>4 DEF AgreementInv, AgreementTypeOK
<1>10. \/ receipt'[i] = receipt[i] \/ receipt'[i] = "failed"
       \/ receipt'[i] = "minted" /\ mints'[i] = mints[i] + 1
  BY <1>1, <1>4 DEF AgreementInv, AgreementTypeOK
<1>11. \A b \in Acceptances : b # a /\ acc[b].at = "minting" => acc[b].id # i /\ acc[b].id \in Ids
  BY <1>1 DEF AgreementInv, OneAcceptanceMints, AccInv, Stored, i
<1>12. MintInv'
  <2>1. ASSUME NEW b \in Acceptances, acc'[b].at = "minting"
        PROVE  "party_b" \in sigs[acc'[b].id] /\ mints'[acc'[b].id] < acc'[b].attempt
    <3>1. CASE b # a /\ acc'[b] = acc[b]
      BY <1>9, <1>11, <2>1, <3>1 DEF AgreementInv, MintInv
    <3>2. CASE acc'[b].id = i /\ acc'[b].attempt = n + 1
      BY <1>1, <1>9, <3>2
    <3> QED
      BY <1>5, <2>1, <3>1, <3>2
  <2>2. ASSUME NEW j \in Ids, "party_b" \notin sigs[j] PROVE mints'[j] = 0 /\ receipt'[j] # "minted"
    BY <1>1, <1>9, <2>2 DEF AgreementInv, MintInv
  <2> QED
    BY <1>2, <2>1, <2>2 DEF MintInv
<1>13. PaymentFundsOneAgreement' /\ TermsAgreedOnce'
  BY <1>2 DEF AgreementInv, PaymentFundsOneAgreement, TermsAgreedOnce, Stored, rows
<1>14. SealedIsComplete'
  <2> SUFFICES ASSUME NEW j \in Ids
               PROVE  /\ status[j] \in {"accepted", "sealed"} => sigs[j] = Parties
                      /\ status[j] = "sealed" /\ receipt'[j] = "none" => restarts' > 0
                      /\ status[j] = "accepted" => restarts' > 0
    BY <1>2 DEF SealedIsComplete, rows
  <2>1. receipt'[j] = "none" => receipt[j] = "none"
    BY <1>9, <1>10
  <2> QED
    BY <2>1 DEF AgreementInv, SealedIsComplete, RestartsGrow
<1>15. OneAcceptanceMints'
  <2>1. ASSUME NEW j \in Ids PROVE mints'[j] <= MintAttempts /\ (receipt'[j] = "minted" => mints'[j] > 0)
    <3>1. CASE j # i
      BY <1>9, <3>1 DEF AgreementInv, OneAcceptanceMints
    <3>2. CASE j = i
      <4>1. mints[i] + 1 <= MintAttempts
        BY <1>1, AgreementAssumption
      <4>2. receipt[i] = "minted" => mints[i] > 0
        BY <1>1 DEF AgreementInv, OneAcceptanceMints
      <4> QED
        BY <1>1, <1>9, <1>10, <3>2, <4>1, <4>2, AgreementAssumption
    <3> QED
      BY <3>1, <3>2
  <2>2. ASSUME NEW b \in Acceptances, NEW d \in Acceptances,
               acc'[b].at = "minting", acc'[d].at = "minting", acc'[b].id = acc'[d].id
        PROVE  b = d
    BY <1>5, <1>11, <2>2 DEF AgreementInv, OneAcceptanceMints
  <2> QED
    BY <2>1, <2>2 DEF OneAcceptanceMints
<1> QED
  BY <1>6, <1>7, <1>8, <1>12, <1>13, <1>14, <1>15 DEF AgreementInv

\* A step that leaves the agreements alone, or only loses the requests in flight.
LEMMA AgreementInvIdle ==
  ASSUME AgreementInv, RestartsGrow, UNCHANGED aVars \/ DeathIdle
  PROVE  AgreementInv'
<1>1. UNCHANGED <<rows, sigs, receipt, usedTx, mints>>
  BY DEF aVars, DeathIdle, AgreementsLost
<1>2. /\ prop' = prop \/ prop' = [p \in Proposals |-> NoProposal]
      /\ acc' = acc \/ acc' = [a \in Acceptances |-> NoAcceptance]
  BY DEF aVars, DeathIdle, AgreementsLost
<1>3. prop' \in [Proposals -> [at : {"idle", "signing", "paying", "SIG_A_INVALID"},
                               id : Ids \cup {None}, terms : Terms \cup {None},
                               tx : Payments \cup {None}]]
  BY <1>2 DEF AgreementInv, AgreementTypeOK, NoProposal
<1>4. acc' \in [Acceptances -> [at : {"idle", "verifying", "minting"}, id : Ids \cup {None},
                                attempt : 0 .. MintAttempts]]
  BY <1>2, AgreementAssumption DEF AgreementInv, AgreementTypeOK, NoAcceptance
<1>5. PropInv'
  BY <1>2 DEF AgreementInv, PropInv, NoProposal
<1>6. AccInv' /\ \A a \in Acceptances : acc'[a].at = "minting" => acc'[a] = acc[a]
  BY <1>1, <1>2 DEF AgreementInv, AccInv, NoAcceptance, Stored, rows
<1> QED
  BY <1>1, <1>3, <1>4, <1>5, <1>6, AgreementInvMoves

\* Every step keeps the agreements' invariant.
LEMMA AgreementInvNext == AgreementInv /\ restarts \in Nat /\ [Next]_vars => AgreementInv'
<1> SUFFICES ASSUME AgreementInv, restarts \in Nat, [Next]_vars PROVE AgreementInv'
  OBVIOUS
<1>1. RestartsGrow
  BY DEF RestartsGrow, Next, Kill, vars
<1>2. CASE AgreementsNext
  BY <1>1, <1>2, AgreementInvProposals, AgreementInvAcceptances, AgreementInvStores,
     AgreementInvSeals, AgreementInvEnds, AgreementInvMints
     DEF AgreementsNext
<1>3. CASE UNCHANGED aVars
  BY <1>1, <1>3, AgreementInvIdle
<1>4. CASE Kill
  BY <1>1, <1>4, AgreementInvIdle, AgreementInvStores, AgreementInvSeals DEF Kill
<1> QED
  BY <1>2, <1>3, <1>4 DEF Next, vars

(***************************************************************************)
(* Decisions.                                                              *)
(***************************************************************************)

\* Signatures are of declared signers; a threshold is at most the list's entries.
SignedInv ==
  /\ \A g \in Signings : sgn[g] # NoSigning => sgn[g].by \in declared[sgn[g].of]
  /\ \A d \in Drafts : /\ signed[d] \subseteq declared[d]
                       /\ required[d] <= listed[d]
                       /\ dStatus[d] = "absent" => signed[d] = {} /\ ~SigningOf(d)

DecisionInv == DecisionTypeOK /\ SignedInv /\ SealedByQuorum

\* A threshold is at most the entries of the list.
LEMMA ThresholdBounds ==
  ASSUME NEW k \in 1 .. MaxListed, NEW n \in 1 .. MaxListed
  PROVE  Threshold(k, n) \in 0 .. MaxListed /\ Threshold(k, n) <= n
<1> QED
  BY DecisionAssumption DEF Threshold

\* The initial states satisfy the invariant.
LEMMA DecisionInvInit == Init => DecisionInv
<1> SUFFICES ASSUME Init PROVE DecisionInv
  OBVIOUS
<1> USE DecisionAssumption DEF Init, DInit
<1>1. DecisionTypeOK
  BY DEF DecisionTypeOK
<1>2. SignedInv
  BY DEF SignedInv, SigningOf
<1>3. SealedByQuorum
  BY DEF SealedByQuorum
<1> QED
  BY <1>1, <1>2, <1>3 DEF DecisionInv

\* A draft's first turn, whole or cut short by a death.
LEMMA DecisionInvDrafts ==
  ASSUME DecisionInv, NEW d \in Drafts, Draft(d) \/ DeathDrafting(d)
  PROVE  DecisionInv'
<1>1. PICK S \in SUBSET Signers, n \in 1 .. MaxListed, k \in 1 .. MaxListed :
        /\ declared' = [declared EXCEPT ![d] = S] /\ listed' = [listed EXCEPT ![d] = n]
        /\ required' = [required EXCEPT ![d] = Threshold(k, n)]
  BY DEF Draft, DeathDrafting
<1>2. /\ dStatus[d] = "absent" /\ dStatus' = [dStatus EXCEPT ![d] = "draft"]
      /\ sgn' = sgn \/ sgn' = [g \in Signings |-> NoSigning]
      /\ UNCHANGED <<signed, sealedBy>>
  BY DEF Draft, DeathDrafting, SigningsLost
<1>3. Threshold(k, n) \in 0 .. MaxListed /\ Threshold(k, n) <= n /\ n \in 0 .. MaxListed
  BY ThresholdBounds, DecisionAssumption
<1>4. DecisionTypeOK'
  <2>1. sgn' \in [Signings -> [at : {"verifying"}, by : Signers, of : Drafts] \cup {NoSigning}]
    BY <1>2 DEF DecisionInv, DecisionTypeOK
  <2> QED
    BY <1>1, <1>2, <1>3, <2>1 DEF DecisionInv, DecisionTypeOK
<1>5. SignedInv'
  <2>1. signed[d] = {} /\ \A g \in Signings : sgn[g] # NoSigning => sgn[g].of # d
    BY <1>2 DEF DecisionInv, SignedInv, SigningOf
  <2>2. ASSUME NEW g \in Signings, sgn'[g] # NoSigning
        PROVE  sgn'[g] = sgn[g] /\ sgn[g].of # d /\ sgn[g].by \in declared'[sgn[g].of]
    <3>1. sgn'[g] = sgn[g]
      BY <1>2, <2>2
    <3>2. sgn[g].of \in Drafts /\ sgn[g].of # d
      BY <2>1, <2>2, <3>1 DEF DecisionInv, DecisionTypeOK
    <3> QED
      BY <1>1, <2>2, <3>1, <3>2 DEF DecisionInv, DecisionTypeOK, SignedInv
  <2>3. ASSUME NEW e \in Drafts
        PROVE  /\ signed[e] \subseteq declared'[e] /\ required'[e] <= listed'[e]
               /\ dStatus'[e] = "absent" => signed[e] = {} /\ ~SigningOf(e)'
    <3>1. CASE e = d
      BY <1>1, <1>2, <1>3, <2>1, <3>1 DEF DecisionInv, DecisionTypeOK
    <3>2. CASE e # d
      <4>1. ~SigningOf(e) => ~SigningOf(e)'
        BY <2>2 DEF SigningOf
      <4> QED
        BY <1>1, <1>2, <3>2, <4>1 DEF DecisionInv, DecisionTypeOK, SignedInv
    <3> QED
      BY <3>1, <3>2
  <2> QED
    BY <1>2, <2>2, <2>3 DEF SignedInv
<1>6. SealedByQuorum'
  BY <1>1, <1>2 DEF DecisionInv, DecisionTypeOK, SealedByQuorum
<1> QED
  BY <1>4, <1>5, <1>6 DEF DecisionInv

\* A signature's way: its look at the draft, its write, its refusal.
LEMMA DecisionInvSigns ==
  ASSUME DecisionInv, NEW g \in Signings,
         Sign(g) \/ StoreDecisionSignature(g) \/ RefuseSigning(g)
  PROVE  DecisionInv'
<1>1. UNCHANGED <<dStatus, declared, listed, required, sealedBy>>
  BY DEF Sign, StoreDecisionSignature, RefuseSigning, draftRows
<1>2. CASE Sign(g)
  <2>1. PICK a \in Signers, d \in Drafts :
          /\ dStatus[d] = "draft" /\ a \in declared[d]
          /\ sgn' = [sgn EXCEPT ![g] = [at |-> "verifying", by |-> a, of |-> d]]
    BY <1>2 DEF Sign, MaySign
  <2>2. signed' = signed
    BY <1>2 DEF Sign
  <2>3. DecisionTypeOK'
    BY <1>1, <2>1, <2>2 DEF DecisionInv, DecisionTypeOK
  <2>4. \A h \in Signings : h # g => sgn'[h] = sgn[h]
    BY <2>1 DEF DecisionInv, DecisionTypeOK
  <2>5. sgn'[g].by = a /\ sgn'[g].of = d
    BY <2>1 DEF DecisionInv, DecisionTypeOK
  <2>6. \A h \in Signings : sgn'[h] # NoSigning => sgn'[h].by \in declared[sgn'[h].of]
    BY <2>1, <2>4, <2>5 DEF DecisionInv, SignedInv
  <2>7. \A e \in Drafts : dStatus[e] = "absent" /\ ~SigningOf(e) => ~SigningOf(e)'
    BY <2>1, <2>4, <2>5 DEF SigningOf
  <2>8. SignedInv'
    BY <1>1, <2>2, <2>6, <2>7 DEF DecisionInv, SignedInv
  <2> QED
    BY <1>1, <2>3, <2>8 DEF DecisionInv, SealedByQuorum
<1>3. CASE StoreDecisionSignature(g) \/ RefuseSigning(g)
  <2>1. sgn[g] # NoSigning /\ sgn' = [sgn EXCEPT ![g] = NoSigning]
    BY <1>3 DEF StoreDecisionSignature, RefuseSigning
  <2>2. /\ sgn[g].of \in Drafts /\ sgn[g].by \in declared[sgn[g].of]
        /\ dStatus[sgn[g].of] # "absent"
    BY <2>1 DEF DecisionInv, DecisionTypeOK, SignedInv, SigningOf
  <2>3. \/ signed' = signed
        \/ signed' = [signed EXCEPT ![sgn[g].of] = @ \cup {sgn[g].by}]
    BY <1>3 DEF StoreDecisionSignature, RefuseSigning
  <2>4. DecisionTypeOK'
    BY <1>1, <2>1, <2>2, <2>3 DEF DecisionInv, DecisionTypeOK
  <2>5. \A h \in Signings : sgn'[h] # NoSigning => sgn'[h] = sgn[h]
    BY <2>1 DEF DecisionInv, DecisionTypeOK
  <2>6. \A e \in Drafts : ~SigningOf(e) => ~SigningOf(e)'
    BY <2>5 DEF SigningOf
  <2>7. \A e \in Drafts : /\ signed'[e] \subseteq declared[e]
                          /\ dStatus[e] = "absent" => signed'[e] = {}
    BY <2>2, <2>3 DEF DecisionInv, DecisionTypeOK, SignedInv
  <2>8. SignedInv'
    BY <1>1, <2>5, <2>6, <2>7 DEF DecisionInv, SignedInv
  <2> QED
    BY <1>1, <2>4, <2>8 DEF DecisionInv, SealedByQuorum
<1> QED
  BY <1>2, <1>3

\* A seal counts the signatures that are there; a cancellation counts nothing.
LEMMA DecisionInvSeals ==
  ASSUME DecisionInv, NEW d \in Drafts, SealDecision(d) \/ CancelDecision(d)
  PROVE  DecisionInv'
<1>1. /\ UNCHANGED <<sgn, declared, listed, required, signed>>
      /\ \/ /\ Cardinality(signed[d]) >= required[d]
            /\ dStatus' = [dStatus EXCEPT ![d] = "sealed"]
            /\ sealedBy' = [sealedBy EXCEPT ![d] = signed[d]]
         \/ dStatus' = [dStatus EXCEPT ![d] = "cancelled"] /\ sealedBy' = sealedBy
  BY DEF SealDecision, CancelDecision, draftRows
<1>2. DecisionTypeOK'
  BY <1>1 DEF DecisionInv, DecisionTypeOK
<1>3. SignedInv'
  BY <1>1 DEF DecisionInv, DecisionTypeOK, SignedInv, SigningOf
<1>4. SealedByQuorum'
  BY <1>1 DEF DecisionInv, DecisionTypeOK, SignedInv, SealedByQuorum
<1> QED
  BY <1>2, <1>3, <1>4 DEF DecisionInv

\* A step that leaves the decisions alone, or only loses the requests in flight.
LEMMA DecisionInvIdle ==
  ASSUME DecisionInv, UNCHANGED dVars \/ DeathQuiet
  PROVE  DecisionInv'
<1>1. /\ sgn' = sgn \/ sgn' = [g \in Signings |-> NoSigning]
      /\ UNCHANGED <<dStatus, declared, listed, required, signed, sealedBy>>
  BY DEF dVars, draftRows, DeathQuiet, SigningsLost
<1>2. \A g \in Signings : sgn'[g] # NoSigning => sgn'[g] = sgn[g]
  BY <1>1
<1>3. DecisionTypeOK'
  BY <1>1 DEF DecisionInv, DecisionTypeOK
<1>4. SignedInv'
  <2>1. \A e \in Drafts : ~SigningOf(e) => ~SigningOf(e)'
    BY <1>2 DEF SigningOf
  <2> QED
    BY <1>1, <1>2, <2>1 DEF DecisionInv, SignedInv
<1>5. SealedByQuorum'
  BY <1>1 DEF DecisionInv, SealedByQuorum
<1> QED
  BY <1>3, <1>4, <1>5 DEF DecisionInv

\* Every step keeps the decisions' invariant.
LEMMA DecisionInvNext == DecisionInv /\ [Next]_vars => DecisionInv'
<1> SUFFICES ASSUME DecisionInv, [Next]_vars PROVE DecisionInv'
  OBVIOUS
<1>1. CASE DecisionsNext
  BY <1>1, DecisionInvDrafts, DecisionInvSigns, DecisionInvSeals DEF DecisionsNext
<1>2. CASE UNCHANGED dVars
  BY <1>2, DecisionInvIdle
<1>3. CASE Kill
  BY <1>3, DecisionInvIdle, DecisionInvDrafts DEF Kill
<1> QED
  BY <1>1, <1>2, <1>3 DEF Next, vars

(***************************************************************************)
(* Requests.                                                               *)
(***************************************************************************)

\* A request that is verified and has not waited has a timely timestamp.
TimelyInv ==
  \A r \in Requests : pc[r] = "verifying" => waited[r] \/ Timely(msg[r])

\* A request that passed did so in the past, and its nonce is on file for the window.
NonceInv ==
  \A r \in Passed :
    /\ passed[r] <= now
    /\ \/ \E e \in nonces[msg[r].nonce] : e >= passed[r] + Tick * Window
       \/ now > passed[r] + Tick * Window

\* A response is kept for an answered request's key and endpoint, and is that of one.
KeptInv ==
  /\ \A r \in Requests : pc[r] = "answered" => key[r] = Nothing \/ Kept(r) # {}
  /\ \A k \in Keys, e \in Endpoints : \A r \in kept[k][e] :
       pc[r] = "answered" /\ key[r] = k /\ msg[r].endpoint = e

\* What had been written when a key was found free was torn; a proposal is proposed.
BeforeInv ==
  /\ \A q \in Requests : pc[q] = "proposing" => msg[q].endpoint = "propose"
  /\ \A q \in Requests : pc[q] \in {"proposing", "answered", "torn"} => \A r \in before[q] :
       r \in Written /\ r # q /\ (SameKey(r, q) => pc[r] = "torn")

RequestInv ==
  /\ RequestTypeOK /\ TimelyInv /\ NonceInv /\ KeptInv /\ BeforeInv
  /\ PassesOnce /\ KeyWritesOnce

\* The initial states satisfy the invariant.
LEMMA RequestInvInit == Init => RequestInv
<1> SUFFICES ASSUME Init PROVE RequestInv
  OBVIOUS
<1> USE DEF Init, RInit
<1>1. RequestTypeOK
  BY DEF RequestTypeOK
<1>2. TimelyInv /\ NonceInv /\ PassesOnce
  BY DEF TimelyInv, NonceInv, PassesOnce, Passed
<1>3. KeptInv /\ BeforeInv /\ KeyWritesOnce
  BY DEF KeptInv, BeforeInv, KeyWritesOnce, Written
<1> QED
  BY <1>1, <1>2, <1>3 DEF RequestInv

\* A timestamp's window ends a window after its second.
LEMMA WindowTicks ==
  /\ Tick * Window \in Nat
  /\ \A s \in Nat : Tick * (s + 1) \in Nat
       /\ Tick * (s + Window + 1) = Tick * (s + 1) + Tick * Window
BY RequestAssumption

\* A request's step that leaves the nonces, the responses and the written ones alone keeps
\* the invariant, if it moves no request into the handlers and none away from the answers.
LEMMA RequestInvMoves ==
  ASSUME RequestInv, RequestTypeOK', TimelyInv',
         UNCHANGED <<nonces, kept, passed, before>>, now' = now \/ now' = now + 1,
         \A r \in Requests :
           \/ pc'[r] = pc[r] /\ (pc[r] # "idle" => msg'[r] = msg[r] /\ key'[r] = key[r])
                /\ (pc[r] # "verifying" => waited'[r] = waited[r])
           \/ pc[r] = "idle" /\ pc'[r] = "verifying"
           \/ pc[r] = "verifying" /\ pc'[r] = "unheard"
           \/ /\ pc[r] = "proposing" /\ pc'[r] = "refused"
              /\ msg'[r] = msg[r] /\ key'[r] = key[r] /\ waited'[r] = waited[r]
  PROVE  RequestInv'
<1> USE DEF RequestInv, RequestTypeOK
<1>1. Passed' = Passed /\ Written' = Written
  BY DEF Passed, Written
<1>2. \A r \in Passed : msg'[r] = msg[r] /\ key'[r] = key[r] /\ waited'[r] = waited[r]
  BY DEF Passed
<1>3. NonceInv'
  <2> SUFFICES ASSUME NEW r \in Passed
               PROVE  /\ passed[r] <= now'
                      /\ \/ \E e \in nonces[msg[r].nonce] : e >= passed[r] + Tick * Window
                         \/ now' > passed[r] + Tick * Window
    BY <1>1, <1>2 DEF NonceInv
  <2>1. /\ passed[r] <= now
        /\ \/ \E e \in nonces[msg[r].nonce] : e >= passed[r] + Tick * Window
           \/ now > passed[r] + Tick * Window
    BY DEF NonceInv
  <2>2. now \in Nat /\ passed[r] \in Nat /\ (now' = now \/ now' = now + 1)
    BY DEF Passed
  <2> HIDE DEF RequestInv, RequestTypeOK
  <2> QED
    BY <2>1, <2>2, WindowTicks
<1>4. KeptInv'
  <2>1. ASSUME NEW r \in Requests, pc'[r] = "answered" PROVE (key[r] = Nothing \/ Kept(r) # {})'
    <3>1. pc[r] = "answered" /\ msg'[r] = msg[r] /\ key'[r] = key[r]
      BY <2>1
    <3>2. key[r] = Nothing \/ Kept(r) # {}
      BY <3>1 DEF KeptInv
    <3>3. kept' = kept
      OBVIOUS
    <3> HIDE DEF RequestInv, RequestTypeOK
    <3> QED
      BY <3>1, <3>2, <3>3 DEF Kept
  <2>2. ASSUME NEW k \in Keys, NEW e \in Endpoints, NEW r \in kept[k][e]
        PROVE  pc'[r] = "answered" /\ key'[r] = k /\ msg'[r].endpoint = e
    BY <2>2 DEF KeptInv
  <2> QED
    BY <2>1, <2>2 DEF KeptInv
<1>5. BeforeInv'
  <2> SUFFICES ASSUME NEW q \in Requests, pc'[q] \in {"proposing", "answered", "torn"},
                      NEW r \in before[q]
               PROVE  r \in Written' /\ r # q /\ (SameKey(r, q)' => pc'[r] = "torn")
    <3>1. \A p \in Requests : pc'[p] = "proposing" => msg'[p].endpoint = "propose"
      BY <1>2 DEF BeforeInv, Passed
    <3> QED
      BY <3>1 DEF BeforeInv
  <2>1. pc[q] = pc'[q] /\ q \in Passed
    BY DEF Passed
  <2>2. r \in Written /\ r \in Passed /\ r # q /\ (SameKey(r, q) => pc[r] = "torn")
    BY <2>1 DEF BeforeInv, Written, Passed
  <2>3. SameKey(r, q)' <=> SameKey(r, q)
    BY <1>2, <2>1, <2>2 DEF SameKey
  <2> QED
    BY <1>1, <2>2, <2>3 DEF Written
<1>6. PassesOnce'
  BY <1>1, <1>2 DEF PassesOnce, Passed
<1>7. KeyWritesOnce'
  <2>1. \A r, q \in Passed : SameKey(r, q)' <=> SameKey(r, q)
    BY <1>2 DEF SameKey
  <2>2. \A r \in Written : r \in Passed /\ msg'[r] = msg[r] /\ pc'[r] = pc[r]
    BY <1>2 DEF Written, Passed
  <2>3. \A r \in Requests : pc'[r] = "repeated" => pc[r] = "repeated" /\ r \in Passed
    BY DEF Passed
  <2>4. \A q \in Requests : pc[q] = "answered" => pc'[q] = "answered" /\ q \in Passed
    BY DEF Passed
  <2>5. \A r \in Requests : pc'[r] = "repeated" =>
          \E q \in Requests : pc'[q] = "answered" /\ SameKey(r, q)'
    BY <2>1, <2>3, <2>4 DEF KeyWritesOnce
  <2> QED
    BY <1>1, <2>1, <2>2, <2>5 DEF KeyWritesOnce
<1> QED
  BY <1>3, <1>4, <1>5, <1>6, <1>7

\* A request that passes did not pass before, and its copies passed a window ago.
LEMMA RequestPasses ==
  ASSUME RequestInv, NEW r \in Requests,
         Authenticate(r), \A q \in Requests \ {r} : q \in Passed' <=> q \in Passed,
         pc'[r] \in {"proposing", "refused", "repeated", "answered", "torn"}
  PROVE  NonceInv' /\ PassesOnce' /\ Passed' = Passed \cup {r}
<1> USE DEF RequestInv, RequestTypeOK
<1>1. /\ pc[r] = "verifying" /\ r \notin Passed
      /\ msg[r] \in Messages /\ msg[r].nonce \in Nonces
  BY DEF Authenticate, Passed, Messages
<1>2. Passed' = Passed \cup {r}
  BY DEF Passed
<1>3. /\ UNCHANGED <<now, msg, waited>> /\ passed' = [passed EXCEPT ![r] = now]
      /\ nonces[msg[r].nonce] = {}
      /\ nonces' = [nonces EXCEPT ![msg[r].nonce] = {now + Tick * Window}]
  BY DEF Authenticate, NonceExpiry, message
<1>4. \A q \in Passed : q # r /\ passed'[q] = passed[q] /\ msg[q] \in Messages
  BY <1>1, <1>3 DEF Passed
<1>5. NonceInv'
  <2> SUFFICES ASSUME NEW q \in Passed'
               PROVE  /\ passed'[q] <= now
                      /\ \/ \E e \in nonces'[msg[q].nonce] : e >= passed'[q] + Tick * Window
                         \/ now > passed'[q] + Tick * Window
    BY <1>3 DEF NonceInv
  <2>1. CASE q = r
    <3>1. passed'[q] = now /\ nonces'[msg[q].nonce] = {now + Tick * Window}
      BY <1>1, <1>3, <2>1
    <3>2. now \in Nat /\ now + Tick * Window >= now + Tick * Window
      BY WindowTicks
    <3> QED
      BY <3>1, <3>2
  <2>2. CASE q \in Passed /\ msg[q].nonce = msg[r].nonce
    BY <1>3, <1>4, <2>2 DEF NonceInv
  <2>3. CASE q \in Passed /\ msg[q].nonce # msg[r].nonce
    BY <1>3, <1>4, <2>3 DEF NonceInv, Messages
  <2> QED
    BY <1>2, <2>1, <2>2, <2>3
<1>6. ASSUME NEW q \in Passed, msg[q] = msg[r]
      PROVE  /\ now > passed[q] + Tick * Window
             /\ passed[q] < Tick * (msg[q].stamp + 1) \/ waited[r]
  <2>1. now > passed[q] + Tick * Window
    BY <1>3, <1>6 DEF NonceInv
  <2>2. waited[r] \/ now < Tick * (msg[r].stamp + Window + 1)
    BY <1>1 DEF TimelyInv, Timely
  <2>3. passed[q] \in Nat /\ now \in Nat /\ msg[q].stamp \in Nat
    BY <1>1, <1>6, RequestAssumption DEF Passed, Messages
  <2>4. ~waited[r] => now < Tick * (msg[q].stamp + 1) + Tick * Window
    BY <1>6, <2>2, <2>3, WindowTicks
  <2> QED
    BY <2>1, <2>3, <2>4, WindowTicks
<1>7. PassesOnce'
  <2> SUFFICES ASSUME NEW p \in Passed', NEW q \in Passed', p # q, msg[p] = msg[q],
                      passed'[p] <= passed'[q]
               PROVE  /\ passed'[q] > passed'[p] + Tick * Window
                      /\ passed'[p] < Tick * (msg[p].stamp + 1) \/ waited[q]
    BY <1>3 DEF PassesOnce
  <2>1. CASE q = r
    BY <1>2, <1>3, <1>4, <1>6, <2>1
  <2>2. CASE p = r
    <3>1. q \in Passed /\ now > passed[q] + Tick * Window /\ passed'[p] = now
      BY <1>2, <1>3, <1>6, <2>2
    <3>2. now \in Nat /\ passed[q] \in Nat /\ now <= passed[q]
      BY <1>4, <3>1 DEF Passed
    <3> QED
      BY <3>1, <3>2, WindowTicks
  <2>3. CASE p \in Passed /\ q \in Passed
    BY <1>4, <2>3 DEF PassesOnce
  <2> QED
    BY <1>2, <2>1, <2>2, <2>3
<1> QED
  BY <1>2, <1>5, <1>7

\* A request that finds no response kept for its key finds only torn requests of it.
LEMMA RequestLooks ==
  ASSUME RequestInv, NEW r \in Requests, Kept(r) = {}, NEW q \in Written, SameKey(q, r)
  PROVE  pc[q] = "torn"
<1>1. Kept(q) = Kept(r) /\ key[q] # Nothing
  BY DEF SameKey, Kept
<1> QED
  BY <1>1 DEF RequestInv, KeptInv, Written

\* A request that passes and writes nothing yet leaves the responses and the written
\* requests as they are; what it repeats was kept for an answered request.
LEMMA RequestPassesOn ==
  ASSUME RequestInv, NEW r \in Requests, pc[r] = "verifying", UNCHANGED <<msg, key, kept>>,
         \A q \in Requests \ {r} : pc'[q] = pc[q] /\ before'[q] = before[q],
         \/ pc'[r] = "refused"
         \/ pc'[r] = "repeated" /\ Kept(r) # {}
         \/ /\ pc'[r] = "proposing" /\ Kept(r) = {} /\ msg[r].endpoint = "propose"
            /\ before'[r] = Written
  PROVE  KeptInv' /\ BeforeInv' /\ KeyWritesOnce'
<1> USE DEF RequestInv, RequestTypeOK
<1>1. Written' = Written /\ r \notin Written
  BY DEF Written
<1>2. \A p, q \in Requests : SameKey(p, q)' <=> SameKey(p, q)
  BY DEF SameKey
<1>3. KeptInv'
  BY DEF KeptInv, Kept
<1>4. BeforeInv'
  <2>1. \A q \in Requests : pc'[q] = "proposing" => msg'[q].endpoint = "propose"
    BY DEF BeforeInv
  <2>2. ASSUME NEW q \in Requests \ {r}, pc'[q] \in {"proposing", "answered", "torn"},
               NEW p \in before'[q]
        PROVE  p \in Written /\ p # q /\ (SameKey(p, q) => pc'[p] = "torn")
    BY <1>1, <2>2 DEF BeforeInv
  <2>3. ASSUME pc'[r] = "proposing", NEW p \in before'[r]
        PROVE  p \in Written /\ p # r /\ (SameKey(p, r) => pc'[p] = "torn")
    <3>1. p \in Written /\ p \in Requests /\ p # r
      BY <1>1, <2>3 DEF Written
    <3> QED
      BY <2>3, <3>1, RequestLooks
  <2>4. \A q \in Requests : pc'[q] \in {"proposing", "answered", "torn"} =>
          \A p \in before'[q] : p \in Written' /\ p # q /\ (SameKey(p, q)' => pc'[p] = "torn")
    <3> SUFFICES ASSUME NEW q \in Requests, pc'[q] \in {"proposing", "answered", "torn"},
                        NEW p \in before'[q]
                 PROVE  p \in Written' /\ p # q /\ (SameKey(p, q)' => pc'[p] = "torn")
      OBVIOUS
    <3>1. p \in Written /\ p # q /\ (SameKey(p, q) => pc'[p] = "torn")
      BY <2>2, <2>3
    <3> QED
      BY <1>1, <1>2, <3>1 DEF Written
  <2> QED
    BY <2>1, <2>4 DEF BeforeInv
<1>5. KeyWritesOnce'
  <2>1. ASSUME pc'[r] = "repeated"
        PROVE  \E q \in Requests : pc'[q] = "answered" /\ SameKey(r, q)
    <3>1. PICK q \in Kept(r) : TRUE
      BY <2>1
    <3>2. /\ key[r] \in Keys /\ key[r] # Nothing /\ msg[r].endpoint \in Endpoints
          /\ q \in kept[key[r]][msg[r].endpoint]
      BY <3>1 DEF Kept, Messages
    <3>3. q \in Requests /\ pc[q] = "answered" /\ SameKey(r, q)
      BY <3>2 DEF KeptInv, SameKey
    <3> QED
      BY <3>3
  <2>2. ASSUME NEW p \in Requests \ {r}, pc'[p] = "repeated"
        PROVE  \E q \in Requests : pc'[q] = "answered" /\ SameKey(p, q)
    BY <2>2 DEF KeyWritesOnce
  <2>3. \A p, q \in Written : before'[p] = before[p] /\ pc'[p] = pc[p]
    BY <1>1 DEF Written
  <2> QED
    BY <1>1, <1>2, <2>1, <2>2, <2>3 DEF KeyWritesOnce, Written
<1> QED
  BY <1>3, <1>4, <1>5

\* Keep adds the request to what is kept for its key and endpoint, if nothing is.
LEMMA KeepKeeps ==
  ASSUME RequestTypeOK, NEW r \in Requests, msg[r] \in Messages, NEW k \in Keys, NEW e \in Endpoints
  PROVE  /\ kept[k][e] # {} => Keep(r)[k][e] = kept[k][e]
         /\ key[r] = k /\ msg[r].endpoint = e /\ kept[k][e] = {} => Keep(r)[k][e] = {r}
         /\ ~(key[r] = k /\ msg[r].endpoint = e) => Keep(r)[k][e] = kept[k][e]
<1>1. k # Nothing
  BY RequestAssumption
<1>2. CASE key[r] = Nothing
  BY <1>1, <1>2 DEF Keep
<1>3. CASE key[r] # Nothing
  <2> DEFINE at == kept[key[r]][msg[r].endpoint]
  <2>1. key[r] \in Keys /\ msg[r].endpoint \in Endpoints
    BY <1>3 DEF RequestTypeOK, Messages
  <2>2. Keep(r) = [kept EXCEPT ![key[r]] =
                     [kept[key[r]] EXCEPT ![msg[r].endpoint] = IF at = {} THEN {r} ELSE at]]
    BY <1>3 DEF Keep
  <2> QED
    BY <2>1, <2>2 DEF RequestTypeOK
<1> QED
  BY <1>2, <1>3

\* What is kept stays typed.
LEMMA KeepTyped ==
  ASSUME RequestTypeOK, NEW r \in Requests, msg[r] \in Messages
  PROVE  Keep(r) \in [Keys -> [Endpoints -> SUBSET Requests]]
<1>1. CASE key[r] = Nothing
  BY <1>1 DEF Keep, RequestTypeOK
<1>2. CASE key[r] # Nothing
  <2> DEFINE new == IF kept[key[r]][msg[r].endpoint] = {} THEN {r}
                    ELSE kept[key[r]][msg[r].endpoint]
  <2>1. key[r] \in Keys /\ msg[r].endpoint \in Endpoints
    BY <1>2 DEF RequestTypeOK, Messages
  <2>2. new \in SUBSET Requests
    BY <2>1 DEF RequestTypeOK
  <2>3. [kept[key[r]] EXCEPT ![msg[r].endpoint] = new] \in [Endpoints -> SUBSET Requests]
    BY <2>1, <2>2 DEF RequestTypeOK
  <2>4. Keep(r) = [kept EXCEPT ![key[r]] = [kept[key[r]] EXCEPT ![msg[r].endpoint] = new]]
    BY <1>2 DEF Keep
  <2> HIDE DEF new
  <2> QED
    BY <2>3, <2>4 DEF RequestTypeOK
<1> QED
  BY <1>1, <1>2

\* A request that writes: those of its key that wrote before it looked are torn, those that
\* wrote since are proposals like it, and no other has it among those before.
LEMMA RequestWrites ==
  ASSUME RequestInv, NEW r \in Requests, UNCHANGED <<msg, key>>,
         before' \in [Requests -> SUBSET Requests],
         kept' \in [Keys -> [Endpoints -> SUBSET Requests]],
         \A q \in Requests \ {r} :
           /\ \/ pc'[q] = pc[q]
              \/ pc[q] = "verifying" /\ pc'[q] = "unheard"
              \/ pc[q] = "proposing" /\ pc'[q] = "refused"
           /\ before'[q] = before[q],
         \/ pc[r] = "proposing" /\ before'[r] = before[r]
         \/ pc[r] = "verifying" /\ before'[r] = Written /\ Kept(r) = {},
         \/ pc'[r] = "answered" /\ kept' = Keep(r)
         \/ pc'[r] = "torn" /\ kept' = kept
  PROVE  KeptInv' /\ BeforeInv' /\ KeyWritesOnce'
<1> USE DEF RequestInv, RequestTypeOK
<1>1. Written' = Written \cup {r} /\ r \notin Written
  BY DEF Written
<1>2. \A p, q \in Requests : SameKey(p, q)' <=> SameKey(p, q)
  BY DEF SameKey
<1>3. \A q \in Written : pc'[q] = pc[q] /\ before'[q] = before[q] /\ q \in Requests /\ q # r
  BY <1>1 DEF Written
<1>4. msg[r] \in Messages /\ msg[r].endpoint \in Endpoints
  BY DEF Messages
<1>5. KeptInv'
  <2>1. ASSUME NEW q \in Requests, pc'[q] = "answered", key[q] # Nothing
        PROVE  kept'[key[q]][msg[q].endpoint] # {}
    <3>1. key[q] \in Keys /\ msg[q] \in Messages /\ msg[q].endpoint \in Endpoints
      BY <2>1 DEF Messages
    <3>2. CASE q # r
      <4>1. pc[q] = "answered"
        BY <2>1, <3>2
      <4>2. kept[key[q]][msg[q].endpoint] # {}
        BY <2>1, <4>1 DEF KeptInv, Kept
      <4> QED
        BY <1>4, <3>1, <4>2, KeepKeeps
    <3>3. CASE q = r
      <4>1. kept' = Keep(r)
        BY <2>1, <3>3
      <4>2. ASSUME NEW k \in Keys, NEW e \in Endpoints, key[r] = k, msg[r].endpoint = e
            PROVE  Keep(r)[k][e] # {}
        <5>1. /\ kept[k][e] # {} => Keep(r)[k][e] = kept[k][e]
              /\ kept[k][e] = {} => Keep(r)[k][e] = {r}
          BY <1>4, <4>2, KeepKeeps
        <5> QED
          BY <5>1
      <4> QED
        BY <3>1, <3>3, <4>1, <4>2
    <3> QED
      BY <3>2, <3>3
  <2>2. ASSUME NEW k \in Keys, NEW e \in Endpoints, NEW q \in kept'[k][e]
        PROVE  pc'[q] = "answered" /\ key[q] = k /\ msg[q].endpoint = e
    <3>1. CASE q \in kept[k][e]
      <4>1. pc[q] = "answered" /\ key[q] = k /\ msg[q].endpoint = e /\ q \in Written
        BY <3>1 DEF KeptInv, Written
      <4> QED
        BY <1>3, <4>1
    <3>2. CASE q \notin kept[k][e]
      <4>1. kept' = Keep(r) /\ pc'[r] = "answered" /\ key[r] # Nothing
        BY <2>2, <3>2 DEF Keep
      <4>2. q = r /\ k = key[r] /\ e = msg[r].endpoint
        BY <1>4, <2>2, <3>2, <4>1, KeepKeeps
      <4> QED
        BY <4>1, <4>2
    <3> QED
      BY <3>1, <3>2
  <2>3. \A q \in Requests : pc'[q] = "answered" => key'[q] = Nothing \/ Kept(q)' # {}
    BY <2>1 DEF Kept
  <2>4. \A k \in Keys, e \in Endpoints : \A q \in kept'[k][e] :
          pc'[q] = "answered" /\ key'[q] = k /\ msg'[q].endpoint = e
    BY <2>2
  <2> QED
    BY <2>3, <2>4 DEF KeptInv
<1>6. \A p \in before'[r] : p \in Written /\ p # r /\ (SameKey(p, r) => pc[p] = "torn")
  <2>1. CASE pc[r] = "proposing"
    BY <2>1 DEF BeforeInv
  <2>2. CASE pc[r] = "verifying"
    <3> SUFFICES ASSUME NEW p \in Written PROVE p # r /\ (SameKey(p, r) => pc[p] = "torn")
      BY <2>2
    <3> QED
      BY <1>3, <2>2, RequestLooks
  <2> QED
    BY <2>1, <2>2
<1>7. BeforeInv'
  <2>1. \A q \in Requests : pc'[q] = "proposing" => msg'[q].endpoint = "propose"
    BY DEF BeforeInv
  <2>2. ASSUME NEW q \in Requests \ {r}, pc'[q] \in {"proposing", "answered", "torn"},
               NEW p \in before'[q]
        PROVE  p \in Written /\ p # q /\ (SameKey(p, q) => pc'[p] = "torn")
    <3>1. pc[q] = pc'[q] /\ p \in before[q]
      BY <2>2
    <3>2. p \in Written /\ p # q /\ (SameKey(p, q) => pc[p] = "torn")
      BY <2>2, <3>1 DEF BeforeInv
    <3> QED
      BY <1>3, <3>2
  <2>3. \A q \in Requests : pc'[q] \in {"proposing", "answered", "torn"} =>
          \A p \in before'[q] : p \in Written' /\ p # q /\ (SameKey(p, q)' => pc'[p] = "torn")
    <3> SUFFICES ASSUME NEW q \in Requests, pc'[q] \in {"proposing", "answered", "torn"},
                        NEW p \in before'[q]
                 PROVE  p \in Written' /\ p # q /\ (SameKey(p, q)' => pc'[p] = "torn")
      OBVIOUS
    <3>1. p \in Written /\ p # q /\ (SameKey(p, q) => pc'[p] = "torn")
      <4>1. CASE q = r
        BY <1>3, <1>6, <4>1
      <4>2. CASE q # r
        BY <2>2, <4>2
      <4> QED
        BY <4>1, <4>2
    <3> QED
      BY <1>1, <1>2, <1>3, <3>1
  <2> QED
    BY <2>1, <2>3 DEF BeforeInv
<1>8. ASSUME NEW q \in Written, SameKey(q, r)
      PROVE  \/ msg[r].endpoint = "propose" /\ r \notin before[q] /\ q \notin before'[r]
             \/ q \in before'[r] /\ pc[q] = "torn"
  <2>1. r \notin before[q]
    BY <1>1, <1>3 DEF BeforeInv, Written
  <2>2. CASE q \in before'[r]
    BY <1>6, <1>8, <2>2
  <2>3. CASE q \notin before'[r]
    BY <1>8, <2>1, <2>3 DEF BeforeInv
  <2> QED
    BY <2>2, <2>3
<1>9. KeyWritesOnce'
  <2>1. ASSUME NEW p \in Requests, pc'[p] = "repeated"
        PROVE  \E q \in Requests : pc'[q] = "answered" /\ SameKey(p, q)
    <3>1. pc[p] = "repeated"
      BY <2>1
    <3>2. PICK q \in Requests : pc[q] = "answered" /\ SameKey(p, q)
      BY <3>1 DEF KeyWritesOnce
    <3> QED
      BY <1>3, <3>2 DEF Written
  <2>2. ASSUME NEW p \in Written', NEW q \in Written', p # q, SameKey(p, q)
        PROVE  \/ msg[p].endpoint = "propose" /\ p \notin before'[q] /\ q \notin before'[p]
               \/ p \in before'[q] /\ pc'[p] = "torn"
               \/ q \in before'[p] /\ pc'[q] = "torn"
    <3>1. CASE p = r
      BY <1>1, <1>3, <1>8, <2>2, <3>1 DEF SameKey
    <3>2. CASE q = r
      BY <1>1, <1>3, <1>8, <2>2, <3>2 DEF SameKey
    <3>3. CASE p \in Written /\ q \in Written
      BY <1>3, <2>2, <3>3 DEF KeyWritesOnce
    <3> QED
      BY <1>1, <2>2, <3>1, <3>2, <3>3
  <2>3. \A p, q \in Written' : SameKey(p, q)' <=> SameKey(p, q)
    BY <1>2 DEF Written
  <2> QED
    BY <1>2, <2>1, <2>2, <2>3 DEF KeyWritesOnce
<1> QED
  BY <1>5, <1>7, <1>9

\* A request arrives, is refused or dropped, or time passes.
LEMMA RequestInvEnds ==
  ASSUME RequestInv,
         \/ \E r \in Requests : Arrive(r) \/ RefuseUnauthenticated(r) \/ ProposalFails(r)
         \/ TimePasses \/ DeathUnanswered
  PROVE  RequestInv'
<1> USE DEF RequestInv, RequestTypeOK, Goto, message
<1>1. ASSUME NEW r \in Requests, Arrive(r) PROVE RequestInv'
  <2>1. PICK m \in Messages, k \in Keys \cup {Nothing} :
          Timely(m) /\ msg' = [msg EXCEPT ![r] = m] /\ key' = [key EXCEPT ![r] = k]
    BY <1>1 DEF Arrive
  <2>2. RequestTypeOK'
    BY <1>1, <2>1 DEF Arrive
  <2>3. TimelyInv'
    BY <1>1, <2>1 DEF Arrive, TimelyInv, Timely
  <2> QED
    BY <1>1, <2>1, <2>2, <2>3, RequestInvMoves DEF Arrive
<1>2. ASSUME NEW r \in Requests, RefuseUnauthenticated(r) \/ ProposalFails(r) PROVE RequestInv'
  <2>1. RequestTypeOK' /\ TimelyInv'
    BY <1>2 DEF RefuseUnauthenticated, ProposalFails, TimelyInv, Timely
  <2> QED
    BY <1>2, <2>1, RequestInvMoves DEF RefuseUnauthenticated, ProposalFails
<1>3. CASE TimePasses
  <2>1. RequestTypeOK'
    BY <1>3 DEF TimePasses
  <2>2. \A r \in Requests : pc[r] = "verifying" => waited'[r]
    BY <1>3 DEF TimePasses
  <2>3. TimelyInv'
    BY <1>3, <2>2 DEF TimePasses, TimelyInv
  <2> QED
    BY <1>3, <2>1, <2>3, RequestInvMoves DEF TimePasses
<1>4. CASE DeathUnanswered
  <2>1. RequestTypeOK' /\ TimelyInv'
    BY <1>4 DEF DeathUnanswered, Dropped, TimelyInv, Timely
  <2> QED
    BY <1>4, <2>1, RequestInvMoves DEF DeathUnanswered, Dropped
<1> QED
  BY <1>1, <1>2, <1>3, <1>4

\* A pruned nonce expired: the clock is past the window of the request that used it.
LEMMA RequestInvPrunes ==
  ASSUME RequestInv, PruneNonces
  PROVE  RequestInv'
<1> USE DEF RequestInv, RequestTypeOK, PruneNonces, message
<1>1. RequestTypeOK'
  OBVIOUS
<1>2. TimelyInv' /\ KeptInv' /\ BeforeInv' /\ PassesOnce' /\ KeyWritesOnce'
  BY DEF TimelyInv, Timely, KeptInv, Kept, BeforeInv, PassesOnce, KeyWritesOnce, Passed, Written,
         SameKey
<1>3. NonceInv'
  <2> SUFFICES ASSUME NEW r \in Passed, ~(now > passed[r] + Tick * Window)
               PROVE  passed[r] <= now /\ \E e \in nonces'[msg[r].nonce] : e >= passed[r] + Tick * Window
    BY DEF NonceInv, Passed
  <2>1. /\ r \in Requests /\ msg[r].nonce \in Nonces /\ now \in Nat /\ passed[r] \in Nat
    BY RequestAssumption DEF Passed, Messages
  <2>2. PICK e \in nonces[msg[r].nonce] : e >= passed[r] + Tick * Window
    BY <2>1 DEF NonceInv
  <2>3. e \in Nat /\ e >= now
    BY <2>1, <2>2, WindowTicks
  <2> QED
    BY <2>1, <2>2, <2>3 DEF NonceInv
<1> QED
  BY <1>1, <1>2, <1>3

\* A request passes: it is refused, repeats a response or begins to write.
LEMMA RequestInvPasses ==
  ASSUME RequestInv, NEW r \in Requests,
         RepeatResponse(r) \/ RefuseRequest(r) \/ BeginProposal(r)
  PROVE  RequestInv'
<1> USE DEF RequestInv, RequestTypeOK, RepeatResponse, RefuseRequest, BeginProposal, Goto, message
<1>1. Authenticate(r) /\ pc[r] = "verifying" /\ Written \subseteq Requests
  BY DEF Authenticate, Written
<1>2. RequestTypeOK' /\ TimelyInv'
  <2>1. NonceExpiry \in Nat
    BY WindowTicks DEF NonceExpiry
  <2>2. /\ nonces' = [nonces EXCEPT ![msg[r].nonce] = {NonceExpiry}]
        /\ passed' = [passed EXCEPT ![r] = now]
        /\ UNCHANGED <<now, msg, key, waited, kept>>
    BY <1>1 DEF Authenticate
  <2>3. \E w \in {"repeated", "refused", "proposing"} : pc' = [pc EXCEPT ![r] = w]
    OBVIOUS
  <2>4. before' = before \/ before' = [before EXCEPT ![r] = Written]
    OBVIOUS
  <2>5. pc' \in [Requests -> {"idle", "verifying", "unheard", "proposing", "refused",
                              "repeated", "answered", "torn"}]
    BY <2>3
  <2>6. RequestTypeOK'
    BY <1>1, <2>1, <2>2, <2>4, <2>5
  <2>7. \A q \in Requests : pc'[q] = "verifying" => pc[q] = "verifying"
    BY <1>1, <2>3
  <2>8. \A q \in Requests : Timely(msg[q])' <=> Timely(msg[q])
    BY <2>2 DEF Timely
  <2> QED
    BY <2>2, <2>6, <2>7, <2>8 DEF TimelyInv
<1>3. NonceInv' /\ PassesOnce'
  BY <1>1, RequestPasses DEF Passed
<1>4. KeptInv' /\ BeforeInv' /\ KeyWritesOnce'
  BY <1>1, RequestPassesOn DEF Authenticate
<1> QED
  BY <1>2, <1>3, <1>4

\* A request writes: with its response kept, or torn by a death.
LEMMA RequestInvWrites ==
  ASSUME RequestInv, NEW r \in Requests,
         AnswerProposal(r) \/ AnswerDraft(r) \/ DeathAnswering(r)
  PROVE  RequestInv'
<1> USE DEF RequestInv, RequestTypeOK, Goto, message
<1>1. /\ UNCHANGED <<msg, key, now, waited>>
      /\ \/ pc[r] = "proposing" /\ UNCHANGED <<nonces, passed, before>>
         \/ BeginDraft(r)
  BY DEF AnswerProposal, AnswerDraft, DeathAnswering, BeginDraft, Authenticate
<1>2. /\ \A q \in Requests \ {r} :
           \/ pc'[q] = pc[q]
           \/ pc[q] = "verifying" /\ pc'[q] = "unheard"
           \/ pc[q] = "proposing" /\ pc'[q] = "refused"
      /\ pc' \in [Requests -> {"idle", "verifying", "unheard", "proposing", "refused",
                               "repeated", "answered", "torn"}]
      /\ \/ pc'[r] = "answered" /\ kept' = Keep(r)
         \/ pc'[r] = "torn" /\ kept' = kept
  BY DEF AnswerProposal, AnswerDraft, DeathAnswering, Dropped
<1>3. BeginDraft(r) => /\ Authenticate(r) /\ pc[r] = "verifying" /\ Kept(r) = {}
                       /\ before' = [before EXCEPT ![r] = Written]
  BY DEF BeginDraft, Authenticate
<1>4. kept' \in [Keys -> [Endpoints -> SUBSET Requests]]
  BY <1>1, <1>2, <1>3, KeepTyped
<1>5. RequestTypeOK' /\ TimelyInv'
  <2>1. NonceExpiry \in Nat /\ Written \subseteq Requests
    BY WindowTicks DEF NonceExpiry, Written
  <2>2. nonces' \in [Nonces -> SUBSET Nat] /\ passed' \in [Requests -> Nat]
        /\ before' \in [Requests -> SUBSET Requests]
    BY <1>1, <1>3, <2>1 DEF Authenticate
  <2>3. \A q \in Requests : pc'[q] # "idle" => msg'[q] \in Messages
    BY <1>1, <1>2, <1>3
  <2>4. RequestTypeOK'
    BY <1>1, <1>2, <1>4, <2>2, <2>3
  <2>5. TimelyInv'
    BY <1>1, <1>2 DEF TimelyInv, Timely
  <2> QED
    BY <2>4, <2>5
<1>6. NonceInv' /\ PassesOnce'
  <2>1. CASE BeginDraft(r)
    BY <1>2, <1>3, <2>1, RequestPasses DEF Passed
  <2>2. CASE pc[r] = "proposing" /\ UNCHANGED <<nonces, passed, before>>
    <3>1. Passed' = Passed
      BY <1>2, <2>2 DEF Passed
    <3> QED
      BY <1>1, <2>2, <3>1 DEF NonceInv, PassesOnce
  <2> QED
    BY <1>1, <2>1, <2>2
<1>7. KeptInv' /\ BeforeInv' /\ KeyWritesOnce'
  <2>1. \A q \in Requests \ {r} : before'[q] = before[q]
    BY <1>1, <1>3
  <2>2. \/ pc[r] = "proposing" /\ before'[r] = before[r]
        \/ pc[r] = "verifying" /\ before'[r] = Written /\ Kept(r) = {}
    BY <1>1, <1>3
  <2> QED
    BY <1>1, <1>2, <1>4, <1>5, <2>1, <2>2, RequestWrites
<1> QED
  BY <1>5, <1>6, <1>7

\* Every step keeps the invariant of the requests.
LEMMA RequestInvNext == RequestInv /\ [Next]_vars => RequestInv'
<1> SUFFICES ASSUME RequestInv, [Next]_vars PROVE RequestInv'
  OBVIOUS
<1>1. CASE UNCHANGED rVars
  BY <1>1 DEF rVars, message, RequestInv, RequestTypeOK, TimelyInv, Timely, NonceInv, KeptInv, Kept,
              BeforeInv, PassesOnce, KeyWritesOnce, SameKey, Passed, Written
<1>2. CASE RequestsNext
  BY <1>2, RequestInvEnds, RequestInvPrunes, RequestInvPasses, RequestInvWrites DEF RequestsNext
<1>3. CASE Kill
  BY <1>3, RequestInvEnds, RequestInvWrites DEF Kill
<1> QED
  BY <1>1, <1>2, <1>3 DEF Next, vars

-----------------------------------------------------------------------------
(* Theorems                                                                 *)

\* The restarts stay within their bound.
LEMMA RestartsBounded == Spec => [](restarts \in 0 .. MaxRestarts)
<1>1. Init => restarts \in 0 .. MaxRestarts
  BY OcpAssumption DEF Init
<1>2. restarts \in 0 .. MaxRestarts /\ [Next]_vars => (restarts \in 0 .. MaxRestarts)'
  <2> SUFFICES ASSUME restarts \in 0 .. MaxRestarts, [Next]_vars
               PROVE  restarts' \in 0 .. MaxRestarts
    OBVIOUS
  <2>1. restarts' = restarts \/ (restarts < MaxRestarts /\ restarts' = restarts + 1)
    BY DEF Next, Kill, vars
  <2> QED
    BY <2>1, OcpAssumption
<1> QED
  BY <1>1, <1>2, PTL DEF Spec

\* The three invariants hold in every reachable state.
LEMMA OcpInvHolds == Spec => [](AgreementInv /\ DecisionInv /\ RequestInv)
<1>1. restarts \in 0 .. MaxRestarts => restarts \in Nat
  BY OcpAssumption
<1> QED
  BY <1>1, AgreementInvInit, AgreementInvNext, DecisionInvInit, DecisionInvNext,
     RequestInvInit, RequestInvNext, RestartsBounded, PTL DEF Spec

\* Whatever overlaps and whenever the process dies, every column keeps its type.
THEOREM OcpTypes == Spec => []TypeOK
<1>1. AgreementInv /\ DecisionInv /\ RequestInv /\ restarts \in 0 .. MaxRestarts => TypeOK
  BY DEF AgreementInv, DecisionInv, RequestInv, TypeOK
<1> QED
  BY <1>1, OcpInvHolds, RestartsBounded, PTL

\* The unique payment column is what is left of the payment's check: it is enough.
THEOREM PaymentFundsOnce == Spec => []PaymentFundsOneAgreement
<1>1. AgreementInv => PaymentFundsOneAgreement
  BY DEF AgreementInv
<1> QED
  BY <1>1, OcpInvHolds, PTL

\* The unique terms column keeps agreements apart, those that ended included.
THEOREM TermsAgreedOnceHolds == Spec => []TermsAgreedOnce
<1>1. AgreementInv => TermsAgreedOnce
  BY DEF AgreementInv
<1> QED
  BY <1>1, OcpInvHolds, PTL

\* The order of the seal's writes: a sealed agreement has both signatures, and what is
\* incomplete was torn by a death (processAgreementAcceptance).
THEOREM SealedAreComplete == Spec => []SealedIsComplete
<1>1. AgreementInv => SealedIsComplete
  BY DEF AgreementInv
<1> QED
  BY <1>1, OcpInvHolds, PTL

\* The key of ocp_signatures lets one acceptance mint, at most as often as it tries.
THEOREM OneAcceptanceMintsHolds == Spec => []OneAcceptanceMints
<1>1. AgreementInv => OneAcceptanceMints
  BY DEF AgreementInv
<1> QED
  BY <1>1, OcpInvHolds, PTL

\* A seal names as many declared signers as its decision requires.
THEOREM SealedByQuorumHolds == Spec => []SealedByQuorum
<1>1. DecisionInv => SealedByQuorum
  BY DEF DecisionInv
<1> QED
  BY <1>1, OcpInvHolds, PTL

\* All declared signers are enough, unless the list repeats one or was cut short.
THEOREM AllSignedIsReadyHolds == Spec => []AllSignedIsReady
<1>1. DecisionInv => AllSignedIsReady
  <2> SUFFICES ASSUME DecisionInv, NEW d \in Drafts, signed[d] = declared[d],
                      ~(listed[d] > Cardinality(declared[d]))
               PROVE  Cardinality(signed[d]) >= required[d]
    BY DEF AllSignedIsReady
  <2>1. IsFiniteSet(declared[d])
    BY DecisionAssumption, FS_Subset DEF DecisionInv, DecisionTypeOK
  <2>2. Cardinality(declared[d]) \in Nat
    BY <2>1, FS_CardinalityType
  <2>3. required[d] \in 0 .. MaxListed /\ listed[d] \in 0 .. MaxListed /\ required[d] <= listed[d]
    BY DEF DecisionInv, DecisionTypeOK, SignedInv
  <2> QED
    BY <2>2, <2>3, DecisionAssumption
<1> QED
  BY <1>1, OcpInvHolds, PTL

\* A nonce's row outlives the window of the request that used it, so a signed request
\* passes again only once that row is gone, and only if it first passed before the second of
\* its timestamp was over, or its copy waited (verifyOcpAuth, insertNonceIfAbsent).
THEOREM PassesOnceHolds == Spec => []PassesOnce
<1>1. RequestInv => PassesOnce
  BY DEF RequestInv
<1> QED
  BY <1>1, OcpInvHolds, PTL

\* A key writes twice only where a proposal overlaps another or a death tore the first
\* (checkIdempotency, storeIdempotentResponse).
THEOREM KeyWritesOnceHolds == Spec => []KeyWritesOnce
<1>1. RequestInv => KeyWritesOnce
  BY DEF RequestInv
<1> QED
  BY <1>1, OcpInvHolds, PTL

\* Nothing but an acceptance already under way takes an agreement out of its end.
THEOREM EndedStandsHolds == Spec => EndedStands
<1>1. AgreementInv /\ [Next]_vars =>
        [ \A i \in Ids :
            status[i] \in {"cancelled", "expired"} /\ ~Verifying(i) =>
              status'[i] = status[i] /\ ~Verifying(i)' ]_vars
  <2> SUFFICES ASSUME AgreementInv, Next, NEW i \in Ids,
                      status[i] \in {"cancelled", "expired"}, ~Verifying(i)
               PROVE  status'[i] = status[i] /\ ~Verifying(i)'
    OBVIOUS
  <2>1. CASE UNCHANGED aVars
    BY <2>1 DEF aVars, rows, Verifying
  <2>2. ASSUME NEW p \in Proposals,
               Propose(p) \/ SigVerified(p) \/ RefuseProposal(p)
        PROVE  status'[i] = status[i] /\ ~Verifying(i)'
    BY <2>2 DEF Propose, SigVerified, RefuseProposal, rows, Verifying
  <2>3. ASSUME NEW p \in Proposals, StoreProposal(p) \/ DeathStoring(p)
        PROVE  status'[i] = status[i] /\ ~Verifying(i)'
    <3>1. /\ status[prop[p].id] = "absent" /\ status' = [status EXCEPT ![prop[p].id] = "pending"]
          /\ acc' = acc \/ acc' = [a \in Acceptances |-> NoAcceptance]
      BY <2>3 DEF StoreProposal, DeathStoring, CreateAgreement, AgreementsLost
    <3> QED
      BY <3>1 DEF AgreementInv, AgreementTypeOK, Verifying, NoAcceptance
  <2>4. ASSUME NEW a \in Acceptances, Accept(a) \/ RefuseAcceptance(a)
        PROVE  status'[i] = status[i] /\ ~Verifying(i)'
    <3>1. UNCHANGED status
      BY <2>4 DEF Accept, RefuseAcceptance, rows
    <3>2. \A b \in Acceptances : acc'[b].at = "verifying" =>
            acc'[b] = acc[b] \/ status[acc'[b].id] = "pending"
      BY <2>4 DEF Accept, RefuseAcceptance, Acceptable, NoAcceptance, AgreementInv, AgreementTypeOK
    <3> QED
      BY <3>1, <3>2 DEF Verifying
  <2>5. ASSUME NEW a \in Acceptances, SealAgreement(a) \/ DeathSealing(a)
        PROVE  status'[i] = status[i] /\ ~Verifying(i)'
    <3>1. acc[a].id # i
      BY <2>5 DEF SealAgreement, DeathSealing, Attested, Verifying
    <3>2. \/ UNCHANGED status
          \/ \E s : status' = [status EXCEPT ![acc[a].id] = s]
      BY <2>5 DEF SealAgreement, DeathSealing
    <3>3. \A b \in Acceptances : acc'[b].at = "verifying" => acc'[b] = acc[b]
      BY <2>5 DEF SealAgreement, DeathSealing, AgreementsLost, NoAcceptance, AgreementInv,
                  AgreementTypeOK
    <3> QED
      BY <3>1, <3>2, <3>3 DEF AgreementInv, AgreementTypeOK, Verifying
  <2>6. ASSUME NEW a \in Acceptances, MintAnswerLost(a) \/ MintAnswered(a)
        PROVE  status'[i] = status[i] /\ ~Verifying(i)'
    <3>1. UNCHANGED status
      BY <2>6 DEF MintAnswerLost, MintAnswered, rows
    <3>2. \A b \in Acceptances : acc'[b].at = "verifying" => acc'[b] = acc[b]
      BY <2>6 DEF MintAnswerLost, MintAnswered, NoAcceptance, AgreementInv, AgreementTypeOK
    <3> QED
      BY <3>1, <3>2 DEF Verifying
  <2>7. ASSUME NEW j \in Ids, AcceptExpired(j) \/ CancelAgreement(j)
        PROVE  status'[i] = status[i] /\ ~Verifying(i)'
    BY <2>7 DEF AcceptExpired, CancelAgreement, Acceptable, AgreementInv, AgreementTypeOK, Verifying
  <2>8. CASE DeathIdle
    BY <2>8 DEF DeathIdle, AgreementsLost, rows, Verifying, NoAcceptance
  <2> QED
    BY <2>1, <2>2, <2>3, <2>4, <2>5, <2>6, <2>7, <2>8 DEF Next, AgreementsNext, Kill
<1> QED
  BY <1>1, OcpInvHolds, PTL DEF Spec, EndedStands

\* Nothing changes a decided decision but a signature already under way.
THEOREM DecisionStandsHolds == Spec => DecisionStands
<1>1. DecisionInv /\ [Next]_vars =>
        [ \A d \in Drafts : dStatus[d] \in {"sealed", "cancelled"} =>
            /\ dStatus'[d] = dStatus[d] /\ sealedBy'[d] = sealedBy[d]
            /\ ~SigningOf(d) => signed'[d] = signed[d] /\ ~SigningOf(d)' ]_vars
  <2> DEFINE Stands(d) == /\ dStatus'[d] = dStatus[d] /\ sealedBy'[d] = sealedBy[d]
                          /\ ~SigningOf(d) => signed'[d] = signed[d] /\ ~SigningOf(d)'
  <2> SUFFICES ASSUME DecisionInv, Next, NEW d \in Drafts, dStatus[d] \in {"sealed", "cancelled"}
               PROVE  Stands(d)
    OBVIOUS
  <2>1. CASE UNCHANGED dVars
    BY <2>1 DEF dVars, draftRows, SigningOf
  <2>2. ASSUME NEW e \in Drafts, Draft(e) \/ DeathDrafting(e) PROVE Stands(d)
    <3>1. /\ dStatus[e] = "absent" /\ dStatus' = [dStatus EXCEPT ![e] = "draft"]
          /\ sgn' = sgn \/ sgn' = [g \in Signings |-> NoSigning]
          /\ UNCHANGED <<signed, sealedBy>>
      BY <2>2 DEF Draft, DeathDrafting, SigningsLost
    <3> QED
      BY <3>1 DEF DecisionInv, DecisionTypeOK, SigningOf
  <2>3. ASSUME NEW e \in Drafts, SealDecision(e) \/ CancelDecision(e) PROVE Stands(d)
    BY <2>3 DEF SealDecision, CancelDecision, Sealable, DecisionInv, DecisionTypeOK, SigningOf
  <2>4. ASSUME NEW g \in Signings, Sign(g) PROVE Stands(d)
    <3>1. PICK a \in Signers, e \in Drafts :
            dStatus[e] = "draft" /\ sgn' = [sgn EXCEPT ![g] = [at |-> "verifying", by |-> a, of |-> e]]
      BY <2>4 DEF Sign, MaySign
    <3>2. UNCHANGED <<dStatus, signed, sealedBy>>
      BY <2>4 DEF Sign
    <3>3. \A h \in Signings : sgn'[h] = sgn[h] \/ sgn'[h].of = e
      BY <3>1 DEF DecisionInv, DecisionTypeOK
    <3> QED
      BY <3>1, <3>2, <3>3 DEF SigningOf
  <2>5. ASSUME NEW g \in Signings, StoreDecisionSignature(g) \/ RefuseSigning(g) PROVE Stands(d)
    <3>1. /\ sgn[g] # NoSigning /\ sgn' = [sgn EXCEPT ![g] = NoSigning]
          /\ signed' = signed \/ signed' = [signed EXCEPT ![sgn[g].of] = @ \cup {sgn[g].by}]
          /\ UNCHANGED <<dStatus, sealedBy>>
      BY <2>5 DEF StoreDecisionSignature, RefuseSigning
    <3>2. ~SigningOf(d) => sgn[g].of # d
      BY <3>1 DEF SigningOf
    <3>3. \A h \in Signings : sgn'[h] # NoSigning => sgn'[h] = sgn[h]
      BY <3>1 DEF DecisionInv, DecisionTypeOK
    <3> QED
      BY <3>1, <3>2, <3>3 DEF DecisionInv, DecisionTypeOK, SigningOf
  <2>6. CASE DeathQuiet
    BY <2>6 DEF DeathQuiet, SigningsLost, SigningOf
  <2> QED
    BY <2>1, <2>2, <2>3, <2>4, <2>5, <2>6 DEF Next, DecisionsNext, Kill
<1> QED
  BY <1>1, OcpInvHolds, PTL DEF Spec, DecisionStands

=============================================================================
