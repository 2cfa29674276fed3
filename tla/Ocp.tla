-------------------------------- MODULE Ocp --------------------------------
(***************************************************************************)
(* The OCP server: agreements, decisions and the requests' authentication  *)
(* in one process, whose death takes whatever is in flight.                *)
(***************************************************************************)
EXTENDS OcpAgreements, OcpDecisions, OcpRequests

CONSTANT MaxRestarts   \* bound: process deaths in a behaviour
ASSUME OcpAssumption == MaxRestarts \in Nat

VARIABLE restarts

vars == <<aVars, dVars, rVars, restarts>>

Init == AInit /\ DInit /\ RInit /\ restarts = 0

AgreementsNext ==
  \/ \E p \in Proposals :
       Propose(p) \/ SigVerified(p) \/ StoreProposal(p) \/ RefuseProposal(p)
  \/ \E a \in Acceptances :
       Accept(a) \/ SealAgreement(a) \/ RefuseAcceptance(a) \/ MintAnswerLost(a)
         \/ MintAnswered(a)
  \/ \E i \in Ids : AcceptExpired(i) \/ CancelAgreement(i)

DecisionsNext ==
  \/ \E d \in Drafts : Draft(d) \/ SealDecision(d) \/ CancelDecision(d)
  \/ \E g \in Signings : Sign(g) \/ StoreDecisionSignature(g) \/ RefuseSigning(g)

RequestsNext ==
  \/ \E r \in Requests :
       \/ Arrive(r) \/ RefuseUnauthenticated(r)
       \/ RepeatResponse(r) \/ RefuseRequest(r)
       \/ BeginProposal(r) \/ AnswerProposal(r) \/ ProposalFails(r)
       \/ AnswerDraft(r)
  \/ PruneNonces
  \/ TimePasses

\* The process dies, between two turns or inside one.
Kill ==
  /\ restarts < MaxRestarts
  /\ restarts' = restarts + 1
  /\ \/ DeathIdle /\ DeathQuiet /\ DeathUnanswered
     \/ \E p \in Proposals : DeathStoring(p) /\ DeathQuiet /\ DeathUnanswered
     \/ \E a \in Acceptances : DeathSealing(a) /\ DeathQuiet /\ DeathUnanswered
     \/ \E d \in Drafts : DeathDrafting(d) /\ DeathIdle /\ DeathUnanswered
     \/ \E r \in Requests : DeathAnswering(r) /\ DeathIdle /\ DeathQuiet

Next ==
  \/ AgreementsNext /\ UNCHANGED <<dVars, rVars, restarts>>
  \/ DecisionsNext /\ UNCHANGED <<aVars, rVars, restarts>>
  \/ RequestsNext /\ UNCHANGED <<aVars, dVars, restarts>>
  \/ Kill

Spec == Init /\ [][Next]_vars

=============================================================================
