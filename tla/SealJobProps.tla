---------------------------- MODULE SealJobProps ----------------------------
(***************************************************************************)
(* What must hold of SealJob.                                              *)
(***************************************************************************)
EXTENDS SealJob

\* Every variable stays in its type.
TypeOK ==
  /\ jobStatus \in {"none", "queued", "minting", "minted", "failed", "dead_letter"}
  /\ attempts \in Nat /\ jobAsset \in Nat
  /\ caseStatus \in {"closed", "sealed"}
  /\ sealStatus \in {"pending", "minting", "sealed", "failed"}
  /\ caseAsset \in Nat
  /\ listed \in BOOLEAN
  /\ post \in [Runners -> Replies \cup {"none", "pending"}]
  /\ reply \in [Runners -> Nat]
  /\ tries \in [Runners -> Nat]
  /\ orphans \in Nat /\ assets \in Nat
  /\ restarts \in Nat /\ operatorRuns \in Nat

-----------------------------------------------------------------------------
(* Safety                                                                   *)

\* The claim (claimSealJob) keeps the pipeline, the engine and the operator apart: at most
\* one of them waits for the worker, and the job says so.  Without callbacks, since one
\* settles a job while its runner waits.
OneDispatcher ==
  \A r \in Runners : Waiting(r) =>
    /\ jobStatus = "minting"
    /\ \A q \in Runners : Waiting(q) => q = r

\* A sealed case names the asset its minted job recorded, and that asset is on chain; in
\* particular no later failure reaches a job whose case is sealed.  Without callbacks: with
\* them one does, see FinalisedStands.
SealedByMintedJob ==
  caseStatus = "sealed" =>
    /\ jobStatus = "minted" /\ sealStatus = "sealed"
    /\ caseAsset = jobAsset /\ caseAsset \in 1 .. assets

\* "finalised jobs only accept exact idempotent replay" (README.md, of the callback): a job
\* that a callback or a reply marked as minted stays minted, with its asset.  The code does
\* not keep this with callbacks: a run that gives up after one marks the job failed
\* (markSealJobFailed looks at no status), and the next run may mint again.
FinalisedStands ==
  [][jobStatus = "minted" => jobStatus' = "minted" /\ jobAsset' = jobAsset]_vars

\* The spend on chain is bounded by the claims: abandoned and retried POSTs included, no
\* claim costs more than HttpAttempts mints.
MintsWithinClaims == assets <= attempts * HttpAttempts

\* Without a kill between two writes the case is sealed as soon as its job is minted.
MintedIsSealed == jobStatus = "minted" => caseStatus = "sealed"

-----------------------------------------------------------------------------
(* Refinement: the job is what CaseSession knows of it.                     *)

jobSeen == IF jobStatus \in {"none", "minted"} THEN jobStatus ELSE "open"

Seal == INSTANCE CaseSeal WITH Torn <- HardKill, job <- jobSeen, sealed <- caseStatus = "sealed"

\* Without callbacks, the claims of three runners, retries, abandoned POSTs and deaths come
\* down to a job that is created once and minted once, is never taken back, and seals the case
\* in the same turn or, torn by a death, never: what CaseSession takes a seal to be.
ImplementsCaseSeal == Seal!Spec

-----------------------------------------------------------------------------
(* Liveness                                                                 *)

\* A claimed job is always decided, so that it can be retried: no job stays in "minting".
JobSettles == jobStatus = "minting" ~> jobStatus # "minting"

=============================================================================
