------------------------------ MODULE SealJob ------------------------------
(***************************************************************************)
(* The seal of one closed case, in SEAL_WORKER_MODE=http: the row of       *)
(* "seal_jobs", the seal fields of the case row, the runs of runSealJob    *)
(* that wait for the mint worker, and the worker itself, which mints an    *)
(* asset on chain for every POST /mint that reaches it.                    *)
(*                                                                         *)
(* runSealJob is called by the close pipeline, by the session engine's     *)
(* tick and by the operator's redrive and retry endpoints.  It claims the  *)
(* job by a compare-and-set and then posts the request with                *)
(* fetchJsonWithRetry: an attempt that times out is abandoned, not         *)
(* cancelled, and the worker may still complete it ("orphans").  A worker  *)
(* may also report through the seal-result callback.                       *)
(*                                                                         *)
(* Assets are numbered in the order they are minted; 0 stands for none.    *)
(***************************************************************************)
EXTENDS Naturals

CONSTANTS
  HttpAttempts,   \* retry.external.attempts: POSTs per dispatch
  MaxAttempts,    \* sealJobMaxAttempts
  Callbacks,      \* whether the worker also calls /api/internal/seal-result
  HardKill,       \* whether a restart may fall between two writes
  MaxRestarts,    \* bound: process restarts in a behaviour
  MaxOperatorRuns \* bound: redrive and retry requests in a behaviour

ASSUME SealAssumption ==
  /\ HttpAttempts \in Nat \ {0}
  /\ MaxAttempts \in Nat \ {0}
  /\ Callbacks \in BOOLEAN /\ HardKill \in BOOLEAN
  /\ MaxRestarts \in Nat /\ MaxOperatorRuns \in Nat

Runners == {"pipeline", "engine", "operator"}
Replies == {"minted", "failed", "quota"}

VARIABLES
  jobStatus, attempts, jobAsset,      \* the row of seal_jobs
  caseStatus, sealStatus, caseAsset,  \* status, seal_status, seal_asset_id of the case
  listed,     \* the engine has listed the job for a retry in this tick
  post,       \* per runner: its outstanding POST /mint, or the reply to it
  reply,      \* per runner: the asset named in a "minted" reply
  tries,      \* per runner: POSTs made for this dispatch
  orphans,    \* abandoned POSTs the worker has not completed
  assets,     \* assets minted on chain so far
  restarts, operatorRuns              \* bounds

job    == <<jobStatus, attempts, jobAsset>>
case   == <<caseStatus, sealStatus, caseAsset>>
runs   == <<post, reply, tries>>
worker == <<orphans, assets>>
bounds == <<restarts, operatorRuns>>
vars   == <<job, case, listed, runs, worker, bounds>>

Waiting(r) == post[r] # "none"

Init ==
  /\ jobStatus = "none" /\ attempts = 0 /\ jobAsset = 0
  /\ caseStatus = "closed" /\ sealStatus = "pending" /\ caseAsset = 0
  /\ listed = FALSE
  /\ post = [r \in Runners |-> "none"]
  /\ reply = [r \in Runners |-> 0]
  /\ tries = [r \in Runners |-> 0]
  /\ orphans = 0 /\ assets = 0
  /\ restarts = 0 /\ operatorRuns = 0

-----------------------------------------------------------------------------
(* Writes shared by several callers.                                        *)

\* What-if: a call that throws leaves the job as it is.
JobFailedUnmarked == jobStatus' = jobStatus

\* markSealJobFailed.
JobFailed == jobStatus' = IF attempts >= MaxAttempts THEN "dead_letter" ELSE "failed"

\* runSealJob up to its await, for a job its caller may claim: claimSealJob, the case's
\* seal state, the first POST.
Dispatch(r) ==
  /\ jobStatus' = "minting"
  /\ attempts' = attempts + 1
  /\ sealStatus' = "minting"
  /\ post' = [post EXCEPT ![r] = "pending"]
  /\ tries' = [tries EXCEPT ![r] = 1]
  /\ UNCHANGED <<jobAsset, caseStatus, caseAsset, reply, worker, restarts>>

\* What-if: the worker's own code is stored as the status.
FinalStatusRaw(result) == result

\* The status markSealJobResult stores for a result.
FinalStatus(result) == IF result = "quota" THEN "dead_letter" ELSE result

\* What-if: the case is sealed before the job is marked.
ApplyResultCaseFirst(result, asset, killed) ==
  /\ result = "minted"
  /\ caseStatus' = "sealed" /\ sealStatus' = "sealed" /\ caseAsset' = asset
  /\ jobStatus' = IF killed THEN jobStatus ELSE "minted"
  /\ jobAsset' = IF killed THEN jobAsset ELSE asset
  /\ UNCHANGED attempts

\* applySealResult: the job row, then the case rows.  No look at the job's status.
ApplyResult(result, asset, killed) ==
  /\ jobStatus' = FinalStatus(result)
  /\ jobAsset' = asset
  /\ IF result = "minted"
     THEN IF killed
          THEN UNCHANGED case
          ELSE caseStatus' = "sealed" /\ sealStatus' = "sealed" /\ caseAsset' = asset
     ELSE /\ sealStatus' = IF killed THEN sealStatus ELSE "failed"
          /\ UNCHANGED <<caseStatus, caseAsset>>
  /\ UNCHANGED attempts

Outstanding(r) == IF post[r] = "pending" THEN 1 ELSE 0

\* The process dies: its waiting runs are gone, their POSTs are orphans at the worker.
Die ==
  /\ restarts < MaxRestarts
  /\ restarts' = restarts + 1
  /\ listed' = FALSE
  /\ post' = [r \in Runners |-> "none"]
  /\ reply' = [r \in Runners |-> 0]
  /\ tries' = [r \in Runners |-> 0]
  /\ orphans' = orphans + Outstanding("pipeline") + Outstanding("engine")
                        + Outstanding("operator")
  /\ UNCHANGED <<assets, operatorRuns>>

\* The run of r is over.
RunEnds(r) ==
  /\ post' = [post EXCEPT ![r] = "none"]
  /\ reply' = [reply EXCEPT ![r] = 0]
  /\ tries' = [tries EXCEPT ![r] = 0]

Killed == IF HardKill THEN BOOLEAN ELSE {FALSE}

-----------------------------------------------------------------------------
(* The callers of runSealJob.                                               *)

\* enqueueSealJob, once per close: the job is created and dispatched, or created only if
\* the process dies in between.
Enqueue(killed) ==
  /\ jobStatus = "none"
  /\ IF killed
     THEN /\ jobStatus' = "queued" /\ UNCHANGED <<attempts, jobAsset, case>>
          /\ Die
     ELSE /\ Dispatch("pipeline")
          /\ UNCHANGED <<listed, operatorRuns>>

\* What-if: the claim does not look at the status.
ClaimableAny == {"queued", "failed", "minting"}

\* The statuses claimSealJob claims from.
Claimable == {"queued", "failed"}

\* tickNow lists the jobs to retry (queued or failed, attempts left) ...
EngineLists ==
  /\ ~listed /\ ~Waiting("engine")
  /\ jobStatus \in {"queued", "failed"} /\ attempts < MaxAttempts
  /\ listed' = TRUE
  /\ UNCHANGED <<job, case, runs, worker, bounds>>

\* ... and retries this one after the await for the one before it.  A job that was
\* claimed or finalised meanwhile is left alone.
EngineRetries ==
  /\ listed /\ listed' = FALSE
  /\ IF jobStatus \in Claimable
     THEN Dispatch("engine") /\ UNCHANGED operatorRuns
     ELSE UNCHANGED <<job, case, runs, worker, bounds>>

\* What-if: redrive takes a minted job too.
RedrivableAny == {"queued", "failed", "dead_letter", "minted"}

Redrivable == {"queued", "failed", "dead_letter"}

\* POST .../redrive and POST .../retry: a failed or dead job is requeued and dispatched,
\* or requeued only if the process dies in between.
OperatorRuns(killed) ==
  /\ operatorRuns < MaxOperatorRuns
  /\ ~Waiting("operator")
  /\ jobStatus \in Redrivable
  /\ IF killed
     THEN /\ jobStatus' = "queued" /\ UNCHANGED <<attempts, jobAsset, case>>
          /\ Die
     ELSE /\ Dispatch("operator")
          /\ operatorRuns' = operatorRuns + 1
          /\ UNCHANGED listed

-----------------------------------------------------------------------------
(* The mint worker (external) and the HTTP call to it.                      *)

WorkerMints(r) ==
  /\ post[r] = "pending"
  /\ assets' = assets + 1
  /\ post' = [post EXCEPT ![r] = "minted"]
  /\ reply' = [reply EXCEPT ![r] = assets + 1]
  /\ UNCHANGED <<job, case, listed, tries, orphans, bounds>>

WorkerFails(r, code) ==
  /\ post[r] = "pending"
  /\ post' = [post EXCEPT ![r] = code]
  /\ UNCHANGED <<job, case, listed, reply, tries, worker, bounds>>

\* A POST whose caller is gone is completed all the same, or dropped.
OrphanEnds(mints) ==
  /\ orphans > 0
  /\ orphans' = orphans - 1
  /\ assets' = IF mints THEN assets + 1 ELSE assets
  /\ UNCHANGED <<job, case, listed, runs, bounds>>

\* What-if: one POST too many.
AttemptsLeftOneMore(r) == tries[r] <= HttpAttempts

AttemptsLeft(r) == tries[r] < HttpAttempts

\* fetchWithRetry gives an attempt up, by timeout or by a connection that failed before or
\* after the worker answered, and posts again while attempts are left ...
PostAgain(r) ==
  /\ Waiting(r) /\ AttemptsLeft(r)
  /\ tries' = [tries EXCEPT ![r] = @ + 1]
  /\ post' = [post EXCEPT ![r] = "pending"]
  /\ reply' = [reply EXCEPT ![r] = 0]
  /\ orphans' = orphans + Outstanding(r)
  /\ UNCHANGED <<job, case, listed, assets, bounds>>

\* ... or throws, and runSealJob marks the job and the case failed.
GiveUp(r) ==
  /\ Waiting(r)
  /\ JobFailed
  /\ sealStatus' = "failed"
  /\ jobAsset' = 0
  /\ RunEnds(r)
  /\ orphans' = orphans + Outstanding(r)
  /\ UNCHANGED <<attempts, caseStatus, caseAsset, listed, assets, bounds>>

\* The reply arrives and is applied.
Receive(r, killed) ==
  /\ post[r] \in Replies
  /\ ApplyResult(post[r], reply[r], killed)
  /\ IF killed THEN Die
     ELSE RunEnds(r) /\ UNCHANGED <<listed, worker, bounds>>

\* POST /api/internal/seal-result: applied to a job that is queued or minting; a finalised
\* job answers a replay or a conflict and changes nothing.
Callback(result, asset, killed) ==
  /\ Callbacks
  /\ jobStatus \in {"queued", "minting"}
  /\ IF result = "minted" THEN asset \in 1 .. assets ELSE asset = 0
  /\ ApplyResult(result, asset, killed)
  /\ IF killed THEN Die ELSE UNCHANGED <<listed, runs, worker, bounds>>

Restart == Die /\ UNCHANGED <<job, case>>

-----------------------------------------------------------------------------
RunStep(r) ==
  \/ PostAgain(r) \/ GiveUp(r)
  \/ \E killed \in Killed : Receive(r, killed)

WorkerStep ==
  \/ \E r \in Runners : WorkerMints(r) \/ \E code \in {"failed", "quota"} : WorkerFails(r, code)
  \/ \E mints \in BOOLEAN : OrphanEnds(mints)
  \/ \E result \in Replies, asset \in 0 .. assets, killed \in Killed :
       Callback(result, asset, killed)

Next ==
  \/ \E killed \in Killed : Enqueue(killed)
  \/ EngineLists \/ EngineRetries
  \/ \E killed \in Killed : OperatorRuns(killed)
  \/ \E r \in Runners : RunStep(r)
  \/ WorkerStep
  \/ Restart

Spec == Init /\ [][Next]_vars

(***************************************************************************)
(* An HTTP call returns or times out, and the engine's timer keeps firing. *)
(* Nothing is assumed of the worker or of the operator.                    *)
(***************************************************************************)
FairSpec ==
  /\ Spec
  /\ \A r \in Runners : WF_vars(RunStep(r))
  /\ WF_vars(EngineLists \/ EngineRetries)

=============================================================================
