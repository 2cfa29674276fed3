--------------------------- MODULE SealJobProofs ---------------------------
(***************************************************************************)
(* Proofs about SealJob for every value of its constants.                  *)
(*                                                                         *)
(* ClaimInv is inductive when no callbacks are used: a waiting run holds   *)
(* the claim, so nothing else writes the job, and a sealed case's job is   *)
(* out of every run's reach.  BudgetInv needs no such assumption: it       *)
(* counts, next to the assets minted, the POSTs that may still mint.  What *)
(* CaseSession knows of the job is CaseSeal, which SealJob implements.     *)
(***************************************************************************)
EXTENDS SealJobProps, TLAPS

\* Replies that say "minted" name an asset on chain.
RepliesMinted == \A r \in Runners : post[r] = "minted" => reply[r] \in 1 .. assets

ClaimInv == TypeOK /\ OneDispatcher /\ RepliesMinted /\ SealedByMintedJob

\* The mints a waiting run may still cause: its outstanding POST and those it may repeat.
Reserve(r) == IF Waiting(r) THEN Outstanding(r) + HttpAttempts - tries[r] ELSE 0

TriesBounded == \A r \in Runners : Waiting(r) => tries[r] \in 1 .. HttpAttempts

Budget ==
  assets + orphans + Reserve("pipeline") + Reserve("engine") + Reserve("operator")
    <= attempts * HttpAttempts

BudgetInv == TypeOK /\ TriesBounded /\ Budget

-----------------------------------------------------------------------------
(* Type correctness.                                                        *)

LEMMA OutstandingIsNat == ASSUME NEW r PROVE Outstanding(r) \in 0 .. 1
BY DEF Outstanding

\* A death of the process keeps the types.
LEMMA DieTypes ==
  ASSUME TypeOK, Die
  PROVE  /\ listed' \in BOOLEAN
         /\ post' \in [Runners -> Replies \cup {"none", "pending"}]
         /\ reply' \in [Runners -> Nat] /\ tries' \in [Runners -> Nat]
         /\ orphans' \in Nat /\ assets' \in Nat
         /\ restarts' \in Nat /\ operatorRuns' \in Nat
<1>1. /\ Outstanding("pipeline") \in 0 .. 1 /\ Outstanding("engine") \in 0 .. 1
      /\ Outstanding("operator") \in 0 .. 1
  BY OutstandingIsNat
<1>2. orphans' \in Nat
  BY <1>1 DEF TypeOK, Die
<1>3. post' \in [Runners -> Replies \cup {"none", "pending"}]
  BY DEF Die
<1>4. reply' \in [Runners -> Nat] /\ tries' \in [Runners -> Nat]
  BY DEF Die
<1>5. assets' \in Nat /\ restarts' \in Nat /\ operatorRuns' \in Nat
  BY DEF Die, TypeOK
<1>6. listed' \in BOOLEAN
  BY DEF Die
<1> QED
  BY <1>2, <1>3, <1>4, <1>5, <1>6

\* A run that ends keeps the types.
LEMMA RunEndsTypes ==
  ASSUME TypeOK, NEW r \in Runners, RunEnds(r)
  PROVE  /\ post' \in [Runners -> Replies \cup {"none", "pending"}]
         /\ reply' \in [Runners -> Nat] /\ tries' \in [Runners -> Nat]
BY DEF TypeOK, RunEnds

LEMMA ApplyResultTypes ==
  ASSUME TypeOK, NEW result \in Replies, NEW asset \in Nat, NEW killed \in BOOLEAN,
         ApplyResult(result, asset, killed)
  PROVE  /\ jobStatus' \in {"none", "queued", "minting", "minted", "failed", "dead_letter"}
         /\ attempts' \in Nat /\ jobAsset' \in Nat
         /\ caseStatus' \in {"closed", "sealed"}
         /\ sealStatus' \in {"pending", "minting", "sealed", "failed"}
         /\ caseAsset' \in Nat
BY DEF TypeOK, ApplyResult, FinalStatus, Replies, case

LEMMA KilledIsBoolean == Killed \subseteq BOOLEAN
BY SealAssumption DEF Killed

LEMMA DispatchTypes ==
  ASSUME TypeOK, NEW r \in Runners, Dispatch(r),
         listed' \in BOOLEAN, operatorRuns' \in Nat
  PROVE  TypeOK'
BY DEF TypeOK, Dispatch, worker

\* Each action keeps the types.
LEMMA NextTypes == TypeOK /\ [Next]_vars => TypeOK'
<1> SUFFICES ASSUME TypeOK, [Next]_vars PROVE TypeOK'
  OBVIOUS
<1>1. ASSUME NEW killed \in Killed, Enqueue(killed) PROVE TypeOK'
  <2>1. CASE killed
    BY <1>1, <2>1, DieTypes DEF Enqueue, case, TypeOK
  <2>2. CASE ~killed
    BY <1>1, <2>2, DispatchTypes DEF Enqueue, TypeOK, Runners
  <2> QED BY <2>1, <2>2
<1>2. ASSUME EngineLists PROVE TypeOK'
  BY <1>2 DEF EngineLists, TypeOK, job, case, runs, worker, bounds
<1>3. ASSUME EngineRetries PROVE TypeOK'
  <2>1. CASE jobStatus \in Claimable
    BY <1>3, <2>1, DispatchTypes DEF EngineRetries, TypeOK, Runners
  <2>2. CASE jobStatus \notin Claimable
    BY <1>3, <2>2 DEF EngineRetries, TypeOK, job, case, runs, worker, bounds
  <2> QED BY <2>1, <2>2
<1>4. ASSUME NEW killed \in Killed, OperatorRuns(killed) PROVE TypeOK'
  <2>1. CASE killed
    BY <1>4, <2>1, DieTypes DEF OperatorRuns, case, TypeOK
  <2>2. CASE ~killed
    BY <1>4, <2>2, DispatchTypes DEF OperatorRuns, TypeOK, Runners
  <2> QED BY <2>1, <2>2
<1>5. ASSUME NEW r \in Runners, PostAgain(r) PROVE TypeOK'
  BY <1>5, OutstandingIsNat DEF PostAgain, TypeOK, job, case, bounds
<1>6. ASSUME NEW r \in Runners, GiveUp(r) PROVE TypeOK'
  BY <1>6, OutstandingIsNat, RunEndsTypes DEF GiveUp, JobFailed, TypeOK, bounds
<1>7. ASSUME NEW r \in Runners, NEW killed \in Killed, Receive(r, killed) PROVE TypeOK'
  <2>1. killed \in BOOLEAN /\ post[r] \in Replies /\ reply[r] \in Nat
    BY <1>7, KilledIsBoolean DEF Receive, TypeOK
  <2>2. CASE killed
    BY <1>7, <2>1, <2>2, DieTypes, ApplyResultTypes DEF Receive, TypeOK
  <2>3. CASE ~killed
    BY <1>7, <2>1, <2>3, RunEndsTypes, ApplyResultTypes
    DEF Receive, TypeOK, worker, bounds
  <2> QED BY <2>2, <2>3
<1>8. ASSUME NEW r \in Runners, WorkerMints(r) PROVE TypeOK'
  BY <1>8 DEF WorkerMints, TypeOK, job, case, bounds, Replies
<1>9. ASSUME NEW r \in Runners, NEW code \in {"failed", "quota"}, WorkerFails(r, code)
      PROVE TypeOK'
  BY <1>9 DEF WorkerFails, TypeOK, job, case, worker, bounds, Replies
<1>10. ASSUME NEW mints \in BOOLEAN, OrphanEnds(mints) PROVE TypeOK'
  BY <1>10 DEF OrphanEnds, TypeOK, job, case, runs, bounds
<1>11. ASSUME NEW result \in Replies, NEW asset \in 0 .. assets, NEW killed \in Killed,
              Callback(result, asset, killed)
       PROVE TypeOK'
  <2>1. killed \in BOOLEAN /\ asset \in Nat
    BY <1>11, KilledIsBoolean DEF TypeOK
  <2>2. CASE killed
    BY <1>11, <2>1, <2>2, DieTypes, ApplyResultTypes DEF Callback, TypeOK
  <2>3. CASE ~killed
    BY <1>11, <2>1, <2>3, ApplyResultTypes DEF Callback, TypeOK, runs, worker, bounds
  <2> QED BY <2>2, <2>3
<1>12. ASSUME Restart PROVE TypeOK'
  BY <1>12, DieTypes DEF Restart, TypeOK, job, case
<1>13. ASSUME UNCHANGED vars PROVE TypeOK'
  BY <1>13 DEF vars, TypeOK, job, case, runs, worker, bounds
<1>14. ASSUME NEW r \in Runners, RunStep(r) PROVE TypeOK'
  BY <1>5, <1>6, <1>7, <1>14 DEF RunStep
<1>15. ASSUME WorkerStep PROVE TypeOK'
  BY <1>8, <1>9, <1>10, <1>11, <1>15 DEF WorkerStep
<1> QED
  BY <1>1, <1>2, <1>3, <1>4, <1>12, <1>13, <1>14, <1>15 DEF Next

LEMMA InitTypes == Init => TypeOK
<1> SUFFICES ASSUME Init PROVE TypeOK
  OBVIOUS
<1>1. post \in [Runners -> Replies \cup {"none", "pending"}]
  BY DEF Init
<1>2. reply \in [Runners -> Nat] /\ tries \in [Runners -> Nat]
  BY DEF Init
<1> QED
  BY <1>1, <1>2 DEF Init, TypeOK

\* The types hold in every reachable state, for any number of attempts and restarts.
THEOREM TypeCorrect == Spec => []TypeOK
BY InitTypes, NextTypes, PTL DEF Spec

-----------------------------------------------------------------------------
(* The claim, without callbacks.                                            *)

\* With the process die all its runs.
LEMMA DieClaim == ASSUME Die PROVE OneDispatcher' /\ RepliesMinted'
<1>1. \A r \in Runners : post'[r] = "none"
  BY DEF Die
<1> QED
  BY <1>1 DEF OneDispatcher, RepliesMinted, Waiting

\* The one waiting run ends.
LEMMA RunEndsClaim ==
  ASSUME TypeOK, OneDispatcher, NEW r \in Runners, Waiting(r), RunEnds(r)
  PROVE  OneDispatcher' /\ RepliesMinted'
<1>1. \A q \in Runners : post'[q] = "none"
  BY DEF OneDispatcher, RunEnds, TypeOK, Waiting
<1> QED
  BY <1>1 DEF OneDispatcher, RepliesMinted, Waiting

\* A job nobody holds is claimed.
LEMMA DispatchClaim ==
  ASSUME ClaimInv, NEW r \in Runners, Dispatch(r), jobStatus \notin {"minting", "minted"}
  PROVE  OneDispatcher' /\ RepliesMinted' /\ SealedByMintedJob'
<1>1. \A q \in Runners : post[q] = "none"
  BY DEF ClaimInv, OneDispatcher, Waiting
<1>2. jobStatus' = "minting" /\ post' = [post EXCEPT ![r] = "pending"]
  BY DEF Dispatch
<1>3. \A q \in Runners : post'[q] = IF q = r THEN "pending" ELSE "none"
  BY <1>1, <1>2 DEF ClaimInv, TypeOK
<1>4. OneDispatcher' /\ RepliesMinted'
  BY <1>2, <1>3 DEF OneDispatcher, RepliesMinted, Waiting
<1>5. SealedByMintedJob'
  BY DEF ClaimInv, SealedByMintedJob, Dispatch
<1> QED
  BY <1>4, <1>5

\* The result of the run that holds the claim is applied.
LEMMA ReceiveSeals ==
  ASSUME ClaimInv, NEW r \in Runners, NEW killed \in BOOLEAN, Receive(r, killed)
  PROVE  SealedByMintedJob'
<1>1. Waiting(r) /\ jobStatus = "minting" /\ caseStatus # "sealed"
  BY DEF Receive, Waiting, Replies, ClaimInv, OneDispatcher, SealedByMintedJob
<1>2. assets' = assets
  BY DEF Receive, Die, worker
<1>3. CASE post[r] = "minted"
  <2>1. reply[r] \in 1 .. assets
    BY <1>3 DEF ClaimInv, RepliesMinted
  <2> QED
    BY <1>1, <1>2, <1>3, <2>1
    DEF Receive, ApplyResult, FinalStatus, case, SealedByMintedJob
<1>4. CASE post[r] # "minted"
  BY <1>1, <1>4 DEF Receive, ApplyResult, SealedByMintedJob
<1> QED
  BY <1>3, <1>4

\* Each action keeps the claim exclusive and sealed cases in step with their job.
LEMMA NextClaim == ~Callbacks /\ ClaimInv /\ [Next]_vars => ClaimInv'
<1> SUFFICES ASSUME ~Callbacks, ClaimInv, [Next]_vars PROVE ClaimInv'
  OBVIOUS
<1> DEFINE Goal == OneDispatcher' /\ RepliesMinted' /\ SealedByMintedJob'
<1>0. TypeOK'
  BY NextTypes DEF ClaimInv
<1>1. ASSUME NEW killed \in Killed, Enqueue(killed) PROVE Goal
  <2>1. CASE killed
    BY <1>1, <2>1, DieClaim DEF Enqueue, case, ClaimInv, SealedByMintedJob
  <2>2. CASE ~killed
    BY <1>1, <2>2, DispatchClaim DEF Enqueue, Runners
  <2> QED BY <2>1, <2>2
<1>2. ASSUME EngineLists PROVE Goal
  BY <1>2 DEF EngineLists, ClaimInv, OneDispatcher, RepliesMinted, SealedByMintedJob, Waiting,
              job, case, runs, worker
<1>3. ASSUME EngineRetries PROVE Goal
  <2>1. CASE jobStatus \in Claimable
    BY <1>3, <2>1, DispatchClaim DEF EngineRetries, Claimable, Runners
  <2>2. CASE jobStatus \notin Claimable
    BY <1>3, <2>2 DEF EngineRetries, ClaimInv, OneDispatcher, RepliesMinted,
                      SealedByMintedJob, Waiting, job, case, runs, worker
  <2> QED BY <2>1, <2>2
<1>4. ASSUME NEW killed \in Killed, OperatorRuns(killed) PROVE Goal
  <2>1. CASE killed
    BY <1>4, <2>1, DieClaim DEF OperatorRuns, Redrivable, case, ClaimInv, SealedByMintedJob
  <2>2. CASE ~killed
    BY <1>4, <2>2, DispatchClaim DEF OperatorRuns, Redrivable, Runners
  <2> QED BY <2>1, <2>2
<1>5. ASSUME NEW r \in Runners, PostAgain(r) PROVE Goal
  <2>1. \A q \in Runners : post'[q] = IF q = r THEN "pending" ELSE post[q]
    BY <1>5 DEF PostAgain, ClaimInv, TypeOK
  <2>2. \A q \in Runners : reply'[q] = IF q = r THEN 0 ELSE reply[q]
    BY <1>5 DEF PostAgain, ClaimInv, TypeOK
  <2>3. UNCHANGED <<job, case, assets>> /\ Waiting(r)
    BY <1>5 DEF PostAgain
  <2> QED
    BY <2>1, <2>2, <2>3
    DEF ClaimInv, OneDispatcher, RepliesMinted, SealedByMintedJob, Waiting, job, case
<1>6. ASSUME NEW r \in Runners, GiveUp(r) PROVE Goal
  <2>1. OneDispatcher' /\ RepliesMinted'
    BY <1>6, RunEndsClaim DEF GiveUp, ClaimInv
  <2>2. caseStatus' # "sealed"
    BY <1>6 DEF GiveUp, ClaimInv, OneDispatcher, SealedByMintedJob
  <2> QED
    BY <2>1, <2>2 DEF SealedByMintedJob
<1>7. ASSUME NEW r \in Runners, NEW killed \in Killed, Receive(r, killed) PROVE Goal
  <2>1. killed \in BOOLEAN
    BY KilledIsBoolean
  <2>2. OneDispatcher' /\ RepliesMinted'
    BY <1>7, <2>1, DieClaim, RunEndsClaim DEF Receive, Waiting, Replies, ClaimInv
  <2> QED
    BY <1>7, <2>1, <2>2, ReceiveSeals
<1>8. ASSUME NEW r \in Runners, WorkerMints(r) PROVE Goal
  <2>1. \A q \in Runners : post'[q] = IF q = r THEN "minted" ELSE post[q]
    BY <1>8 DEF WorkerMints, ClaimInv, TypeOK
  <2>2. \A q \in Runners : reply'[q] = IF q = r THEN assets + 1 ELSE reply[q]
    BY <1>8 DEF WorkerMints, ClaimInv, TypeOK
  <2>3. UNCHANGED <<job, case>> /\ assets' = assets + 1 /\ assets \in Nat
    BY <1>8 DEF WorkerMints, ClaimInv, TypeOK
  <2>4. post[r] = "pending"
    BY <1>8 DEF WorkerMints
  <2> QED
    BY <2>1, <2>2, <2>3, <2>4
    DEF ClaimInv, TypeOK, OneDispatcher, RepliesMinted, SealedByMintedJob, Waiting, job, case
<1>9. ASSUME NEW r \in Runners, NEW code \in {"failed", "quota"}, WorkerFails(r, code)
      PROVE Goal
  <2>1. \A q \in Runners : post'[q] = IF q = r THEN code ELSE post[q]
    BY <1>9 DEF WorkerFails, ClaimInv, TypeOK
  <2>2. UNCHANGED <<job, case, reply, assets>> /\ post[r] = "pending"
    BY <1>9 DEF WorkerFails, worker
  <2> QED
    BY <2>1, <2>2
    DEF ClaimInv, OneDispatcher, RepliesMinted, SealedByMintedJob, Waiting, job, case
<1>10. ASSUME NEW mints \in BOOLEAN, OrphanEnds(mints) PROVE Goal
  <2>1. UNCHANGED <<job, case, post, reply>> /\ assets \in Nat /\ assets' \in {assets, assets + 1}
    BY <1>10 DEF OrphanEnds, ClaimInv, TypeOK, runs
  <2> QED
    BY <2>1
    DEF ClaimInv, TypeOK, OneDispatcher, RepliesMinted, SealedByMintedJob, Waiting, job, case
<1>11. ASSUME Restart PROVE Goal
  BY <1>11, DieClaim DEF Restart, Die, ClaimInv, SealedByMintedJob, job, case
<1>12. ASSUME UNCHANGED vars PROVE Goal
  BY <1>12 DEF vars, ClaimInv, OneDispatcher, RepliesMinted, SealedByMintedJob, Waiting,
               job, case, runs, worker
<1>13. ASSUME NEW r \in Runners, RunStep(r) PROVE Goal
  BY <1>5, <1>6, <1>7, <1>13 DEF RunStep
<1>14. ASSUME WorkerStep PROVE Goal
  BY <1>8, <1>9, <1>10, <1>14 DEF WorkerStep, Callback
<1>15. Goal
  BY <1>1, <1>2, <1>3, <1>4, <1>11, <1>12, <1>13, <1>14 DEF Next
<1> QED
  BY <1>0, <1>15 DEF ClaimInv

LEMMA ClaimAlways == ASSUME ~Callbacks PROVE Spec => []ClaimInv
<1>1. Init => ClaimInv
  <2> SUFFICES ASSUME Init PROVE ClaimInv
    OBVIOUS
  <2>1. \A r \in Runners : post[r] = "none"
    BY DEF Init
  <2> QED
    BY <2>1, InitTypes
    DEF Init, ClaimInv, OneDispatcher, RepliesMinted, SealedByMintedJob, Waiting
<1>2. ClaimInv /\ [Next]_vars => ClaimInv'
  BY NextClaim
<1> QED
  BY <1>1, <1>2, PTL DEF Spec

\* claimSealJob lets one of the pipeline, the engine and the operator at a time dispatch
\* the job, through timeouts, kills and restarts, as long as no callback writes the job.
THEOREM ClaimIsExclusive == ASSUME ~Callbacks PROVE Spec => []OneDispatcher
BY ClaimAlways, PTL DEF ClaimInv

\* A sealed case names the minted asset its job recorded.
THEOREM SealedCaseHasItsJob == ASSUME ~Callbacks PROVE Spec => []SealedByMintedJob
BY ClaimAlways, PTL DEF ClaimInv

\* Nothing touches a minted job: nobody waits for the worker, and no claim takes it.
LEMMA MintedIsLeftAlone ==
  ASSUME ~Callbacks, ClaimInv, [Next]_vars, jobStatus = "minted"
  PROVE  jobStatus' = "minted" /\ jobAsset' = jobAsset
<1>1. \A r \in Runners : post[r] = "none"
  BY DEF ClaimInv, OneDispatcher, Waiting
<1>2. ASSUME NEW r \in Runners, RunStep(r) PROVE FALSE
  BY <1>1, <1>2 DEF RunStep, PostAgain, GiveUp, Receive, Waiting, Replies
<1>3. ASSUME WorkerStep PROVE UNCHANGED job
  <2>1. ASSUME NEW r \in Runners, WorkerMints(r) PROVE UNCHANGED job
    BY <2>1 DEF WorkerMints
  <2>2. ASSUME NEW r \in Runners, NEW code \in {"failed", "quota"}, WorkerFails(r, code)
        PROVE UNCHANGED job
    BY <2>2 DEF WorkerFails
  <2>3. ASSUME NEW mints \in BOOLEAN, OrphanEnds(mints) PROVE UNCHANGED job
    BY <2>3 DEF OrphanEnds
  <2> QED
    BY <1>3, <2>1, <2>2, <2>3 DEF WorkerStep, Callback
<1>4. ASSUME NEW killed \in Killed, Enqueue(killed) PROVE FALSE
  BY <1>4 DEF Enqueue
<1>5. ASSUME EngineLists \/ EngineRetries PROVE UNCHANGED job
  BY <1>5 DEF EngineLists, EngineRetries, Claimable
<1>6. ASSUME NEW killed \in Killed, OperatorRuns(killed) PROVE FALSE
  BY <1>6 DEF OperatorRuns, Redrivable
<1>7. ASSUME Restart PROVE UNCHANGED job
  BY <1>7 DEF Restart
<1>8. ASSUME UNCHANGED vars PROVE UNCHANGED job
  BY <1>8 DEF vars
<1>9. UNCHANGED job
  BY <1>2, <1>3, <1>4, <1>5, <1>6, <1>7, <1>8 DEF Next
<1> QED
  BY <1>9 DEF job

\* A minted job stays as it is as long as no callback writes the job (markSealJobFailed,
\* markSealJobResult); with callbacks it does not.
THEOREM MintedJobStands == ASSUME ~Callbacks PROVE Spec => FinalisedStands
<1>1. ClaimInv /\ [Next]_vars =>
        [jobStatus = "minted" => jobStatus' = "minted" /\ jobAsset' = jobAsset]_vars
  BY MintedIsLeftAlone
<1> QED
  BY <1>1, ClaimAlways, PTL DEF Spec, FinalisedStands

-----------------------------------------------------------------------------
(* Refinement: what CaseSession knows of the job, without callbacks.        *)

SealStep == [Seal!Next]_<<jobSeen, caseStatus = "sealed">>

LEMMA SealStays ==
  ASSUME jobSeen' = jobSeen, caseStatus' = caseStatus
  PROVE  SealStep
BY DEF SealStep

\* A job that has no asset, before and after, is open all along.
LEMMA StaysOpen ==
  ASSUME jobStatus \notin {"none", "minted"}, jobStatus' \notin {"none", "minted"},
         caseStatus' = caseStatus
  PROVE  SealStep
<1>1. jobSeen = "open" /\ jobSeen' = "open"
  BY DEF jobSeen
<1> QED
  BY <1>1, SealStays

\* The run that holds the claim ends: without an asset the job stays open, with one it is
\* minted, together with its case unless a death tears the two.
LEMMA RunSeals ==
  ASSUME ClaimInv, NEW r \in Runners, RunStep(r)
  PROVE  SealStep
<1>1. CASE PostAgain(r)
  <2>1. UNCHANGED <<jobStatus, caseStatus>>
    BY <1>1 DEF PostAgain, job, case
  <2> QED
    BY <2>1, SealStays DEF jobSeen
<1>2. CASE GiveUp(r)
  <2>1. jobStatus = "minting"
    BY <1>2 DEF GiveUp, ClaimInv, OneDispatcher
  <2>2. jobStatus' \in {"dead_letter", "failed"} /\ caseStatus' = caseStatus
    BY <1>2 DEF GiveUp, JobFailed
  <2> QED
    BY <2>1, <2>2, StaysOpen
<1>3. ASSUME NEW killed \in Killed, Receive(r, killed)
      PROVE  SealStep
  <2>1. jobStatus = "minting" /\ ApplyResult(post[r], reply[r], killed)
    BY <1>3 DEF Receive, Waiting, Replies, ClaimInv, OneDispatcher
  <2>2. CASE post[r] = "minted"
    <3>1. jobStatus' = "minted"
      BY <2>1, <2>2 DEF ApplyResult, FinalStatus
    <3>2. jobSeen = "open" /\ jobSeen' = "minted"
      BY <2>1, <3>1 DEF jobSeen
    <3>3. caseStatus' = "sealed" \/ (HardKill /\ caseStatus' = caseStatus)
      BY <2>1, <2>2 DEF ApplyResult, Killed, case
    <3>4. Seal!Mint
      BY <3>2, <3>3 DEF Seal!Mint
    <3> QED
      BY <3>4 DEF SealStep, Seal!Next
  <2>3. CASE post[r] # "minted"
    <3>1. post[r] \in {"failed", "quota"}
      BY <1>3, <2>3 DEF Receive, Replies
    <3>2. jobStatus' \in {"failed", "dead_letter"} /\ caseStatus' = caseStatus
      BY <2>1, <3>1 DEF ApplyResult, FinalStatus
    <3> QED
      BY <2>1, <3>2, StaysOpen
  <2> QED
    BY <2>2, <2>3
<1> QED
  BY <1>1, <1>2, <1>3 DEF RunStep

\* The callers of runSealJob create the job or take an open one.
LEMMA CallersSeal ==
  ASSUME \/ \E killed \in Killed : Enqueue(killed) \/ OperatorRuns(killed)
         \/ EngineLists \/ EngineRetries
  PROVE  SealStep
<1>1. ASSUME NEW killed \in Killed, Enqueue(killed)
      PROVE  SealStep
  <2>1. /\ jobStatus = "none" /\ jobStatus' \in {"queued", "minting"}
        /\ caseStatus' = caseStatus
    BY <1>1 DEF Enqueue, Dispatch, case
  <2>2. jobSeen = "none" /\ jobSeen' = "open"
    BY <2>1 DEF jobSeen
  <2>3. Seal!Open
    BY <2>1, <2>2 DEF Seal!Open
  <2> QED
    BY <2>3 DEF SealStep, Seal!Next
<1>2. ASSUME NEW killed \in Killed, OperatorRuns(killed)
      PROVE  SealStep
  <2>1. /\ jobStatus \in Redrivable /\ jobStatus' \in {"queued", "minting"}
        /\ caseStatus' = caseStatus
    BY <1>2 DEF OperatorRuns, Dispatch, case
  <2> QED
    BY <2>1, StaysOpen DEF Redrivable
<1>3. CASE EngineLists \/ (EngineRetries /\ jobStatus \notin Claimable)
  <2>1. UNCHANGED <<jobStatus, caseStatus>>
    BY <1>3 DEF EngineLists, EngineRetries, job, case
  <2> QED
    BY <2>1, SealStays DEF jobSeen
<1>4. CASE EngineRetries /\ jobStatus \in Claimable
  <2>1. jobStatus' = "minting" /\ caseStatus' = caseStatus
    BY <1>4 DEF EngineRetries, Dispatch
  <2> QED
    BY <1>4, <2>1, StaysOpen DEF Claimable
<1> QED
  BY <1>1, <1>2, <1>3, <1>4

LEMMA StepSeals ==
  ASSUME ~Callbacks, ClaimInv, [Next]_vars
  PROVE  SealStep
<1>1. ASSUME WorkerStep \/ Restart \/ UNCHANGED vars
      PROVE  SealStep
  <2>1. ASSUME NEW r \in Runners, WorkerMints(r) PROVE UNCHANGED <<job, case>>
    BY <2>1 DEF WorkerMints
  <2>2. ASSUME NEW r \in Runners, NEW code \in {"failed", "quota"}, WorkerFails(r, code)
        PROVE  UNCHANGED <<job, case>>
    BY <2>2 DEF WorkerFails
  <2>3. ASSUME NEW mints \in BOOLEAN, OrphanEnds(mints) PROVE UNCHANGED <<job, case>>
    BY <2>3 DEF OrphanEnds
  <2>4. UNCHANGED <<job, case>>
    BY <1>1, <2>1, <2>2, <2>3 DEF WorkerStep, Callback, Restart, vars
  <2> QED
    BY <2>4, SealStays DEF job, case, jobSeen
<1> QED
  BY <1>1, RunSeals, CallersSeal DEF Next

\* However often the worker is posted to, given up on and posted to again, and wherever the
\* process dies, the job does to its case what CaseSession makes of it: it is created once
\* (createSealJobIfMissing), minted once and seals the case with it (applySealResult), as
\* long as no callback writes the job.
THEOREM SealsAsTheCaseExpects == ASSUME ~Callbacks PROVE Spec => ImplementsCaseSeal
<1>1. Init => Seal!Init
  BY DEF Init, Seal!Init, jobSeen
<1>2. ClaimInv /\ [Next]_vars => [Seal!Next]_<<jobSeen, caseStatus = "sealed">>
  BY StepSeals DEF SealStep
<1> QED
  BY <1>1, <1>2, ClaimAlways, PTL DEF Spec, ImplementsCaseSeal, Seal!Spec

-----------------------------------------------------------------------------
(* The spend on chain, with or without callbacks.                           *)

\* A claim pays for one round of POSTs.
LEMMA ClaimPays ==
  ASSUME attempts \in Nat
  PROVE  (attempts + 1) * HttpAttempts = attempts * HttpAttempts + HttpAttempts
BY SealAssumption

LEMMA ReserveIsNat ==
  ASSUME TypeOK, TriesBounded, NEW r \in Runners
  PROVE  Reserve(r) \in Nat
<1>1. tries[r] \in Nat
  BY DEF TypeOK
<1>2. CASE Waiting(r)
  BY <1>1, <1>2, SealAssumption DEF TriesBounded, Reserve, Outstanding
<1> QED
  BY <1>2 DEF Reserve

\* With the process die all its runs: their outstanding POSTs become orphans.
LEMMA DieBudget ==
  ASSUME BudgetInv, Die, attempts' = attempts
  PROVE  TriesBounded' /\ Budget'
<1>1. \A r \in Runners : post'[r] = "none"
  BY DEF Die
<1>2. \A r \in Runners : Reserve(r)' = 0
  BY <1>1 DEF Reserve, Waiting
<1>3. ASSUME NEW r \in Runners PROVE Outstanding(r) \in Nat /\ Outstanding(r) <= Reserve(r)
  <2>1. CASE Waiting(r)
    <3>1. tries[r] \in 1 .. HttpAttempts
      BY <2>1 DEF BudgetInv, TriesBounded
    <3> QED
      BY <2>1, <3>1, SealAssumption DEF Reserve, Outstanding
  <2> QED
    BY <2>1 DEF Reserve, Outstanding, Waiting
<1>4. assets' = assets
       /\ orphans' = orphans + Outstanding("pipeline") + Outstanding("engine")
                             + Outstanding("operator")
  BY DEF Die
<1>5. attempts * HttpAttempts \in Nat /\ assets \in Nat /\ orphans \in Nat
  BY SealAssumption DEF BudgetInv, TypeOK
<1>6. Reserve("pipeline") \in Nat /\ Reserve("engine") \in Nat /\ Reserve("operator") \in Nat
  BY ReserveIsNat DEF BudgetInv, Runners
<1>7. Budget'
  BY <1>2, <1>3, <1>4, <1>5, <1>6 DEF Budget, BudgetInv, Runners
<1> QED
  BY <1>1, <1>7 DEF TriesBounded, Waiting

\* A step that changes at most the run of r, and makes no claim, keeps the budget when it
\* keeps this sum.
LEMMA RunStepBudget ==
  ASSUME BudgetInv, TypeOK', TriesBounded', NEW r \in Runners,
         \A q \in Runners \ {r} : post'[q] = post[q] /\ tries'[q] = tries[q],
         attempts' = attempts,
         assets' + orphans' + Reserve(r)' <= assets + orphans + Reserve(r)
  PROVE  Budget'
<1>1. \A q \in Runners : Reserve(q) \in Nat
  BY ReserveIsNat DEF BudgetInv
<1>2. \A q \in Runners \ {r} : Reserve(q)' = Reserve(q)
  BY DEF Reserve, Waiting, Outstanding
<1>3. Reserve(r)' \in Nat
  <2>1. CASE Waiting(r)'
    <3>1. tries'[r] \in 1 .. HttpAttempts
      BY <2>1 DEF TriesBounded
    <3> QED
      BY <2>1, <3>1, SealAssumption DEF Reserve, Outstanding
  <2> QED
    BY <2>1 DEF Reserve
<1>4. attempts * HttpAttempts \in Nat
  BY SealAssumption DEF BudgetInv, TypeOK
<1>5. assets \in Nat /\ orphans \in Nat /\ assets' \in Nat /\ orphans' \in Nat
  BY DEF BudgetInv, TypeOK
<1>6. CASE r = "pipeline"
  BY <1>1, <1>2, <1>3, <1>4, <1>5, <1>6 DEF BudgetInv, Budget, Runners
<1>7. CASE r = "engine"
  BY <1>1, <1>2, <1>3, <1>4, <1>5, <1>7 DEF BudgetInv, Budget, Runners
<1>8. CASE r = "operator"
  BY <1>1, <1>2, <1>3, <1>4, <1>5, <1>8 DEF BudgetInv, Budget, Runners
<1> QED
  BY <1>6, <1>7, <1>8 DEF Runners

\* A claim adds one round of POSTs to both sides.
LEMMA DispatchBudget ==
  ASSUME BudgetInv, NEW r \in Runners, Dispatch(r)
  PROVE  TriesBounded' /\ Budget'
<1>1. \A q \in Runners : Reserve(q) \in Nat
  BY ReserveIsNat DEF BudgetInv
<1>2. /\ \A q \in Runners : post'[q] = IF q = r THEN "pending" ELSE post[q]
      /\ \A q \in Runners : tries'[q] = IF q = r THEN 1 ELSE tries[q]
  BY DEF Dispatch, BudgetInv, TypeOK
<1>3. \A q \in Runners \ {r} : Reserve(q)' = Reserve(q)
  BY <1>2 DEF Reserve, Waiting, Outstanding
<1>4. Reserve(r)' = HttpAttempts
  BY <1>2, SealAssumption DEF Reserve, Waiting, Outstanding
<1>5. attempts' * HttpAttempts = attempts * HttpAttempts + HttpAttempts
  BY ClaimPays DEF Dispatch, BudgetInv, TypeOK
<1>6. attempts * HttpAttempts \in Nat /\ HttpAttempts \in Nat
  BY SealAssumption DEF BudgetInv, TypeOK
<1>7. assets \in Nat /\ orphans \in Nat /\ assets' = assets /\ orphans' = orphans
  BY DEF BudgetInv, TypeOK, Dispatch, worker
<1> DEFINE paid == attempts * HttpAttempts
           total == Reserve("pipeline") + Reserve("engine") + Reserve("operator")
           totalNext == Reserve("pipeline")' + Reserve("engine")' + Reserve("operator")'
<1>8. total \in Nat /\ totalNext \in Nat /\ totalNext <= total + HttpAttempts
  <2>1. CASE r = "pipeline"
    BY <1>1, <1>3, <1>4, <1>6, <2>1 DEF Runners
  <2>2. CASE r = "engine"
    BY <1>1, <1>3, <1>4, <1>6, <2>2 DEF Runners
  <2>3. CASE r = "operator"
    BY <1>1, <1>3, <1>4, <1>6, <2>3 DEF Runners
  <2> QED
    BY <2>1, <2>2, <2>3 DEF Runners
<1>9. assets + orphans + total <= paid
  <2>1. assets + orphans + Reserve("pipeline") + Reserve("engine") + Reserve("operator") <= paid
    BY DEF BudgetInv, Budget
  <2> HIDE DEF paid
  <2> QED
    BY <1>1, <1>7, <2>1 DEF Runners
<1>10. assets' + orphans' + totalNext <= paid + HttpAttempts
  <2> HIDE DEF paid, total, totalNext
  <2> QED
    BY <1>6, <1>7, <1>8, <1>9 DEF paid
<1>12. assets' + orphans' + Reserve("pipeline")' + Reserve("engine")' + Reserve("operator")'
         <= paid + HttpAttempts
  <2> HIDE DEF paid
  <2>1. \A q \in Runners : Reserve(q)' \in Nat
    BY <1>1, <1>3, <1>4, <1>6
  <2> QED
    BY <1>7, <1>10, <2>1 DEF Runners
<1>13. Budget'
  BY <1>5, <1>12 DEF Budget
<1>11. TriesBounded'
  BY <1>2, SealAssumption DEF BudgetInv, TriesBounded, Waiting
<1> QED
  BY <1>11, <1>13

\* A step that leaves the runs, the worker and the claims alone.
LEMMA SameBudget ==
  ASSUME BudgetInv, UNCHANGED <<post, tries, orphans, assets, attempts>>
  PROVE  TriesBounded' /\ Budget'
BY DEF BudgetInv, TriesBounded, Budget, Reserve, Waiting, Outstanding

\* A run that ends, its outstanding POST becoming an orphan or not.
LEMMA RunEndsBudget ==
  ASSUME BudgetInv, TypeOK', NEW r \in Runners, Waiting(r), RunEnds(r),
         attempts' = attempts, assets' = assets,
         orphans' \in {orphans, orphans + Outstanding(r)}
  PROVE  TriesBounded' /\ Budget'
<1>1. \A q \in Runners : /\ post'[q] = IF q = r THEN "none" ELSE post[q]
                         /\ tries'[q] = IF q = r THEN 0 ELSE tries[q]
  BY DEF RunEnds, BudgetInv, TypeOK
<1>2. TriesBounded'
  BY <1>1 DEF BudgetInv, TriesBounded, Waiting
<1>3. tries[r] \in 1 .. HttpAttempts
  BY DEF BudgetInv, TriesBounded
<1>4. assets' + orphans' + Reserve(r)' <= assets + orphans + Reserve(r)
  BY <1>1, <1>3, SealAssumption DEF BudgetInv, TypeOK, Reserve, Outstanding, Waiting
<1> QED
  BY <1>1, <1>2, <1>4, RunStepBudget

\* Each action keeps the budget.
LEMMA NextBudget == BudgetInv /\ [Next]_vars => BudgetInv'
<1> SUFFICES ASSUME BudgetInv, [Next]_vars PROVE BudgetInv'
  OBVIOUS
<1> DEFINE Goal == TriesBounded' /\ Budget'
<1>0. TypeOK'
  BY NextTypes DEF BudgetInv
<1>1. ASSUME NEW killed \in Killed, Enqueue(killed) PROVE Goal
  BY <1>1, DieBudget, DispatchBudget DEF Enqueue, Runners
<1>2. ASSUME EngineLists PROVE Goal
  BY <1>2, SameBudget DEF EngineLists, job, runs, worker
<1>3. ASSUME EngineRetries PROVE Goal
  BY <1>3, SameBudget, DispatchBudget DEF EngineRetries, job, runs, worker, Runners
<1>4. ASSUME NEW killed \in Killed, OperatorRuns(killed) PROVE Goal
  BY <1>4, DieBudget, DispatchBudget DEF OperatorRuns, Runners
<1>5. ASSUME NEW r \in Runners, PostAgain(r) PROVE Goal
  <2>1. \A q \in Runners : /\ post'[q] = IF q = r THEN "pending" ELSE post[q]
                           /\ tries'[q] = IF q = r THEN tries[r] + 1 ELSE tries[q]
    BY <1>5 DEF PostAgain, BudgetInv, TypeOK
  <2>2. tries[r] \in 1 .. HttpAttempts /\ tries[r] < HttpAttempts /\ Waiting(r)
    BY <1>5 DEF PostAgain, AttemptsLeft, BudgetInv, TriesBounded
  <2>3. TriesBounded'
    BY <2>1, <2>2, SealAssumption DEF BudgetInv, TriesBounded, Waiting
  <2>4. assets' = assets /\ orphans' = orphans + Outstanding(r) /\ attempts' = attempts
    BY <1>5 DEF PostAgain, job
  <2>5. Reserve(r)' = HttpAttempts - tries[r]
    BY <2>1, <2>2, SealAssumption DEF Reserve, Outstanding, Waiting
  <2>6. Reserve(r) = Outstanding(r) + HttpAttempts - tries[r] /\ Outstanding(r) \in Nat
    BY <2>2 DEF Reserve, Outstanding
  <2>7. assets' + orphans' + Reserve(r)' <= assets + orphans + Reserve(r)
    BY <2>2, <2>4, <2>5, <2>6, SealAssumption DEF BudgetInv, TypeOK
  <2> QED
    BY <1>0, <2>1, <2>3, <2>4, <2>7, RunStepBudget
<1>6. ASSUME NEW r \in Runners, GiveUp(r) PROVE Goal
  BY <1>0, <1>6, RunEndsBudget DEF GiveUp
<1>7. ASSUME NEW r \in Runners, NEW killed \in Killed, Receive(r, killed) PROVE Goal
  <2>1. attempts' = attempts /\ Waiting(r)
    BY <1>7 DEF Receive, ApplyResult, Waiting, Replies
  <2> QED
    BY <1>0, <1>7, <2>1, DieBudget, RunEndsBudget DEF Receive, worker
<1>8. ASSUME NEW r \in Runners, WorkerMints(r) PROVE Goal
  <2>1. \A q \in Runners : post'[q] = IF q = r THEN "minted" ELSE post[q]
    BY <1>8 DEF WorkerMints, BudgetInv, TypeOK
  <2>2. /\ UNCHANGED <<tries, orphans, attempts>> /\ assets' = assets + 1
        /\ post[r] = "pending"
    BY <1>8 DEF WorkerMints, job
  <2>3. TriesBounded'
    BY <2>1, <2>2 DEF BudgetInv, TriesBounded, Waiting
  <2>4. tries[r] \in 1 .. HttpAttempts
    BY <2>2 DEF BudgetInv, TriesBounded, Waiting
  <2>5. assets' + orphans' + Reserve(r)' <= assets + orphans + Reserve(r)
    BY <2>1, <2>2, <2>4, SealAssumption DEF BudgetInv, TypeOK, Reserve, Outstanding, Waiting
  <2> QED
    BY <1>0, <2>1, <2>2, <2>3, <2>5, RunStepBudget
<1>9. ASSUME NEW r \in Runners, NEW code \in {"failed", "quota"}, WorkerFails(r, code)
      PROVE Goal
  <2>1. \A q \in Runners : post'[q] = IF q = r THEN code ELSE post[q]
    BY <1>9 DEF WorkerFails, BudgetInv, TypeOK
  <2>2. UNCHANGED <<tries, orphans, assets, attempts>> /\ post[r] = "pending"
    BY <1>9 DEF WorkerFails, job, worker
  <2>3. TriesBounded'
    BY <2>1, <2>2 DEF BudgetInv, TriesBounded, Waiting
  <2>4. tries[r] \in 1 .. HttpAttempts
    BY <2>2 DEF BudgetInv, TriesBounded, Waiting
  <2>5. assets' + orphans' + Reserve(r)' <= assets + orphans + Reserve(r)
    BY <2>1, <2>2, <2>4, SealAssumption DEF BudgetInv, TypeOK, Reserve, Outstanding, Waiting
  <2> QED
    BY <1>0, <2>1, <2>2, <2>3, <2>5, RunStepBudget
<1>10. ASSUME NEW mints \in BOOLEAN, OrphanEnds(mints) PROVE Goal
  <2>1. UNCHANGED <<post, tries, attempts>>
    BY <1>10 DEF OrphanEnds, job, runs
  <2>2. TriesBounded' /\ Reserve("engine")' = Reserve("engine")
    BY <2>1 DEF BudgetInv, TriesBounded, Reserve, Outstanding, Waiting
  <2>3. Reserve("engine") \in Nat
    BY ReserveIsNat DEF BudgetInv, Runners
  <2>4. assets' + orphans' + Reserve("engine")' <= assets + orphans + Reserve("engine")
    BY <1>10, <2>2, <2>3 DEF OrphanEnds, BudgetInv, TypeOK
  <2> QED
    BY <1>0, <2>1, <2>2, <2>4, RunStepBudget DEF Runners
<1>11. ASSUME NEW result \in Replies, NEW asset \in 0 .. assets, NEW killed \in Killed,
              Callback(result, asset, killed)
       PROVE Goal
  BY <1>11, DieBudget, SameBudget DEF Callback, ApplyResult, runs, worker
<1>12. ASSUME Restart PROVE Goal
  BY <1>12, DieBudget DEF Restart, job
<1>13. ASSUME UNCHANGED vars PROVE Goal
  BY <1>13, SameBudget DEF vars, job, runs, worker
<1>14. ASSUME NEW r \in Runners, RunStep(r) PROVE Goal
  BY <1>5, <1>6, <1>7, <1>14 DEF RunStep
<1>15. ASSUME WorkerStep PROVE Goal
  BY <1>8, <1>9, <1>10, <1>11, <1>15 DEF WorkerStep
<1>16. Goal
  BY <1>1, <1>2, <1>3, <1>4, <1>12, <1>13, <1>14, <1>15 DEF Next
<1> QED
  BY <1>0, <1>16 DEF BudgetInv

\* No claim of the job costs more than HttpAttempts mints on chain, abandoned POSTs,
\* restarts and callbacks included.
THEOREM SpendIsBounded == Spec => []MintsWithinClaims
<1>1. Init => BudgetInv
  <2> SUFFICES ASSUME Init PROVE BudgetInv
    OBVIOUS
  <2>1. \A r \in Runners : post[r] = "none"
    BY DEF Init
  <2>2. \A r \in Runners : Reserve(r) = 0
    BY <2>1 DEF Reserve, Waiting
  <2>3. Budget
    BY <2>2, SealAssumption DEF Init, Budget, Runners
  <2> QED
    BY <2>1, <2>3, InitTypes DEF BudgetInv, TriesBounded, Waiting
<1>2. BudgetInv => MintsWithinClaims
  <2> SUFFICES ASSUME BudgetInv PROVE MintsWithinClaims
    OBVIOUS
  <2>1. \A r \in Runners : Reserve(r) \in Nat
    BY ReserveIsNat DEF BudgetInv
  <2>2. attempts * HttpAttempts \in Nat /\ assets \in Nat /\ orphans \in Nat
    BY SealAssumption DEF BudgetInv, TypeOK
  <2> QED
    BY <2>1, <2>2 DEF BudgetInv, Budget, MintsWithinClaims, Runners
<1> QED
  BY <1>1, <1>2, NextBudget, PTL DEF Spec

-----------------------------------------------------------------------------
(* The job and its case.                                                    *)

\* The two writes of applySealResult, none of them lost.
LEMMA ApplySeals ==
  ASSUME NEW result \in Replies, NEW asset, ApplyResult(result, asset, FALSE)
  PROVE  MintedIsSealed'
BY DEF ApplyResult, FinalStatus, MintedIsSealed, Replies

\* As long as no death falls between applySealResult's two writes, whatever results arrive
\* and however late, by reply or by callback, the case of a minted job is sealed.
THEOREM MintedJobSealsCase == ASSUME ~HardKill PROVE Spec => []MintedIsSealed
<1>1. Init => MintedIsSealed
  BY DEF Init, MintedIsSealed
<1>2. MintedIsSealed /\ [Next]_vars => MintedIsSealed'
  <2> SUFFICES ASSUME MintedIsSealed, [Next]_vars PROVE MintedIsSealed'
    OBVIOUS
  <2>0. Killed = {FALSE}
    BY DEF Killed
  <2>1. ASSUME NEW killed \in Killed, Enqueue(killed) \/ OperatorRuns(killed)
        PROVE  MintedIsSealed'
    BY <2>0, <2>1 DEF Enqueue, OperatorRuns, Dispatch, MintedIsSealed
  <2>2. ASSUME EngineLists \/ EngineRetries PROVE MintedIsSealed'
    BY <2>2 DEF EngineLists, EngineRetries, Dispatch, MintedIsSealed, job, case
  <2>3. ASSUME NEW r \in Runners, RunStep(r) PROVE MintedIsSealed'
    <3>1. CASE PostAgain(r)
      BY <3>1 DEF PostAgain, MintedIsSealed, job, case
    <3>2. CASE GiveUp(r)
      BY <3>2 DEF GiveUp, JobFailed, MintedIsSealed
    <3>3. CASE \E killed \in Killed : Receive(r, killed)
      BY <2>0, <3>3, ApplySeals DEF Receive
    <3> QED
      BY <2>3, <3>1, <3>2, <3>3 DEF RunStep
  <2>4. ASSUME WorkerStep PROVE MintedIsSealed'
    <3>1. ASSUME NEW r \in Runners,
                 WorkerMints(r) \/ \E code \in {"failed", "quota"} : WorkerFails(r, code)
          PROVE  MintedIsSealed'
      BY <3>1 DEF WorkerMints, WorkerFails, MintedIsSealed, job, case
    <3>2. ASSUME NEW mints, OrphanEnds(mints) PROVE MintedIsSealed'
      BY <3>2 DEF OrphanEnds, MintedIsSealed, job, case
    <3>3. ASSUME NEW result \in Replies, NEW asset, NEW killed \in Killed,
                 Callback(result, asset, killed)
          PROVE  MintedIsSealed'
      BY <2>0, <3>3, ApplySeals DEF Callback
    <3> QED
      BY <2>4, <3>1, <3>2, <3>3 DEF WorkerStep
  <2>5. CASE Restart \/ UNCHANGED vars
    BY <2>5 DEF Restart, vars, MintedIsSealed, job, case
  <2> QED
    BY <2>1, <2>2, <2>3, <2>4, <2>5 DEF Next
<1> QED
  BY <1>1, <1>2, PTL DEF Spec

=============================================================================
