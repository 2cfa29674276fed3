-------------------------- MODULE CaseFinalProofs --------------------------
(***************************************************************************)
(* Proofs about where a case of CaseSession goes and how it ends: what a   *)
(* void and a verdict leave behind; that without operator endpoints it     *)
(* follows CaseLifecycle, its two rows staying within a stage of each      *)
(* other whichever of their writes a death loses; that verdicts rest on a  *)
(* full panel; and that the case counts its jury as PanelCount does, comes *)
(* by its verdict as CaseVerdict has it and by its seal as CaseSeal has.   *)
(***************************************************************************)
EXTENDS CaseSessionProofs

(***************************************************************************)
(* A verdict and a void exclude each other's seal, provided no jury is     *)
(* selected anew: the engine waits with a case that has no verdict yet, a  *)
(* run of closeCasePipeline works on a case that was being voted on, and   *)
(* what it hashes and enqueues is decided already.                         *)
(***************************************************************************)

Decided  == {"closed", "sealed"}
Awaiting == {"screening", "inviting", "replacing"}

\* Where the engine may wait: at a stage before the session, or voided meanwhile.
WaitInv ==
  engine.pc \in Awaiting =>
    /\ currentStage \in {"judge_screening", "pre_session", "jury_readiness", "void"}
    /\ PipelineFree /\ status \notin Decided

\* One run of closeCasePipeline at a time, and what each of its waits knows.
RunInv ==
  /\ \A c, d \in Closers : closers[c] # "idle" /\ closers[d] # "idle" => c = d
  /\ \A c \in Closers :
       /\ closers[c] = "judging" =>
            currentStage \in {"voting", "void"} /\ status \in {"voting", "void"}
       /\ closers[c] \in {"hashing", "enqueuing"} => currentStage \in Decided /\ status \in Decided
       /\ closers[c] = "enqueuing" => ~sealedDisabled

\* A verdict whose runtime row was torn off finds no engine that holds the case.
TornInv == status \in Decided => currentStage \in Decided \/ engine.pc = "idle"

\* Seal jobs belong to verdicts, and void cases cannot have one.
SealInv ==
  /\ sealJob # "none" => status \in Decided /\ voidReason = "none"
  /\ status = "sealed" => sealJob = "minted"
  /\ voidReason # "none" => sealedDisabled

FinalInv == TypeInv /\ ~selecting /\ WaitInv /\ RunInv /\ TornInv /\ SealInv

\* What a step has to show that changes neither the rows nor the pipeline's runs, but for
\* ending them.
LEMMA FinalQuiet ==
  ASSUME FinalInv, TypeInv', ~selecting',
         UNCHANGED <<status, currentStage, voidReason, sealedDisabled, sealJob>>,
         \A c \in Closers : closers'[c] \in {closers[c], "idle"},
         \/ engine'.pc \in {"idle", engine.pc}
         \/ engine'.pc = "listed" /\ status \notin Decided
         \/ /\ engine'.pc \in Awaiting /\ status \notin Decided /\ PipelineFree
            /\ currentStage \in {"judge_screening", "pre_session", "jury_readiness"}
  PROVE  FinalInv'
<1>1. WaitInv'
  BY DEF FinalInv, WaitInv, PipelineFree, Awaiting
<1>2. RunInv'
  BY DEF FinalInv, RunInv
<1>3. TornInv'
  BY DEF FinalInv, TornInv, Awaiting
<1>4. SealInv'
  BY DEF FinalInv, SealInv
<1> QED
  BY <1>1, <1>2, <1>3, <1>4 DEF FinalInv

\* Who dies waits for nothing.
LEMMA DieFinal ==
  ASSUME Die
  PROVE  engine'.pc = "idle" /\ ~selecting' /\ \A c \in Closers : closers'[c] = "idle"
BY DEF Die, Closers

\* A case without a verdict is voided: its runs are over, or go on without a seal.
LEMMA FinalVoid ==
  ASSUME FinalInv, TypeInv', ~selecting', NEW reason, NEW killed \in BOOLEAN,
         MarkVoid(reason, killed), status \notin Decided, sealJob' = sealJob,
         \A c \in Closers : closers'[c] \in {closers[c], "idle"},
         engine'.pc \in {"idle", engine.pc},
         killed => engine'.pc = "idle" /\ \A c \in Closers : closers'[c] = "idle"
  PROVE  FinalInv'
<1>1. /\ status' = "void" /\ sealedDisabled'
      /\ killed \/ currentStage' = "void"
      /\ sealJob = "none"
  BY DEF MarkVoid, FinalInv, SealInv
<1>2. WaitInv'
  BY <1>1 DEF FinalInv, WaitInv, PipelineFree, Awaiting, Decided
<1>3. RunInv'
  BY <1>1 DEF FinalInv, RunInv
<1>4. TornInv' /\ SealInv'
  BY <1>1 DEF TornInv, SealInv, Decided
<1> QED
  BY <1>2, <1>3, <1>4 DEF FinalInv

\* A case without a verdict, and without a run towards one, is moved to another stage.
LEMMA FinalStage ==
  ASSUME FinalInv, TypeInv', ~selecting', NEW st \in LiveStages, NEW killed \in BOOLEAN,
         SetStage(st, killed), status \notin Decided, sealJob' = sealJob,
         UNCHANGED <<voidReason, sealedDisabled>>,
         \A c \in Closers : closers'[c] = "idle",
         engine'.pc = "idle"
  PROVE  FinalInv'
<1>1. sealJob = "none" /\ status' \in OpenStatuses
  BY DEF SetStage, StageStatus, OpenStatuses, FinalInv, SealInv
<1>2. WaitInv' /\ RunInv'
  BY DEF WaitInv, RunInv, Awaiting
<1>3. TornInv' /\ SealInv'
  BY <1>1 DEF FinalInv, TornInv, SealInv, OpenStatuses, Decided
<1> QED
  BY <1>2, <1>3 DEF FinalInv

\* The engine decides about a case that has no verdict, and none on its way unless the
\* case is being voted on.
MayDecide ==
  \/ engine.pc \in Awaiting
  \/ engine.pc = "listed" /\ currentStage \in LiveStages

LEMMA Undecided ==
  ASSUME FinalInv, MayDecide
  PROVE  status \notin Decided /\ (currentStage # "voting" => PipelineFree)
<1>1. \A c \in Closers : closers[c] \in {"idle", "judging", "hashing", "enqueuing"}
  BY DEF FinalInv, TypeInv, TypeOK, MemoryTypeOK
<1>2. currentStage \in LiveStages => currentStage \notin Decided /\ currentStage # "void"
  BY DEF LiveStages, SubmissionStages, Decided
<1>3. CASE engine.pc \in Awaiting
  BY <1>3 DEF FinalInv, WaitInv
<1>4. CASE engine.pc = "listed" /\ currentStage \in LiveStages
  BY <1>1, <1>2, <1>4 DEF FinalInv, TornInv, RunInv, PipelineFree
<1> QED
  BY <1>3, <1>4 DEF MayDecide

\* The end of a turn, or the death in it, ends runs and selects no jury.
LEMMA EngineDoneFinal ==
  ASSUME FinalInv, NEW killed \in BOOLEAN, EngineDone(killed)
  PROVE  /\ engine'.pc = "idle" /\ ~selecting'
         /\ \A c \in Closers : closers'[c] \in {closers[c], "idle"}
         /\ killed => \A c \in Closers : closers'[c] = "idle"
<1>1. CASE killed
  BY <1>1, DieFinal DEF EngineDone
<1>2. CASE ~killed
  BY <1>2 DEF EngineDone, Idle, requests, FinalInv
<1> QED
  BY <1>1, <1>2

\* The three ends of a turn.
LEMMA EngineVoidFinal ==
  ASSUME FinalInv, NEW killed \in BOOLEAN, TypeInv', MayDecide, NEW reason,
         EngineVoid(reason, killed)
  PROVE  FinalInv'
<1>1. status \notin Decided
  BY Undecided
<1>2. MarkVoid(reason, killed) /\ EngineDone(killed) /\ sealJob' = sealJob
  BY DEF EngineVoid
<1>3. /\ engine'.pc = "idle" /\ ~selecting'
      /\ \A c \in Closers : closers'[c] \in {closers[c], "idle"}
      /\ killed => \A c \in Closers : closers'[c] = "idle"
  BY <1>2, EngineDoneFinal
<1> QED
  BY <1>1, <1>2, <1>3, FinalVoid

LEMMA EngineStageFinal ==
  ASSUME FinalInv, NEW killed \in BOOLEAN, TypeInv', MayDecide, NEW st \in LiveStages,
         EngineStage(st, killed), currentStage # "voting"
  PROVE  FinalInv'
<1>1. status \notin Decided /\ PipelineFree
  BY Undecided
<1>2. /\ SetStage(st, killed) /\ EngineDone(killed)
      /\ UNCHANGED <<voidReason, sealedDisabled, sealJob>>
  BY DEF EngineStage
<1>3. /\ engine'.pc = "idle" /\ ~selecting'
      /\ \A c \in Closers : closers'[c] \in {closers[c], "idle"}
  BY <1>2, EngineDoneFinal
<1>4. \A c \in Closers : closers'[c] = "idle"
  BY <1>1, <1>3 DEF PipelineFree
<1> QED
  BY <1>1, <1>2, <1>3, <1>4, FinalStage

LEMMA EngineNothingFinal ==
  ASSUME FinalInv, TypeInv', EngineNothing
  PROVE  FinalInv'
<1>1. EngineDone(FALSE)
  BY DEF EngineNothing
<1>2. /\ engine'.pc = "idle" /\ ~selecting'
      /\ \A c \in Closers : closers'[c] \in {closers[c], "idle"}
  BY <1>1, EngineDoneFinal
<1> QED
  BY <1>2, FinalQuiet DEF EngineNothing, caseRow

\* The engine's listings and suspensions.
LEMMA ListingFinal ==
  ASSUME FinalInv, ListCases \/ SkipCase \/ AskJudge \/ SendInvite \/ DrawReplacement
  PROVE  FinalInv'
<1>1. TypeInv'
  BY ListingTypes DEF FinalInv
<1>2. /\ UNCHANGED <<status, currentStage, voidReason, sealedDisabled, sealJob, closers>>
      /\ ~selecting'
  BY DEF ListCases, SkipCase, AskJudge, SendInvite, DrawReplacement, Suspend, caseRow, requests,
         FinalInv
<1>3. engine \in Turns
  BY DEF FinalInv, TypeInv, TypeOK, MemoryTypeOK
<1>4. ASSUME ListCases PROVE engine'.pc = "listed" /\ status \notin Decided
  BY <1>3, <1>4 DEF ListCases, Turns, OpenStatuses, Decided
<1>5. ASSUME SkipCase PROVE engine'.pc = "idle"
  BY <1>5 DEF SkipCase, Idle
<1>6. ASSUME AskJudge \/ SendInvite \/ DrawReplacement
      PROVE  /\ engine'.pc \in Awaiting /\ status \notin Decided /\ PipelineFree
             /\ currentStage \in {"judge_screening", "pre_session", "jury_readiness"}
  <2>1. /\ engine.pc = "listed" /\ engine'.pc \in Awaiting
        /\ currentStage \in {"judge_screening", "pre_session", "jury_readiness"}
    BY <1>3, <1>6 DEF AskJudge, SendInvite, DrawReplacement, Suspend, Turns, Awaiting
  <2> QED
    BY <2>1, Undecided DEF MayDecide, LiveStages
<1> QED
  BY <1>1, <1>2, <1>4, <1>5, <1>6, FinalQuiet

\* The judge's answers.
LEMMA ScreeningFinal ==
  ASSUME FinalInv, NEW killed \in BOOLEAN,
         \/ ScreeningApproved(killed) \/ ScreeningRejected(killed) \/ ScreeningErrored(killed)
  PROVE  FinalInv'
<1>1. TypeInv'
  BY ScreeningTypes DEF FinalInv
<1>2. engine.pc = "screening" /\ sealJob' = sealJob
  BY DEF ScreeningApproved, ScreeningRejected, ScreeningErrored
<1>3. status \notin Decided /\ \A c \in Closers : closers[c] = "idle"
  BY <1>2 DEF FinalInv, WaitInv, Awaiting, PipelineFree
<1>4. engine'.pc = "idle" /\ ~selecting' /\ \A c \in Closers : closers'[c] = "idle"
  <2>1. CASE killed
    BY <2>1, DieFinal DEF ScreeningApproved, ScreeningRejected, ScreeningErrored
  <2>2. CASE ~killed
    <3>1. /\ \E n : engine' = [Idle EXCEPT !.attempts = n]
          /\ UNCHANGED <<closers, requests>>
      BY <2>2 DEF ScreeningApproved, ScreeningRejected, ScreeningErrored
    <3> QED
      BY <1>3, <3>1 DEF Idle, requests, FinalInv
  <2> QED
    BY <2>1, <2>2
<1>5. \/ /\ UNCHANGED <<status, currentStage, voidReason, sealedDisabled>>
      \/ SetStage("pre_session", killed) /\ UNCHANGED <<voidReason, sealedDisabled>>
      \/ \E reason : MarkVoid(reason, killed)
  BY DEF ScreeningApproved, ScreeningRejected, ScreeningErrored, NotReached
<1> QED
  BY <1>1, <1>2, <1>3, <1>4, <1>5, FinalQuiet, FinalStage, FinalVoid DEF LiveStages

\* The engine's decisions.
LEMMA DecideFinal ==
  ASSUME FinalInv, NEW killed \in BOOLEAN,
         \/ DecidePreSession(killed) \/ DecideReadiness(killed)
         \/ DecideSubmissions(killed) \/ DecideVoting(killed)
  PROVE  FinalInv'
<1>1. TypeInv'
  BY DecideTypes DEF FinalInv
<1>2. MayDecide
  BY DEF DecidePreSession, DecideReadiness, DecideSubmissions, DecideVoting, MayDecide,
         Awaiting, LiveStages, SubmissionStages
<1>3. ASSUME NEW seen, PreSession(seen, killed), currentStage # "voting" PROVE FinalInv'
  <2>1. CASE EngineVoid("missing_defence_assignment", killed)
    BY <1>1, <1>2, <2>1, EngineVoidFinal
  <2>2. CASE EngineStage("jury_readiness", killed)
    <3>1. "jury_readiness" \in LiveStages
      BY DEF LiveStages
    <3> QED
      BY <1>1, <1>2, <1>3, <2>2, <3>1, EngineStageFinal
  <2>3. CASE EngineNothing
    BY <1>1, <2>3, EngineNothingFinal
  <2> QED
    BY <1>3, <2>1, <2>2, <2>3 DEF PreSession
<1>4. ASSUME NEW seen, NEW exhausted, Readiness(seen, exhausted, killed), currentStage # "voting"
      PROVE  FinalInv'
  <2>1. CASE EngineVoid("jury_readiness_timeout", killed)
    BY <1>1, <1>2, <2>1, EngineVoidFinal
  <2>2. CASE EngineStage("opening_addresses", killed)
    <3>1. "opening_addresses" \in LiveStages
      BY DEF LiveStages, SubmissionStages
    <3> QED
      BY <1>1, <1>2, <1>4, <2>2, <3>1, EngineStageFinal
  <2>3. CASE EngineNothing
    BY <1>1, <2>3, EngineNothingFinal
  <2> QED
    BY <1>4, <2>1, <2>2, <2>3 DEF Readiness
<1>5. ASSUME DecideSubmissions(killed) PROVE FinalInv'
  <2>1. NextStage[currentStage] \in LiveStages /\ currentStage # "voting"
    BY <1>5 DEF DecideSubmissions, SubmissionStages, NextStage, LiveStages
  <2>2. \/ EngineStage(NextStage[currentStage], killed)
        \/ EngineVoid("missing_submission", killed)
        \/ EngineNothing
    BY <1>5 DEF DecideSubmissions
  <2>3. CASE EngineStage(NextStage[currentStage], killed)
    BY <1>1, <1>2, <2>1, <2>3, EngineStageFinal
  <2> QED
    BY <1>1, <1>2, <2>2, <2>3, EngineVoidFinal, EngineNothingFinal
<1>6. ASSUME DecideVoting(killed) PROVE FinalInv'
  <2>1. CASE BallotsIn
    <3>1. /\ engine'.pc = "idle" /\ currentStage = "voting"
          /\ closers' = closers
             \/ /\ PipelineFree /\ status = "voting"
                /\ closers' = [closers EXCEPT !["engine"] = "judging"]
          /\ UNCHANGED <<caseRow, currentStage, sealJob, requests>>
      BY <1>6, <2>1 DEF DecideVoting, Idle
    <3>2. CASE closers' = closers
      BY <1>1, <3>1, <3>2, FinalQuiet DEF FinalInv, caseRow, requests
    <3>3. CASE PipelineFree /\ status = "voting"
               /\ closers' = [closers EXCEPT !["engine"] = "judging"]
      <4>1. \A c \in Closers : closers'[c] # "idle" => c = "engine" /\ closers'[c] = "judging"
        BY <3>3 DEF PipelineFree, FinalInv, TypeInv, TypeOK, MemoryTypeOK
      <4>2. RunInv'
        BY <3>1, <3>3, <4>1 DEF RunInv, caseRow
      <4>3. WaitInv' /\ TornInv'
        BY <3>1 DEF WaitInv, TornInv, Awaiting
      <4>4. SealInv'
        BY <3>1 DEF FinalInv, SealInv, caseRow
      <4> QED
        BY <1>1, <3>1, <4>2, <4>3, <4>4 DEF FinalInv, requests
    <3> QED
      BY <3>1, <3>2, <3>3
  <2>2. CASE ~BallotsIn
    BY <1>1, <1>2, <1>6, <2>2, EngineVoidFinal, EngineNothingFinal DEF DecideVoting
  <2> QED
    BY <2>1, <2>2
<1>7. DecidePreSession(killed) \/ DecideReadiness(killed) => currentStage # "voting"
  BY DEF DecidePreSession, DecideReadiness, FinalInv, WaitInv, Awaiting
<1> QED
  BY <1>3, <1>4, <1>5, <1>6, <1>7 DEF DecidePreSession, DecideReadiness

LEMMA EngineStepFinal == ASSUME FinalInv, EngineStep PROVE FinalInv'
<1>1. ASSUME DrawFails PROVE FinalInv'
  <2>1. TypeInv'
    BY <1>1, EngineNothingTypes DEF DrawFails, FinalInv
  <2> QED
    BY <1>1, <2>1, EngineNothingFinal DEF DrawFails
<1> QED
  BY <1>1, ListingFinal, ScreeningFinal, DecideFinal, KilledIsBoolean DEF EngineStep

\* A verdict finds its case as it was when the run began, or void.
LEMMA VerdictFinds ==
  ASSUME FinalInv, NEW c \in Closers, closers[c] = "judging"
  PROVE  /\ status \notin Decided /\ sealJob = "none" /\ engine.pc \notin Awaiting
         /\ \A d \in Closers : d # c => closers[d] = "idle"
BY DEF FinalInv, RunInv, WaitInv, SealInv, PipelineFree, Decided

LEMMA VerdictsFinal ==
  ASSUME FinalInv, NEW c \in Closers, NEW result \in Outcomes \cup {"inconclusive"},
         NEW killed \in BOOLEAN, Verdict(c, result, killed), TypeInv'
  PROVE  FinalInv'
<1>1. closers[c] = "judging" /\ sealJob' = sealJob
  BY DEF Verdict
<1>2. /\ status \notin Decided /\ sealJob = "none" /\ engine.pc \notin Awaiting
      /\ \A d \in Closers : d # c => closers[d] = "idle"
  BY <1>1, VerdictFinds
<1>3. ~selecting' /\ (killed => engine'.pc = "idle" /\ \A d \in Closers : closers'[d] = "idle")
  <2>1. CASE killed
    BY <2>1, DieFinal DEF Verdict
  <2>2. CASE ~killed
    BY <2>2 DEF Verdict, requests, FinalInv
  <2> QED
    BY <2>1, <2>2
<1>4. CASE result = "inconclusive"
  <2>1. MarkVoid("inconclusive_verdict", killed)
    BY <1>4 DEF Verdict
  <2>2. engine'.pc \in {"idle", engine.pc} /\ \A d \in Closers : closers'[d] \in {closers[d], "idle"}
    <3>1. CASE killed
      BY <1>3, <3>1
    <3>2. CASE ~killed
      BY <1>4, <3>2 DEF Verdict, FinalInv, TypeInv, TypeOK, MemoryTypeOK
    <3> QED
      BY <3>1, <3>2
  <2> QED
    BY <1>1, <1>2, <1>3, <2>1, <2>2, FinalVoid
<1>5. CASE result # "inconclusive"
  <2>1. status' = "closed" /\ UNCHANGED <<voidReason, sealedDisabled>>
    BY <1>5 DEF Verdict
  <2>2. CASE killed
    <3>1. WaitInv' /\ RunInv' /\ TornInv'
      BY <1>3, <2>2 DEF WaitInv, RunInv, TornInv, Awaiting
    <3>2. SealInv'
      BY <1>1, <1>2, <2>1 DEF FinalInv, SealInv
    <3> QED
      BY <1>3, <3>1, <3>2 DEF FinalInv
  <2>3. CASE ~killed
    <3>1. /\ currentStage' = "closed" /\ engine' = engine
          /\ closers' = [closers EXCEPT ![c] = "hashing"]
      BY <1>5, <2>3 DEF Verdict
    <3>2. \A d \in Closers : closers'[d] # "idle" => d = c /\ closers'[d] = "hashing"
      BY <1>2, <3>1 DEF FinalInv, TypeInv, TypeOK, MemoryTypeOK
    <3>3. RunInv'
      BY <2>1, <3>1, <3>2 DEF RunInv, Decided
    <3>4. WaitInv' /\ TornInv'
      BY <1>2, <3>1 DEF WaitInv, TornInv, Decided
    <3>5. SealInv'
      BY <1>1, <1>2, <2>1 DEF FinalInv, SealInv
    <3> QED
      BY <1>3, <3>3, <3>4, <3>5 DEF FinalInv
  <2> QED
    BY <2>2, <2>3
<1> QED
  BY <1>4, <1>5

\* The rest of closeCasePipeline, and the receipt.
LEMMA PipelineFinal == ASSUME FinalInv, PipelineStep \/ Minted PROVE FinalInv'
<1>0. TypeInv'
  BY PipelineTypes, OtherTypes DEF FinalInv
<1>1. ASSUME NEW c \in Closers, NEW result \in Outcomes \cup {"inconclusive"},
             NEW killed \in Killed, Verdict(c, result, killed)
      PROVE FinalInv'
  BY <1>0, <1>1, VerdictsFinal, KilledIsBoolean
<1>2. ASSUME NEW c \in Closers, SealHashes(c) PROVE FinalInv'
  <2>1. /\ closers[c] = "hashing"
        /\ closers' = [closers EXCEPT ![c] = IF SealWanted THEN "enqueuing" ELSE "idle"]
        /\ UNCHANGED <<caseRow, currentStage, sealJob, engine, requests>>
    BY <1>2 DEF SealHashes
  <2>2. currentStage \in Decided /\ status \in Decided
    BY <2>1 DEF FinalInv, RunInv
  <2>3. \A d \in Closers : closers'[d] # "idle" => closers[d] # "idle"
    BY <2>1 DEF FinalInv, TypeInv, TypeOK, MemoryTypeOK
  <2>4. \A d \in Closers : d # c => closers'[d] = closers[d]
    BY <2>1 DEF FinalInv, TypeInv, TypeOK, MemoryTypeOK
  <2>5. closers'[c] = "idle" \/ (closers'[c] = "enqueuing" /\ ~sealedDisabled)
    BY <2>1 DEF FinalInv, TypeInv, TypeOK, MemoryTypeOK, SealWanted
  <2>6. RunInv'
    BY <2>1, <2>2, <2>3, <2>4, <2>5 DEF FinalInv, RunInv, caseRow
  <2>7. WaitInv'
    BY <2>1, <2>2 DEF FinalInv, WaitInv
  <2>8. TornInv' /\ SealInv'
    BY <2>1 DEF FinalInv, TornInv, SealInv, caseRow
  <2> QED
    BY <1>0, <2>1, <2>6, <2>7, <2>8 DEF FinalInv, requests
<1>3. ASSUME NEW c \in Closers, EnqueueSeal(c) PROVE FinalInv'
  <2>1. /\ closers[c] = "enqueuing"
        /\ sealJob' = IF sealJob = "none" THEN "open" ELSE sealJob
        /\ closers' = [closers EXCEPT ![c] = "idle"]
        /\ UNCHANGED <<caseRow, currentStage, engine, requests>>
    BY <1>3 DEF EnqueueSeal
  <2>2. currentStage \in Decided /\ status \in Decided /\ voidReason = "none"
    BY <2>1 DEF FinalInv, RunInv, SealInv
  <2>3. \A d \in Closers : closers'[d] \in {closers[d], "idle"}
    BY <2>1 DEF FinalInv, TypeInv, TypeOK, MemoryTypeOK
  <2>4. RunInv'
    BY <2>1, <2>3 DEF FinalInv, RunInv, caseRow
  <2>5. WaitInv'
    BY <2>1, <2>2 DEF FinalInv, WaitInv
  <2>6. TornInv' /\ SealInv'
    BY <2>1, <2>2 DEF FinalInv, TornInv, SealInv, caseRow
  <2> QED
    BY <1>0, <2>1, <2>4, <2>5, <2>6 DEF FinalInv, requests
<1>4. ASSUME Minted PROVE FinalInv'
  <2>1. /\ sealJob = "open" /\ sealJob' = "minted"
        /\ status' = "sealed" /\ currentStage' = "sealed"
        /\ UNCHANGED <<voidReason, sealedDisabled, engine, closers, requests>>
    BY <1>4 DEF Minted
  <2>2. status \in Decided /\ voidReason = "none"
    BY <2>1 DEF FinalInv, SealInv
  <2>3. \A c \in Closers : closers[c] # "judging"
    BY <2>2 DEF FinalInv, RunInv, Decided
  <2>4. RunInv'
    BY <2>1, <2>3 DEF FinalInv, RunInv, Decided
  <2>5. WaitInv' /\ TornInv' /\ SealInv'
    BY <2>1, <2>2 DEF FinalInv, WaitInv, TornInv, SealInv, Decided
  <2> QED
    BY <1>0, <2>1, <2>4, <2>5 DEF FinalInv, requests
<1> QED
  BY <1>1, <1>2, <1>3, <1>4 DEF PipelineStep

\* The requests of the parties and the jurors, time, restarts.
LEMMA RequestFinal ==
  ASSUME FinalInv, PartyStep \/ ReplaceReadyJuror \/ TimePasses \/ Restart
  PROVE  FinalInv'
<1>1. TypeInv'
  BY PartyTypes, OtherTypes DEF FinalInv
<1>2. CASE File
  <2>1. /\ status = "draft" /\ status' = "jury_selected"
        /\ currentStage' \in {"judge_screening", "pre_session"}
        /\ UNCHANGED <<voidReason, sealedDisabled, sealJob, engine, closers, requests>>
    BY <1>2 DEF File
  <2>2. \A c \in Closers : closers[c] = "idle"
    BY <2>1 DEF FinalInv, RunInv, TypeInv, TypeOK, MemoryTypeOK, Decided
  <2>3. WaitInv' /\ RunInv' /\ TornInv'
    BY <2>1, <2>2 DEF FinalInv, WaitInv, RunInv, TornInv, PipelineFree, Decided
  <2>4. SealInv'
    BY <2>1 DEF FinalInv, SealInv, Decided
  <2> QED
    BY <1>1, <2>1, <2>3, <2>4 DEF FinalInv, requests
<1>3. CASE Restart
  BY <1>1, <1>3, DieFinal, FinalQuiet DEF Restart, caseRow
<1>4. CASE ~File /\ ~Restart
  <2>1. /\ UNCHANGED <<status, currentStage, voidReason, sealedDisabled, sealJob, engine, closers>>
        /\ selecting' = selecting
    BY <1>4 DEF PartyStep, ClaimDefence, JurorReady, BeginBallot, RecordBallot, BeginStageMessage,
                RecordStageMessage, ReplaceReadyJuror, TimePasses, caseRow, requests
  <2> QED
    BY <1>1, <2>1, FinalQuiet DEF FinalInv
<1> QED
  BY <1>2, <1>3, <1>4

\* The operator's close and void.
LEMMA OperatorFinal ==
  ASSUME FinalInv, OperatorStep, "select_jury" \notin OperatorOps
  PROVE  FinalInv'
<1>1. TypeInv'
  BY OperatorTypes DEF FinalInv
<1>2. ASSUME OperatorClose PROVE FinalInv'
  <2>1. /\ PipelineFree /\ status = "voting" /\ currentStage = "voting"
        /\ closers' = [closers EXCEPT !["operator"] = "judging"]
        /\ UNCHANGED <<caseRow, currentStage, sealJob, engine, requests>>
    BY <1>2 DEF OperatorClose
  <2>2. \A c \in Closers : closers'[c] # "idle" => c = "operator" /\ closers'[c] = "judging"
    BY <2>1 DEF PipelineFree, FinalInv, TypeInv, TypeOK, MemoryTypeOK
  <2>3. RunInv'
    BY <2>1, <2>2 DEF RunInv, caseRow
  <2>4. WaitInv' /\ TornInv' /\ SealInv'
    BY <2>1 DEF FinalInv, WaitInv, TornInv, SealInv, caseRow, Decided
  <2> QED
    BY <1>1, <2>1, <2>3, <2>4 DEF FinalInv, requests
<1>3. ASSUME NEW killed \in BOOLEAN, ManualVoid(killed) PROVE FinalInv'
  <2>1. status \notin Decided /\ MarkVoid("manual_void", killed) /\ sealJob' = sealJob
    BY <1>3 DEF ManualVoid, OpenStatuses, Decided
  <2>2. CASE killed
    BY <1>1, <1>3, <2>1, <2>2, DieFinal, FinalVoid DEF ManualVoid
  <2>3. CASE ~killed
    <3>1. UNCHANGED <<engine, closers, requests>>
      BY <1>3, <2>3 DEF ManualVoid
    <3> QED
      BY <1>1, <2>1, <2>3, <3>1, FinalVoid DEF FinalInv, requests
  <2> QED
    BY <2>2, <2>3
<1>4. ~BeginSelectJury /\ ~PersistJury
  BY DEF BeginSelectJury, PersistJury, FinalInv
<1> QED
  BY <1>2, <1>3, <1>4, KilledIsBoolean DEF OperatorStep

LEMMA InitFinal == Init => FinalInv
<1> SUFFICES ASSUME Init PROVE FinalInv
  OBVIOUS
<1>1. TypeInv
  BY InitTypes
<1>2. WaitInv /\ RunInv /\ TornInv /\ SealInv /\ ~selecting
  BY DEF Init, WaitInv, RunInv, TornInv, SealInv, Awaiting, Decided
<1> QED
  BY <1>1, <1>2 DEF FinalInv

LEMMA StepFinal ==
  ASSUME "select_jury" \notin OperatorOps
  PROVE  FinalInv /\ [Next]_vars => FinalInv'
<1> SUFFICES ASSUME FinalInv, [Next]_vars PROVE FinalInv'
  OBVIOUS
<1>1. CASE Next
  BY <1>1, EngineStepFinal, PipelineFinal, RequestFinal, OperatorFinal DEF Next
<1>2. CASE UNCHANGED vars
  <2>1. TypeInv'
    BY <1>2, StepTypes DEF FinalInv
  <2> QED
    BY <1>2, <2>1, FinalQuiet DEF FinalInv, vars, caseRow, requests
<1> QED
  BY <1>1, <1>2

\* Unless a jury is selected anew, no interleaving of voids, closings, receipts and deaths
\* gives a voided case a seal job (markCaseVoid, closeCasePipeline, enqueueSealJob).
THEOREM VoidIsNeverSealed ==
  ASSUME "select_jury" \notin OperatorOps
  PROVE  Spec => []VoidNeverSealed
<1>1. FinalInv => VoidNeverSealed
  BY DEF FinalInv, SealInv, VoidNeverSealed
<1> QED
  BY <1>1, InitFinal, StepFinal, PTL DEF Spec

-----------------------------------------------------------------------------
(***************************************************************************)
(* A verdict stands: whoever could replace it does not find the case open. *)
(***************************************************************************)

\* The row's verdict as it was, or sealed.
Stands ==
  /\ outcome' = outcome /\ status' \in Decided
  /\ status = "sealed" => status' = "sealed"

LEMMA RowStands ==
  ASSUME status \in Decided, UNCHANGED <<status, outcome>>
  PROVE  Stands
BY DEF Stands

LEMMA EngineStands == ASSUME FinalInv, EngineStep, status \in Decided PROVE Stands
<1>1. ASSUME ListCases \/ SkipCase \/ AskJudge \/ SendInvite \/ DrawReplacement \/ DrawFails
      PROVE  Stands
  BY <1>1, RowStands DEF ListCases, SkipCase, AskJudge, SendInvite, DrawReplacement, Suspend,
                         DrawFails, EngineNothing, caseRow
<1>2. ASSUME NEW killed,
             \/ ScreeningApproved(killed) \/ ScreeningRejected(killed)
             \/ ScreeningErrored(killed)
      PROVE  FALSE
  BY <1>2 DEF ScreeningApproved, ScreeningRejected, ScreeningErrored, FinalInv, WaitInv, Awaiting
<1>3. ASSUME NEW killed,
             \/ DecidePreSession(killed) \/ DecideReadiness(killed)
             \/ DecideSubmissions(killed) \/ DecideVoting(killed)
      PROVE  FALSE
  <2>1. MayDecide
    BY <1>3 DEF DecidePreSession, DecideReadiness, DecideSubmissions, DecideVoting, MayDecide,
                Awaiting, LiveStages, SubmissionStages
  <2> QED
    BY <2>1, Undecided
<1> QED
  BY <1>1, <1>2, <1>3 DEF EngineStep

LEMMA StepStands ==
  ASSUME "select_jury" \notin OperatorOps, FinalInv, Next, status \in Decided
  PROVE  Stands
<1>1. ASSUME PipelineStep \/ Minted PROVE Stands
  <2>1. ASSUME NEW c \in Closers, NEW result, NEW killed, Verdict(c, result, killed) PROVE FALSE
    BY <2>1, VerdictFinds DEF Verdict
  <2>2. ASSUME NEW c \in Closers, SealHashes(c) \/ EnqueueSeal(c) PROVE Stands
    BY <2>2, RowStands DEF SealHashes, EnqueueSeal, caseRow
  <2>3. ASSUME Minted PROVE Stands
    BY <2>3 DEF Minted, Stands, Decided
  <2> QED
    BY <1>1, <2>1, <2>2, <2>3 DEF PipelineStep
<1>2. ASSUME PartyStep \/ ReplaceReadyJuror \/ TimePasses \/ Restart PROVE Stands
  <2>1. ~File
    BY DEF File, Decided
  <2>2. UNCHANGED <<status, outcome>>
    BY <1>2, <2>1 DEF PartyStep, ClaimDefence, JurorReady, BeginBallot, RecordBallot,
                      BeginStageMessage, RecordStageMessage, ReplaceReadyJuror, TimePasses,
                      Restart, caseRow
  <2> QED
    BY <2>2, RowStands
<1>3. ASSUME OperatorStep PROVE Stands
  <2>1. ASSUME NEW killed, ManualVoid(killed) PROVE FALSE
    BY <2>1 DEF ManualVoid, OpenStatuses, Decided
  <2>2. ~BeginSelectJury /\ ~PersistJury
    BY DEF BeginSelectJury, PersistJury, FinalInv
  <2>3. ASSUME OperatorClose PROVE FALSE
    BY <2>3 DEF OperatorClose, Decided
  <2> QED
    BY <1>3, <2>1, <2>2, <2>3 DEF OperatorStep
<1> QED
  BY <1>1, <1>2, <1>3, EngineStands DEF Next

\* Unless a jury is selected anew, the first recorded verdict stays: no second run of
\* closeCasePipeline, late void or late stage change of the engine replaces it (storeVerdict,
\* markCaseVoid and setStage have no status guard of their own).
THEOREM VerdictIsFinal ==
  ASSUME "select_jury" \notin OperatorOps
  PROVE  Spec => VerdictFinal
<1>1. ASSUME FinalInv, [Next]_vars
      PROVE  [ /\ status \in {"closed", "sealed"}
                   => outcome' = outcome /\ status' \in {"closed", "sealed"}
               /\ status = "sealed" => status' = "sealed" ]_vars
  BY <1>1, StepStands DEF Stands, Decided
<1> QED
  BY <1>1, InitFinal, StepFinal, PTL DEF Spec, VerdictFinal

-----------------------------------------------------------------------------

(***************************************************************************)
(* The steps of the two rows, each of which is one step of the lifecycle.  *)
(* A death in the middle leaves the runtime row behind and is counted.     *)
(***************************************************************************)

RowsStay == UNCHANGED <<status, sessionStage, currentStage>>

RowsFiled ==
  /\ status = "draft" /\ currentStage' \in {"judge_screening", "pre_session"}
  /\ status' = "jury_selected" /\ sessionStage' = "pre_session"

RowsAdvance(killed) ==
  /\ status \in OpenStatuses /\ currentStage \in LiveStages \ {"voting"}
  /\ SetStage(Lifecycle!NextStage[currentStage], killed)
  /\ killed => restarts' > 0

RowsVoid(killed) ==
  /\ status \in OpenStatuses /\ status' = "void" /\ sessionStage' = "void"
  /\ currentStage' = IF killed THEN currentStage ELSE "void"
  /\ killed => restarts' > 0

RowsClose(killed) ==
  /\ status \in OpenStatuses /\ currentStage = "voting"
  /\ status' = "closed" /\ sessionStage' = "closed"
  /\ currentStage' = IF killed THEN currentStage ELSE "closed"
  /\ killed => restarts' > 0

RowsSeal ==
  status = "closed" /\ status' = "sealed" /\ sessionStage' = "sealed" /\ currentStage' = "sealed"

RowsMove ==
  \/ RowsStay \/ RowsFiled \/ RowsSeal
  \/ \E killed \in BOOLEAN : RowsAdvance(killed) \/ RowsVoid(killed) \/ RowsClose(killed)

(***************************************************************************)
(* The invariant: an open case is at a live stage, the engine's turn and   *)
(* the pipeline's run exclude each other and find the case where they left *)
(* it, and a seal job in flight has its case closed.                       *)
(***************************************************************************)

TurnInv ==
  /\ engine.pc # "idle" => status \in OpenStatuses /\ closers["engine"] = "idle"
  /\ engine.pc = "screening" => currentStage = "judge_screening"
  /\ engine.pc = "inviting"  => currentStage = "pre_session"
  /\ engine.pc = "replacing" => currentStage = "jury_readiness"

CloseInv ==
  /\ closers["operator"] = "idle"
  /\ closers["engine"] = "judging" => status = "voting" /\ currentStage = "voting"
  /\ closers["engine"] \in {"hashing", "enqueuing"} => status = "closed" /\ sealJob = "none"

OpenInv == status \in OpenStatuses => currentStage \in LiveStages
JobInv  ==
  /\ sealJob = "open" => status = "closed"
  /\ sealJob = "minted" => status = "sealed"

LifeInv == TypeInv /\ OpenInv /\ TurnInv /\ CloseInv /\ JobInv

\* A step of the requests, of time or of a death: the rows stay, and so do the runs or
\* they end.
LEMMA QuietLife ==
  ASSUME LifeInv, TypeInv', RowsStay, sealJob' = sealJob,
         closers' = closers \/ (\A c \in Closers : closers'[c] = "idle"),
         engine'.pc \in {engine.pc, "idle"}
  PROVE  LifeInv' /\ RowsMove
<1>1. OpenInv' /\ JobInv'
  BY DEF LifeInv, OpenInv, JobInv, RowsStay
<1>2. TurnInv'
  BY DEF LifeInv, TurnInv, RowsStay, Closers
<1>3. CloseInv'
  BY DEF LifeInv, CloseInv, RowsStay, Closers
<1> QED
  BY <1>1, <1>2, <1>3 DEF LifeInv, RowsMove

\* Who dies is counted.
LEMMA DieLife ==
  ASSUME TypeInv, Die
  PROVE  engine'.pc = "idle" /\ (\A c \in Closers : closers'[c] = "idle") /\ restarts' > 0
BY DEF Die, Closers, TypeInv, TypeOK, MemoryTypeOK

\* The end of a turn of the engine, or the death in it.
LEMMA EngineDoneLife ==
  ASSUME TypeInv, NEW killed \in BOOLEAN, EngineDone(killed)
  PROVE  /\ engine'.pc = "idle"
         /\ closers' = closers \/ (\A c \in Closers : closers'[c] = "idle")
         /\ killed => restarts' > 0
<1>1. CASE killed
  BY <1>1, DieLife DEF EngineDone
<1>2. CASE ~killed
  BY <1>2 DEF EngineDone, Idle
<1> QED
  BY <1>1, <1>2

\* A turn that moves the rows, its memory cleared: no run is under way then.
LEMMA TurnLife ==
  ASSUME LifeInv, TypeInv', sealJob' = sealJob, status \in OpenStatuses, engine'.pc = "idle",
         closers["engine"] = "idle",
         closers' = closers \/ (\A c \in Closers : closers'[c] = "idle"),
         NEW killed \in BOOLEAN, RowsAdvance(killed) \/ RowsVoid(killed)
  PROVE  LifeInv' /\ RowsMove
<1>1. closers'["engine"] = "idle" /\ closers'["operator"] = "idle"
  BY DEF LifeInv, CloseInv, Closers
<1>2. TurnInv' /\ CloseInv'
  BY <1>1 DEF TurnInv, CloseInv
<1>3. sealJob = "none"
  BY DEF LifeInv, JobInv, OpenStatuses, TypeInv, TypeOK, RecordTypeOK
<1>4. JobInv'
  BY <1>3 DEF JobInv
<1>5. OpenInv'
  <2>1. CASE RowsVoid(killed)
    BY <2>1 DEF OpenInv, RowsVoid, OpenStatuses
  <2>2. CASE RowsAdvance(killed)
    BY <2>2 DEF OpenInv, RowsAdvance, SetStage, SetRuntime, Lifecycle!NextStage, LiveStages,
                SubmissionStages
  <2> QED
    BY <2>1, <2>2
<1> QED
  BY <1>2, <1>4, <1>5 DEF LifeInv, RowsMove

-----------------------------------------------------------------------------
(* The engine                                                               *)

LEMMA ListingLife ==
  ASSUME LifeInv, ListCases \/ SkipCase \/ AskJudge \/ SendInvite \/ DrawReplacement
  PROVE  LifeInv' /\ RowsMove
<1>1. TypeInv'
  BY ListingTypes DEF LifeInv
<1>2. RowsStay /\ UNCHANGED <<sealJob, closers>>
  BY DEF ListCases, SkipCase, AskJudge, SendInvite, DrawReplacement, Suspend, caseRow, RowsStay
<1>3. engine \in Turns
  BY DEF LifeInv, TypeInv, TypeOK, MemoryTypeOK
<1>4. TurnInv'
  <2>1. CASE ListCases
    BY <1>2, <1>3, <2>1 DEF ListCases, TurnInv, RowsStay, Turns
  <2>2. CASE SkipCase
    BY <1>3, <2>2 DEF SkipCase, Idle, TurnInv, Turns
  <2>3. CASE AskJudge \/ SendInvite \/ DrawReplacement
    BY <1>2, <1>3, <2>3 DEF AskJudge, SendInvite, DrawReplacement, Suspend, LifeInv, TurnInv,
                            RowsStay, Turns
  <2> QED
    BY <2>1, <2>2, <2>3
<1>5. OpenInv' /\ CloseInv' /\ JobInv'
  BY <1>2 DEF LifeInv, OpenInv, CloseInv, JobInv, RowsStay
<1> QED
  BY <1>1, <1>2, <1>4, <1>5 DEF LifeInv, RowsMove

LEMMA ScreeningLife ==
  ASSUME LifeInv, NEW killed \in BOOLEAN,
         \/ ScreeningApproved(killed) \/ ScreeningRejected(killed) \/ ScreeningErrored(killed)
  PROVE  LifeInv' /\ RowsMove
<1>1. TypeInv'
  BY ScreeningTypes DEF LifeInv
<1>2. engine.pc = "screening" /\ sealJob' = sealJob
  BY DEF ScreeningApproved, ScreeningRejected, ScreeningErrored
<1>3. currentStage = "judge_screening" /\ status \in OpenStatuses /\ closers["engine"] = "idle"
  BY <1>2 DEF LifeInv, TurnInv
<1>4. /\ engine'.pc = "idle"
      /\ closers' = closers \/ (\A c \in Closers : closers'[c] = "idle")
      /\ killed => restarts' > 0
  <2>1. CASE killed
    BY <2>1, DieLife DEF ScreeningApproved, ScreeningRejected, ScreeningErrored, LifeInv
  <2>2. CASE ~killed
    BY <2>2 DEF ScreeningApproved, ScreeningRejected, ScreeningErrored, Idle
  <2> QED
    BY <2>1, <2>2
<1>5. RowsStay \/ RowsAdvance(killed) \/ RowsVoid(killed)
  <2>1. CASE SetStage("pre_session", killed)
    BY <1>3, <1>4, <2>1 DEF RowsAdvance, Lifecycle!NextStage, LiveStages
  <2>2. ASSUME NEW reason, MarkVoid(reason, killed) PROVE RowsVoid(killed)
    BY <1>3, <1>4, <2>2 DEF RowsVoid, MarkVoid
  <2>3. \/ SetStage("pre_session", killed) \/ RowsStay
        \/ \E reason : MarkVoid(reason, killed)
    BY DEF ScreeningApproved, ScreeningRejected, ScreeningErrored, NotReached, RowsStay
  <2> QED
    BY <2>1, <2>2, <2>3
<1> QED
  BY <1>1, <1>2, <1>3, <1>4, <1>5, QuietLife, TurnLife

\* The three ends of a turn, from the stage the engine found.
Holds == engine.pc # "idle"

LEMMA EngineVoidLife ==
  ASSUME LifeInv, TypeInv', Holds, NEW killed \in BOOLEAN, NEW reason, EngineVoid(reason, killed)
  PROVE  LifeInv' /\ RowsMove
<1>1. EngineDone(killed) /\ MarkVoid(reason, killed) /\ sealJob' = sealJob
  BY DEF EngineVoid
<1>2. status \in OpenStatuses /\ closers["engine"] = "idle"
  BY DEF LifeInv, TurnInv, Holds
<1>3. /\ engine'.pc = "idle"
      /\ closers' = closers \/ (\A c \in Closers : closers'[c] = "idle")
      /\ killed => restarts' > 0
  BY <1>1, EngineDoneLife DEF LifeInv
<1>4. RowsVoid(killed)
  BY <1>1, <1>2, <1>3 DEF RowsVoid, MarkVoid
<1> QED
  BY <1>1, <1>2, <1>3, <1>4, TurnLife

LEMMA EngineStageLife ==
  ASSUME LifeInv, TypeInv', Holds, NEW killed \in BOOLEAN,
         currentStage \in LiveStages \ {"voting"},
         EngineStage(Lifecycle!NextStage[currentStage], killed)
  PROVE  LifeInv' /\ RowsMove
<1>1. /\ EngineDone(killed) /\ SetStage(Lifecycle!NextStage[currentStage], killed)
      /\ sealJob' = sealJob
  BY DEF EngineStage
<1>2. status \in OpenStatuses /\ closers["engine"] = "idle"
  BY DEF LifeInv, TurnInv, Holds
<1>3. /\ engine'.pc = "idle"
      /\ closers' = closers \/ (\A c \in Closers : closers'[c] = "idle")
      /\ killed => restarts' > 0
  BY <1>1, EngineDoneLife DEF LifeInv
<1>4. RowsAdvance(killed)
  BY <1>1, <1>2, <1>3 DEF RowsAdvance
<1> QED
  BY <1>1, <1>2, <1>3, <1>4, TurnLife

LEMMA EngineNothingLife ==
  ASSUME LifeInv, TypeInv', EngineNothing
  PROVE  LifeInv' /\ RowsMove
<1>1. EngineDone(FALSE) /\ RowsStay /\ sealJob' = sealJob
  BY DEF EngineNothing, caseRow, RowsStay
<1>2. /\ engine'.pc = "idle"
      /\ closers' = closers \/ (\A c \in Closers : closers'[c] = "idle")
  BY <1>1, EngineDoneLife DEF LifeInv
<1> QED
  BY <1>1, <1>2, QuietLife

LEMMA DecideLife ==
  ASSUME LifeInv, NEW killed \in BOOLEAN,
         \/ DecidePreSession(killed) \/ DecideReadiness(killed)
         \/ DecideSubmissions(killed) \/ DecideVoting(killed)
  PROVE  LifeInv' /\ RowsMove
<1>1. TypeInv'
  BY DecideTypes DEF LifeInv
<1>2. Holds
  BY DEF DecidePreSession, DecideReadiness, DecideSubmissions, DecideVoting, Holds
<1>3. ASSUME DecidePreSession(killed) PROVE LifeInv' /\ RowsMove
  <2>1. currentStage = "pre_session"
    BY <1>3 DEF DecidePreSession, LifeInv, TurnInv
  <2>2. PICK seen : PreSession(seen, killed)
    BY <1>3 DEF DecidePreSession
  <2>3. CASE EngineVoid("missing_defence_assignment", killed)
    BY <1>1, <1>2, <2>3, EngineVoidLife
  <2>4. CASE EngineStage("jury_readiness", killed)
    <3>1. /\ currentStage \in LiveStages \ {"voting"}
          /\ Lifecycle!NextStage[currentStage] = "jury_readiness"
      BY <2>1 DEF LiveStages, Lifecycle!NextStage
    <3> QED
      BY <1>1, <1>2, <2>4, <3>1, EngineStageLife
  <2>5. CASE EngineNothing
    BY <1>1, <2>5, EngineNothingLife
  <2> QED
    BY <2>2, <2>3, <2>4, <2>5 DEF PreSession
<1>4. ASSUME DecideReadiness(killed) PROVE LifeInv' /\ RowsMove
  <2>1. currentStage = "jury_readiness"
    BY <1>4 DEF DecideReadiness, LifeInv, TurnInv
  <2>2. PICK seen, exhausted : Readiness(seen, exhausted, killed)
    BY <1>4 DEF DecideReadiness
  <2>3. CASE EngineVoid("jury_readiness_timeout", killed)
    BY <1>1, <1>2, <2>3, EngineVoidLife
  <2>4. CASE EngineStage("opening_addresses", killed)
    <3>1. /\ currentStage \in LiveStages \ {"voting"}
          /\ Lifecycle!NextStage[currentStage] = "opening_addresses"
      BY <2>1 DEF LiveStages, Lifecycle!NextStage
    <3> QED
      BY <1>1, <1>2, <2>4, <3>1, EngineStageLife
  <2>5. CASE EngineNothing
    BY <1>1, <2>5, EngineNothingLife
  <2> QED
    BY <2>2, <2>3, <2>4, <2>5 DEF Readiness
<1>5. ASSUME DecideSubmissions(killed) PROVE LifeInv' /\ RowsMove
  <2>1. /\ currentStage \in LiveStages \ {"voting"}
        /\ Lifecycle!NextStage[currentStage] = NextStage[currentStage]
    BY <1>5 DEF DecideSubmissions, SubmissionStages, LiveStages, Lifecycle!NextStage, NextStage
  <2>2. \/ EngineStage(NextStage[currentStage], killed)
        \/ EngineVoid("missing_submission", killed)
        \/ EngineNothing
    BY <1>5 DEF DecideSubmissions
  <2>3. CASE EngineStage(NextStage[currentStage], killed)
    BY <1>1, <1>2, <2>1, <2>3, EngineStageLife
  <2> QED
    BY <1>1, <1>2, <2>2, <2>3, EngineVoidLife, EngineNothingLife
<1>6. ASSUME DecideVoting(killed) PROVE LifeInv' /\ RowsMove
  <2>1. CASE BallotsIn
    <3>1. /\ engine'.pc = "idle" /\ currentStage = "voting" /\ RowsStay /\ sealJob' = sealJob
          /\ closers' = closers
             \/ (status = "voting" /\ closers' = [closers EXCEPT !["engine"] = "judging"])
      BY <1>6, <2>1 DEF DecideVoting, Idle, caseRow, RowsStay
    <3>2. CASE closers' = closers
      BY <1>1, <3>1, <3>2, QuietLife
    <3>3. CASE status = "voting" /\ closers' = [closers EXCEPT !["engine"] = "judging"]
      <4>1. closers'["engine"] = "judging" /\ closers'["operator"] = "idle"
        BY <3>3 DEF LifeInv, CloseInv, TypeInv, TypeOK, MemoryTypeOK, Closers
      <4>2. TurnInv' /\ CloseInv'
        BY <3>1, <3>3, <4>1 DEF TurnInv, CloseInv, RowsStay
      <4>3. OpenInv' /\ JobInv'
        BY <3>1 DEF LifeInv, OpenInv, JobInv, RowsStay
      <4> QED
        BY <1>1, <3>1, <4>2, <4>3 DEF LifeInv, RowsMove
    <3> QED
      BY <3>1, <3>2, <3>3
  <2>2. CASE ~BallotsIn
    BY <1>1, <1>2, <1>6, <2>2, EngineVoidLife, EngineNothingLife DEF DecideVoting
  <2> QED
    BY <2>1, <2>2
<1> QED
  BY <1>3, <1>4, <1>5, <1>6

LEMMA EngineStepLife == ASSUME LifeInv, EngineStep PROVE LifeInv' /\ RowsMove
<1>1. ASSUME DrawFails PROVE LifeInv' /\ RowsMove
  <2>1. TypeInv'
    BY <1>1, EngineNothingTypes DEF DrawFails, LifeInv
  <2> QED
    BY <1>1, <2>1, EngineNothingLife DEF DrawFails
<1> QED
  BY <1>1, ListingLife, ScreeningLife, DecideLife, KilledIsBoolean DEF EngineStep

-----------------------------------------------------------------------------
(* The pipeline, the receipt, the requests                                  *)

LEMMA VerdictLife ==
  ASSUME LifeInv, TypeInv', NEW c \in Closers, NEW result, NEW killed \in BOOLEAN,
         Verdict(c, result, killed)
  PROVE  LifeInv' /\ RowsMove
<1>1. /\ c = "engine" /\ status = "voting" /\ currentStage = "voting" /\ sealJob' = sealJob
      /\ sealJob = "none"
      /\ engine.pc = "idle" /\ closers["engine"] = "judging" /\ closers["operator"] = "idle"
  <2>1. closers[c] = "judging" /\ sealJob' = sealJob
    BY DEF Verdict
  <2>2. c = "engine"
    BY <2>1 DEF LifeInv, CloseInv, Closers
  <2>3. /\ status = "voting" /\ currentStage = "voting" /\ engine.pc = "idle"
        /\ sealJob \notin {"open", "minted"} /\ closers["operator"] = "idle"
    BY <2>1, <2>2 DEF LifeInv, CloseInv, TurnInv, JobInv
  <2> QED
    BY <2>1, <2>2, <2>3 DEF LifeInv, TypeInv, TypeOK, RecordTypeOK
<1>2. killed => /\ engine'.pc = "idle" /\ (\A d \in Closers : closers'[d] = "idle")
                /\ restarts' > 0
  BY DieLife DEF Verdict, LifeInv
<1>3. ~killed => engine' = engine
  BY DEF Verdict
<1>4. TurnInv'
  <2>1. engine'.pc = "idle"
    BY <1>1, <1>2, <1>3
  <2> QED
    BY <2>1 DEF TurnInv
<1>5. JobInv'
  BY <1>1 DEF JobInv
<1>6. status' \in {"void", "closed"}
  BY DEF Verdict, MarkVoid
<1>7. OpenInv'
  BY <1>6 DEF OpenInv, OpenStatuses
<1>8. CloseInv'
  <2>1. CASE killed
    BY <1>2, <2>1 DEF CloseInv, Closers
  <2>2. CASE ~killed /\ result = "inconclusive"
    <3>1. closers'["engine"] = "idle" /\ closers'["operator"] = "idle"
      BY <1>1, <2>2 DEF Verdict, LifeInv, TypeInv, TypeOK, MemoryTypeOK, Closers
    <3> QED
      BY <3>1 DEF CloseInv
  <2>3. CASE ~killed /\ result # "inconclusive"
    <3>1. /\ closers'["engine"] = "hashing" /\ closers'["operator"] = "idle"
          /\ status' = "closed"
      BY <1>1, <2>3 DEF Verdict, LifeInv, TypeInv, TypeOK, MemoryTypeOK, Closers
    <3> QED
      BY <1>1, <3>1 DEF CloseInv
  <2> QED
    BY <2>1, <2>2, <2>3
<1>9. RowsVoid(killed) \/ RowsClose(killed)
  BY <1>1, <1>2 DEF Verdict, MarkVoid, RowsVoid, RowsClose, OpenStatuses
<1> QED
  BY <1>4, <1>5, <1>7, <1>8, <1>9 DEF LifeInv, RowsMove

LEMMA SealingLife ==
  ASSUME LifeInv, TypeInv', NEW c \in Closers, SealHashes(c) \/ EnqueueSeal(c)
  PROVE  LifeInv' /\ RowsMove
<1>1. /\ c = "engine" /\ closers["engine"] \in {"hashing", "enqueuing"}
      /\ RowsStay /\ engine' = engine
  BY DEF SealHashes, EnqueueSeal, caseRow, RowsStay, LifeInv, CloseInv, Closers
<1>2. status = "closed" /\ sealJob = "none" /\ engine.pc = "idle"
  BY <1>1 DEF LifeInv, CloseInv, TurnInv
<1>3. /\ closers'["operator"] = "idle"
      /\ \/ closers'["engine"] = "idle"
         \/ closers'["engine"] = "enqueuing" /\ sealJob' = sealJob
      /\ sealJob' # "minted"
  BY <1>1, <1>2 DEF SealHashes, EnqueueSeal, LifeInv, CloseInv, TypeInv, TypeOK, MemoryTypeOK,
                    Closers
<1>4. TurnInv' /\ CloseInv' /\ JobInv' /\ OpenInv'
  BY <1>1, <1>2, <1>3 DEF TurnInv, CloseInv, JobInv, OpenInv, OpenStatuses, RowsStay
<1> QED
  BY <1>1, <1>4 DEF LifeInv, RowsMove

LEMMA MintedLife == ASSUME LifeInv, TypeInv', Minted PROVE LifeInv' /\ RowsMove
<1>1. /\ sealJob = "open" /\ sealJob' = "minted" /\ status' = "sealed"
      /\ sessionStage' = "sealed" /\ currentStage' = "sealed" /\ UNCHANGED <<engine, closers>>
  BY DEF Minted
<1>2. status = "closed"
  BY <1>1 DEF LifeInv, JobInv
<1>3. engine.pc = "idle" /\ closers["engine"] = "idle" /\ closers["operator"] = "idle"
  BY <1>1, <1>2 DEF LifeInv, TurnInv, CloseInv, OpenStatuses, TypeInv, TypeOK, MemoryTypeOK,
                    Closers
<1>4. TurnInv' /\ CloseInv' /\ JobInv' /\ OpenInv'
  BY <1>1, <1>3 DEF TurnInv, CloseInv, JobInv, OpenInv, OpenStatuses
<1> QED
  BY <1>1, <1>2, <1>4 DEF LifeInv, RowsMove, RowsSeal

LEMMA PipelineLife == ASSUME LifeInv, PipelineStep \/ Minted PROVE LifeInv' /\ RowsMove
<1>1. TypeInv'
  BY PipelineTypes, OtherTypes DEF LifeInv
<1> QED
  BY <1>1, VerdictLife, SealingLife, MintedLife, KilledIsBoolean DEF PipelineStep

LEMMA RequestLife ==
  ASSUME LifeInv, PartyStep \/ ReplaceReadyJuror \/ TimePasses \/ Restart
  PROVE  LifeInv' /\ RowsMove
<1>1. TypeInv'
  BY PartyTypes, OtherTypes DEF LifeInv
<1>2. CASE File
  <2>1. RowsFiled /\ UNCHANGED <<sealJob, engine, closers>>
    BY <1>2 DEF File, RowsFiled
  <2>2. /\ engine.pc = "idle" /\ sealJob = "none" /\ closers["operator"] = "idle"
        /\ closers["engine"] = "idle"
    BY <2>1 DEF LifeInv, TurnInv, CloseInv, JobInv, RowsFiled, OpenStatuses, TypeInv, TypeOK,
                MemoryTypeOK, RecordTypeOK, Closers
  <2>3. TurnInv' /\ CloseInv' /\ JobInv' /\ OpenInv'
    BY <2>1, <2>2 DEF TurnInv, CloseInv, JobInv, OpenInv, RowsFiled, LiveStages
  <2> QED
    BY <1>1, <2>1, <2>3 DEF LifeInv, RowsMove
<1>3. CASE Restart
  <2>1. RowsStay /\ sealJob' = sealJob /\ Die
    BY <1>3 DEF Restart, caseRow, RowsStay
  <2>2. engine'.pc = "idle" /\ \A c \in Closers : closers'[c] = "idle"
    BY <2>1, DieLife DEF LifeInv
  <2> QED
    BY <1>1, <2>1, <2>2, QuietLife
<1>4. CASE ~File /\ ~Restart
  <2>1. RowsStay /\ UNCHANGED <<sealJob, engine, closers>>
    BY <1>4 DEF PartyStep, ClaimDefence, JurorReady, BeginBallot, RecordBallot, BeginStageMessage,
                RecordStageMessage, ReplaceReadyJuror, TimePasses, caseRow, requests, RowsStay
  <2> QED
    BY <1>1, <2>1, QuietLife
<1> QED
  BY <1>2, <1>3, <1>4

\* Without the endpoint no request waits to select a jury.
LEMMA NoneSelects ==
  ASSUME OperatorOps = {}, ~selecting, [Next]_vars
  PROVE  ~selecting'
<1>1. ASSUME EngineStep PROVE ~selecting'
  <2>1. ASSUME ListCases \/ SkipCase \/ AskJudge \/ SendInvite \/ DrawReplacement \/ DrawFails
        PROVE  ~selecting'
    BY <2>1 DEF ListCases, SkipCase, AskJudge, SendInvite, DrawReplacement, Suspend, DrawFails,
                EngineNothing, EngineDone, requests
  <2>2. ASSUME NEW killed,
               \/ ScreeningApproved(killed) \/ ScreeningRejected(killed)
               \/ ScreeningErrored(killed)
        PROVE  ~selecting'
    BY <2>2 DEF ScreeningApproved, ScreeningRejected, ScreeningErrored, Die, requests
  <2>3. ASSUME NEW killed,
               \/ DecidePreSession(killed) \/ DecideReadiness(killed)
               \/ DecideSubmissions(killed) \/ DecideVoting(killed)
        PROVE  ~selecting'
    <3>1. \/ EngineDone(killed) \/ EngineDone(FALSE) \/ UNCHANGED requests
      BY <2>3 DEF DecidePreSession, DecideReadiness, DecideSubmissions, DecideVoting, PreSession,
                  Readiness, EngineVoid, EngineStage, EngineNothing
    <3> QED
      BY <3>1 DEF EngineDone, Die, requests
  <2> QED
    BY <1>1, <2>1, <2>2, <2>3 DEF EngineStep
<1>2. ASSUME PipelineStep \/ Minted PROVE ~selecting'
  BY <1>2 DEF PipelineStep, Verdict, SealHashes, EnqueueSeal, Minted, Die, requests
<1>3. ASSUME PartyStep \/ ReplaceReadyJuror \/ TimePasses \/ Restart PROVE ~selecting'
  BY <1>3 DEF PartyStep, File, ClaimDefence, JurorReady, BeginBallot, RecordBallot,
              BeginStageMessage, RecordStageMessage, ReplaceReadyJuror, TimePasses, Restart, Die,
              requests
<1>4. ~OperatorStep
  BY DEF OperatorStep, OperatorClose, ManualVoid, BeginSelectJury, PersistJury
<1>5. CASE UNCHANGED vars
  BY <1>5 DEF vars, requests
<1> QED
  BY <1>1, <1>2, <1>3, <1>4, <1>5 DEF Next

LEMMA InitLife == Init => LifeInv /\ ~selecting
<1> SUFFICES ASSUME Init PROVE LifeInv /\ ~selecting
  OBVIOUS
<1>1. TypeInv
  BY InitTypes
<1>2. OpenInv /\ TurnInv /\ CloseInv /\ JobInv /\ ~selecting
  BY DEF Init, OpenInv, TurnInv, CloseInv, JobInv, OpenStatuses, Closers
<1> QED
  BY <1>1, <1>2 DEF LifeInv

LEMMA StepLife ==
  ASSUME OperatorOps = {}, LifeInv, ~selecting, [Next]_vars
  PROVE  LifeInv' /\ RowsMove
<1>1. ~OperatorStep
  BY DEF OperatorStep, OperatorClose, ManualVoid, BeginSelectJury, PersistJury
<1>2. CASE UNCHANGED vars
  <2>1. TypeInv'
    BY <1>2, StepTypes DEF LifeInv
  <2> QED
    BY <1>2, <2>1, QuietLife DEF vars, caseRow, RowsStay
<1> QED
  BY <1>1, <1>2, EngineStepLife, PipelineLife, RequestLife DEF Next

-----------------------------------------------------------------------------
(* What the moves of the rows amount to                                     *)

LEMMA MoveLifecycle ==
  ASSUME LifeInv, RowsMove
  PROVE  [Lifecycle!Next]_casePhase
<1>1. status \in Statuses /\ (status \in OpenStatuses => currentStage \in LiveStages)
  BY DEF LifeInv, OpenInv, TypeInv, TypeOK, RowTypeOK
<1>2. CASE RowsStay
  BY <1>2 DEF RowsStay, casePhase
<1>3. CASE RowsFiled
  BY <1>3 DEF RowsFiled, casePhase, Lifecycle!Next, Lifecycle!File, EndStages
<1>4. CASE RowsSeal
  BY <1>4 DEF RowsSeal, casePhase, Lifecycle!Next, Lifecycle!Seal, EndStages
<1>5. ASSUME status \in OpenStatuses PROVE casePhase = currentStage
  BY <1>5 DEF casePhase, OpenStatuses, EndStages
<1>6. LiveStages = Lifecycle!LiveStages
  BY DEF LiveStages, SubmissionStages, Lifecycle!LiveStages, Lifecycle!SubmissionStages
<1>7. ASSUME NEW killed \in BOOLEAN, RowsAdvance(killed) PROVE [Lifecycle!Next]_casePhase
  <2>1. status' \in OpenStatuses
    BY <1>7 DEF RowsAdvance, SetStage, StageStatus, OpenStatuses
  <2>2. casePhase' = currentStage'
    BY <2>1 DEF casePhase, OpenStatuses, EndStages
  <2>3. casePhase = currentStage /\ currentStage \in Lifecycle!LiveStages
    BY <1>5, <1>6, <1>7 DEF RowsAdvance
  <2>4. currentStage' \in {currentStage, Lifecycle!NextStage[currentStage]}
    BY <1>7 DEF RowsAdvance, SetStage, SetRuntime
  <2> QED
    BY <2>2, <2>3, <2>4 DEF Lifecycle!Next, Lifecycle!Advance
<1>8. ASSUME NEW killed \in BOOLEAN, RowsVoid(killed) PROVE [Lifecycle!Next]_casePhase
  <2>1. casePhase' = "void"
    BY <1>8 DEF RowsVoid, casePhase, EndStages
  <2>2. casePhase = currentStage /\ currentStage \in Lifecycle!LiveStages
    BY <1>1, <1>5, <1>6, <1>8 DEF RowsVoid
  <2> QED
    BY <2>1, <2>2 DEF Lifecycle!Next, Lifecycle!Void
<1>9. ASSUME NEW killed \in BOOLEAN, RowsClose(killed) PROVE [Lifecycle!Next]_casePhase
  <2>1. casePhase' = "closed"
    BY <1>9 DEF RowsClose, casePhase, EndStages
  <2>2. casePhase = "voting" /\ casePhase \in Lifecycle!LiveStages
    BY <1>1, <1>5, <1>6, <1>9 DEF RowsClose
  <2>3. Lifecycle!NextStage["voting"] = "closed"
    BY DEF Lifecycle!NextStage
  <2> QED
    BY <2>1, <2>2, <2>3 DEF Lifecycle!Next, Lifecycle!Advance
<1> QED
  BY <1>2, <1>3, <1>4, <1>7, <1>8, <1>9 DEF RowsMove

\* Without operator endpoints every step of the engine, the pipeline, the requests and the
\* restarts is a step of CaseLifecycle or leaves the phase alone, also when a death tears
\* setStage's, markCaseVoid's or the verdict's two writes apart.
THEOREM FollowsLifecycle ==
  ASSUME OperatorOps = {}
  PROVE  Spec => ImplementsLifecycle
<1>1. Init => Lifecycle!Init
  BY DEF Init, Lifecycle!Init, casePhase
<1>2. LifeInv /\ ~selecting /\ [Next]_vars
        => LifeInv' /\ ~selecting' /\ [Lifecycle!Next]_casePhase
  BY StepLife, NoneSelects, MoveLifecycle
<1> QED
  BY <1>1, <1>2, InitLife, PTL DEF Spec, ImplementsLifecycle, Lifecycle!Spec

\* The restarts counted so far never grow less.
LEMMA MoveTables ==
  ASSUME LifeInv, TablesAgree, RowsMove, restarts' >= restarts, restarts \in Nat
  PROVE  TablesAgree'
<1>1. CASE RowsStay
  <2>1. SameStory' <=> SameStory
    BY <1>1 DEF RowsStay, SameStory
  <2>2. TornByOneStage' <=> TornByOneStage
    BY <1>1 DEF RowsStay, TornByOneStage
  <2>3. restarts' = 0 => restarts = 0
    BY DEF LifeInv, TypeInv, TypeOK, MemoryTypeOK
  <2> QED
    BY <2>1, <2>2, <2>3 DEF TablesAgree
<1>2. CASE RowsFiled
  BY <1>2 DEF RowsFiled, TablesAgree, SameStory, TornByOneStage
<1>3. CASE RowsSeal
  BY <1>3 DEF RowsSeal, TablesAgree, SameStory, TornByOneStage, OpenStatuses
<1>4. ASSUME NEW killed \in BOOLEAN, RowsVoid(killed) PROVE TablesAgree'
  BY <1>4 DEF RowsVoid, TablesAgree, SameStory, TornByOneStage, OpenStatuses
<1>5. ASSUME NEW killed \in BOOLEAN, RowsClose(killed) PROVE TablesAgree'
  BY <1>5 DEF RowsClose, TablesAgree, SameStory, TornByOneStage, OpenStatuses
<1>6. ASSUME NEW killed \in BOOLEAN, RowsAdvance(killed) PROVE TablesAgree'
  <2> DEFINE st == Lifecycle!NextStage[currentStage]
  <2>1. /\ sessionStage' = st /\ status' = StageStatus(st)
        /\ currentStage' = IF killed THEN currentStage ELSE st
        /\ killed => restarts' > 0
    BY <1>6 DEF RowsAdvance, SetStage, SetRuntime
  <2>2. st \in LiveStages \ {"judge_screening"}
    BY <1>6 DEF RowsAdvance, Lifecycle!NextStage, LiveStages, SubmissionStages
  <2>3. CASE killed
    <3>1. \/ currentStage = "judge_screening" /\ st = "pre_session"
          \/ currentStage = "pre_session" /\ st = "jury_readiness"
          \/ currentStage = "jury_readiness" /\ st = "opening_addresses"
          \/ currentStage \in SubmissionStages /\ st = NextStage[currentStage]
      BY <1>6 DEF RowsAdvance, Lifecycle!NextStage, NextStage, LiveStages, SubmissionStages
    <3>2. TornByOneStage'
      BY <2>1, <2>3, <3>1 DEF TornByOneStage
    <3> QED
      BY <2>1, <2>3, <3>2 DEF TablesAgree
  <2>4. CASE ~killed
    <3>1. TornByOneStage'
      BY <2>1, <2>4 DEF TornByOneStage
    <3>2. SameStory'
      BY <2>1, <2>2, <2>4 DEF SameStory, StageStatus, LiveStages, SubmissionStages
    <3> QED
      BY <3>1, <3>2 DEF TablesAgree
  <2> QED
    BY <2>3, <2>4
<1> QED
  BY <1>1, <1>2, <1>3, <1>4, <1>5, <1>6 DEF RowsMove

\* Restarts are only counted up.
LEMMA RestartsGrow ==
  ASSUME OperatorOps = {}, ~selecting, TypeInv, [Next]_vars
  PROVE  restarts \in Nat /\ restarts' >= restarts
<1>1. restarts \in Nat
  BY DEF TypeInv, TypeOK, MemoryTypeOK
<1>2. Die \/ restarts' = restarts
  <2>1. ASSUME EngineStep PROVE Die \/ restarts' = restarts
    <3>1. ASSUME ListCases \/ SkipCase \/ AskJudge \/ SendInvite \/ DrawReplacement \/ DrawFails
          PROVE  restarts' = restarts
      BY <3>1 DEF ListCases, SkipCase, AskJudge, SendInvite, DrawReplacement, Suspend, DrawFails,
                  EngineNothing, EngineDone
    <3>2. ASSUME NEW killed,
                 \/ ScreeningApproved(killed) \/ ScreeningRejected(killed)
                 \/ ScreeningErrored(killed)
          PROVE  Die \/ restarts' = restarts
      BY <3>2 DEF ScreeningApproved, ScreeningRejected, ScreeningErrored
    <3>3. ASSUME NEW killed,
                 \/ DecidePreSession(killed) \/ DecideReadiness(killed)
                 \/ DecideSubmissions(killed) \/ DecideVoting(killed)
          PROVE  Die \/ restarts' = restarts
      BY <3>3 DEF DecidePreSession, DecideReadiness, DecideSubmissions, DecideVoting, PreSession,
                  Readiness, EngineVoid, EngineStage, EngineNothing, EngineDone
    <3> QED
      BY <2>1, <3>1, <3>2, <3>3 DEF EngineStep
  <2>2. ASSUME PipelineStep \/ Minted PROVE Die \/ restarts' = restarts
    BY <2>2 DEF PipelineStep, Verdict, SealHashes, EnqueueSeal, Minted
  <2>3. ASSUME PartyStep \/ ReplaceReadyJuror \/ TimePasses \/ Restart
        PROVE  Die \/ restarts' = restarts
    BY <2>3 DEF PartyStep, File, ClaimDefence, JurorReady, BeginBallot, RecordBallot,
                BeginStageMessage, RecordStageMessage, ReplaceReadyJuror, TimePasses, Restart
  <2>4. ~OperatorStep
    BY DEF OperatorStep, OperatorClose, ManualVoid, BeginSelectJury, PersistJury
  <2>5. CASE UNCHANGED vars
    BY <2>5 DEF vars
  <2> QED
    BY <2>1, <2>2, <2>3, <2>4, <2>5 DEF Next
<1> QED
  BY <1>1, <1>2 DEF Die

\* Without operator endpoints and before the first death the case row and the runtime row
\* tell the same story, and whichever second writes deaths lose afterwards, the case row is
\* never more than the one stage ahead that the engine redoes (setStage, markCaseVoid).
THEOREM TablesStayTogether ==
  ASSUME OperatorOps = {}
  PROVE  Spec => []TablesAgree
<1>1. Init => TablesAgree
  BY DEF Init, TablesAgree, SameStory, TornByOneStage, OpenStatuses
<1>2. /\ LifeInv /\ ~selecting /\ TablesAgree /\ [Next]_vars
      => LifeInv' /\ ~selecting' /\ TablesAgree'
  BY StepLife, NoneSelects, MoveTables, RestartsGrow DEF LifeInv
<1> QED
  BY <1>1, <1>2, InitLife, PTL DEF Spec

(***************************************************************************)
(* A full panel.  Ballots are never taken back, so it is enough that the   *)
(* engine counted them before it closed the case.                          *)
(***************************************************************************)

Concluded == closers["engine"] # "idle" \/ status \in {"closed", "sealed"} \/ sealJob = "open"

PanelInv == closers["operator"] = "idle" /\ (Concluded => ballots >= PanelSize)

\* What each step keeps: ballots, the operator's run, and a panel counted before closing.
PanelKept ==
  /\ ballots' \in {ballots, ballots + 1}
  /\ closers'["operator"] = "idle"
  /\ Concluded' => Concluded \/ ballots >= PanelSize

LEMMA PanelQuiet ==
  ASSUME TypeInv, PanelInv, UNCHANGED <<status, ballots, sealJob>>,
         closers' = closers \/ (\A c \in Closers : closers'[c] = "idle")
  PROVE  PanelKept
BY DEF PanelInv, PanelKept, Concluded, Closers

LEMMA PanelUndecided ==
  ASSUME TypeInv, PanelInv, UNCHANGED <<ballots, sealJob>>, status' \notin {"closed", "sealed"},
         closers' = closers \/ (\A c \in Closers : closers'[c] = "idle")
  PROVE  PanelKept
BY DEF PanelInv, PanelKept, Concluded, Closers

LEMMA EnginePanel == ASSUME TypeInv, PanelInv, EngineStep PROVE PanelKept
<1>1. ASSUME ListCases \/ SkipCase \/ AskJudge \/ SendInvite \/ DrawReplacement PROVE PanelKept
  <2>1. UNCHANGED <<status, ballots, sealJob, closers>>
    BY <1>1 DEF ListCases, SkipCase, AskJudge, SendInvite, DrawReplacement, Suspend, caseRow, jury
  <2> QED
    BY <2>1, PanelQuiet
<1>2. ASSUME NEW killed \in BOOLEAN,
             \/ ScreeningApproved(killed) \/ ScreeningRejected(killed)
             \/ ScreeningErrored(killed)
      PROVE  PanelKept
  <2>1. UNCHANGED <<ballots, sealJob>>
    BY <1>2 DEF ScreeningApproved, ScreeningRejected, ScreeningErrored, jury
  <2>2. closers' = closers \/ (\A c \in Closers : closers'[c] = "idle")
    BY <1>2, DieLife DEF ScreeningApproved, ScreeningRejected, ScreeningErrored
  <2>3. status' = status \/ status' \notin {"closed", "sealed"}
    BY <1>2 DEF ScreeningApproved, ScreeningRejected, ScreeningErrored, NotReached, SetStage,
                StageStatus, MarkVoid
  <2> QED
    BY <2>1, <2>2, <2>3, PanelQuiet, PanelUndecided
<1>3. ASSUME NEW killed \in BOOLEAN, NEW reason, EngineVoid(reason, killed) PROVE PanelKept
  <2>1. UNCHANGED <<ballots, sealJob>> /\ status' = "void" /\ EngineDone(killed)
    BY <1>3 DEF EngineVoid, MarkVoid, jury
  <2> QED
    BY <2>1, EngineDoneLife, PanelUndecided
<1>4. ASSUME NEW killed \in BOOLEAN, NEW st, EngineStage(st, killed) PROVE PanelKept
  <2>1. /\ UNCHANGED <<ballots, sealJob>> /\ status' \notin {"closed", "sealed"}
        /\ EngineDone(killed)
    BY <1>4 DEF EngineStage, SetStage, StageStatus
  <2> QED
    BY <2>1, EngineDoneLife, PanelUndecided
<1>5. ASSUME EngineNothing PROVE PanelKept
  <2>1. UNCHANGED <<status, ballots, sealJob>> /\ EngineDone(FALSE)
    BY <1>5 DEF EngineNothing, caseRow, jury
  <2> QED
    BY <2>1, EngineDoneLife, PanelQuiet
<1>6. ASSUME NEW killed \in BOOLEAN,
             DecidePreSession(killed) \/ DecideReadiness(killed) \/ DecideSubmissions(killed)
      PROVE  PanelKept
  <2>1. \/ \E reason : EngineVoid(reason, killed)
        \/ \E st : EngineStage(st, killed)
        \/ EngineNothing
    BY <1>6 DEF DecidePreSession, DecideReadiness, DecideSubmissions, PreSession, Readiness
  <2> QED
    BY <1>3, <1>4, <1>5, <2>1
<1>7. ASSUME NEW killed \in BOOLEAN, DecideVoting(killed) PROVE PanelKept
  <2>1. CASE BallotsIn
    <3>1. /\ UNCHANGED <<status, ballots, sealJob>> /\ ballots >= PanelSize
          /\ closers' \in {closers, [closers EXCEPT !["engine"] = "judging"]}
      BY <1>7, <2>1 DEF DecideVoting, BallotsIn, caseRow, jury
    <3> QED
      BY <3>1 DEF PanelKept, PanelInv, TypeInv, TypeOK, MemoryTypeOK, Closers
  <2>2. CASE ~BallotsIn
    BY <1>3, <1>5, <1>7, <2>2 DEF DecideVoting
  <2> QED
    BY <2>1, <2>2
<1>8. ASSUME DrawFails PROVE PanelKept
  BY <1>5, <1>8 DEF DrawFails
<1> QED
  BY <1>1, <1>2, <1>6, <1>7, <1>8, KilledIsBoolean DEF EngineStep

LEMMA PipelinePanel == ASSUME TypeInv, PanelInv, PipelineStep \/ Minted PROVE PanelKept
<1>1. ASSUME NEW c \in Closers, closers[c] # "idle" PROVE c = "engine" /\ Concluded
  BY <1>1 DEF PanelInv, Concluded, Closers
<1>2. ASSUME NEW c \in Closers, NEW result, NEW killed, Verdict(c, result, killed) PROVE PanelKept
  <2>1. c = "engine" /\ Concluded /\ ballots' = ballots
    BY <1>1, <1>2 DEF Verdict, jury
  <2>2. closers'["operator"] = "idle"
    BY <1>2, <2>1, DieLife DEF Verdict, PanelInv, TypeInv, TypeOK, MemoryTypeOK, Closers
  <2> QED
    BY <2>1, <2>2 DEF PanelKept
<1>3. ASSUME NEW c \in Closers, SealHashes(c) \/ EnqueueSeal(c) PROVE PanelKept
  <2>1. c = "engine" /\ Concluded /\ ballots' = ballots
    BY <1>1, <1>3 DEF SealHashes, EnqueueSeal, jury
  <2>2. closers'["operator"] = "idle"
    BY <1>3, <2>1 DEF SealHashes, EnqueueSeal, PanelInv, TypeInv, TypeOK, MemoryTypeOK, Closers
  <2> QED
    BY <2>1, <2>2 DEF PanelKept
<1>4. ASSUME Minted PROVE PanelKept
  BY <1>4 DEF Minted, PanelKept, PanelInv, Concluded, jury
<1> QED
  BY <1>2, <1>3, <1>4 DEF PipelineStep

LEMMA RequestPanel ==
  ASSUME TypeInv, PanelInv, PartyStep \/ ReplaceReadyJuror \/ TimePasses \/ Restart
  PROVE  PanelKept
<1>1. CASE File
  <2>1. UNCHANGED <<ballots, sealJob, closers>> /\ status' = "jury_selected"
    BY <1>1 DEF File, jury
  <2> QED
    BY <2>1, PanelUndecided
<1>2. CASE RecordBallot
  BY <1>2 DEF RecordBallot, PanelKept, PanelInv, Concluded, caseRow
<1>3. CASE Restart
  <2>1. UNCHANGED <<status, ballots, sealJob>> /\ Die
    BY <1>3 DEF Restart, caseRow, jury
  <2> QED
    BY <2>1, DieLife, PanelQuiet
<1>4. CASE ~File /\ ~RecordBallot /\ ~Restart
  <2>1. UNCHANGED <<status, ballots, sealJob, closers>>
    BY <1>4 DEF PartyStep, ClaimDefence, JurorReady, BeginBallot, BeginStageMessage,
                RecordStageMessage, ReplaceReadyJuror, TimePasses, caseRow, jury
  <2> QED
    BY <2>1, PanelQuiet
<1> QED
  BY <1>1, <1>2, <1>3, <1>4

LEMMA OperatorPanel ==
  ASSUME TypeInv, PanelInv, OperatorStep, "close" \notin OperatorOps
  PROVE  PanelKept
<1>1. ~OperatorClose
  BY DEF OperatorClose
<1>2. ASSUME NEW killed, ManualVoid(killed) PROVE PanelKept
  <2>1. UNCHANGED <<ballots, sealJob>> /\ status' = "void"
    BY <1>2 DEF ManualVoid, MarkVoid, jury
  <2>2. closers' = closers \/ (\A c \in Closers : closers'[c] = "idle")
    BY <1>2, DieLife DEF ManualVoid
  <2> QED
    BY <2>1, <2>2, PanelUndecided
<1>3. ASSUME BeginSelectJury PROVE PanelKept
  <2>1. UNCHANGED <<status, ballots, sealJob, closers>>
    BY <1>3 DEF BeginSelectJury, caseRow, jury
  <2> QED
    BY <2>1, PanelQuiet
<1>4. ASSUME PersistJury PROVE PanelKept
  <2>1. UNCHANGED <<ballots, sealJob, closers>> /\ status' = "jury_selected"
    BY <1>4 DEF PersistJury
  <2> QED
    BY <2>1, PanelUndecided
<1> QED
  BY <1>1, <1>2, <1>3, <1>4 DEF OperatorStep

LEMMA StepPanel ==
  ASSUME "close" \notin OperatorOps, TypeInv, PanelInv, [Next]_vars
  PROVE  PanelInv'
<1>1. PanelKept
  <2>1. CASE UNCHANGED vars
    BY <2>1, PanelQuiet DEF vars, caseRow, jury
  <2> QED
    BY <2>1, EnginePanel, PipelinePanel, RequestPanel, OperatorPanel DEF Next
<1>2. ballots \in Nat /\ PanelSize \in Nat
  BY SessionAssumption DEF TypeInv, TypeOK, RecordTypeOK
<1> QED
  BY <1>1, <1>2 DEF PanelInv, PanelKept

\* With the close endpoint out of use no case is closed or sealed on fewer ballots than the
\* panel has seats, also when jurors are replaced, juries are selected anew, ballots wait for
\* their hash or the process dies while the engine closes (processCase, closeCasePipeline).
THEOREM VerdictsOnFullPanels ==
  ASSUME "close" \notin OperatorOps
  PROVE  Spec => []VerdictOnFullPanel
<1>1. Init => PanelInv
  BY DEF Init, PanelInv, Concluded, Closers
<1>2. PanelInv => VerdictOnFullPanel
  BY DEF PanelInv, Concluded, VerdictOnFullPanel
<1> QED
  BY <1>1, <1>2, InitTypes, StepTypes, StepPanel, PTL DEF Spec

(***************************************************************************)
(* The counts.  What the steps do to the two counts and the stage, apart   *)
(* from what they do to the rows; and what the rows allow: a draft has no  *)
(* stage yet, a verdict was voted on, and who waits for a ballot's hash    *)
(* has passed the check that the case is being voted on.                   *)
(***************************************************************************)

JuryStays ==
  /\ ballots' = ballots
  /\ currentStage' = currentStage => ready' = ready
  /\ currentStage # "jury_readiness" /\ currentStage' = "jury_readiness" => ready' = 0
  /\ currentStage = "jury_readiness" =>
       \/ currentStage' = currentStage
       \/ currentStage' = "opening_addresses" /\ ready >= PanelSize
       \/ currentStage' = "void" /\ ready < PanelSize

JuryAnswers ==
  /\ currentStage = "jury_readiness"
  /\ UNCHANGED <<currentStage, ballots>>
  /\ \/ ready < PanelSize /\ ready' = ready + 1
     \/ ready > 0 /\ ready' = ready - 1

JuryVotes == casting > 0 /\ ballots' = ballots + 1 /\ UNCHANGED <<currentStage, ready>>

JuryMove ==
  /\ JuryStays \/ JuryAnswers \/ JuryVotes
  /\ casting' > 0 => casting > 0 \/ currentStage = "voting"

VoteStages == {"voting", "closed", "sealed", "void"}

VoteInv ==
  /\ status = "draft" => currentStage = "none"
  /\ status \in {"closed", "sealed"} => currentStage \in VoteStages \ {"void"}
  /\ casting > 0 => currentStage \in VoteStages

LEMMA EngineDoneCasts ==
  ASSUME NEW killed \in BOOLEAN, EngineDone(killed)
  PROVE  casting' > 0 => casting > 0
BY DEF EngineDone, Die, requests

\* The ends of the engine's turn at another stage than readiness.
LEMMA EngineEndsJury ==
  ASSUME NEW killed \in BOOLEAN,
         \/ EngineNothing
         \/ /\ \E reason : EngineVoid(reason, killed)
            /\ currentStage # "jury_readiness" \/ ready < PanelSize
         \/ /\ EngineStage("jury_readiness", killed) /\ ready' = IF killed THEN ready ELSE 0
            /\ currentStage = "pre_session"
         \/ /\ EngineStage("opening_addresses", killed) /\ ready' = ready
            /\ ready >= PanelSize
         \/ /\ \E st \in SubmissionStages \cup {"voting"} : EngineStage(st, killed)
            /\ ready' = ready /\ currentStage \in SubmissionStages
  PROVE  JuryMove
<1>1. casting' > 0 => casting > 0
  BY EngineDoneCasts DEF EngineNothing, EngineVoid, EngineStage
<1>2. CASE EngineNothing
  BY <1>1, <1>2 DEF EngineNothing, jury, JuryMove, JuryStays
<1>3. CASE /\ \E reason : EngineVoid(reason, killed)
           /\ currentStage # "jury_readiness" \/ ready < PanelSize
  BY <1>1, <1>3 DEF EngineVoid, MarkVoid, jury, JuryMove, JuryStays
<1>4. CASE /\ EngineStage("jury_readiness", killed) /\ ready' = IF killed THEN ready ELSE 0
           /\ currentStage = "pre_session"
  BY <1>1, <1>4 DEF EngineStage, SetStage, SetRuntime, JuryMove, JuryStays
<1>5. CASE /\ EngineStage("opening_addresses", killed) /\ ready' = ready
           /\ ready >= PanelSize
  BY <1>1, <1>5 DEF EngineStage, SetStage, SetRuntime, JuryMove, JuryStays
<1>6. CASE /\ \E st \in SubmissionStages \cup {"voting"} : EngineStage(st, killed)
           /\ ready' = ready /\ currentStage \in SubmissionStages
  BY <1>1, <1>6 DEF EngineStage, SetStage, SetRuntime, JuryMove, JuryStays, SubmissionStages
<1> QED
  BY <1>2, <1>3, <1>4, <1>5, <1>6

LEMMA EngineJury == ASSUME LifeInv, EngineStep PROVE JuryMove
<1>1. ASSUME ListCases \/ SkipCase \/ AskJudge \/ SendInvite \/ DrawReplacement
      PROVE  JuryMove
  BY <1>1 DEF ListCases, SkipCase, AskJudge, SendInvite, DrawReplacement, Suspend, jury, requests,
              JuryMove, JuryStays
<1>2. ASSUME NEW killed \in BOOLEAN,
             \/ ScreeningApproved(killed) \/ ScreeningRejected(killed)
             \/ ScreeningErrored(killed)
      PROVE  JuryMove
  <2>1. UNCHANGED <<ready, ballots>> /\ currentStage = "judge_screening"
    BY <1>2 DEF ScreeningApproved, ScreeningRejected, ScreeningErrored, jury, LifeInv, TurnInv
  <2>2. currentStage' \in {currentStage, "pre_session", "void"}
    BY <1>2 DEF ScreeningApproved, ScreeningRejected, ScreeningErrored, NotReached, SetStage,
                SetRuntime, MarkVoid
  <2>3. casting' > 0 => casting > 0
    BY <1>2 DEF ScreeningApproved, ScreeningRejected, ScreeningErrored, Die, requests
  <2> QED
    BY <2>1, <2>2, <2>3 DEF JuryMove, JuryStays
<1>3. ASSUME NEW killed \in BOOLEAN, DecidePreSession(killed) PROVE JuryMove
  <2>1. currentStage = "pre_session"
    BY <1>3 DEF DecidePreSession, LifeInv, TurnInv
  <2> QED
    BY <1>3, <2>1, EngineEndsJury DEF DecidePreSession, PreSession
<1>4. ASSUME NEW killed \in BOOLEAN, DecideReadiness(killed) PROVE JuryMove
  BY <1>4, EngineEndsJury DEF DecideReadiness, Readiness
<1>5. ASSUME NEW killed \in BOOLEAN, DecideSubmissions(killed) PROVE JuryMove
  <2>1. currentStage \in SubmissionStages /\ currentStage # "jury_readiness"
        /\ NextStage[currentStage] \in SubmissionStages \cup {"voting"}
    BY <1>5 DEF DecideSubmissions, SubmissionStages, NextStage
  <2> QED
    BY <1>5, <2>1, EngineEndsJury DEF DecideSubmissions
<1>6. ASSUME NEW killed \in BOOLEAN, DecideVoting(killed) PROVE JuryMove
  <2>1. CASE BallotsIn
    BY <1>6, <2>1 DEF DecideVoting, jury, requests, JuryMove, JuryStays
  <2>2. CASE ~BallotsIn
    BY <1>6, <2>2, EngineEndsJury DEF DecideVoting
  <2> QED
    BY <2>1, <2>2
<1>7. ASSUME DrawFails PROVE JuryMove
  BY <1>7, EngineEndsJury DEF DrawFails
<1> QED
  BY <1>1, <1>2, <1>3, <1>4, <1>5, <1>6, <1>7, KilledIsBoolean DEF EngineStep

LEMMA PipelineJury == ASSUME LifeInv, VoteInv, PipelineStep \/ Minted PROVE JuryMove
<1>1. ASSUME NEW c \in Closers, NEW result, NEW killed, Verdict(c, result, killed) PROVE JuryMove
  <2>1. currentStage = "voting" /\ UNCHANGED <<ready, ballots>>
    BY <1>1 DEF Verdict, jury, LifeInv, CloseInv, Closers
  <2>2. currentStage' \in {currentStage, "void", "closed"}
    BY <1>1 DEF Verdict, MarkVoid
  <2> QED
    BY <2>1, <2>2 DEF JuryMove, JuryStays
<1>2. ASSUME NEW c \in Closers, SealHashes(c) \/ EnqueueSeal(c) PROVE JuryMove
  BY <1>2 DEF SealHashes, EnqueueSeal, jury, requests, JuryMove, JuryStays
<1>3. ASSUME Minted PROVE JuryMove
  <2>1. currentStage # "jury_readiness"
    BY <1>3 DEF Minted, LifeInv, JobInv, VoteInv, VoteStages
  <2> QED
    BY <1>3, <2>1 DEF Minted, jury, requests, JuryMove, JuryStays
<1> QED
  BY <1>1, <1>2, <1>3 DEF PipelineStep

LEMMA RequestJury ==
  ASSUME LifeInv, VoteInv, PartyStep \/ ReplaceReadyJuror \/ TimePasses \/ Restart
  PROVE  JuryMove
<1>1. CASE File
  BY <1>1 DEF File, jury, requests, VoteInv, JuryMove, JuryStays
<1>2. CASE JurorReady
  BY <1>2 DEF JurorReady, SomePendingJuror, requests, JuryMove, JuryAnswers
<1>3. CASE ReplaceReadyJuror
  BY <1>3 DEF ReplaceReadyJuror, requests, JuryMove, JuryAnswers, LifeInv, TurnInv
<1>4. CASE RecordBallot
  BY <1>4 DEF RecordBallot, JuryMove, JuryVotes
<1>5. CASE BeginBallot
  BY <1>5 DEF BeginBallot, jury, JuryMove, JuryStays
<1>6. CASE Restart
  BY <1>6 DEF Restart, Die, jury, JuryMove, JuryStays
<1>7. CASE \/ TimePasses \/ ClaimDefence
           \/ \E s \in Sides : BeginStageMessage(s) \/ RecordStageMessage(s)
  BY <1>7 DEF TimePasses, ClaimDefence, BeginStageMessage, RecordStageMessage, jury, requests,
              JuryMove, JuryStays
<1> QED
  BY <1>1, <1>2, <1>3, <1>4, <1>5, <1>6, <1>7 DEF PartyStep

LEMMA StepJury ==
  ASSUME OperatorOps = {}, LifeInv, VoteInv, ~selecting, [Next]_vars
  PROVE  JuryMove
<1>1. ~OperatorStep
  BY DEF OperatorStep, OperatorClose, ManualVoid, BeginSelectJury, PersistJury
<1>2. CASE UNCHANGED vars
  BY <1>2 DEF vars, jury, requests, JuryMove, JuryStays
<1> QED
  BY <1>1, <1>2, EngineJury, PipelineJury, RequestJury DEF Next

LEMMA MoveVotes == ASSUME LifeInv, VoteInv, RowsMove, JuryMove PROVE VoteInv'
<1>1. casting' > 0 => currentStage \in VoteStages
  BY DEF VoteInv, VoteStages, JuryMove
<1>2. CASE RowsStay
  BY <1>1, <1>2 DEF RowsStay, VoteInv
<1>3. CASE RowsFiled
  BY <1>1, <1>3 DEF RowsFiled, VoteInv, VoteStages
<1>4. CASE RowsSeal
  BY <1>4 DEF RowsSeal, VoteInv, VoteStages
<1>5. ASSUME NEW killed \in BOOLEAN, RowsAdvance(killed) PROVE VoteInv'
  <2>1. currentStage \notin VoteStages /\ status' \in OpenStatuses
    BY <1>5 DEF RowsAdvance, SetStage, StageStatus, OpenStatuses, LiveStages, SubmissionStages,
                VoteStages
  <2> QED
    BY <1>1, <2>1 DEF VoteInv, OpenStatuses
<1>6. ASSUME NEW killed \in BOOLEAN, RowsVoid(killed) PROVE VoteInv'
  BY <1>1, <1>6 DEF RowsVoid, VoteInv, VoteStages
<1>7. ASSUME NEW killed \in BOOLEAN, RowsClose(killed) PROVE VoteInv'
  BY <1>7 DEF RowsClose, VoteInv, VoteStages
<1> QED
  BY <1>2, <1>3, <1>4, <1>5, <1>6, <1>7 DEF RowsMove

CountsStep == [Panel!Next]_<<juryStage, Confirmed, ballots>>

\* A stage is entered with nobody confirmed: the old stage may do that.
LEMMA EnterCounts ==
  ASSUME ballots' = ballots, Confirmed' = 0,
         \/ juryStage = "pre_session" /\ juryStage' = "jury_readiness"
         \/ juryStage = "jury_readiness" /\ juryStage' = "addresses" /\ Confirmed >= PanelSize
         \/ juryStage = "jury_readiness" /\ juryStage' = "void" /\ Confirmed < PanelSize
         \/ juryStage \in {"pre_session", "addresses", "voting"} /\ juryStage' = "void"
         \/ juryStage = "addresses" /\ juryStage' = "voting"
         \/ juryStage = "voting" /\ juryStage' = "closed" /\ ballots >= PanelSize
  PROVE  CountsStep
BY DEF CountsStep, Panel!Next, Panel!Enter, Panel!Start, Panel!Open, Panel!GiveUp, Panel!Fail,
       Panel!Vote, Panel!Close

\* Answers and ballots change a count and nothing else.
LEMMA AnswerCounts == ASSUME JuryAnswers PROVE CountsStep
<1>1. juryStage = "jury_readiness" /\ juryStage' = juryStage
  BY DEF JuryAnswers, juryStage, SubmissionStages
<1>2. Confirmed = ready /\ Confirmed' = ready'
  BY DEF JuryAnswers, Confirmed
<1> QED
  BY <1>1, <1>2 DEF JuryAnswers, CountsStep, Panel!Next, Panel!Confirm, Panel!Withdraw, Panel!Count

LEMMA BallotCounts == ASSUME VoteInv, JuryVotes PROVE CountsStep
<1>1. juryStage \in {"voting", "closed", "void"} /\ juryStage' = juryStage
  BY DEF JuryVotes, VoteInv, VoteStages, juryStage, SubmissionStages
<1>2. Confirmed' = Confirmed
  BY DEF JuryVotes, Confirmed
<1> QED
  BY <1>1, <1>2 DEF JuryVotes, CountsStep, Panel!Next, Panel!Ballot

\* Where a stage that is left leads, by the row it is kept in.
LEMMA StageMoves ==
  ASSUME LifeInv, VoteInv, RowsMove, currentStage' # currentStage
  PROVE  \/ currentStage \in {"none", "judge_screening"}
              /\ currentStage' \in {"judge_screening", "pre_session"}
         \/ currentStage = "pre_session" /\ currentStage' = "jury_readiness"
         \/ currentStage = "jury_readiness" /\ currentStage' = "opening_addresses"
         \/ currentStage \in SubmissionStages
              /\ currentStage' \in SubmissionStages \cup {"voting"}
         \/ currentStage \in LiveStages /\ currentStage' = "void"
         \/ currentStage = "voting" /\ currentStage' = "closed" /\ status' = "closed"
         \/ currentStage \in VoteStages \ {"void"} /\ currentStage' = "sealed"
              /\ status' = "sealed"
<1>1. ASSUME NEW killed \in BOOLEAN, RowsAdvance(killed)
      PROVE  /\ currentStage \in LiveStages \ {"voting"}
             /\ currentStage' = Lifecycle!NextStage[currentStage]
  BY <1>1 DEF RowsAdvance, SetStage, SetRuntime
<1>2. CASE RowsFiled
  BY <1>2 DEF RowsFiled, VoteInv
<1>3. CASE RowsSeal
  BY <1>3 DEF RowsSeal, VoteInv
<1>4. ASSUME NEW killed \in BOOLEAN, RowsVoid(killed)
      PROVE  currentStage \in LiveStages /\ currentStage' = "void"
  BY <1>4 DEF RowsVoid, LifeInv, OpenInv
<1>5. ASSUME NEW killed \in BOOLEAN, RowsClose(killed)
      PROVE  currentStage = "voting" /\ currentStage' = "closed" /\ status' = "closed"
  BY <1>5 DEF RowsClose
<1>6. CASE \E killed \in BOOLEAN : RowsAdvance(killed)
  BY <1>1, <1>6 DEF LiveStages, SubmissionStages, Lifecycle!NextStage
<1> QED
  BY <1>2, <1>3, <1>4, <1>5, <1>6 DEF RowsMove, RowsStay

LEMMA StayCounts ==
  ASSUME LifeInv, VoteInv, PanelInv', RowsMove, JuryStays
  PROVE  CountsStep
<1>1. CASE currentStage' = currentStage
  BY <1>1 DEF JuryStays, CountsStep, juryStage, Confirmed
<1>2. ASSUME currentStage' # currentStage PROVE CountsStep
  <2>1. ballots' = ballots /\ Confirmed' = 0
    BY <1>2 DEF JuryStays, Confirmed
  <2>2. currentStage # "jury_readiness" => Confirmed = 0
    BY DEF Confirmed
  <2>3. currentStage = "jury_readiness" =>
          \/ currentStage' = "opening_addresses" /\ Confirmed >= PanelSize
          \/ currentStage' = "void" /\ Confirmed < PanelSize
    BY <1>2 DEF JuryStays, Confirmed
  <2>4. status' \in {"closed", "sealed"} => ballots >= PanelSize
    BY <2>1 DEF PanelInv, Concluded
  <2>5. CASE /\ currentStage \in {"none", "judge_screening"}
             /\ currentStage' \in {"judge_screening", "pre_session"}
    <3>1. juryStage' = juryStage
      BY <2>5 DEF juryStage, SubmissionStages
    <3> QED
      BY <2>1, <2>2, <2>5, <3>1 DEF CountsStep
  <2>6. CASE currentStage = "pre_session" /\ currentStage' = "jury_readiness"
    <3>1. juryStage = "pre_session" /\ juryStage' = "jury_readiness"
      BY <2>6 DEF juryStage, SubmissionStages
    <3> QED
      BY <2>1, <3>1, EnterCounts
  <2>7. CASE currentStage = "jury_readiness" /\ currentStage' = "opening_addresses"
    <3>1. juryStage = "jury_readiness" /\ juryStage' = "addresses"
      BY <2>7 DEF juryStage, SubmissionStages
    <3> QED
      BY <2>1, <2>3, <2>7, <3>1, EnterCounts
  <2>8. CASE /\ currentStage \in SubmissionStages
             /\ currentStage' \in SubmissionStages \cup {"voting"}
    <3>1. juryStage = "addresses" /\ juryStage' \in {"addresses", "voting"}
          /\ currentStage # "jury_readiness"
      BY <2>8 DEF juryStage, SubmissionStages
    <3> QED
      BY <2>1, <2>2, <3>1, EnterCounts DEF CountsStep
  <2>9. CASE currentStage \in LiveStages /\ currentStage' = "void"
    <3>1. /\ juryStage' = "void"
          /\ juryStage \in {"pre_session", "jury_readiness", "addresses", "voting"}
          /\ juryStage = "jury_readiness" <=> currentStage = "jury_readiness"
      BY <2>9 DEF juryStage, LiveStages, SubmissionStages
    <3> QED
      BY <2>1, <2>3, <2>9, <3>1, EnterCounts
  <2>10. CASE /\ currentStage \in VoteStages /\ currentStage' \in {"closed", "sealed"}
              /\ status' \in {"closed", "sealed"} /\ currentStage # "void"
    <3>1. juryStage \in {"voting", "closed"} /\ juryStage' = "closed"
          /\ currentStage # "jury_readiness"
      BY <2>10 DEF juryStage, VoteStages, SubmissionStages
    <3> QED
      BY <2>1, <2>2, <2>4, <2>10, <3>1, EnterCounts DEF CountsStep
  <2> QED
    BY <1>2, <2>5, <2>6, <2>7, <2>8, <2>9, <2>10, StageMoves DEF VoteStages
<1> QED
  BY <1>1, <1>2

\* Without operator endpoints a case opens its session, voids it for its jury and reaches a
\* verdict on the counts that PanelCount allows, whatever the order in which confirmations,
\* replacements, late ballots, the engine's decisions after its awaits and deaths come.
THEOREM CountsAsTheJury ==
  ASSUME OperatorOps = {}
  PROVE  Spec => ImplementsPanelCount
<1>1. Init => Panel!Init /\ PanelInv /\ VoteInv
  BY DEF Init, Panel!Init, juryStage, SubmissionStages, Confirmed, PanelInv, Concluded, Closers,
         VoteInv
<1>2. /\ LifeInv /\ ~selecting /\ PanelInv /\ VoteInv /\ [Next]_vars
      => /\ LifeInv' /\ ~selecting' /\ PanelInv' /\ VoteInv'
         /\ [Panel!Next]_<<juryStage, Confirmed, ballots>>
  <2> SUFFICES ASSUME LifeInv, ~selecting, PanelInv, VoteInv, [Next]_vars
               PROVE  LifeInv' /\ ~selecting' /\ PanelInv' /\ VoteInv' /\ CountsStep
    BY DEF CountsStep
  <2>1. LifeInv' /\ RowsMove /\ ~selecting' /\ PanelInv' /\ JuryMove
    BY StepLife, NoneSelects, StepPanel, StepJury DEF LifeInv
  <2>2. VoteInv'
    BY <2>1, MoveVotes
  <2>3. CountsStep
    BY <2>1, StayCounts, AnswerCounts, BallotCounts DEF JuryMove
  <2> QED
    BY <2>1, <2>2, <2>3
<1> QED
  BY <1>1, <1>2, InitLife, PTL DEF Spec, ImplementsPanelCount, Panel!Spec

-----------------------------------------------------------------------------
(***************************************************************************)
(* Unless a jury is selected anew the case comes by its verdict as         *)
(* CaseVerdict says.  The rows say what a run may find: a verdict belongs  *)
(* to a decided case, and only an operator's void during an await leaves   *)
(* its mark on a case that goes on.                                        *)
(***************************************************************************)

Judging == \E c \in Closers : closers[c] = "judging"

VerdictInv == status \in Decided <=> outcome \in Outcomes

\* Without the operator's void nobody voids the case that the engine holds.
ReviveInv ==
  "void" \notin OperatorOps =>
    /\ outcome = "void" => status = "void"
    /\ engine.pc \in Awaiting => status # "void"
    /\ engine.pc = "listed" => status # "void" \/ currentStage = "void"

CourtInv == FinalInv /\ VerdictInv /\ ReviveInv

CourtStep == [Court!Next]_<<outcome, Judging>>

CourtKept == VerdictInv' /\ ReviveInv' /\ CourtStep

\* Runs that end, and nothing else.
EndsRuns == \A c \in Closers : closers'[c] = "judging" => closers[c] = "judging"

LEMMA RunsEnd == ASSUME EndsRuns PROVE Judging' => Judging
BY DEF EndsRuns, Judging

\* A step that leaves the outcome alone lets runs go on or ends them.
LEMMA OutcomeStays == ASSUME EndsRuns, outcome' = outcome PROVE CourtStep
<1>1. Judging' = Judging \/ (Judging /\ ~Judging')
  BY RunsEnd DEF Judging
<1>2. CASE Judging' = Judging
  BY <1>2 DEF CourtStep
<1>3. CASE Judging /\ ~Judging'
  BY <1>3 DEF CourtStep, Court!Next, Court!Die, Judging
<1> QED
  BY <1>1, <1>2, <1>3

LEMMA QuietCourt ==
  ASSUME CourtInv, UNCHANGED <<status, currentStage, outcome>>, EndsRuns,
         \/ engine'.pc \in {"idle", engine.pc}
         \/ engine'.pc = "listed" /\ status \in OpenStatuses
         \/ /\ engine'.pc \in Awaiting /\ engine.pc = "listed"
            /\ currentStage \in {"judge_screening", "pre_session", "jury_readiness"}
  PROVE  CourtKept
<1>1. VerdictInv'
  BY DEF CourtInv, VerdictInv
<1>2. ReviveInv'
  BY DEF CourtInv, ReviveInv, Awaiting, OpenStatuses
<1> QED
  BY <1>1, <1>2, OutcomeStays DEF CourtKept

\* A case without a verdict has none in its outcome.
LEMMA OutcomeOpen ==
  ASSUME CourtInv, status \notin Decided
  PROVE  outcome \in {"none", "void"}
BY DEF CourtInv, VerdictInv, FinalInv, TypeInv, TypeOK, RowTypeOK, Outcomes

LEMMA VoidCourt ==
  ASSUME CourtInv, NEW reason, NEW killed \in BOOLEAN, MarkVoid(reason, killed),
         status \notin Decided, EndsRuns,
         \/ engine'.pc = "idle"
         \/ engine'.pc \notin Awaiting /\ ~killed
         \/ "void" \in OperatorOps
  PROVE  CourtKept
<1>1. status' = "void" /\ outcome' = "void" /\ (~killed => currentStage' = "void")
  BY DEF MarkVoid
<1>2. VerdictInv'
  BY <1>1 DEF VerdictInv, Decided, Outcomes
<1>3. ReviveInv'
  BY <1>1 DEF ReviveInv, Awaiting
<1>4. CASE outcome = "void"
  BY <1>1, <1>2, <1>3, <1>4, OutcomeStays DEF CourtKept
<1>5. CASE outcome = "none"
  <2>1. Judging' \in {Judging, FALSE}
    BY RunsEnd DEF Judging
  <2>2. CourtStep
    BY <1>1, <1>5, <2>1 DEF CourtStep, Court!Next, Court!Void, Judging
  <2> QED
    BY <1>2, <1>3, <2>2 DEF CourtKept
<1> QED
  BY <1>4, <1>5, OutcomeOpen

LEMMA StageCourt ==
  ASSUME CourtInv, NEW st, NEW killed, SetStage(st, killed), status \notin Decided,
         "void" \notin OperatorOps => status # "void",
         EndsRuns, outcome' = outcome, engine'.pc = "idle"
  PROVE  CourtKept
<1>1. status' \in OpenStatuses
  BY DEF SetStage, StageStatus, OpenStatuses
<1>2. VerdictInv'
  BY <1>1 DEF CourtInv, VerdictInv, OpenStatuses, Decided
<1>3. ReviveInv'
  BY <1>1 DEF CourtInv, ReviveInv, OpenStatuses, Awaiting
<1> QED
  BY <1>2, <1>3, OutcomeStays DEF CourtKept

\* The engine decides about a case that is not void, unless the operator has a void.
LEMMA DecidesUnvoided ==
  ASSUME CourtInv, MayDecide
  PROVE  status \notin Decided /\ ("void" \notin OperatorOps => status # "void")
<1>1. currentStage \in LiveStages => currentStage # "void"
  BY DEF LiveStages, SubmissionStages
<1> QED
  BY <1>1, Undecided DEF CourtInv, ReviveInv, MayDecide

\* The ends of the engine's turn.
LEMMA EngineEndsCourt ==
  ASSUME CourtInv, MayDecide, NEW killed \in BOOLEAN,
         \/ EngineNothing
         \/ \E reason : EngineVoid(reason, killed)
         \/ \E st : EngineStage(st, killed)
  PROVE  CourtKept
<1>1. status \notin Decided /\ ("void" \notin OperatorOps => status # "void")
  BY DecidesUnvoided
<1>2. ASSUME NEW k \in BOOLEAN, EngineDone(k) PROVE engine'.pc = "idle" /\ EndsRuns
  <2>1. \A c \in Closers : closers'[c] \in {closers[c], "idle"}
    BY <1>2, EngineDoneFinal DEF CourtInv
  <2> QED
    BY <1>2, <2>1, EngineDoneFinal DEF CourtInv, EndsRuns
<1>3. CASE EngineNothing
  <2>1. EngineDone(FALSE) /\ UNCHANGED <<status, currentStage, outcome>>
    BY <1>3 DEF EngineNothing, caseRow
  <2> QED
    BY <1>2, <2>1, QuietCourt
<1>4. ASSUME NEW reason, EngineVoid(reason, killed) PROVE CourtKept
  <2>1. MarkVoid(reason, killed) /\ EngineDone(killed)
    BY <1>4 DEF EngineVoid
  <2> QED
    BY <1>1, <1>2, <2>1, VoidCourt
<1>5. ASSUME NEW st, EngineStage(st, killed) PROVE CourtKept
  <2>1. SetStage(st, killed) /\ EngineDone(killed) /\ outcome' = outcome
    BY <1>5 DEF EngineStage
  <2> QED
    BY <1>1, <1>2, <2>1, StageCourt
<1> QED
  BY <1>3, <1>4, <1>5

LEMMA ListingCourt ==
  ASSUME CourtInv, ListCases \/ SkipCase \/ AskJudge \/ SendInvite \/ DrawReplacement
  PROVE  CourtKept
<1>1. UNCHANGED <<status, currentStage, outcome>> /\ EndsRuns
  BY DEF ListCases, SkipCase, AskJudge, SendInvite, DrawReplacement, Suspend, caseRow, EndsRuns
<1>2. engine \in Turns
  BY DEF CourtInv, FinalInv, TypeInv, TypeOK, MemoryTypeOK
<1>3. ASSUME ListCases PROVE engine'.pc = "listed" /\ status \in OpenStatuses
  BY <1>2, <1>3 DEF ListCases, Turns
<1>4. ASSUME SkipCase PROVE engine'.pc = "idle"
  BY <1>4 DEF SkipCase, Idle
<1>5. ASSUME AskJudge \/ SendInvite \/ DrawReplacement
      PROVE  /\ engine'.pc \in Awaiting /\ engine.pc = "listed"
             /\ currentStage \in {"judge_screening", "pre_session", "jury_readiness"}
  BY <1>2, <1>5 DEF AskJudge, SendInvite, DrawReplacement, Suspend, Turns, Awaiting
<1> QED
  BY <1>1, <1>3, <1>4, <1>5, QuietCourt

LEMMA ScreeningCourt ==
  ASSUME CourtInv, NEW killed \in BOOLEAN,
         \/ ScreeningApproved(killed) \/ ScreeningRejected(killed) \/ ScreeningErrored(killed)
  PROVE  CourtKept
<1>1. MayDecide
  BY DEF ScreeningApproved, ScreeningRejected, ScreeningErrored, MayDecide, Awaiting
<1>2. engine'.pc = "idle" /\ EndsRuns
  <2>1. CASE killed
    BY <2>1, DieFinal DEF ScreeningApproved, ScreeningRejected, ScreeningErrored, EndsRuns
  <2>2. CASE ~killed
    <3>1. (\E n : engine' = [Idle EXCEPT !.attempts = n]) /\ closers' = closers
      BY <2>2 DEF ScreeningApproved, ScreeningRejected, ScreeningErrored
    <3> QED
      BY <3>1 DEF Idle, EndsRuns
  <2> QED
    BY <2>1, <2>2
<1>3. \/ UNCHANGED <<status, currentStage, outcome>>
      \/ SetStage("pre_session", killed) /\ outcome' = outcome
      \/ \E reason : MarkVoid(reason, killed)
  BY DEF ScreeningApproved, ScreeningRejected, ScreeningErrored, NotReached
<1> QED
  BY <1>1, <1>2, <1>3, DecidesUnvoided, QuietCourt, StageCourt, VoidCourt

\* A run begins: the case is being voted on, and no other run works on it.
LEMMA BeginsCourt ==
  ASSUME CourtInv, NEW c \in Closers, PipelineFree, status = "voting",
         closers' = [closers EXCEPT ![c] = "judging"],
         UNCHANGED <<status, currentStage, outcome>>,
         engine'.pc \in {"idle", engine.pc}
  PROVE  CourtKept
<1>1. ~Judging /\ Judging'
  BY DEF Judging, PipelineFree, CourtInv, FinalInv, TypeInv, TypeOK, MemoryTypeOK
<1>2. outcome = "none" \/ ("void" \in OperatorOps /\ outcome = "void")
  BY OutcomeOpen DEF CourtInv, ReviveInv, Decided
<1>3. CourtStep
  BY <1>1, <1>2 DEF CourtStep, Court!Next, Court!Begin, Judging
<1>4. VerdictInv' /\ ReviveInv'
  BY DEF CourtInv, VerdictInv, ReviveInv, Awaiting
<1> QED
  BY <1>3, <1>4 DEF CourtKept

LEMMA DecideCourt ==
  ASSUME CourtInv, NEW killed \in BOOLEAN,
         \/ DecidePreSession(killed) \/ DecideReadiness(killed)
         \/ DecideSubmissions(killed) \/ DecideVoting(killed)
  PROVE  CourtKept
<1>1. MayDecide
  BY DEF DecidePreSession, DecideReadiness, DecideSubmissions, DecideVoting, MayDecide,
         Awaiting, LiveStages, SubmissionStages
<1>2. ASSUME DecidePreSession(killed) \/ DecideReadiness(killed) \/ DecideSubmissions(killed)
      PROVE  CourtKept
  <2>1. \/ EngineNothing
        \/ \E reason : EngineVoid(reason, killed)
        \/ \E st : EngineStage(st, killed)
    BY <1>2 DEF DecidePreSession, PreSession, DecideReadiness, Readiness, DecideSubmissions
  <2> QED
    BY <1>1, <2>1, EngineEndsCourt
<1>3. ASSUME DecideVoting(killed) PROVE CourtKept
  <2>1. CASE BallotsIn
    <3>1. /\ engine'.pc = "idle"
          /\ closers' = closers
             \/ /\ PipelineFree /\ status = "voting"
                /\ closers' = [closers EXCEPT !["engine"] = "judging"]
          /\ UNCHANGED <<status, currentStage, outcome>>
      BY <1>3, <2>1 DEF DecideVoting, Idle, caseRow
    <3>2. CASE closers' = closers
      BY <3>1, <3>2, QuietCourt DEF EndsRuns
    <3>3. CASE /\ PipelineFree /\ status = "voting"
               /\ closers' = [closers EXCEPT !["engine"] = "judging"]
      BY <3>1, <3>3, BeginsCourt DEF Closers
    <3> QED
      BY <3>1, <3>2, <3>3
  <2>2. CASE ~BallotsIn
    <3>1. EngineNothing \/ EngineVoid("voting_timeout", killed)
      BY <1>3, <2>2 DEF DecideVoting
    <3> QED
      BY <1>1, <3>1, EngineEndsCourt
  <2> QED
    BY <2>1, <2>2
<1> QED
  BY <1>2, <1>3

LEMMA EngineCourt == ASSUME CourtInv, EngineStep PROVE CourtKept
<1>1. ASSUME DrawFails PROVE CourtKept
  <2>1. MayDecide /\ EngineNothing
    BY <1>1 DEF DrawFails, MayDecide, Awaiting
  <2> QED
    BY <2>1, EngineEndsCourt
<1> QED
  BY <1>1, ListingCourt, ScreeningCourt, DecideCourt, KilledIsBoolean DEF EngineStep

\* The run gives its verdict, or voids the case for it.
LEMMA VerdictsCourt ==
  ASSUME CourtInv, NEW c \in Closers, NEW result \in Outcomes \cup {"inconclusive"},
         NEW killed \in BOOLEAN, Verdict(c, result, killed)
  PROVE  CourtKept
<1>1. closers[c] = "judging"
  BY DEF Verdict
<1>2. /\ status \notin Decided /\ engine.pc \notin Awaiting
      /\ \A d \in Closers : d # c => closers[d] = "idle"
  BY <1>1, VerdictFinds DEF CourtInv
<1>3. Judging
  BY <1>1 DEF Judging
<1>4. CASE killed
  <2>1. engine'.pc = "idle" /\ \A d \in Closers : closers'[d] = "idle"
    BY <1>4, DieFinal DEF Verdict
  <2>2. CASE result = "inconclusive"
    BY <2>1, <2>2, <1>2, VoidCourt DEF Verdict, EndsRuns
  <2>3. CASE result # "inconclusive"
    <3>1. status' = "closed" /\ outcome' = result /\ result \in Outcomes
      BY <2>3 DEF Verdict
    <3>2. ~Judging'
      BY <2>1 DEF Judging
    <3>3. VerdictInv' /\ ReviveInv'
      BY <2>1, <3>1 DEF VerdictInv, ReviveInv, Decided, Outcomes, Awaiting
    <3>4. CourtStep
      BY <1>3, <3>1, <3>2
      DEF CourtStep, Court!Next, Court!Decide, Court!Verdicts, Judging, Outcomes
    <3> QED
      BY <3>3, <3>4 DEF CourtKept
  <2> QED
    BY <2>2, <2>3
<1>5. CASE ~killed
  <2>1. engine' = engine
    BY <1>5 DEF Verdict
  <2>2. \A d \in Closers : closers'[d] # "judging"
    BY <1>2, <1>5 DEF Verdict, CourtInv, FinalInv, TypeInv, TypeOK, MemoryTypeOK
  <2>3. CASE result = "inconclusive"
    <3>1. MarkVoid("inconclusive_verdict", killed)
      BY <2>3 DEF Verdict
    <3> QED
      BY <1>2, <1>5, <2>1, <2>2, <3>1, VoidCourt DEF EndsRuns
  <2>4. CASE result # "inconclusive"
    <3>1. status' = "closed" /\ outcome' = result /\ result \in Outcomes
      BY <2>4 DEF Verdict
    <3>2. ~Judging'
      BY <2>2 DEF Judging
    <3>3. VerdictInv' /\ ReviveInv'
      BY <3>1 DEF VerdictInv, ReviveInv, Decided, Outcomes
    <3>4. CourtStep
      BY <1>3, <3>1, <3>2
      DEF CourtStep, Court!Next, Court!Decide, Court!Verdicts, Judging, Outcomes
    <3> QED
      BY <3>3, <3>4 DEF CourtKept
  <2> QED
    BY <2>3, <2>4
<1> QED
  BY <1>4, <1>5

LEMMA PipelineCourt == ASSUME CourtInv, PipelineStep \/ Minted PROVE CourtKept
<1>1. ASSUME NEW c \in Closers, SealHashes(c) \/ EnqueueSeal(c) PROVE CourtKept
  <2>1. UNCHANGED <<status, currentStage, outcome, engine>>
    BY <1>1 DEF SealHashes, EnqueueSeal, caseRow
  <2>2. EndsRuns
    BY <1>1 DEF SealHashes, EnqueueSeal, EndsRuns, CourtInv, FinalInv, TypeInv, TypeOK,
                MemoryTypeOK
  <2> QED
    BY <2>1, <2>2, QuietCourt
<1>2. ASSUME Minted PROVE CourtKept
  <2>1. /\ sealJob = "open" /\ status' = "sealed"
        /\ UNCHANGED <<outcome, engine, closers>>
    BY <1>2 DEF Minted
  <2>2. status \in Decided
    BY <2>1 DEF CourtInv, FinalInv, SealInv
  <2>3. VerdictInv' /\ ReviveInv'
    BY <2>1, <2>2 DEF CourtInv, VerdictInv, ReviveInv, Decided, Outcomes
  <2> QED
    BY <2>1, <2>3, OutcomeStays DEF CourtKept, EndsRuns
<1> QED
  BY <1>1, <1>2, VerdictsCourt, KilledIsBoolean DEF PipelineStep

LEMMA RequestCourt ==
  ASSUME CourtInv, PartyStep \/ ReplaceReadyJuror \/ TimePasses \/ Restart
  PROVE  CourtKept
<1>1. CASE File
  <2>1. /\ status = "draft" /\ status' = "jury_selected"
        /\ UNCHANGED <<outcome, engine, closers>>
    BY <1>1 DEF File
  <2>2. VerdictInv' /\ ReviveInv'
    BY <2>1 DEF CourtInv, VerdictInv, ReviveInv, Decided
  <2> QED
    BY <2>1, <2>2, OutcomeStays DEF CourtKept, EndsRuns
<1>2. CASE Restart
  BY <1>2, DieFinal, QuietCourt DEF Restart, caseRow, EndsRuns
<1>3. CASE ~File /\ ~Restart
  <2>1. UNCHANGED <<status, currentStage, outcome, engine, closers>>
    BY <1>3 DEF PartyStep, ClaimDefence, JurorReady, BeginBallot, RecordBallot, BeginStageMessage,
                RecordStageMessage, ReplaceReadyJuror, TimePasses, caseRow
  <2> QED
    BY <2>1, QuietCourt DEF EndsRuns
<1> QED
  BY <1>1, <1>2, <1>3

LEMMA OperatorCourt ==
  ASSUME CourtInv, OperatorStep, "select_jury" \notin OperatorOps
  PROVE  CourtKept
<1>1. ASSUME OperatorClose PROVE CourtKept
  <2>1. "operator" \in Closers /\ UNCHANGED <<status, currentStage, outcome, engine>>
    BY <1>1 DEF OperatorClose, caseRow, Closers
  <2> QED
    BY <1>1, <2>1, BeginsCourt DEF OperatorClose
<1>2. ASSUME NEW killed \in BOOLEAN, ManualVoid(killed) PROVE CourtKept
  <2>1. status \notin Decided /\ MarkVoid("manual_void", killed) /\ "void" \in OperatorOps
    BY <1>2 DEF ManualVoid, OpenStatuses, Decided
  <2>2. EndsRuns
    BY <1>2, DieFinal DEF ManualVoid, EndsRuns
  <2> QED
    BY <2>1, <2>2, VoidCourt
<1>3. ~BeginSelectJury /\ ~PersistJury
  BY DEF BeginSelectJury, PersistJury, CourtInv, FinalInv
<1> QED
  BY <1>1, <1>2, <1>3, KilledIsBoolean DEF OperatorStep

LEMMA StepCourt ==
  ASSUME "select_jury" \notin OperatorOps, CourtInv, [Next]_vars
  PROVE  CourtKept
<1>1. CASE Next
  BY <1>1, EngineCourt, PipelineCourt, RequestCourt, OperatorCourt DEF Next
<1>2. CASE UNCHANGED vars
  BY <1>2, QuietCourt DEF vars, caseRow, EndsRuns
<1> QED
  BY <1>1, <1>2

\* Unless a jury is selected anew, a case comes by its verdict as CaseVerdict promises: one
\* run at a time, a verdict at most once, and over a void only when the operator's void fell
\* into one of the engine's awaits (closeCasePipeline, storeVerdict, markCaseVoid, setStage).
THEOREM VerdictComesAsPromised ==
  ASSUME "select_jury" \notin OperatorOps
  PROVE  Spec => ImplementsCaseVerdict
<1>1. Init => CourtInv /\ Court!Init
  <2> SUFFICES ASSUME Init PROVE CourtInv /\ Court!Init
    OBVIOUS
  <2>1. VerdictInv /\ ReviveInv /\ Court!Init
    BY DEF Init, VerdictInv, ReviveInv, Decided, Outcomes, Awaiting, Court!Init
  <2> QED
    BY <2>1, InitFinal DEF CourtInv
<1>2. CourtInv /\ [Next]_vars
      => CourtInv' /\ [Court!Next]_<<outcome, \E c \in Closers : closers[c] = "judging">>
  BY StepFinal, StepCourt DEF CourtInv, CourtKept, CourtStep, Judging
<1> QED
  BY <1>1, <1>2, PTL DEF Spec, ImplementsCaseVerdict, Court!Spec

-----------------------------------------------------------------------------
(***************************************************************************)
(* The seal: the pipeline asks for it, the receipt gives it, and nobody    *)
(* else touches either.                                                    *)
(***************************************************************************)

\* A step writes another status than "sealed", or none.
NotSealedBy == status' # "sealed" \/ status' = status

LEMMA EngineSealsNone == ASSUME EngineStep PROVE NotSealedBy
<1>1. ASSUME NEW st, NEW killed, SetStage(st, killed) PROVE NotSealedBy
  BY <1>1 DEF SetStage, StageStatus, NotSealedBy
<1>2. ASSUME NEW reason, NEW killed, MarkVoid(reason, killed) PROVE NotSealedBy
  BY <1>2 DEF MarkVoid, NotSealedBy
<1>3. ASSUME EngineNothing PROVE NotSealedBy
  BY <1>3 DEF EngineNothing, caseRow, NotSealedBy
<1>4. ASSUME NEW reason, NEW killed, EngineVoid(reason, killed) PROVE NotSealedBy
  BY <1>2, <1>4 DEF EngineVoid
<1>5. ASSUME NEW st, NEW killed, EngineStage(st, killed) PROVE NotSealedBy
  BY <1>1, <1>5 DEF EngineStage
<1>6. CASE ListCases \/ SkipCase \/ AskJudge \/ SendInvite \/ DrawReplacement
  BY <1>6 DEF ListCases, SkipCase, AskJudge, SendInvite, DrawReplacement, Suspend, caseRow,
              NotSealedBy
<1>7. ASSUME NEW killed, \/ ScreeningApproved(killed) \/ ScreeningRejected(killed)
                         \/ ScreeningErrored(killed)
      PROVE  NotSealedBy
  <2>1. UNCHANGED status \/ (\E reason : MarkVoid(reason, killed)) \/ SetStage("pre_session", killed)
    BY <1>7 DEF ScreeningApproved, ScreeningRejected, ScreeningErrored, NotReached
  <2> QED
    BY <1>1, <1>2, <2>1 DEF NotSealedBy
<1>8. ASSUME NEW killed, DecidePreSession(killed) \/ DecideReadiness(killed)
                                                  \/ DecideSubmissions(killed)
      PROVE  NotSealedBy
  BY <1>3, <1>4, <1>5, <1>8
  DEF DecidePreSession, PreSession, DecideReadiness, Readiness, DecideSubmissions
<1>9. ASSUME NEW killed, DecideVoting(killed) PROVE NotSealedBy
  <2>1. UNCHANGED status \/ EngineNothing \/ EngineVoid("voting_timeout", killed)
    BY <1>9 DEF DecideVoting, caseRow
  <2> QED
    BY <1>3, <1>4, <2>1 DEF NotSealedBy
<1> QED
  BY <1>3, <1>6, <1>7, <1>8, <1>9 DEF EngineStep, DrawFails

LEMMA OnlyReceiptsSeal == ASSUME [Next]_vars, ~Minted PROVE NotSealedBy
<1>1. CASE UNCHANGED vars
  BY <1>1 DEF vars, caseRow, NotSealedBy
<1>2. CASE PipelineStep
  BY <1>2 DEF PipelineStep, Verdict, MarkVoid, SealHashes, EnqueueSeal, caseRow, NotSealedBy
<1>3. CASE PartyStep \/ ReplaceReadyJuror \/ TimePasses \/ Restart
  BY <1>3 DEF PartyStep, File, ClaimDefence, JurorReady, BeginBallot, RecordBallot,
              BeginStageMessage, RecordStageMessage, ReplaceReadyJuror, TimePasses, Restart, caseRow,
              NotSealedBy
<1>4. CASE OperatorStep
  BY <1>4 DEF OperatorStep, OperatorClose, ManualVoid, MarkVoid, BeginSelectJury, PersistJury,
              caseRow, NotSealedBy
<1> QED
  BY <1>1, <1>2, <1>3, <1>4, EngineSealsNone DEF Next

LEMMA OnlyThePipelineAsks ==
  ASSUME [Next]_vars, ~Minted, \A c \in Closers : ~EnqueueSeal(c)
  PROVE  sealJob' = sealJob
<1>1. CASE UNCHANGED vars
  BY <1>1 DEF vars
<1>2. CASE EngineStep
  BY <1>2 DEF EngineStep, ListCases, SkipCase, AskJudge, SendInvite, DrawReplacement, Suspend,
              ScreeningApproved, ScreeningRejected, ScreeningErrored, DecidePreSession, PreSession,
              DecideReadiness, Readiness, DecideSubmissions, DecideVoting, DrawFails,
              EngineNothing, EngineVoid, EngineStage
<1>3. CASE PipelineStep
  BY <1>3 DEF PipelineStep, Verdict, SealHashes
<1>4. CASE PartyStep \/ ReplaceReadyJuror \/ TimePasses \/ Restart
  BY <1>4 DEF PartyStep, File, ClaimDefence, JurorReady, BeginBallot, RecordBallot,
              BeginStageMessage, RecordStageMessage, ReplaceReadyJuror, TimePasses, Restart
<1>5. CASE OperatorStep
  BY <1>5 DEF OperatorStep, OperatorClose, ManualVoid, BeginSelectJury, PersistJury
<1> QED
  BY <1>1, <1>2, <1>3, <1>4, <1>5 DEF Next

LEMMA StepSeals ==
  ASSUME "select_jury" \notin OperatorOps, FinalInv, [Next]_vars
  PROVE  [Sealing!Next]_<<sealJob, status = "sealed">>
<1>1. CASE Minted
  BY <1>1 DEF Minted, Sealing!Next, Sealing!Mint
<1>2. CASE ~Minted
  <2>1. status = "sealed" => status' = "sealed"
    BY StepStands DEF Stands, Decided, vars, caseRow
  <2>2. (status' = "sealed") = (status = "sealed")
    BY <1>2, <2>1, OnlyReceiptsSeal DEF NotSealedBy
  <2>3. sealJob' = sealJob \/ (sealJob = "none" /\ sealJob' = "open")
    BY <1>2, OnlyThePipelineAsks DEF EnqueueSeal
  <2> QED
    BY <2>2, <2>3 DEF Sealing!Next, Sealing!Open
<1> QED
  BY <1>1, <1>2

\* Unless a jury is selected anew, a case asks for its seal at most once and is sealed with
\* that job's asset and by nothing else, whichever run of the pipeline asks and whatever the
\* engine does to the case (createSealJobIfMissing, applySealResult, markCaseSealed).
THEOREM SealComesAsPromised ==
  ASSUME "select_jury" \notin OperatorOps
  PROVE  Spec => ImplementsCaseSeal
<1>1. Init => Sealing!Init
  BY DEF Init, Sealing!Init
<1>2. FinalInv /\ [Next]_vars => FinalInv' /\ [Sealing!Next]_<<sealJob, status = "sealed">>
  BY StepFinal, StepSeals
<1> QED
  BY <1>1, <1>2, InitFinal, PTL DEF Spec, ImplementsCaseSeal, Sealing!Spec

=============================================================================
