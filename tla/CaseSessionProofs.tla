------------------------- MODULE CaseSessionProofs -------------------------
(***************************************************************************)
(* Proofs about CaseSession for every value of its constants: any panel,   *)
(* any set of court modes and operator endpoints, any number of restarts,  *)
(* with and without kills between two writes.                              *)
(***************************************************************************)
EXTENDS CaseSessionProps, TLAPS

-----------------------------------------------------------------------------
(* Type correctness.  A ballot is counted once, as one that waits for its   *)
(* hash or as one on file; together the two stay within MaxBallots.         *)

TypeInv == TypeOK /\ ballots + casting <= MaxBallots

LEMMA KilledIsBoolean == Killed \subseteq BOOLEAN
BY DEF Killed

\* A death of the process, and the end of a case's turn, leave the memory well typed.
LEMMA DieTypes ==
  ASSUME MemoryTypeOK, Die
  PROVE  MemoryTypeOK' /\ casting' = 0
<1>1. engine' \in Turns
  BY SessionAssumption DEF Die, Turns
<1>2. closers' \in [Closers -> {"idle", "judging", "hashing", "enqueuing"}]
  BY DEF Die
<1>3. posting' \in [Sides -> SubmissionStages \cup {"none"}]
  BY DEF Die
<1>4. casting' = 0 /\ restarts' \in 0 .. MaxRestarts
  BY SessionAssumption DEF Die, MemoryTypeOK
<1>5. selecting' \in BOOLEAN
  BY DEF Die
<1>6. casting' \in 0 .. MaxBallots
  BY <1>4, SessionAssumption
<1> QED
  BY <1>1, <1>2, <1>3, <1>4, <1>5, <1>6 DEF MemoryTypeOK

LEMMA IdleTypes ==
  ASSUME MemoryTypeOK, NEW n \in 0 .. (MaxScreenAttempts - 1)
  PROVE  [Idle EXCEPT !.attempts = n] \in Turns
BY DEF Idle, Turns

\* The engine's turn for the case is over, with n attempts on record.
LEMMA TurnOverTypes ==
  ASSUME MemoryTypeOK, NEW n \in 0 .. (MaxScreenAttempts - 1),
         engine' = [Idle EXCEPT !.attempts = n],
         UNCHANGED <<closers, requests, restarts>>
  PROVE  MemoryTypeOK' /\ casting' = casting
<1>1. engine' \in Turns
  BY IdleTypes
<1> QED
  BY <1>1 DEF MemoryTypeOK, requests

LEMMA EngineDoneTypes ==
  ASSUME MemoryTypeOK, NEW killed \in BOOLEAN, EngineDone(killed)
  PROVE  MemoryTypeOK' /\ casting' \in {0, casting}
<1>1. CASE killed
  BY <1>1, DieTypes DEF EngineDone
<1>2. CASE ~killed
  <2>1. engine' = Idle /\ UNCHANGED <<closers, requests, restarts>>
    BY <1>2 DEF EngineDone
  <2>2. engine' \in Turns
    BY <2>1 DEF Idle, MemoryTypeOK, Turns
  <2> QED
    BY <2>1, <2>2 DEF MemoryTypeOK, requests
<1> QED
  BY <1>1, <1>2

\* The stage writes leave the rows well typed.
LEMMA SetStageTypes ==
  ASSUME RowTypeOK, NEW st \in LiveStages, NEW killed \in BOOLEAN, SetStage(st, killed),
         UNCHANGED <<mode, named, voidReason, outcome, sealedDisabled, defence, scheduled>>,
         screening' \in {screening, "approved"}
  PROVE  RowTypeOK'
<1>1. status' \in Statuses /\ sessionStage' \in Stages
  BY DEF SetStage, StageStatus, Statuses, OpenStatuses, Stages
<1>2. currentStage' \in Stages \cup {"none"}
       /\ clock' \in [Deadlines -> {"unset", "ahead", "at", "past"}]
  <2>1. CASE killed
    BY <2>1 DEF SetStage, RowTypeOK
  <2>2. CASE ~killed
    BY <2>2 DEF SetStage, SetRuntime, RowTypeOK, Stages
  <2> QED BY <2>1, <2>2
<1> QED
  BY <1>1, <1>2 DEF RowTypeOK

LEMMA MarkVoidTypes ==
  ASSUME RowTypeOK, NEW reason \in EngineReasons \cup {"manual_void"}, NEW killed \in BOOLEAN,
         MarkVoid(reason, killed), UNCHANGED <<mode, named, defence, scheduled>>,
         screening' \in {screening, "rejected", "failed"}
  PROVE  RowTypeOK'
<1>1. currentStage' \in Stages \cup {"none"}
       /\ clock' \in [Deadlines -> {"unset", "ahead", "at", "past"}]
  <2>1. CASE killed
    BY <2>1 DEF MarkVoid, RowTypeOK
  <2>2. CASE ~killed
    BY <2>2 DEF MarkVoid, RowTypeOK, Stages, EndStages
  <2> QED BY <2>1, <2>2
<1>2. status' \in Statuses /\ sessionStage' \in Stages
  BY DEF MarkVoid, Statuses, Stages, EndStages
<1>3. sealedDisabled' \in BOOLEAN
  BY DEF MarkVoid
<1> QED
  BY <1>1, <1>2, <1>3 DEF MarkVoid, RowTypeOK

LEMMA SumKept ==
  ASSUME TypeInv, RowTypeOK', RecordTypeOK', MemoryTypeOK', ballots' = ballots,
         casting' \in {0, casting}
  PROVE  TypeInv'
<1>1. ballots \in Nat /\ casting \in Nat /\ MaxBallots \in Nat
  BY SessionAssumption DEF TypeInv, TypeOK, RecordTypeOK, MemoryTypeOK
<1>2. ballots + casting <= MaxBallots /\ ballots + 0 <= MaxBallots
  BY <1>1 DEF TypeInv
<1>3. ballots' + casting' <= MaxBallots
  BY <1>2
<1> QED
  BY <1>3 DEF TypeInv, TypeOK

LEMMA EngineVoidTypes ==
  ASSUME TypeInv, NEW reason \in EngineReasons, NEW killed \in BOOLEAN,
         EngineVoid(reason, killed)
  PROVE  TypeInv'
<1>1. RowTypeOK'
  BY MarkVoidTypes DEF EngineVoid, TypeInv, TypeOK
<1>2. MemoryTypeOK' /\ casting' \in {0, casting}
  BY EngineDoneTypes DEF EngineVoid, TypeInv, TypeOK
<1>3. RecordTypeOK' /\ ballots' = ballots
  BY DEF EngineVoid, TypeInv, TypeOK, RecordTypeOK, jury
<1> QED
  BY <1>1, <1>2, <1>3, SumKept

LEMMA EngineStageTypes ==
  ASSUME TypeInv, NEW st \in LiveStages, NEW killed \in BOOLEAN, EngineStage(st, killed),
         ready' \in 0 .. PanelSize
  PROVE  TypeInv'
<1>1. RowTypeOK'
  BY SetStageTypes DEF EngineStage, TypeInv, TypeOK
<1>2. MemoryTypeOK' /\ casting' \in {0, casting}
  BY EngineDoneTypes DEF EngineStage, TypeInv, TypeOK
<1>3. RecordTypeOK' /\ ballots' = ballots
  BY DEF EngineStage, TypeInv, TypeOK, RecordTypeOK
<1> QED
  BY <1>1, <1>2, <1>3, SumKept

LEMMA EngineNothingTypes ==
  ASSUME TypeInv, EngineNothing
  PROVE  TypeInv'
<1>1. MemoryTypeOK' /\ casting' \in {0, casting}
  BY EngineDoneTypes DEF EngineNothing, TypeInv, TypeOK
<1>2. RowTypeOK' /\ RecordTypeOK' /\ ballots' = ballots
  BY DEF EngineNothing, TypeInv, TypeOK, RowTypeOK, RecordTypeOK, caseRow, jury
<1> QED
  BY <1>1, <1>2, SumKept

\* The steps of the engine that only list a case, skip it or suspend on an await.
LEMMA ListingTypes ==
  ASSUME TypeInv, ListCases \/ SkipCase \/ AskJudge \/ SendInvite \/ DrawReplacement
  PROVE  TypeInv'
<1>1. ASSUME ListCases PROVE engine' \in Turns
  BY <1>1 DEF ListCases, TypeInv, TypeOK, MemoryTypeOK, RowTypeOK, Turns
<1>2. ASSUME SkipCase PROVE engine' \in Turns
  <2> DEFINE n == IF currentStage = "judge_screening" THEN engine.attempts ELSE 0
  <2>1. engine' = [Idle EXCEPT !.attempts = n]
    BY <1>2 DEF SkipCase, Idle
  <2>2. n \in 0 .. (MaxScreenAttempts - 1)
    BY SessionAssumption DEF TypeInv, TypeOK, MemoryTypeOK, Turns
  <2> QED
    BY <2>1, <2>2, IdleTypes DEF TypeInv, TypeOK
<1>3. ASSUME NEW pc \in {"screening", "inviting", "replacing"}, Suspend(pc)
      PROVE engine' \in Turns
  <2> DEFINE n == IF pc = "screening" THEN engine.attempts ELSE 0
  <2>1. engine \in Turns /\ Due \in SUBSET Deadlines
    BY DEF Due, TypeInv, TypeOK, MemoryTypeOK
  <2>2. n \in 0 .. (MaxScreenAttempts - 1)
    BY <2>1, SessionAssumption DEF Turns
  <2>3. engine' = [engine EXCEPT !.pc = pc, !.seen = Due, !.attempts = n]
    BY <1>3 DEF Suspend
  <2> HIDE DEF n
  <2> QED
    BY <2>1, <2>2, <2>3 DEF Turns
<1>4. engine' \in Turns
  BY <1>1, <1>2, <1>3 DEF AskJudge, SendInvite, DrawReplacement
<1>5. UNCHANGED <<caseRow, currentStage, submitted, jury, sealJob, clock, closers, requests,
                  restarts>>
  BY DEF ListCases, SkipCase, AskJudge, SendInvite, DrawReplacement, Suspend
<1> QED
  BY <1>4, <1>5
  DEF TypeInv, TypeOK, RowTypeOK, RecordTypeOK, MemoryTypeOK, caseRow, jury, requests

\* The answers of the judge.
LEMMA ScreeningTypes ==
  ASSUME TypeInv, NEW killed \in BOOLEAN,
         \/ ScreeningApproved(killed) \/ ScreeningRejected(killed) \/ ScreeningErrored(killed)
  PROVE  TypeInv'
<1>0. 0 \in 0 .. (MaxScreenAttempts - 1)
  BY SessionAssumption
<1>1. ASSUME ScreeningApproved(killed) PROVE TypeInv'
  <2>1. RowTypeOK'
    <3>1. CASE NotReached(killed)
      BY <1>1, <3>1 DEF ScreeningApproved, NotReached, TypeInv, TypeOK, RowTypeOK
    <3>2. CASE ~NotReached(killed)
      BY <1>1, <3>2, SetStageTypes DEF ScreeningApproved, TypeInv, TypeOK, LiveStages
    <3> QED BY <3>1, <3>2
  <2>2. MemoryTypeOK' /\ casting' \in {0, casting}
    BY <1>0, <1>1, DieTypes, TurnOverTypes DEF ScreeningApproved, TypeInv, TypeOK
  <2>3. RecordTypeOK' /\ ballots' = ballots
    BY <1>1 DEF ScreeningApproved, TypeInv, TypeOK, RecordTypeOK, jury
  <2> QED BY <2>1, <2>2, <2>3, SumKept
<1>2. ASSUME ScreeningRejected(killed) PROVE TypeInv'
  <2>1. RowTypeOK'
    <3>1. CASE NotReached(killed)
      BY <1>2, <3>1 DEF ScreeningRejected, NotReached, TypeInv, TypeOK, RowTypeOK
    <3>2. CASE ~NotReached(killed)
      BY <1>2, <3>2, MarkVoidTypes DEF ScreeningRejected, TypeInv, TypeOK, EngineReasons
    <3> QED BY <3>1, <3>2
  <2>2. MemoryTypeOK' /\ casting' \in {0, casting}
    BY <1>0, <1>2, DieTypes, TurnOverTypes DEF ScreeningRejected, TypeInv, TypeOK
  <2>3. RecordTypeOK' /\ ballots' = ballots
    BY <1>2 DEF ScreeningRejected, TypeInv, TypeOK, RecordTypeOK, jury
  <2> QED BY <2>1, <2>2, <2>3, SumKept
<1>3. ASSUME ScreeningErrored(killed) PROVE TypeInv'
  <2> DEFINE exhausted == engine.attempts + 1 >= MaxScreenAttempts
             n == IF exhausted THEN 0 ELSE engine.attempts + 1
  <2>1. n \in 0 .. (MaxScreenAttempts - 1)
    BY SessionAssumption DEF TypeInv, TypeOK, MemoryTypeOK, Turns
  <2>2. RowTypeOK'
    <3>1. CASE NotReached(killed)
      BY <1>3, <3>1 DEF ScreeningErrored, NotReached, TypeInv, TypeOK, RowTypeOK
    <3>2. CASE exhausted /\ ~NotReached(killed)
      BY <1>3, <3>2, MarkVoidTypes DEF ScreeningErrored, TypeInv, TypeOK, EngineReasons
    <3>3. CASE ~exhausted
      BY <1>3, <3>3 DEF ScreeningErrored, TypeInv, TypeOK, RowTypeOK
    <3> QED BY <3>1, <3>2, <3>3
  <2>3. MemoryTypeOK' /\ casting' \in {0, casting}
    <3>1. CASE killed
      BY <1>3, <3>1, DieTypes DEF ScreeningErrored, TypeInv, TypeOK
    <3>2. CASE ~killed
      <4>1. engine' = [Idle EXCEPT !.attempts = n] /\ UNCHANGED <<closers, requests, restarts>>
        BY <1>3, <3>2 DEF ScreeningErrored
      <4> HIDE DEF n
      <4> QED
        BY <2>1, <4>1, TurnOverTypes DEF TypeInv, TypeOK
    <3> QED BY <3>1, <3>2
  <2>4. RecordTypeOK' /\ ballots' = ballots
    BY <1>3 DEF ScreeningErrored, TypeInv, TypeOK, RecordTypeOK, jury
  <2> QED BY <2>2, <2>3, <2>4, SumKept
<1> QED BY <1>1, <1>2, <1>3

\* The decisions of the engine.
LEMMA DecideTypes ==
  ASSUME TypeInv, NEW killed \in BOOLEAN,
         \/ DecidePreSession(killed) \/ DecideReadiness(killed)
         \/ DecideSubmissions(killed) \/ DecideVoting(killed)
  PROVE  TypeInv'
<1>0. 0 \in 0 .. PanelSize /\ ready \in 0 .. PanelSize
  BY SessionAssumption DEF TypeInv, TypeOK, RecordTypeOK
<1>1. ASSUME NEW seen, PreSession(seen, killed) PROVE TypeInv'
  BY <1>0, <1>1, EngineVoidTypes, EngineStageTypes, EngineNothingTypes
  DEF PreSession, EngineReasons, LiveStages
<1>2. ASSUME NEW seen, NEW exhausted, Readiness(seen, exhausted, killed) PROVE TypeInv'
  BY <1>0, <1>2, EngineVoidTypes, EngineStageTypes, EngineNothingTypes
  DEF Readiness, EngineReasons, LiveStages, SubmissionStages
<1>3. ASSUME DecideSubmissions(killed) PROVE TypeInv'
  <2>1. currentStage \in SubmissionStages => NextStage[currentStage] \in LiveStages
    BY DEF SubmissionStages, NextStage, LiveStages
  <2> QED
    BY <1>0, <1>3, <2>1, EngineVoidTypes, EngineStageTypes, EngineNothingTypes
    DEF DecideSubmissions, EngineReasons
<1>4. ASSUME DecideVoting(killed) PROVE TypeInv'
  <2>1. CASE BallotsIn
    <3>0. 0 \in 0 .. (MaxScreenAttempts - 1) /\ MemoryTypeOK
      BY SessionAssumption DEF TypeInv, TypeOK
    <3>1. engine' \in Turns
      <4>1. engine' = [Idle EXCEPT !.attempts = 0]
        BY <1>4, <2>1 DEF DecideVoting
      <4> QED
        BY <3>0, <4>1, IdleTypes
    <3>2. closers' \in [Closers -> {"idle", "judging", "hashing", "enqueuing"}]
      BY <1>4, <2>1 DEF DecideVoting, TypeInv, TypeOK, MemoryTypeOK
    <3>3. UNCHANGED <<caseRow, currentStage, submitted, jury, sealJob, clock, requests,
                      restarts>>
      BY <1>4, <2>1 DEF DecideVoting
    <3> QED
      BY <3>1, <3>2, <3>3
      DEF TypeInv, TypeOK, RowTypeOK, RecordTypeOK, MemoryTypeOK, caseRow, jury, requests
  <2>2. CASE ~BallotsIn
    BY <1>4, <2>2, EngineVoidTypes, EngineNothingTypes DEF DecideVoting, EngineReasons
  <2> QED BY <2>1, <2>2
<1> QED
  BY <1>1, <1>2, <1>3, <1>4 DEF DecidePreSession, DecideReadiness

LEMMA EngineStepTypes == ASSUME TypeInv, EngineStep PROVE TypeInv'
BY ListingTypes, ScreeningTypes, DecideTypes, EngineNothingTypes, KilledIsBoolean
DEF EngineStep, DrawFails

\* closeCasePipeline.
LEMMA PipelineTypes == ASSUME TypeInv, PipelineStep PROVE TypeInv'
<1>1. ASSUME NEW c \in Closers, NEW result \in Outcomes \cup {"inconclusive"},
             NEW killed \in Killed, Verdict(c, result, killed)
      PROVE TypeInv'
  <2>0. killed \in BOOLEAN
    BY KilledIsBoolean
  <2>1. RowTypeOK'
    <3>1. CASE result = "inconclusive"
      BY <1>1, <2>0, <3>1, MarkVoidTypes DEF Verdict, TypeInv, TypeOK, EngineReasons
    <3>2. CASE result # "inconclusive"
      <4>1. UNCHANGED <<mode, named, voidReason, sealedDisabled, screening, defence, scheduled>>
            /\ status' = "closed" /\ sessionStage' = "closed" /\ outcome' \in Outcomes
        BY <1>1, <3>2 DEF Verdict
      <4>2. currentStage' \in {currentStage, "closed"}
            /\ clock' \in [Deadlines -> {"unset", "ahead", "at", "past"}]
        BY <1>1, <3>2 DEF Verdict, TypeInv, TypeOK, RowTypeOK
      <4> QED
        BY <4>1, <4>2 DEF TypeInv, TypeOK, RowTypeOK, Statuses, Stages, EndStages
    <3> QED BY <3>1, <3>2
  <2>2. MemoryTypeOK' /\ casting' \in {0, casting}
    <3>1. CASE killed
      BY <1>1, <3>1, DieTypes DEF Verdict, TypeInv, TypeOK
    <3>2. CASE ~killed
      <4>1. closers' \in [Closers -> {"idle", "judging", "hashing", "enqueuing"}]
        BY <1>1, <3>2 DEF Verdict, TypeInv, TypeOK, MemoryTypeOK
      <4>2. UNCHANGED <<engine, requests, restarts>>
        BY <1>1, <3>2 DEF Verdict
      <4> QED
        BY <4>1, <4>2 DEF TypeInv, TypeOK, MemoryTypeOK, requests
    <3> QED BY <3>1, <3>2
  <2>3. RecordTypeOK' /\ ballots' = ballots
    BY <1>1 DEF Verdict, TypeInv, TypeOK, RecordTypeOK, jury
  <2> QED BY <2>1, <2>2, <2>3, SumKept
<1>2. ASSUME NEW c \in Closers, SealHashes(c) \/ EnqueueSeal(c) PROVE TypeInv'
  <2>1. closers' \in [Closers -> {"idle", "judging", "hashing", "enqueuing"}]
    BY <1>2 DEF SealHashes, EnqueueSeal, TypeInv, TypeOK, MemoryTypeOK
  <2>2. sealJob' \in {"none", "open", "minted"}
    BY <1>2 DEF SealHashes, EnqueueSeal, TypeInv, TypeOK, RecordTypeOK
  <2>3. UNCHANGED <<caseRow, currentStage, submitted, jury, clock, engine, requests, restarts>>
    BY <1>2 DEF SealHashes, EnqueueSeal
  <2> QED
    BY <2>1, <2>2, <2>3
    DEF TypeInv, TypeOK, RowTypeOK, RecordTypeOK, MemoryTypeOK, caseRow, jury, requests
<1> QED
  BY <1>1, <1>2 DEF PipelineStep

\* The requests of the parties and the jurors.
LEMMA PartyTypes == ASSUME TypeInv, PartyStep PROVE TypeInv'
<1>1. ASSUME File PROVE TypeInv'
  <2>1. RowTypeOK'
    BY <1>1 DEF File, TypeInv, TypeOK, RowTypeOK, Statuses, OpenStatuses, Stages, LiveStages
  <2>2. RecordTypeOK' /\ MemoryTypeOK' /\ casting' = casting /\ ballots' = ballots
    BY <1>1 DEF File, TypeInv, TypeOK, RecordTypeOK, MemoryTypeOK, jury, requests
  <2> QED BY <2>1, <2>2, SumKept
<1>2. ASSUME ClaimDefence PROVE TypeInv'
  <2>1. clock' \in [Deadlines -> {"unset", "ahead", "at", "past"}]
        /\ scheduled' \in BOOLEAN /\ defence' \in BOOLEAN
    BY <1>2 DEF ClaimDefence, TypeInv, TypeOK, RowTypeOK
  <2>2. RowTypeOK'
    BY <1>2, <2>1 DEF ClaimDefence, TypeInv, TypeOK, RowTypeOK
  <2>3. RecordTypeOK' /\ MemoryTypeOK' /\ casting' = casting /\ ballots' = ballots
    BY <1>2 DEF ClaimDefence, TypeInv, TypeOK, RecordTypeOK, MemoryTypeOK, jury, requests
  <2> QED BY <2>2, <2>3, SumKept
<1>3. ASSUME JurorReady PROVE TypeInv'
  <2>1. ready' \in 0 .. PanelSize
    BY <1>3, SessionAssumption DEF JurorReady, SomePendingJuror, TypeInv, TypeOK, RecordTypeOK
  <2> QED
    BY <1>3, <2>1
    DEF JurorReady, TypeInv, TypeOK, RowTypeOK, RecordTypeOK, MemoryTypeOK, caseRow, requests
<1>4. ASSUME BeginBallot \/ RecordBallot PROVE TypeInv'
  <2>1. /\ ballots' \in 0 .. MaxBallots /\ casting' \in 0 .. MaxBallots
        /\ ballots' + casting' <= MaxBallots
    BY <1>4, SessionAssumption
    DEF BeginBallot, RecordBallot, jury, TypeInv, TypeOK, RecordTypeOK, MemoryTypeOK
  <2>2. UNCHANGED <<caseRow, currentStage, submitted, ready, sealJob, clock, engine, closers,
                    posting, selecting, restarts>>
    BY <1>4 DEF BeginBallot, RecordBallot, jury
  <2> QED
    BY <2>1, <2>2
    DEF TypeInv, TypeOK, RowTypeOK, RecordTypeOK, MemoryTypeOK, caseRow
<1>5. ASSUME NEW s \in Sides, BeginStageMessage(s) \/ RecordStageMessage(s) PROVE TypeInv'
  <2>1. posting' \in [Sides -> SubmissionStages \cup {"none"}]
        /\ submitted' \subseteq Sides \X SubmissionStages
    BY <1>5 DEF BeginStageMessage, RecordStageMessage, TypeInv, TypeOK, RecordTypeOK,
                MemoryTypeOK
  <2>2. UNCHANGED <<caseRow, currentStage, jury, sealJob, clock, engine, closers, casting,
                    selecting, restarts>>
    BY <1>5 DEF BeginStageMessage, RecordStageMessage
  <2> QED
    BY <2>1, <2>2
    DEF TypeInv, TypeOK, RowTypeOK, RecordTypeOK, MemoryTypeOK, caseRow, jury
<1> QED
  BY <1>1, <1>2, <1>3, <1>4, <1>5 DEF PartyStep

\* The operator endpoints.
LEMMA OperatorTypes == ASSUME TypeInv, OperatorStep PROVE TypeInv'
<1>1. ASSUME OperatorClose \/ BeginSelectJury PROVE TypeInv'
  <2>1. closers' \in [Closers -> {"idle", "judging", "hashing", "enqueuing"}]
        /\ selecting' \in BOOLEAN
    BY <1>1 DEF OperatorClose, BeginSelectJury, TypeInv, TypeOK, MemoryTypeOK, requests
  <2>2. UNCHANGED <<caseRow, currentStage, submitted, jury, sealJob, clock, engine, posting,
                    casting, restarts>>
    BY <1>1 DEF OperatorClose, BeginSelectJury, requests
  <2> QED
    BY <2>1, <2>2
    DEF TypeInv, TypeOK, RowTypeOK, RecordTypeOK, MemoryTypeOK, caseRow, jury
<1>2. ASSUME PersistJury PROVE TypeInv'
  <2>1. RowTypeOK' /\ casting' = casting /\ ballots' = ballots
    BY <1>2 DEF PersistJury, TypeInv, TypeOK, RowTypeOK, Statuses, OpenStatuses, Stages,
                LiveStages
  <2>2. RecordTypeOK'
    BY <1>2, SessionAssumption DEF PersistJury, TypeInv, TypeOK, RecordTypeOK
  <2>3. selecting' \in BOOLEAN
    BY <1>2 DEF PersistJury
  <2>4. MemoryTypeOK'
    BY <1>2, <2>3 DEF PersistJury, TypeInv, TypeOK, MemoryTypeOK
  <2> QED BY <2>1, <2>2, <2>4, SumKept
<1>3. ASSUME NEW killed \in BOOLEAN, ManualVoid(killed) PROVE TypeInv'
  <2>1. RowTypeOK'
    BY <1>3, MarkVoidTypes DEF ManualVoid, TypeInv, TypeOK
  <2>2. MemoryTypeOK' /\ casting' \in {0, casting}
    BY <1>3, DieTypes DEF ManualVoid, TypeInv, TypeOK, MemoryTypeOK, requests
  <2>3. RecordTypeOK' /\ ballots' = ballots
    BY <1>3 DEF ManualVoid, TypeInv, TypeOK, RecordTypeOK, jury
  <2> QED BY <2>1, <2>2, <2>3, SumKept
<1> QED
  BY <1>1, <1>2, <1>3, KilledIsBoolean DEF OperatorStep

\* The remaining steps: a late replacement, the receipt, time and restarts.
LEMMA OtherTypes ==
  ASSUME TypeInv, ReplaceReadyJuror \/ Minted \/ TimePasses \/ Restart
  PROVE  TypeInv'
<1>1. ASSUME ReplaceReadyJuror PROVE TypeInv'
  <2>1. ready' \in 0 .. PanelSize
    BY <1>1, SessionAssumption DEF ReplaceReadyJuror, TypeInv, TypeOK, RecordTypeOK
  <2> QED
    BY <1>1, <2>1
    DEF ReplaceReadyJuror, TypeInv, TypeOK, RowTypeOK, RecordTypeOK, MemoryTypeOK, caseRow,
        requests
<1>2. ASSUME Minted PROVE TypeInv'
  <2>1. RowTypeOK' /\ casting' = casting /\ ballots' = ballots
    BY <1>2 DEF Minted, TypeInv, TypeOK, RowTypeOK, Statuses, Stages, EndStages, jury, requests
  <2>2. RecordTypeOK' /\ MemoryTypeOK'
    BY <1>2 DEF Minted, TypeInv, TypeOK, RecordTypeOK, MemoryTypeOK, jury, requests
  <2> QED BY <2>1, <2>2, SumKept
<1>3. ASSUME TimePasses PROVE TypeInv'
  <2>1. clock' \in [Deadlines -> {"unset", "ahead", "at", "past"}]
    BY <1>3 DEF TimePasses, TypeInv, TypeOK, RowTypeOK
  <2>2. UNCHANGED <<caseRow, currentStage, submitted, jury, sealJob, engine, closers, requests,
                    restarts>>
    BY <1>3 DEF TimePasses
  <2> QED
    BY <2>1, <2>2
    DEF TypeInv, TypeOK, RowTypeOK, RecordTypeOK, MemoryTypeOK, caseRow, jury, requests
<1>4. ASSUME Restart PROVE TypeInv'
  <2>1. MemoryTypeOK' /\ casting' = 0
    BY <1>4, DieTypes DEF Restart, TypeInv, TypeOK
  <2>2. RowTypeOK' /\ RecordTypeOK' /\ ballots' = ballots
    BY <1>4 DEF Restart, TypeInv, TypeOK, RowTypeOK, RecordTypeOK, caseRow, jury
  <2> QED BY <2>1, <2>2, SumKept
<1> QED
  BY <1>1, <1>2, <1>3, <1>4

LEMMA InitTypes == Init => TypeInv
<1> SUFFICES ASSUME Init PROVE TypeInv
  OBVIOUS
<1>1. RowTypeOK
  BY DEF Init, RowTypeOK, Statuses, Stages, LiveStages
<1>2. RecordTypeOK
  BY SessionAssumption DEF Init, RecordTypeOK
<1>3. engine \in Turns
  BY SessionAssumption DEF Init, Turns
<1>4. closers \in [Closers -> {"idle", "judging", "hashing", "enqueuing"}]
      /\ posting \in [Sides -> SubmissionStages \cup {"none"}]
  BY DEF Init
<1>5. casting \in 0 .. MaxBallots /\ restarts \in 0 .. MaxRestarts
  BY SessionAssumption DEF Init
<1>6. selecting \in BOOLEAN
  BY DEF Init
<1>7. ballots + casting <= MaxBallots
  BY SessionAssumption DEF Init
<1> QED
  BY <1>1, <1>2, <1>3, <1>4, <1>5, <1>6, <1>7 DEF TypeInv, TypeOK, MemoryTypeOK

LEMMA StepTypes == TypeInv /\ [Next]_vars => TypeInv'
<1> SUFFICES ASSUME TypeInv, [Next]_vars PROVE TypeInv'
  OBVIOUS
<1>1. CASE Next
  BY <1>1, EngineStepTypes, PipelineTypes, PartyTypes, OperatorTypes, OtherTypes DEF Next
<1>2. CASE UNCHANGED vars
  BY <1>2
  DEF vars, TypeInv, TypeOK, RowTypeOK, RecordTypeOK, MemoryTypeOK, caseRow, jury, requests
<1> QED
  BY <1>1, <1>2

\* Every variable stays in its type, across deaths between two writes and requests that
\* resume after an await: in particular the count of ready jurors stays within the panel
\* when confirmations (confirmJurorReady), replacements (replaceJuror) and a new panel
\* (persistInitialJurySelection) interleave.
THEOREM TypeCorrect == Spec => []TypeOK
<1>1. TypeInv => TypeOK
  BY DEF TypeInv
<1> QED
  BY <1>1, InitTypes, StepTypes, PTL DEF Spec

-----------------------------------------------------------------------------
(* What a session rests on.  PhasesComplete and SessionHasDefence are not   *)
(* inductive: the engine leaves jury_readiness after an await, a verdict is *)
(* stored after closeCasePipeline's awaits and a receipt comes later still, *)
(* so that what was true when the wait began has to be remembered of every  *)
(* replacement, every run of the pipeline and every seal job.               *)

\* A case both sides of which were heard to the end.
Heard == defence /\ \A s \in Sides, st \in SubmissionStages : <<s, st>> \in submitted

\* A verdict is on its way, or its receipt.
Closing == sealJob # "none" \/ \E c \in Closers : closers[c] # "idle"

SessionInv ==
  /\ TypeInv
  /\ PhasesComplete
  /\ SessionHasDefence
  /\ Closing => Heard
  /\ engine.pc = "replacing" => defence

\* The stages a session has not begun at.
QuietStages == {"none", "judge_screening", "pre_session", "void"}

\* What a step has to show: it takes nothing back, and a stage, a status, a closing or a
\* replacement it begins has its grounds.
LEMMA SessionKept ==
  ASSUME SessionInv, TypeInv',
         defence => defence', submitted \subseteq submitted',
         \/ currentStage' = currentStage
         \/ currentStage' \in QuietStages
         \/ /\ defence'
            /\ \A st \in CompletedStages(currentStage') :
                 \A s \in Sides : <<s, st>> \in submitted',
         status' = status \/ status' \notin {"voting", "closed", "sealed"} \/ defence',
         Closing' => Closing \/ Heard',
         engine'.pc = "replacing" => engine.pc = "replacing" \/ defence'
  PROVE  SessionInv'
<1>1. PhasesComplete'
  BY DEF SessionInv, PhasesComplete, CompletedStages, QuietStages
<1>2. SessionHasDefence'
  BY DEF SessionInv, SessionHasDefence, QuietStages, SubmissionStages
<1>3. Closing' => Heard'
  BY DEF SessionInv, Heard
<1> QED
  BY <1>1, <1>2, <1>3 DEF SessionInv

\* A death of the process, like the end of a turn, begins nothing.
LEMMA DieSession ==
  ASSUME Die, sealJob' = sealJob
  PROVE  engine'.pc = "idle" /\ (Closing' => Closing)
BY DEF Die, Closing, Closers

LEMMA EngineDoneSession ==
  ASSUME NEW killed \in BOOLEAN, EngineDone(killed), sealJob' = sealJob
  PROVE  engine'.pc = "idle" /\ (Closing' => Closing)
<1>1. CASE killed
  BY <1>1, DieSession DEF EngineDone
<1>2. CASE ~killed
  BY <1>2 DEF EngineDone, Idle, Closing
<1> QED BY <1>1, <1>2

LEMMA EngineVoidSession ==
  ASSUME SessionInv, NEW reason \in EngineReasons, NEW killed \in BOOLEAN,
         EngineVoid(reason, killed)
  PROVE  SessionInv'
<1>1. TypeInv'
  BY EngineVoidTypes DEF SessionInv
<1>2. engine'.pc = "idle" /\ (Closing' => Closing)
  BY EngineDoneSession DEF EngineVoid
<1>3. /\ currentStage' = currentStage \/ currentStage' \in QuietStages
      /\ status' = "void" /\ defence' = defence /\ submitted' = submitted
  BY DEF EngineVoid, MarkVoid, QuietStages
<1> QED
  BY <1>1, <1>2, <1>3, SessionKept

\* A stage is entered on its grounds.
LEMMA EngineStageSession ==
  ASSUME SessionInv, NEW st \in LiveStages, NEW killed \in BOOLEAN, EngineStage(st, killed),
         ready' \in 0 .. PanelSize,
         defence,
         \A x \in CompletedStages(st) : \A s \in Sides : <<s, x>> \in submitted
  PROVE  SessionInv'
<1>1. TypeInv'
  BY EngineStageTypes DEF SessionInv
<1>2. engine'.pc = "idle" /\ (Closing' => Closing)
  BY EngineDoneSession DEF EngineStage
<1>3. currentStage' \in {currentStage, st} /\ defence' /\ submitted' = submitted
  BY DEF EngineStage, SetStage, SetRuntime
<1> QED
  BY <1>1, <1>2, <1>3, SessionKept

LEMMA EngineNothingSession ==
  ASSUME SessionInv, EngineNothing
  PROVE  SessionInv'
<1>1. TypeInv'
  BY EngineNothingTypes DEF SessionInv
<1>2. engine'.pc = "idle" /\ (Closing' => Closing)
  BY EngineDoneSession DEF EngineNothing
<1>3. UNCHANGED <<currentStage, status, defence, submitted>>
  BY DEF EngineNothing, caseRow
<1> QED
  BY <1>1, <1>2, <1>3, SessionKept

LEMMA ListingSession ==
  ASSUME SessionInv, ListCases \/ SkipCase \/ AskJudge \/ SendInvite \/ DrawReplacement
  PROVE  SessionInv'
<1>1. TypeInv'
  BY ListingTypes DEF SessionInv
<1>2. engine'.pc = "replacing" => engine.pc = "replacing" \/ defence
  <2>1. engine \in Turns
    BY DEF SessionInv, TypeInv, TypeOK, MemoryTypeOK
  <2>2. CASE ListCases \/ SkipCase
    BY <2>1, <2>2 DEF ListCases, SkipCase, Idle, Turns
  <2>3. CASE AskJudge \/ SendInvite
    BY <2>1, <2>3 DEF AskJudge, SendInvite, Suspend, Turns
  <2>4. CASE DrawReplacement
    BY <2>4 DEF DrawReplacement, SessionInv, SessionHasDefence
  <2> QED BY <2>2, <2>3, <2>4
<1>3. UNCHANGED <<currentStage, status, defence, submitted, sealJob, closers>>
  BY DEF ListCases, SkipCase, AskJudge, SendInvite, DrawReplacement, Suspend, caseRow
<1>4. Closing' => Closing
  BY <1>3 DEF Closing
<1> QED
  BY <1>1, <1>2, <1>3, <1>4, SessionKept

LEMMA ScreeningSession ==
  ASSUME SessionInv, NEW killed \in BOOLEAN,
         \/ ScreeningApproved(killed) \/ ScreeningRejected(killed) \/ ScreeningErrored(killed)
  PROVE  SessionInv'
<1>1. TypeInv'
  BY ScreeningTypes DEF SessionInv
<1>2. engine'.pc = "idle" /\ (Closing' => Closing)
  <2>1. sealJob' = sealJob
    BY DEF ScreeningApproved, ScreeningRejected, ScreeningErrored
  <2>2. CASE killed
    BY <2>1, <2>2, DieSession DEF ScreeningApproved, ScreeningRejected, ScreeningErrored
  <2>3. CASE ~killed
    <3>1. closers' = closers
      BY <2>3 DEF ScreeningApproved, ScreeningRejected, ScreeningErrored
    <3>2. engine'.pc = "idle"
      BY <2>3 DEF ScreeningApproved, ScreeningRejected, ScreeningErrored, Idle
    <3> QED BY <2>1, <3>1, <3>2 DEF Closing
  <2> QED BY <2>2, <2>3
<1>3. /\ currentStage' = currentStage \/ currentStage' \in QuietStages
      /\ status' = status \/ status' \in {"filed", "void"}
  BY DEF ScreeningApproved, ScreeningRejected, ScreeningErrored, NotReached, SetStage, SetRuntime,
         MarkVoid, StageStatus, QuietStages
<1>4. defence' = defence /\ submitted' = submitted
  BY DEF ScreeningApproved, ScreeningRejected, ScreeningErrored
<1> QED
  BY <1>1, <1>2, <1>3, <1>4, SessionKept

LEMMA DecideSession ==
  ASSUME SessionInv, NEW killed \in BOOLEAN,
         \/ DecidePreSession(killed) \/ DecideReadiness(killed)
         \/ DecideSubmissions(killed) \/ DecideVoting(killed)
  PROVE  SessionInv'
<1>0. 0 \in 0 .. PanelSize /\ ready \in 0 .. PanelSize
  BY SessionAssumption DEF SessionInv, TypeInv, TypeOK, RecordTypeOK
<1>1. ASSUME NEW seen, PreSession(seen, killed) PROVE SessionInv'
  <2>1. CompletedStages("jury_readiness") = {}
    BY DEF CompletedStages
  <2> QED
    BY <1>0, <1>1, <2>1, EngineVoidSession, EngineStageSession, EngineNothingSession
    DEF PreSession, DefendedAtStart, EngineReasons, LiveStages
<1>2. ASSUME NEW seen, NEW exhausted, Readiness(seen, exhausted, killed), defence
      PROVE SessionInv'
  <2>1. CompletedStages("opening_addresses") = {}
    BY DEF CompletedStages
  <2> QED
    BY <1>0, <1>2, <2>1, EngineVoidSession, EngineStageSession, EngineNothingSession
    DEF Readiness, EngineReasons, LiveStages, SubmissionStages
<1>3. ASSUME DecideSubmissions(killed) PROVE SessionInv'
  <2>1. NextStage[currentStage] \in LiveStages
    BY <1>3 DEF DecideSubmissions, SubmissionStages, NextStage, LiveStages
  <2>2. defence
    BY <1>3 DEF DecideSubmissions, SessionInv, SessionHasDefence
  <2>3. CASE BothSubmitted(currentStage)
    <3>1. \A x \in CompletedStages(NextStage[currentStage]) :
            \A s \in Sides : <<s, x>> \in submitted
      <4>1. CompletedStages(NextStage[currentStage])
              \subseteq CompletedStages(currentStage) \cup {currentStage}
        <5>1. currentStage \in SubmissionStages
          BY <1>3 DEF DecideSubmissions
        <5>2. CASE currentStage = "opening_addresses"
          BY <5>2 DEF CompletedStages, NextStage
        <5>3. CASE currentStage = "evidence"
          BY <5>3 DEF CompletedStages, NextStage
        <5>4. CASE currentStage = "closing_addresses"
          BY <5>4 DEF CompletedStages, NextStage
        <5>5. CASE currentStage = "summing_up"
          BY <5>5 DEF CompletedStages, NextStage, SubmissionStages
        <5> QED
          BY <5>1, <5>2, <5>3, <5>4, <5>5 DEF SubmissionStages
      <4> QED
        BY <2>3, <4>1 DEF BothSubmitted, SessionInv, PhasesComplete
    <3> QED
      BY <1>0, <1>3, <2>1, <2>2, <2>3, <3>1, EngineStageSession DEF DecideSubmissions
  <2>4. CASE ~BothSubmitted(currentStage)
    BY <1>3, <2>4, EngineVoidSession, EngineNothingSession DEF DecideSubmissions, EngineReasons
  <2> QED BY <2>3, <2>4
<1>4. ASSUME DecideVoting(killed) PROVE SessionInv'
  <2>1. CASE BallotsIn
    <3>1. TypeInv'
      BY <1>4, DecideTypes DEF SessionInv
    <3>2. Heard
      BY <1>4 DEF DecideVoting, SessionInv, SessionHasDefence, PhasesComplete, CompletedStages,
                  Heard
    <3>3. /\ engine'.pc = "idle"
          /\ UNCHANGED <<currentStage, status, defence, submitted>>
      BY <1>4, <2>1 DEF DecideVoting, Idle, caseRow
    <3>4. Heard'
      BY <3>2, <3>3 DEF Heard
    <3> QED
      BY <3>1, <3>3, <3>4, SessionKept
  <2>2. CASE ~BallotsIn
    BY <1>4, <2>2, EngineVoidSession, EngineNothingSession DEF DecideVoting, EngineReasons
  <2> QED BY <2>1, <2>2
<1>5. DecideReadiness(killed) => defence
  BY DEF DecideReadiness, SessionInv, SessionHasDefence
<1> QED
  BY <1>1, <1>2, <1>3, <1>4, <1>5 DEF DecidePreSession, DecideReadiness

LEMMA EngineStepSession == ASSUME SessionInv, EngineStep PROVE SessionInv'
BY ListingSession, ScreeningSession, DecideSession, EngineNothingSession, KilledIsBoolean
DEF EngineStep, DrawFails

\* The pipeline and the receipt: whatever happened since the run began, the case was heard.
LEMMA PipelineSession == ASSUME SessionInv, PipelineStep \/ Minted PROVE SessionInv'
<1>1. TypeInv'
  BY PipelineTypes, OtherTypes DEF SessionInv
<1>2. Closing
  BY DEF PipelineStep, Minted, Verdict, SealHashes, EnqueueSeal, Closing
<1>3. UNCHANGED <<defence, submitted>>
  BY DEF PipelineStep, Minted, Verdict, SealHashes, EnqueueSeal, caseRow
<1>4. Heard'
  BY <1>2, <1>3 DEF SessionInv, Heard
<1>5. \A st \in CompletedStages(currentStage') : \A s \in Sides : <<s, st>> \in submitted'
  BY <1>4 DEF Heard, CompletedStages, SubmissionStages
<1>6. defence' /\ (engine'.pc = "replacing" => engine.pc = "replacing" \/ defence')
  BY <1>4 DEF Heard
<1> QED
  BY <1>1, <1>2, <1>3, <1>4, <1>5, <1>6, SessionKept

\* The remaining steps begin no session and close none.
LEMMA RequestSession ==
  ASSUME SessionInv, PartyStep \/ ReplaceReadyJuror \/ TimePasses \/ Restart
  PROVE  SessionInv'
<1>1. TypeInv'
  BY PartyTypes, OtherTypes DEF SessionInv
<1>2. /\ currentStage' = currentStage \/ currentStage' \in QuietStages
      /\ status' = status \/ status' = "jury_selected"
      /\ sealJob' = sealJob
  BY DEF PartyStep, File, ClaimDefence, JurorReady, BeginBallot, RecordBallot, BeginStageMessage,
         RecordStageMessage, ReplaceReadyJuror, TimePasses, Restart, caseRow, QuietStages
<1>3. (defence => defence') /\ submitted \subseteq submitted'
  BY DEF PartyStep, File, ClaimDefence, JurorReady, BeginBallot, RecordBallot, BeginStageMessage,
         RecordStageMessage, ReplaceReadyJuror, TimePasses, Restart, caseRow
<1>4. (Closing' => Closing) /\ (engine'.pc = "replacing" => engine.pc = "replacing")
  <2>1. CASE Restart
    BY <1>2, <2>1, DieSession DEF Restart
  <2>2. CASE ~Restart
    <3>1. UNCHANGED <<engine, closers>>
      BY <2>2 DEF PartyStep, File, ClaimDefence, JurorReady, BeginBallot, RecordBallot,
                  BeginStageMessage, RecordStageMessage, ReplaceReadyJuror, TimePasses
    <3> QED BY <1>2, <3>1 DEF Closing
  <2> QED BY <2>1, <2>2
<1> QED
  BY <1>1, <1>2, <1>3, <1>4, SessionKept

LEMMA OperatorSession == ASSUME SessionInv, OperatorStep PROVE SessionInv'
<1>1. TypeInv'
  BY OperatorTypes DEF SessionInv
<1>2. ASSUME OperatorClose PROVE SessionInv'
  <2>1. Heard
    BY <1>2 DEF OperatorClose, SessionInv, SessionHasDefence, PhasesComplete, CompletedStages,
                Heard
  <2>2. UNCHANGED <<currentStage, status, defence, submitted, engine>>
    BY <1>2 DEF OperatorClose, caseRow
  <2>3. Heard'
    BY <2>1, <2>2 DEF Heard
  <2> QED BY <1>1, <2>2, <2>3, SessionKept
<1>3. ASSUME BeginSelectJury \/ PersistJury PROVE SessionInv'
  <2>1. /\ UNCHANGED <<currentStage, defence, submitted, engine, closers, sealJob>>
        /\ status' \in {status, "jury_selected"}
    BY <1>3 DEF BeginSelectJury, PersistJury, caseRow
  <2>2. Closing' => Closing
    BY <2>1 DEF Closing
  <2> QED BY <1>1, <2>1, <2>2, SessionKept
<1>4. ASSUME NEW killed \in BOOLEAN, ManualVoid(killed) PROVE SessionInv'
  <2>1. /\ currentStage' = currentStage \/ currentStage' \in QuietStages
        /\ status' = "void" /\ defence' = defence /\ submitted' = submitted
        /\ sealJob' = sealJob
    BY <1>4 DEF ManualVoid, MarkVoid, QuietStages
  <2>2. (Closing' => Closing) /\ (engine'.pc = "replacing" => engine.pc = "replacing")
    BY <1>4, <2>1, DieSession DEF ManualVoid, Closing
  <2> QED BY <1>1, <2>1, <2>2, SessionKept
<1> QED
  BY <1>2, <1>3, <1>4, KilledIsBoolean DEF OperatorStep

LEMMA InitSession == Init => SessionInv
<1> SUFFICES ASSUME Init PROVE SessionInv
  OBVIOUS
<1>1. TypeInv
  BY InitTypes
<1>2. PhasesComplete /\ SessionHasDefence
  BY DEF Init, PhasesComplete, CompletedStages, SessionHasDefence, SubmissionStages
<1>3. ~Closing /\ engine.pc = "idle"
  BY DEF Init, Closing
<1> QED
  BY <1>1, <1>2, <1>3 DEF SessionInv

LEMMA StepSession == SessionInv /\ [Next]_vars => SessionInv'
<1> SUFFICES ASSUME SessionInv, [Next]_vars PROVE SessionInv'
  OBVIOUS
<1>1. CASE Next
  BY <1>1, EngineStepSession, PipelineSession, RequestSession, OperatorSession DEF Next
<1>2. CASE UNCHANGED vars
  <2>1. TypeInv'
    BY <1>2, StepTypes DEF SessionInv
  <2>2. UNCHANGED <<currentStage, status, defence, submitted, engine, closers, sealJob>>
    BY <1>2 DEF vars, caseRow
  <2>3. Closing' => Closing
    BY <2>2 DEF Closing
  <2> QED
    BY <2>1, <2>2, <2>3, SessionKept
<1> QED
  BY <1>1, <1>2

\* processCase and closeCasePipeline never carry a case past a stage that one side has not
\* completed, in any interleaving of ticks, requests, operator endpoints and restarts.
THEOREM StagesAreComplete == Spec => []PhasesComplete
<1>1. SessionInv => PhasesComplete
  BY DEF SessionInv
<1> QED
  BY <1>1, InitSession, StepSession, PTL DEF Spec

\* No session is held and no verdict stored without a defence agent: the fresh read before
\* the session starts is enough, whatever the listed snapshot said.
THEOREM SessionsAreDefended == Spec => []SessionHasDefence
<1>1. SessionInv => SessionHasDefence
  BY DEF SessionInv
<1> QED
  BY <1>1, InitSession, StepSession, PTL DEF Spec

=============================================================================
