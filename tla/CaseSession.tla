---------------------------- MODULE CaseSession ----------------------------
(***************************************************************************)
(* One case of the court, from draft to sealed or void.                    *)
(*                                                                         *)
(* State kept in SQLite: the row of table "cases" and the row of           *)
(* "case_runtime" (two tables, two UPDATEs), the stage submissions, and    *)
(* the number of ready jurors and of ballots (module JuryPanel models the  *)
(* jurors one by one).  State kept in memory, lost in a restart: the       *)
(* engine's tick with the snapshot of the row it listed, the runs of       *)
(* closeCasePipeline, and the requests that passed their checks and wait   *)
(* for a hash.                                                             *)
(*                                                                         *)
(* The server is a single Node process over synchronous SQLite calls, so   *)
(* an action is what runs between two awaits.  "killed" below is a process *)
(* death between two of those synchronous writes.                          *)
(***************************************************************************)
EXTENDS Naturals

CONSTANTS
  PanelSize,          \* jurors whose readiness and ballots a session needs
  MaxBallots,         \* bound: ballots begun; more than the seats, since a juror that is
                      \* replaced while its ballot waits for the hash still votes
  MaxScreenAttempts,  \* JUDGE_SCREENING_MAX_RETRIES
  CourtModes,         \* court modes a case may be filed under
  OperatorOps,        \* system-key endpoints in use: "void", "close", "select_jury"
  MaxRestarts,        \* bound: process restarts in a behaviour
  HardKill            \* whether a restart may fall between two writes

ASSUME SessionAssumption ==
  /\ PanelSize \in Nat \ {0}
  /\ MaxBallots \in Nat /\ MaxBallots >= PanelSize
  /\ MaxScreenAttempts \in Nat \ {0}
  /\ MaxRestarts \in Nat
  /\ CourtModes \subseteq {"judge", "11-juror"}
  /\ OperatorOps \subseteq {"void", "close", "select_jury"}
  /\ HardKill \in BOOLEAN

VARIABLES
  mode, named,        \* court_mode; whether defendant_agent_id is set
  status,             \* cases.status
  sessionStage,       \* cases.session_stage
  currentStage,       \* case_runtime.current_stage
  voidReason,         \* cases.void_reason
  outcome,            \* cases.outcome
  sealedDisabled,     \* cases.sealed_disabled
  screening,          \* cases.judge_screening_status
  defence,            \* cases.defence_agent_id is set
  scheduled,          \* cases.scheduled_for is set
  submitted,          \* rows of "submissions": <<side, stage>>
  ready, ballots,     \* ready jurors; ballots on file
  sealJob,            \* row of "seal_jobs": none, open or minted
  clock,              \* where "now" stands relative to each deadline
  engine,             \* the session engine's tick
  closers,            \* runs of closeCasePipeline by caller
  posting, casting,   \* stage messages and ballots waiting for their hash
  selecting,          \* a select-jury request waiting for drand
  restarts            \* restarts so far (bound)

caseRow  == <<mode, named, status, sessionStage, voidReason, outcome, sealedDisabled,
              screening, defence, scheduled>>
jury     == <<ready, ballots>>
requests == <<posting, casting, selecting>>
vars     == <<caseRow, currentStage, submitted, jury, sealJob, clock, engine, closers,
              requests, restarts>>

Sides            == {"prosecution", "defence"}
SubmissionStages == {"opening_addresses", "evidence", "closing_addresses", "summing_up"}
LiveStages       == {"judge_screening", "pre_session", "jury_readiness", "voting"}
                      \cup SubmissionStages
EndStages        == {"closed", "sealed", "void"}
Outcomes         == {"for_prosecution", "for_defence"}
EngineReasons    == {"judge_screening_rejected", "judge_screening_failed",
                     "missing_defence_assignment", "jury_readiness_timeout",
                     "missing_submission", "voting_timeout", "inconclusive_verdict"}
OpenStatuses     == {"filed", "jury_selected", "voting"}
Deadlines        == {"window", "start", "stage", "hard"}
Closers          == {"engine", "operator"}

\* What-if: nextSubmissionStage leaves the closing addresses out.
NextStageSkipping ==
  [ opening_addresses |-> "evidence",
    evidence          |-> "summing_up",
    closing_addresses |-> "summing_up",
    summing_up        |-> "voting" ]

\* nextSubmissionStage.
NextStage ==
  [ opening_addresses |-> "evidence",
    evidence          |-> "closing_addresses",
    closing_addresses |-> "summing_up",
    summing_up        |-> "voting" ]

\* What-if: "voting" is not given a status of its own.
StageStatusPlain(st) == IF st = "pre_session" THEN "filed" ELSE "jury_selected"

\* The status setStage writes next to a stage.
StageStatus(st) ==
  CASE st = "voting"      -> "voting"
    [] st = "pre_session" -> "filed"
    [] OTHER              -> "jury_selected"

\* The deadlines that "now >= deadline" holds for.
Due == {d \in Deadlines : clock[d] \in {"at", "past"}}

Idle == [pc |-> "idle", defence |-> FALSE, seen |-> {}, attempts |-> engine.attempts]

-----------------------------------------------------------------------------
Init ==
  /\ mode \in CourtModes
  /\ named \in BOOLEAN
  /\ status = "draft" /\ sessionStage = "pre_session" /\ currentStage = "none"
  /\ voidReason = "none" /\ outcome = "none"
  /\ sealedDisabled \in BOOLEAN
  /\ screening = "none"
  /\ defence = FALSE /\ scheduled = FALSE
  /\ submitted = {}
  /\ ready = 0 /\ ballots = 0
  /\ sealJob = "none"
  /\ clock = [d \in Deadlines |-> "unset"]
  /\ engine = [pc |-> "idle", defence |-> FALSE, seen |-> {}, attempts |-> 0]
  /\ closers = [c \in Closers |-> "idle"]
  /\ posting = [s \in Sides |-> "none"]
  /\ casting = 0
  /\ selecting = FALSE
  /\ restarts = 0

-----------------------------------------------------------------------------
(* Writes shared by the engine and the handlers.  Each writes table "cases" *)
(* first and "case_runtime" second; "killed" stops it in between.           *)

\* All in-memory state is lost.
Die ==
  /\ restarts < MaxRestarts
  /\ restarts' = restarts + 1
  /\ engine'   = [pc |-> "idle", defence |-> FALSE, seen |-> {}, attempts |-> 0]
  /\ closers'  = [c \in Closers |-> "idle"]
  /\ posting'  = [s \in Sides |-> "none"]
  /\ casting'  = 0
  /\ selecting' = FALSE

Killed == IF HardKill THEN BOOLEAN ELSE {FALSE}

\* The tick is done with this case, or the process was killed half-way.
EngineDone(killed) ==
  IF killed THEN Die
  ELSE /\ engine' = Idle
       /\ UNCHANGED <<closers, requests, restarts>>

\* The runtime half of setStage.
SetRuntime(st) ==
  /\ currentStage' = st
  /\ clock' = [clock EXCEPT !["stage"] = IF st = "pre_session" THEN "unset" ELSE "ahead",
                            !["hard"]  = IF st = "voting" THEN "ahead" ELSE @]

\* What-if: setStage writes the runtime row first.
SetStageRuntimeFirst(st, killed) ==
  /\ SetRuntime(st)
  /\ IF killed
     THEN UNCHANGED <<sessionStage, status>>
     ELSE sessionStage' = st /\ status' = StageStatus(st)

\* setStage: stage and status of the case, then stage and deadlines at runtime.
SetStage(st, killed) ==
  /\ sessionStage' = st
  /\ status' = StageStatus(st)
  /\ IF killed
     THEN UNCHANGED <<currentStage, clock>>
     ELSE SetRuntime(st)

\* markCaseVoid: the case row (which also disables sealing), then the runtime row.
MarkVoid(reason, killed) ==
  /\ status' = "void" /\ sessionStage' = "void"
  /\ voidReason' = reason /\ outcome' = "void"
  /\ sealedDisabled' = TRUE
  /\ IF killed
     THEN UNCHANGED <<currentStage, clock>>
     ELSE currentStage' = "void" /\ clock' = [clock EXCEPT !["stage"] = "unset"]

-----------------------------------------------------------------------------
(* Before the session: filing and the defence claim.                        *)

\* POST /file, the transaction: setCaseFiled, the court mode, the jury.
File ==
  /\ status = "draft"
  /\ status' = "jury_selected" /\ sessionStage' = "pre_session"
  /\ currentStage' = IF mode = "judge" THEN "judge_screening" ELSE "pre_session"
  /\ screening' = IF mode = "judge" THEN "pending" ELSE screening
  /\ scheduled' = ~named
  /\ clock' = [clock EXCEPT !["window"] = "ahead",
                            !["start"]  = IF named THEN "unset" ELSE "ahead"]
  /\ UNCHANGED <<mode, named, voidReason, outcome, sealedDisabled, defence, submitted,
                 jury, sealJob, engine, closers, requests, restarts>>

\* claimDefenceAssignment: one claim, before the window closes; a filed case that
\* waited for its defendant is scheduled now.
ClaimDefence ==
  /\ status \in OpenStatuses \cup {"draft"}
  /\ ~defence
  /\ clock["window"] \in {"unset", "ahead"}
  /\ defence' = TRUE
  /\ IF ~scheduled /\ status \in {"filed", "jury_selected"}
     THEN scheduled' = TRUE /\ clock' = [clock EXCEPT !["start"] = "ahead"]
     ELSE UNCHANGED <<scheduled, clock>>
  /\ UNCHANGED <<mode, named, status, sessionStage, voidReason, outcome, sealedDisabled,
                 screening, currentStage, submitted, jury, sealJob, engine, closers,
                 requests, restarts>>

-----------------------------------------------------------------------------
(* The session engine.  tickNow lists the open cases once; processCase runs *)
(* for this case later, after the awaits of the cases before it.            *)

ListCases ==
  /\ engine.pc = "idle" /\ closers["engine"] = "idle"
  /\ status \in OpenStatuses
  /\ engine' = [engine EXCEPT !.pc = "listed", !.defence = defence]
  /\ UNCHANGED <<caseRow, currentStage, submitted, jury, sealJob, clock, closers, requests,
                 restarts>>

\* processCase's fresh read of the runtime row: nothing to do in an end stage, nor
\* for a screening that failed.  (The attempt count goes with the screening stage.)
SkipCase ==
  /\ engine.pc = "listed"
  /\ \/ currentStage \in EndStages
     \/ currentStage = "judge_screening" /\ screening = "failed"
  /\ engine' = [Idle EXCEPT !.attempts = IF currentStage = "judge_screening" THEN @ ELSE 0]
  /\ UNCHANGED <<caseRow, currentStage, submitted, jury, sealJob, clock, closers, requests,
                 restarts>>

\* processCase up to its first await: the judge is asked, the invite is sent or a
\* replacement juror is drawn.
Suspend(pc) ==
  /\ engine.pc = "listed"
  /\ engine' = [engine EXCEPT !.pc = pc, !.seen = Due,
                              !.attempts = IF pc = "screening" THEN @ ELSE 0]
  /\ UNCHANGED <<caseRow, currentStage, submitted, jury, sealJob, clock, closers, requests,
                 restarts>>

AskJudge ==
  /\ currentStage = "judge_screening" /\ screening # "failed"
  /\ Suspend("screening")

SendInvite ==
  /\ currentStage = "pre_session" /\ ~engine.defence /\ named
  /\ Suspend("inviting")

DrawReplacement ==
  /\ currentStage = "jury_readiness" /\ ready < PanelSize
  /\ Suspend("replacing")

\* A kill may also fall between the screening result and the write that follows it.
NotReached(killed) ==
  killed /\ UNCHANGED <<status, sessionStage, voidReason, outcome, sealedDisabled,
                        currentStage, clock>>

\* The judge admits the case.  The row is not read again after the await.
ScreeningApproved(killed) ==
  /\ engine.pc = "screening"
  /\ screening' = "approved"
  /\ \/ SetStage("pre_session", killed)
           /\ UNCHANGED <<voidReason, outcome, sealedDisabled>>
     \/ NotReached(killed)
  /\ IF killed THEN Die
     ELSE engine' = [Idle EXCEPT !.attempts = 0] /\ UNCHANGED <<closers, requests, restarts>>
  /\ UNCHANGED <<mode, named, defence, scheduled, submitted, jury, sealJob>>

ScreeningRejected(killed) ==
  /\ engine.pc = "screening"
  /\ screening' = "rejected"
  /\ MarkVoid("judge_screening_rejected", killed) \/ NotReached(killed)
  /\ IF killed THEN Die
     ELSE engine' = [Idle EXCEPT !.attempts = 0] /\ UNCHANGED <<closers, requests, restarts>>
  /\ UNCHANGED <<mode, named, defence, scheduled, submitted, jury, sealJob>>

\* The judge failed or timed out: one attempt more, and void at the last one.
ScreeningErrored(killed) ==
  LET attempts == engine.attempts + 1
      exhausted == attempts >= MaxScreenAttempts
  IN
  /\ engine.pc = "screening"
  /\ screening' = IF exhausted THEN "failed" ELSE "pending_retry"
  /\ IF exhausted
     THEN MarkVoid("judge_screening_failed", killed) \/ NotReached(killed)
     ELSE UNCHANGED <<status, sessionStage, voidReason, outcome, sealedDisabled,
                      currentStage, clock>>
  /\ IF killed THEN Die
     ELSE /\ engine' = [Idle EXCEPT !.attempts = IF exhausted THEN 0 ELSE attempts]
          /\ UNCHANGED <<closers, requests, restarts>>
  /\ UNCHANGED <<mode, named, defence, scheduled, submitted, jury, sealJob>>

-----------------------------------------------------------------------------
(* pre_session and jury_readiness, after their awaits.  "seen" is the set   *)
(* of deadlines due when processCase read the clock, before the await.      *)

EngineVoid(reason, killed) ==
  /\ MarkVoid(reason, killed)
  /\ EngineDone(killed)
  /\ UNCHANGED <<mode, named, screening, defence, scheduled, submitted, jury, sealJob>>

EngineStage(st, killed) ==
  /\ SetStage(st, killed)
  /\ EngineDone(killed)
  /\ UNCHANGED <<mode, named, voidReason, outcome, sealedDisabled, screening, defence,
                 scheduled, submitted, ballots, sealJob>>

EngineNothing ==
  /\ EngineDone(FALSE)
  /\ UNCHANGED <<caseRow, currentStage, submitted, jury, sealJob, clock>>

\* What-if: the session starts without the fresh read of the case.
DefendedAtStartUnchecked == TRUE

\* The fresh read of the case at the session's start.
DefendedAtStart == defence

\* Void for a missing defence goes by the listed snapshot at the window's end and by a
\* fresh read at the session's start; a started session resets every juror to pending.
PreSession(seen, killed) ==
  \/ /\ ~engine.defence /\ "window" \in seen
     /\ EngineVoid("missing_defence_assignment", killed)
  \/ /\ engine.defence \/ "window" \notin seen
     /\ scheduled /\ "start" \in seen
     /\ IF DefendedAtStart
        THEN /\ EngineStage("jury_readiness", killed)
             /\ ready' = IF killed THEN ready ELSE 0
        ELSE EngineVoid("missing_defence_assignment", killed)
  \/ /\ engine.defence \/ "window" \notin seen
     /\ ~scheduled \/ "start" \notin seen
     /\ ~killed /\ EngineNothing

DecidePreSession(killed) ==
  \/ /\ engine.pc = "listed" /\ currentStage = "pre_session"
     /\ engine.defence \/ ~named
     /\ PreSession(Due, killed)
  \/ engine.pc = "inviting" /\ PreSession(engine.seen, killed)

\* What-if: only the replacement count ends the readiness stage.
ReadinessOverByCount(seen, exhausted) == exhausted

\* Replacements used up, or the stage's hard deadline reached.
ReadinessOver(seen, exhausted) == exhausted \/ "stage" \in seen

\* Enough jurors confirmed: the session opens.  Else the case is void when the
\* replacements are used up (counted in JuryPanel) or the stage deadline was due.
Readiness(seen, exhausted, killed) ==
  \/ /\ ready >= PanelSize
     /\ EngineStage("opening_addresses", killed)
     /\ UNCHANGED ready
  \/ /\ ready < PanelSize
     /\ ReadinessOver(seen, exhausted)
     /\ EngineVoid("jury_readiness_timeout", killed)
  \/ /\ ready < PanelSize
     /\ ~ReadinessOver(seen, exhausted)
     /\ ~killed /\ EngineNothing

DecideReadiness(killed) ==
  \/ /\ engine.pc = "listed" /\ currentStage = "jury_readiness"
     /\ Readiness(Due, FALSE, killed)
  \/ /\ engine.pc = "replacing"
     /\ \E exhausted \in BOOLEAN : Readiness(engine.seen, exhausted, killed)

\* replaceJuror resumes after drand: the juror is replaced even if it has confirmed
\* meanwhile (markJurorReplaced has no status guard).
ReplaceReadyJuror ==
  /\ engine.pc = "replacing" /\ ready > 0
  /\ ready' = ready - 1
  /\ UNCHANGED <<caseRow, currentStage, submitted, ballots, sealJob, clock, engine, closers,
                 requests, restarts>>

\* drand does not answer: the exception ends the tick before the members are counted and
\* before the stage's deadline is looked at.
DrawFails == engine.pc = "replacing" /\ EngineNothing

-----------------------------------------------------------------------------
(* Submission stages and voting: no await before the decision.              *)

\* What-if: one side's submission completes a stage.
BothSubmittedOneSided(st) == \E s \in Sides : <<s, st>> \in submitted

BothSubmitted(st) == \A s \in Sides : <<s, st>> \in submitted

DecideSubmissions(killed) ==
  /\ engine.pc = "listed" /\ currentStage \in SubmissionStages
  /\ IF BothSubmitted(currentStage)
     THEN EngineStage(NextStage[currentStage], killed) /\ UNCHANGED ready
     ELSE IF "stage" \in Due
     THEN EngineVoid("missing_submission", killed)
     ELSE ~killed /\ EngineNothing

\* What-if: the last ballot is not waited for.
BallotsInButOne == ballots + 1 >= PanelSize

BallotsIn == ballots >= PanelSize

\* What-if: closeCasePipeline has no set of cases it is closing.
PipelineFreeAlways == TRUE

\* The case is not in closingCases.
PipelineFree == \A c \in Closers : closers[c] = "idle"

\* With enough ballots the engine calls closeCasePipeline and waits for it.  The call
\* returns at once when a run is under way, and throws when the case is not voting.
\* (Replacing slow voters changes only the panel: JuryPanel.)
DecideVoting(killed) ==
  /\ engine.pc = "listed" /\ currentStage = "voting"
  /\ IF BallotsIn
     THEN /\ ~killed
          /\ engine' = [Idle EXCEPT !.attempts = 0]
          /\ closers' = IF PipelineFree /\ status = "voting"
                        THEN [closers EXCEPT !["engine"] = "judging"] ELSE closers
          /\ UNCHANGED <<caseRow, currentStage, submitted, jury, sealJob, clock, requests,
                         restarts>>
     ELSE IF "hard" \in Due
     THEN EngineVoid("voting_timeout", killed)
     ELSE ~killed /\ EngineNothing

-----------------------------------------------------------------------------
(* closeCasePipeline, one step per await.                                   *)

\* POST /close (system key): no check that the ballots are in.
OperatorClose ==
  /\ "close" \in OperatorOps
  /\ PipelineFree
  /\ status = "voting" /\ currentStage = "voting"
  /\ closers' = [closers EXCEPT !["operator"] = "judging"]
  /\ UNCHANGED <<caseRow, currentStage, submitted, jury, sealJob, clock, engine, requests,
                 restarts>>

\* storeVerdict or, for an inconclusive verdict, markCaseVoid.  The status checked when
\* the run began is not checked again.
Verdict(c, result, killed) ==
  /\ closers[c] = "judging"
  /\ IF result = "inconclusive"
     THEN /\ MarkVoid("inconclusive_verdict", killed)
          /\ IF killed THEN Die
             ELSE closers' = [closers EXCEPT ![c] = "idle"]
                    /\ UNCHANGED <<engine, requests, restarts>>
     ELSE /\ status' = "closed" /\ sessionStage' = "closed"
          /\ outcome' = result
          /\ UNCHANGED <<voidReason, sealedDisabled>>
          /\ IF killed
             THEN Die /\ UNCHANGED <<currentStage, clock>>
             ELSE /\ currentStage' = "closed"
                  /\ clock' = [clock EXCEPT !["stage"] = "unset"]
                  /\ closers' = [closers EXCEPT ![c] = "hashing"]
                  /\ UNCHANGED <<engine, requests, restarts>>
  /\ UNCHANGED <<mode, named, screening, defence, scheduled, submitted, jury, sealJob>>

\* What-if: sealed_disabled is not looked at.
SealWantedAlways == TRUE

\* What-if: the flag's sense is reversed.
SealWantedReversed == sealedDisabled

SealWanted == ~sealedDisabled

\* computeCaseSealHashes done: skip the mint for a disabled case, else enqueue.
SealHashes(c) ==
  /\ closers[c] = "hashing"
  /\ closers' = [closers EXCEPT ![c] = IF SealWanted THEN "enqueuing" ELSE "idle"]
  /\ UNCHANGED <<caseRow, currentStage, submitted, jury, sealJob, clock, engine, requests,
                 restarts>>

\* enqueueSealJob: createSealJobIfMissing (SealJob models the job from here on).
EnqueueSeal(c) ==
  /\ closers[c] = "enqueuing"
  /\ sealJob' = IF sealJob = "none" THEN "open" ELSE sealJob
  /\ closers' = [closers EXCEPT ![c] = "idle"]
  /\ UNCHANGED <<caseRow, currentStage, submitted, jury, clock, engine, requests, restarts>>

\* applySealResult with a minted receipt: markCaseSealed, whatever the status is.
Minted ==
  /\ sealJob = "open"
  /\ sealJob' = "minted"
  /\ status' = "sealed" /\ sessionStage' = "sealed" /\ currentStage' = "sealed"
  /\ UNCHANGED <<mode, named, voidReason, outcome, sealedDisabled, screening, defence,
                 scheduled, submitted, jury, clock, engine, closers, requests, restarts>>

-----------------------------------------------------------------------------
(* Requests of the parties and the jurors.                                  *)

\* processStageMessageAction's checks: the stage and its deadline, the side's agent;
\* or the prosecution's opening while the case is a draft.  Not the case's status.
BeginStageMessage(s) ==
  /\ posting[s] = "none"
  /\ \E st \in SubmissionStages :
       /\ \/ status = "draft" /\ s = "prosecution" /\ st = "opening_addresses"
          \/ currentStage = st /\ clock["stage"] # "past"
       /\ s = "defence" => defence
       /\ posting' = [posting EXCEPT ![s] = st]
  /\ UNCHANGED <<caseRow, currentStage, submitted, jury, sealJob, clock, engine, closers,
                 casting, selecting, restarts>>

\* The hash is there: upsertSubmission, with no second look at the case.
RecordStageMessage(s) ==
  /\ posting[s] # "none"
  /\ submitted' = submitted \cup {<<s, posting[s]>>}
  /\ posting' = [posting EXCEPT ![s] = "none"]
  /\ UNCHANGED <<caseRow, currentStage, jury, sealJob, clock, engine, closers, casting,
                 selecting, restarts>>

\* confirmJurorReady changes a pending juror's row only.
SomePendingJuror == ready < PanelSize

\* POST /juror-ready: looks at the runtime stage only; no await up to the write.
JurorReady ==
  /\ currentStage = "jury_readiness"
  /\ SomePendingJuror
  /\ ready' = ready + 1
  /\ UNCHANGED <<caseRow, currentStage, submitted, ballots, sealJob, clock, engine, closers,
                 requests, restarts>>

\* POST /ballots up to its hash: case and stage are voting (the juror's own state and
\* deadline are in JuryPanel) ...
BeginBallot ==
  /\ status = "voting" /\ currentStage = "voting"
  /\ ballots + casting < MaxBallots
  /\ casting' = casting + 1
  /\ UNCHANGED <<caseRow, currentStage, submitted, jury, sealJob, clock, engine, closers,
                 posting, selecting, restarts>>

\* ... and after it: addBallot, with no second look at the case.
RecordBallot ==
  /\ casting > 0
  /\ casting' = casting - 1
  /\ ballots' = ballots + 1
  /\ UNCHANGED <<caseRow, currentStage, submitted, ready, sealJob, clock, engine, closers,
                 posting, selecting, restarts>>

-----------------------------------------------------------------------------
(* Operator endpoints, time and restarts.                                   *)

ManualVoid(killed) ==
  /\ "void" \in OperatorOps
  /\ status \in OpenStatuses
  /\ MarkVoid("manual_void", killed)
  /\ IF killed THEN Die ELSE UNCHANGED <<engine, closers, requests, restarts>>
  /\ UNCHANGED <<mode, named, screening, defence, scheduled, submitted, jury, sealJob>>

BeginSelectJury ==
  /\ "select_jury" \in OperatorOps
  /\ status \in OpenStatuses /\ ~selecting
  /\ selecting' = TRUE
  /\ UNCHANGED <<caseRow, currentStage, submitted, jury, sealJob, clock, engine, closers,
                 posting, casting, restarts>>

\* persistInitialJurySelection: a new panel, pending again, and the case row back at
\* pre_session; the runtime row and the ballots stay.
PersistJury ==
  /\ selecting
  /\ selecting' = FALSE
  /\ status' = "jury_selected" /\ sessionStage' = "pre_session"
  /\ ready' = 0
  /\ UNCHANGED <<mode, named, voidReason, outcome, sealedDisabled, screening, defence,
                 scheduled, currentStage, submitted, ballots, sealJob, clock, engine,
                 closers, posting, casting, restarts>>

\* Deadlines the current stage's code compares "now" with; the others need no clock.
Watched ==
  IF status \notin OpenStatuses THEN {}
  ELSE IF currentStage \in {"judge_screening", "pre_session"} THEN {"window", "start"}
  ELSE IF currentStage = "voting" THEN {"hard"}
  ELSE {"stage"}

\* A deadline is ahead, then equal to the millisecond, then past.
TimePasses ==
  /\ \E d \in Watched :
       /\ clock[d] \in {"ahead", "at"}
       /\ clock' = [clock EXCEPT ![d] = IF @ = "ahead" THEN "at" ELSE "past"]
  /\ UNCHANGED <<caseRow, currentStage, submitted, jury, sealJob, engine, closers, requests,
                 restarts>>

Restart ==
  /\ Die
  /\ UNCHANGED <<caseRow, currentStage, submitted, jury, sealJob, clock>>

-----------------------------------------------------------------------------
EngineStep ==
  \/ ListCases \/ SkipCase \/ AskJudge \/ SendInvite \/ DrawReplacement \/ DrawFails
  \/ \E killed \in Killed :
       \/ ScreeningApproved(killed) \/ ScreeningRejected(killed) \/ ScreeningErrored(killed)
       \/ DecidePreSession(killed) \/ DecideReadiness(killed)
       \/ DecideSubmissions(killed) \/ DecideVoting(killed)

PipelineStep ==
  \E c \in Closers :
    \/ \E result \in Outcomes \cup {"inconclusive"}, killed \in Killed :
         Verdict(c, result, killed)
    \/ SealHashes(c)
    \/ EnqueueSeal(c)

PartyStep ==
  \/ File \/ ClaimDefence \/ JurorReady \/ BeginBallot \/ RecordBallot
  \/ \E s \in Sides : BeginStageMessage(s) \/ RecordStageMessage(s)

OperatorStep ==
  OperatorClose \/ (\E killed \in Killed : ManualVoid(killed)) \/ BeginSelectJury \/ PersistJury

Next ==
  \/ EngineStep \/ ReplaceReadyJuror \/ PipelineStep \/ Minted
  \/ PartyStep \/ OperatorStep \/ TimePasses \/ Restart

Spec == Init /\ [][Next]_vars

(***************************************************************************)
(* The engine's timer keeps firing and each of its awaits returns (judge   *)
(* calls run under withJudgeTimeout, HTTP calls under fetchWithRetry's     *)
(* timeout), so the engine and the pipeline are fair; so is time.  drand   *)
(* fails finitely often.  Nothing is assumed of the parties, the jurors or *)
(* the operator.                                                           *)
(***************************************************************************)
FairSpec ==
  /\ Spec
  /\ WF_vars(EngineStep)
  /\ <>[][~DrawFails]_vars
  /\ WF_vars(PipelineStep)
  /\ WF_vars(TimePasses)

=============================================================================
