------------------------- MODULE CaseSessionProps -------------------------
(***************************************************************************)
(* What must hold of CaseSession.  Each run of MC*.cfg checks some of      *)
(* these under the operator endpoints it switches on.                      *)
(***************************************************************************)
EXTENDS CaseSession

Stages   == LiveStages \cup EndStages
Statuses == OpenStatuses \cup EndStages \cup {"draft"}

\* The rows of "cases" and "case_runtime", with their deadlines.
RowTypeOK ==
  /\ mode \in CourtModes /\ named \in BOOLEAN
  /\ status \in Statuses /\ sessionStage \in Stages
  /\ currentStage \in Stages \cup {"none"}
  /\ voidReason \in EngineReasons \cup {"none", "manual_void"}
  /\ outcome \in Outcomes \cup {"none", "void"}
  /\ sealedDisabled \in BOOLEAN /\ defence \in BOOLEAN /\ scheduled \in BOOLEAN
  /\ screening \in {"none", "pending", "pending_retry", "approved", "rejected", "failed"}
  /\ clock \in [Deadlines -> {"unset", "ahead", "at", "past"}]

\* The rows of the other tables.
RecordTypeOK ==
  /\ submitted \subseteq Sides \X SubmissionStages
  /\ ready \in 0 .. PanelSize /\ ballots \in 0 .. MaxBallots
  /\ sealJob \in {"none", "open", "minted"}

Turns ==
  [ pc : {"idle", "listed", "screening", "inviting", "replacing"},
    defence : BOOLEAN, seen : SUBSET Deadlines, attempts : 0 .. (MaxScreenAttempts - 1) ]

\* What the process keeps in memory, and the bound on restarts.
MemoryTypeOK ==
  /\ engine \in Turns
  /\ closers \in [Closers -> {"idle", "judging", "hashing", "enqueuing"}]
  /\ posting \in [Sides -> SubmissionStages \cup {"none"}]
  /\ casting \in 0 .. MaxBallots
  /\ selecting \in BOOLEAN
  /\ restarts \in 0 .. MaxRestarts

\* Every variable stays in its type.
TypeOK == RowTypeOK /\ RecordTypeOK /\ MemoryTypeOK

-----------------------------------------------------------------------------
(* Safety                                                                   *)

\* The submission stages that are over once a case is at stage st.
CompletedStages(st) ==
  CASE st = "evidence"          -> {"opening_addresses"}
    [] st = "closing_addresses" -> {"opening_addresses", "evidence"}
    [] st = "summing_up"        -> {"opening_addresses", "evidence", "closing_addresses"}
    [] st \in {"voting", "closed", "sealed"} -> SubmissionStages
    [] OTHER                    -> {}

\* A case is past a submission stage only with both sides' submissions for it on file,
\* also when voids, restarts and verdicts land in the middle of the engine's tick.
PhasesComplete ==
  \A st \in CompletedStages(currentStage) : \A s \in Sides : <<s, st>> \in submitted

\* No session is held, and no verdict given, without a defence: the check at session
\* start reads the row again after the invite's await.
SessionHasDefence ==
  ( \/ currentStage \in {"jury_readiness", "voting", "closed", "sealed"} \cup SubmissionStages
    \/ status \in {"voting", "closed", "sealed"} )
  => defence

\* "Void cases are public and not sealed" (README.md): whatever a late verdict or stage
\* change does to a voided case's status, no seal job is created for it.
VoidNeverSealed == voidReason # "none" => sealJob = "none" /\ status # "sealed"

\* A recorded verdict stands: two runs of closeCasePipeline, a late void or a late stage
\* change never replace it, and the case only moves on to sealed.
VerdictFinal ==
  [][ /\ status \in {"closed", "sealed"}
          => outcome' = outcome /\ status' \in {"closed", "sealed"}
      /\ status = "sealed" => status' = "sealed" ]_vars

\* The engine closes a case on a full panel of ballots only.
VerdictOnFullPanel == status \in {"closed", "sealed"} => ballots >= PanelSize

\* cases.status, cases.session_stage and case_runtime.current_stage tell the same story
\* until a kill tears their two writes apart.
SameStory ==
  /\ status \in {"voting", "closed", "sealed", "void"} => currentStage = status
  /\ currentStage \in {"voting", "closed", "sealed", "void"} => status = currentStage
  /\ \/ sessionStage = currentStage
     \/ currentStage \in {"none", "judge_screening"} /\ sessionStage = "pre_session"

\* A tear is repaired by the stage the engine redoes: a case it still lists is at most
\* one stage ahead in "cases" of what "case_runtime" says.
TornByOneStage ==
  status \in OpenStatuses /\ sessionStage # currentStage =>
    \/ currentStage = "judge_screening" /\ sessionStage = "pre_session"
    \/ currentStage = "pre_session" /\ sessionStage = "jury_readiness"
    \/ currentStage = "jury_readiness" /\ sessionStage = "opening_addresses"
    \/ currentStage \in SubmissionStages /\ sessionStage = NextStage[currentStage]

\* The two tables agree without kills, and never drift apart by more than a stage with
\* them, since the engine redoes the stage whose second write is missing.
TablesAgree == (restarts = 0 => SameStory) /\ TornByOneStage

\* "void" is the last stage of INTEGRATION_NOTES.md's order: nothing follows it.
VoidIsFinal == [][status = "void" => status' = "void"]_vars

-----------------------------------------------------------------------------
(* Refinement: without operator endpoints the case follows CaseLifecycle.   *)

casePhase ==
  IF status \in EndStages \cup {"draft"} THEN status ELSE currentStage

Lifecycle == INSTANCE CaseLifecycle WITH phase <- casePhase

\* Every step of engine, pipeline, requests and restarts maps to one lifecycle step.
ImplementsLifecycle == Lifecycle!Spec

\* The stage as the jury sees it.
juryStage ==
  CASE currentStage \in {"none", "judge_screening", "pre_session"} -> "pre_session"
    [] currentStage \in SubmissionStages    -> "addresses"
    [] currentStage \in {"closed", "sealed"} -> "closed"
    [] OTHER                                -> currentStage

\* The jurors that confirmed, while the case waits for them.
Confirmed == IF currentStage = "jury_readiness" THEN ready ELSE 0

Panel == INSTANCE PanelCount WITH stage <- juryStage, confirmed <- Confirmed

\* Without operator endpoints the case does to its counts what PanelCount allows, as the
\* jury of JuryPanel does: neither opens a session nor reaches a verdict on a count that
\* the other one would not have.
ImplementsPanelCount == Panel!Spec

Court ==
  INSTANCE CaseVerdict WITH Revives <- "void" \in OperatorOps,
                            running <- \E c \in Closers : closers[c] = "judging"

\* Unless a jury is selected anew, the case comes by its verdict as the cases of Outcome do;
\* one that the operator voids during an await of the engine may be voted on all the same.
ImplementsCaseVerdict == Court!Spec

Sealing ==
  INSTANCE CaseSeal WITH Torn <- FALSE, job <- sealJob, sealed <- status = "sealed"

\* Unless a jury is selected anew, the case asks for its seal once and is sealed by that
\* job's asset, as in SealJob.
ImplementsCaseSeal == Sealing!Spec

-----------------------------------------------------------------------------
(* Liveness                                                                 *)

Filed == status \in OpenStatuses
Ended == status \in EndStages

\* A named-defendant case whose defence was claimed while it was a draft is filed
\* without a start time, and no later claim can set one.
NeverScheduled == named /\ defence /\ ~scheduled

\* The process died between the write of the last failed screening and the void that
\* follows it: the engine skips such a case from then on.
ScreeningUnvoided ==
  restarts > 0 /\ currentStage = "judge_screening" /\ screening = "failed"

Stranded == NeverScheduled \/ ScreeningUnvoided

\* Every filed case ends in a verdict or a void, whoever falls silent and wherever the
\* process dies; except in the two states nothing leads out of.
FiledCaseEnds == (Filed /\ ~Stranded) ~> (Ended \/ Stranded)

\* "each non-void closed case mints one on-chain receipt NFT" (README.md): a closed case
\* with sealing enabled gets a seal job, unless the process dies, before it is created:
\* nothing looks for a closed case without one.
ClosedGetsSealJob ==
  (status = "closed" /\ ~sealedDisabled) ~> (sealJob # "none" \/ restarts > 0)

=============================================================================
