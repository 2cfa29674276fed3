--------------------------- MODULE CaseLifecycle ---------------------------
(***************************************************************************)
(* What the court promises about one case, whatever the engine, the        *)
(* request handlers and the restarts do underneath: the stages are visited *)
(* in the order INTEGRATION_NOTES.md lists them ("Server-authoritative     *)
(* stage order"), none is skipped or revisited, a filed case may be voided *)
(* from any stage before its verdict, a verdict and a void are final, and  *)
(* only a closed case is sealed.  CaseSession implements this              *)
(* specification when no operator endpoint interferes.                     *)
(***************************************************************************)
EXTENDS Naturals

VARIABLE phase

SubmissionStages == {"opening_addresses", "evidence", "closing_addresses", "summing_up"}

LiveStages == {"judge_screening", "pre_session", "jury_readiness", "voting"}
                \cup SubmissionStages

(***************************************************************************)
(* The stage a live stage hands over to (nextSubmissionStage for the four  *)
(* submission stages, the literal stage names in processCase otherwise).   *)
(***************************************************************************)
NextStage ==
  [ judge_screening   |-> "pre_session",
    pre_session       |-> "jury_readiness",
    jury_readiness    |-> "opening_addresses",
    opening_addresses |-> "evidence",
    evidence          |-> "closing_addresses",
    closing_addresses |-> "summing_up",
    summing_up        |-> "voting",
    voting            |-> "closed" ]

Init == phase = "draft"

File    == phase = "draft" /\ phase' \in {"judge_screening", "pre_session"}
Advance == phase \in LiveStages /\ phase' = NextStage[phase]
Void    == phase \in LiveStages /\ phase' = "void"
Seal    == phase = "closed" /\ phase' = "sealed"

Next == File \/ Advance \/ Void \/ Seal

Spec == Init /\ [][Next]_phase

=============================================================================
