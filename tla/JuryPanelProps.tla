--------------------------- MODULE JuryPanelProps ---------------------------
(***************************************************************************)
(* What must hold of JuryPanel.                                            *)
(***************************************************************************)
EXTENDS JuryPanel

\* The jurors that have voted or still may.
Heard == ballots \cup Active

\* Every seat is held or has voted, whatever replacements, late ballots and jurors drawn
\* again do to the rows: a quorum stays within reach.  A death of the process between the
\* writes of replaceJuror costs the panel one seat, never more.
SeatsFilled == Cardinality(Heard) + restarts >= PanelSize

\* Up to the vote no seat is held twice.
SeatsHeldOnce ==
  stage \in {"pre_session", "jury_readiness", "addresses"} => Cardinality(Active) <= PanelSize

\* A juror counts as having voted only with its ballot on file: no seat is passed over by
\* the engine's loop for a ballot that does not exist.
VotedHasBallot == \A j \in Jurors : member[j] = "voted" => j \in ballots

\* Readiness and voting end although no juror ever answers, jurors are drawn again and
\* again, and the panel may have lost a seat.
PanelSettles ==
  stage \in {"jury_readiness", "voting"} ~> stage \in {"addresses", "closed", "void"}

-----------------------------------------------------------------------------
(* Refinement: what CaseSession counts of the jury.                         *)

Confirmed == IF stage = "jury_readiness" THEN Cardinality(Ready) ELSE 0
OnFile    == Cardinality(ballots)

Counts == INSTANCE PanelCount WITH confirmed <- Confirmed, ballots <- OnFile

\* Juror by juror the panel does to the two counts what PanelCount allows and no more: a
\* replacement takes one confirmation away at most, nobody confirms beyond the seats, and a
\* verdict waits for a full panel of ballots; whatever overlaps and wherever the process dies.
ImplementsPanelCount == Counts!Spec

=============================================================================
