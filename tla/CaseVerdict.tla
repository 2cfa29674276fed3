---------------------------- MODULE CaseVerdict ----------------------------
(***************************************************************************)
(* How a case comes by its verdict.  One run of closeCasePipeline at a     *)
(* time works towards it and does not look again at what became of the     *)
(* case meanwhile: a case that is voided under it may still get a verdict. *)
(* Outcome has the ballots and the judge of that run, CaseSession the      *)
(* session and the seal around it; each implements this specification, so  *)
(* that the verdicts Outcome credits to the agents are the ones            *)
(* CaseSession closes and seals.                                           *)
(***************************************************************************)

CONSTANT Revives  \* whether a voided case may find its way back to the vote

VARIABLES
  outcome,  \* cases.outcome
  running   \* a run that has read the ballots waits for the judge

Verdicts == {"for_prosecution", "for_defence"}

Init == outcome = "none" /\ running = FALSE

\* A run begins on a case without a verdict.
Begin ==
  /\ ~running
  /\ \/ outcome = "none"
     \/ Revives /\ outcome = "void"
  /\ running' = TRUE /\ UNCHANGED outcome

\* It writes what it found, over a void that came first.
Decide == running /\ running' = FALSE /\ outcome' \in Verdicts \cup {"void"}

\* The case is voided by someone else; the run goes on, or the process dies with it.
Void ==
  /\ outcome = "none" /\ outcome' = "void"
  /\ running' \in {running, FALSE}

Die == running /\ running' = FALSE /\ UNCHANGED outcome

Next == Begin \/ Decide \/ Void \/ Die

Spec == Init /\ [][Next]_<<outcome, running>>

=============================================================================
