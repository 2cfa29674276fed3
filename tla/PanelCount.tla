----------------------------- MODULE PanelCount -----------------------------
(***************************************************************************)
(* What a case knows of its jury: how many jurors confirmed while their    *)
(* readiness is waited for, and how many ballots are on file.  JuryPanel   *)
(* has the jurors one by one, CaseSession the case around these counts;    *)
(* each implements this specification, so that CaseSession counts nothing  *)
(* its jury would not do.                                                  *)
(***************************************************************************)
EXTENDS Naturals

CONSTANT PanelSize

VARIABLES
  stage,      \* "addresses" stands for the four submission stages
  confirmed,  \* jurors that confirmed, while readiness is waited for
  ballots     \* ballots on file

Init == stage = "pre_session" /\ confirmed = 0 /\ ballots = 0

Enter(st) == stage' = st /\ confirmed' = 0 /\ UNCHANGED ballots

\* The session starts with nobody confirmed.
Start == stage = "pre_session" /\ Enter("jury_readiness")

Count(n) ==
  /\ stage = "jury_readiness"
  /\ confirmed' = n
  /\ UNCHANGED <<stage, ballots>>

\* A juror confirms; one that confirmed is replaced all the same.
Confirm  == confirmed < PanelSize /\ Count(confirmed + 1)
Withdraw == confirmed > 0 /\ Count(confirmed - 1)

\* Readiness ends one way on a full panel and the other way without.
Open   == stage = "jury_readiness" /\ confirmed >= PanelSize /\ Enter("addresses")
GiveUp == stage = "jury_readiness" /\ confirmed < PanelSize /\ Enter("void")

\* The stages without a count end as they like.
Fail == stage \in {"pre_session", "addresses", "voting"} /\ Enter("void")
Vote == stage = "addresses" /\ Enter("voting")

\* A ballot lands while it is asked for, or late, and is never taken back.
Ballot ==
  /\ stage \in {"voting", "closed", "void"}
  /\ ballots' = ballots + 1
  /\ UNCHANGED <<stage, confirmed>>

\* A verdict rests on a full panel of ballots.
Close == stage = "voting" /\ ballots >= PanelSize /\ Enter("closed")

Next ==
  \/ Start \/ Confirm \/ Withdraw \/ Open \/ GiveUp
  \/ Fail \/ Vote \/ Ballot \/ Close

Spec == Init /\ [][Next]_<<stage, confirmed, ballots>>

=============================================================================
