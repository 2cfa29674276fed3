---------------------------- MODULE OutcomeProps ----------------------------
(***************************************************************************)
(* What must hold of Outcome, and the docket it is checked on: a case in   *)
(* judge mode with two claims and a case before jurors only, each with     *)
(* agents that have another part in the other.                             *)
(***************************************************************************)
EXTENDS Outcome, TLC

CONSTANTS c1, c2, k1, k2, k3, ann, bob, joy, kim

TwoCases ==
  (c1 :> [prosecution |-> ann, defence |-> bob, panel |-> {joy, kim}, claims |-> {k1, k2},
          mode |-> "judge"])
  @@ (c2 :> [prosecution |-> joy, defence |-> ann, panel |-> {bob}, claims |-> {k3},
             mode |-> "11-juror"])

Symmetry == Permutations({k1, k2})

-----------------------------------------------------------------------------
(* Safety                                                                   *)

\* The votes of the verdict's own ballots on a claim.
Counted(c, k, f) == Cardinality({j \in row[c].read : ballots[c][j][k] = f})

\* A verdict is what more of its ballots found than found anything else, on every claim;
\* the judge decided the exact ties of a judge-mode case and nothing else.  The claims'
\* own outcomes say the same, whatever void the verdict overwrote; a death between the
\* writes of a verdict may leave some of them undecided.
VerdictIsMajority ==
  \A c \in Cases : row[c].status = "closed" =>
    LET won  == IF row[c].outcome = "for_prosecution" THEN "proven" ELSE "not_proven"
        lost == IF row[c].outcome = "for_prosecution" THEN "not_proven" ELSE "proven"
    IN  /\ row[c].outcome \in Outcomes
        /\ \A k \in Docket[c].claims :
             /\ Counted(c, k, won) > Counted(c, k, "insufficient")
             /\ \/ Counted(c, k, won) > Counted(c, k, lost)
                \/ /\ Counted(c, k, won) = Counted(c, k, lost)
                   /\ Docket[c].mode = "judge" /\ k \in row[c].broken
             /\ \/ row[c].claims[k] = row[c].outcome
                \/ row[c].claims[k] = "undecided" /\ restarts > 0

\* The cases an agent won, lost or judged according to the cases' own rows.
Wins == [prosecution |-> "for_prosecution", defence |-> "for_defence"]
PartyIn(a, side) == {c \in Cases : Docket[c][side] = a /\ row[c].outcome \in Outcomes}
WonBy(a, side)   == {c \in PartyIn(a, side) : row[c].outcome = Wins[side]}
JurorIn(a)       == {c \in Cases : row[c].status # "voting" /\ a \in DOMAIN ballots[c]}

\* An agent's record as a party is exact in every state: late verdicts over voids, kills
\* and repeated synchronisation neither lose a case nor count one twice.  Its record as a
\* juror may lag (a ballot that landed after the end, a void by the operator), but counts
\* no case that has not ended and none twice.
RecordsFollowCases ==
  \A a \in Agents :
    /\ stats[a].prosecutions    = Cardinality(PartyIn(a, "prosecution"))
    /\ stats[a].prosecutionWins = Cardinality(WonBy(a, "prosecution"))
    /\ stats[a].defences        = Cardinality(PartyIn(a, "defence"))
    /\ stats[a].defenceWins     = Cardinality(WonBy(a, "defence"))
    /\ stats[a].juries         <= Cardinality(JurorIn(a))

-----------------------------------------------------------------------------
(* What a restart does                                                      *)

\* The start of the process makes up for what the juries' counts lagged behind.
RestartSettlesJuries ==
  [][restarts' > restarts =>
       \A a \in Agents : stats'[a].juries = Cardinality(JurorIn(a)')]_vars

-----------------------------------------------------------------------------
(* Refinement: every case comes by its verdict as CaseVerdict has it.       *)

Runs(c) == closing[c].pc # "idle"

VerdictOf(c) ==
  INSTANCE CaseVerdict WITH Revives <- FALSE, outcome <- row[c].outcome, running <- Runs(c)

\* Of each case of the docket, whatever the judge, the ballots, the operator and the deaths
\* do to it and to the others: one run at a time, begun while the case was voted on, writes
\* its verdict, and no void or second run comes after that.
ImplementsCaseVerdict ==
  /\ \A c \in Cases : VerdictOf(c)!Init
  /\ [][\A c \in Cases : [VerdictOf(c)!Next]_<<row[c].outcome, Runs(c)>>]_vars

=============================================================================
