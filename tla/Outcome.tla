------------------------------ MODULE Outcome ------------------------------
(***************************************************************************)
(* From ballots to verdicts to the agents' records: the tally and the      *)
(* judge's tie-break (verdict.ts), the verdict or the void that            *)
(* closeCasePipeline writes, and the activity and statistics that          *)
(* reputation.ts keeps for every agent.                                    *)
(*                                                                         *)
(* The pipeline reads the ballots, waits for the judge once per tied claim *)
(* and for the hash, and then writes.  A ballot that passed its checks is  *)
(* inserted after a wait of its own, whatever became of the case.  An      *)
(* agent's statistics are counted again when a case it has a part in is    *)
(* synchronised, and for all agents when the process starts.               *)
(*                                                                         *)
(* Cases start in the voting stage; CaseSession leads up to it.            *)
(***************************************************************************)
EXTENDS Naturals, FiniteSets, Bags

CONSTANTS
  Docket,       \* case -> its prosecution, defence, panel, claims and mode
  PanelSize,    \* ballots the engine waits for
  MaxRestarts   \* bound: process restarts in a behaviour

Cases    == DOMAIN Docket
Claims   == UNION {Docket[c].claims : c \in Cases}
Agents   == UNION {{Docket[c].prosecution, Docket[c].defence} \cup Docket[c].panel : c \in Cases}
Findings == {"proven", "not_proven", "insufficient"}
Outcomes == {"for_prosecution", "for_defence"}

ASSUME OutcomeAssumption ==
  /\ PanelSize \in Nat \ {0} /\ MaxRestarts \in Nat /\ IsFiniteSet(Cases)
  /\ \A c \in Cases :
       /\ Docket[c].mode \in {"judge", "11-juror"}
       /\ Docket[c].claims # {} /\ IsFiniteSet(Docket[c].claims)
       /\ IsFiniteSet(Docket[c].panel)
       /\ Docket[c].prosecution # Docket[c].defence
       /\ {Docket[c].prosecution, Docket[c].defence} \cap Docket[c].panel = {}

VARIABLES
  row,        \* per case: status, void reason, outcome, claim_outcome per claim, and the
              \* jurors and the tie-breaks of verdict_bundle_json
  ballots,    \* per case: juror -> its finding on each claim
  casting,    \* per case: jurors whose ballot waits for its hash
  closing,    \* per case: the run of closeCasePipeline, with the ballots it read
  activity,   \* per case: the bag of its rows in agent_case_activity
  stats,      \* per agent: its row of agent_stats_cache
  restarts    \* restarts so far (bound)

vars == <<row, ballots, casting, closing, activity, stats, restarts>>

-----------------------------------------------------------------------------
(* The verdict.                                                             *)

\* The ballots bs that find f on claim k; a ballot silent on a claim counts as
\* "insufficient", and is not told apart from one that says so.
Votes(bs, k, f) == Cardinality({j \in DOMAIN bs : bs[j][k] = f})

\* What-if: a finding that others equal still leads.
LeadsOrEquals(bs, k, f) == \A g \in Findings : Votes(bs, k, f) >= Votes(bs, k, g)

\* majorityFinding's first two tests.
Leads(bs, k, f) == \A g \in Findings \ {f} : Votes(bs, k, f) > Votes(bs, k, g)

\* Its third: an exact tie that beats "insufficient".
Tied(bs, k) ==
  /\ Votes(bs, k, "proven") = Votes(bs, k, "not_proven")
  /\ Votes(bs, k, "proven") > Votes(bs, k, "insufficient")

\* The finding on a claim; "broken" maps the claims the judge decided to its findings.
Finding(c, bs, broken, k) ==
  IF Tied(bs, k) /\ Docket[c].mode = "judge" /\ k \in DOMAIN broken
    THEN broken[k]
    ELSE CHOOSE f \in Findings :
           IF \E g \in {"proven", "not_proven"} : Leads(bs, k, g)
             THEN f # "insufficient" /\ Leads(bs, k, f)
             ELSE f = "insufficient"

\* deriveOverallOutcome: all claims or no outcome.
Overall(c, bs, broken) ==
  IF \A k \in Docket[c].claims : Finding(c, bs, broken, k) = "proven" THEN "for_prosecution"
  ELSE IF \A k \in Docket[c].claims : Finding(c, bs, broken, k) = "not_proven" THEN "for_defence"
  ELSE "none"

-----------------------------------------------------------------------------
(* The records of the agents.                                               *)

\* The jurors syncCaseReputation credits: those with a ballot on file.
Heard(c, bal) == DOMAIN bal[c]

\* The rows syncCaseReputation logs for a case.
Entries(c, rows, bal) ==
  LET Entry(a, r) == [agent |-> a, role |-> r, outcome |-> rows[c].outcome]
  IN  SetToBag({Entry(Docket[c].prosecution, "prosecution"), Entry(Docket[c].defence, "defence")}
                 \cup {Entry(j, "juror") : j \in Heard(c, bal)})

\* What-if: the case's earlier rows are not cleared.
ReplacedUncleared(old, new) == old (+) new

\* clearAgentCaseActivity before the rows are logged.
Replaced(old, new) == new

\* The rows of agent_case_activity, every copy of an entry being one.
Rows(act) ==
  UNION {UNION {{<<c, e, i>> : i \in 1 .. act[c][e]} : e \in DOMAIN act[c]} : c \in Cases}

\* COUNT(*) of an agent's rows in a role with one of the outcomes os.
RowsOf(a, act, r, os) ==
  Cardinality({x \in Rows(act) : x[2].agent = a /\ x[2].role = r /\ x[2].outcome \in os})

\* rebuildAgentStatsForAgent.  The percentages follow from these; how often a juror's own
\* label "vote", which need not fit its findings, was the winning side is left out.
Recount(a, act) ==
  [ prosecutions    |-> RowsOf(a, act, "prosecution", Outcomes),
    prosecutionWins |-> RowsOf(a, act, "prosecution", {"for_prosecution"}),
    defences        |-> RowsOf(a, act, "defence", Outcomes),
    defenceWins     |-> RowsOf(a, act, "defence", {"for_defence"}),
    juries          |-> RowsOf(a, act, "juror", Outcomes \cup {"void"}) ]

\* rebuildAgentStatsForCase: the agents with a row of the case.
ToRebuild(c, act) == {e.agent : e \in BagToSet(act[c])}

\* syncCaseReputation, once the case's row is written.
Sync(c) ==
  /\ activity' = [activity EXCEPT ![c] = Replaced(@, Entries(c, row', ballots))]
  /\ stats' = [a \in Agents |-> IF a \in ToRebuild(c, activity')
                                  THEN Recount(a, activity') ELSE stats[a]]

\* What-if: the start synchronises the cases with a verdict only.
HistoricalClosed(rows) == {c \in Cases : rows[c].status = "closed"}

\* The cases the process synchronises as it starts.
Historical(rows) == {c \in Cases : rows[c].status \in {"closed", "void"}}

\* The start of the process: what was in memory is gone, every ended case is synchronised
\* and every agent counted again.
Start ==
  /\ restarts < MaxRestarts
  /\ restarts' = restarts + 1
  /\ casting' = [c \in Cases |-> {}]
  /\ closing' = [c \in Cases |-> [pc |-> "idle"]]
  /\ activity' = [c \in Cases |-> IF c \in Historical(row')
                                    THEN Replaced(activity[c], Entries(c, row', ballots))
                                    ELSE activity[c]]
  /\ stats' = [a \in Agents |-> Recount(a, activity')]

-----------------------------------------------------------------------------
Undecided(c) == [k \in Docket[c].claims |-> "undecided"]

Init ==
  /\ row = [c \in Cases |-> [status |-> "voting", reason |-> "none", outcome |-> "none",
                             claims |-> Undecided(c), read |-> {}, broken |-> {}]]
  /\ ballots = [c \in Cases |-> << >>]
  /\ casting = [c \in Cases |-> {}]
  /\ closing = [c \in Cases |-> [pc |-> "idle"]]
  /\ activity = [c \in Cases |-> EmptyBag]
  /\ stats = [a \in Agents |-> Recount(a, activity)]
  /\ restarts = 0

-----------------------------------------------------------------------------
(* Ballots.                                                                 *)

\* The checks of POST /api/cases/:id/ballots, up to the hash.
BeginBallot(c, j) ==
  /\ row[c].status = "voting"
  /\ j \in Docket[c].panel \ (DOMAIN ballots[c] \cup casting[c])
  /\ casting' = [casting EXCEPT ![c] = @ \cup {j}]
  /\ UNCHANGED <<row, ballots, closing, activity, stats, restarts>>

\* addBallot, after the hash and without another look at the case.
RecordBallot(c, j) ==
  /\ j \in casting[c]
  /\ casting' = [casting EXCEPT ![c] = @ \ {j}]
  /\ \E votes \in [Docket[c].claims -> Findings] :
       ballots' = [ballots EXCEPT ![c] = [i \in DOMAIN @ \cup {j} |->
                     IF i = j THEN votes ELSE @[i]]]
  /\ UNCHANGED <<row, closing, activity, stats, restarts>>

-----------------------------------------------------------------------------
(* closeCasePipeline.                                                       *)

EngineWaits == \E c \in Cases : closing[c].pc # "idle" /\ closing[c].by = "engine"

\* What-if: a run does not look at the case's status as it begins.
ClosableAny(c) == closing[c].pc = "idle"

\* No run works on the case, and it is being voted on.
Closable(c) == closing[c].pc = "idle" /\ row[c].status = "voting"

\* The run reads the ballots and finds the ties it asks the judge about.  The engine runs
\* it on a full panel and one case at a time, the operator's close endpoint at any time.
BeginClose(c, by) ==
  /\ Closable(c)
  /\ by = "engine" => Cardinality(DOMAIN ballots[c]) >= PanelSize /\ ~EngineWaits
  /\ closing' = [closing EXCEPT ![c] =
       [pc |-> "judging", by |-> by, read |-> ballots[c], broken |-> << >>,
        ask |-> IF Docket[c].mode = "judge"
                  THEN {k \in Docket[c].claims : Tied(ballots[c], k)} ELSE {}]]
  /\ UNCHANGED <<row, ballots, casting, activity, stats, restarts>>

\* breakTiebreak answers for one claim, or fails within judgeCallTimeoutMs.
JudgeAnswers(c, k) ==
  /\ closing[c].pc = "judging" /\ k \in closing[c].ask
  /\ \E answer \in {"proven", "not_proven", "none"} :
       closing' = [closing EXCEPT
         ![c].ask = @ \ {k},
         ![c].broken = IF answer = "none" THEN @
                       ELSE [i \in DOMAIN @ \cup {k} |-> IF i = k THEN answer ELSE @[i]]]
  /\ UNCHANGED <<row, ballots, casting, activity, stats, restarts>>

\* markCaseVoid's row; the earlier bundle stays.
VoidRow(c, r) ==
  [row[c] EXCEPT !.status = "void", !.reason = r, !.outcome = "void",
                 !.claims = Undecided(c)]

\* storeVerdict's outcome of a claim.
ClaimOutcome ==
  [proven |-> "for_prosecution", not_proven |-> "for_defence", insufficient |-> "undecided"]

\* storeVerdict's row, with the claims' outcomes written for the claims of done only.
VerdictRow(c, done) ==
  LET run     == closing[c]
      found   == [k \in Docket[c].claims |-> Finding(c, run.read, run.broken, k)]
  IN  [row[c] EXCEPT
        !.status  = "closed",
        !.outcome = Overall(c, run.read, run.broken),
        !.read    = DOMAIN run.read,
        !.broken  = DOMAIN run.broken,
        !.claims  = [k \in Docket[c].claims |->
                       IF k \in done THEN ClaimOutcome[found[k]] ELSE @[k]]]

Concluding(c) == closing[c].pc = "judging" /\ closing[c].ask = {}

\* The verdict, or the void of an inconclusive one, after the last await and without
\* another look at the status.
Conclude(c) ==
  /\ Concluding(c)
  /\ row' = [row EXCEPT ![c] =
       IF Overall(c, closing[c].read, closing[c].broken) = "none"
         THEN VoidRow(c, "inconclusive_verdict") ELSE VerdictRow(c, Docket[c].claims)]
  /\ closing' = [closing EXCEPT ![c] = [pc |-> "idle"]]
  /\ Sync(c)
  /\ UNCHANGED <<ballots, casting, restarts>>

\* The process dies between storeVerdict's writes: the case is closed and only the claims
\* of done have their outcome.
DieConcluding(c, done) ==
  /\ Concluding(c) /\ Overall(c, closing[c].read, closing[c].broken) # "none"
  /\ row' = [row EXCEPT ![c] = VerdictRow(c, done)]
  /\ Start
  /\ UNCHANGED ballots

-----------------------------------------------------------------------------
(* Voids and restarts.                                                      *)

\* The engine's void at the hard deadline, with onCaseVoided.
VotingTimeout(c) ==
  /\ row[c].status = "voting" /\ Cardinality(DOMAIN ballots[c]) < PanelSize /\ ~EngineWaits
  /\ row' = [row EXCEPT ![c] = VoidRow(c, "voting_timeout")]
  /\ Sync(c)
  /\ UNCHANGED <<ballots, casting, closing, restarts>>

\* POST /api/internal/cases/:id/void, which synchronises nothing.
ManualVoid(c) ==
  /\ row[c].status = "voting"
  /\ row' = [row EXCEPT ![c] = VoidRow(c, "manual_void")]
  /\ UNCHANGED <<ballots, casting, closing, activity, stats, restarts>>

Restart == UNCHANGED <<row, ballots>> /\ Start

Next ==
  \/ \E c \in Cases :
       \/ \E j \in Docket[c].panel : BeginBallot(c, j) \/ RecordBallot(c, j)
       \/ \E by \in {"engine", "operator"} : BeginClose(c, by)
       \/ \E k \in Docket[c].claims : JudgeAnswers(c, k)
       \/ Conclude(c)
       \/ \E done \in SUBSET Docket[c].claims : DieConcluding(c, done)
       \/ VotingTimeout(c) \/ ManualVoid(c)
  \/ Restart

Spec == Init /\ [][Next]_vars

=============================================================================
