----------------------------- MODULE JuryPanel -----------------------------
(***************************************************************************)
(* The jury of one case, juror by juror: table "jury_panel_members" and    *)
(* table "ballots", the engine's two loops that replace silent jurors, and *)
(* the jurors' requests.  CaseSession sees of all this two counts.         *)
(*                                                                         *)
(* Jurors are numbered in the order of their score hashes.  Those in Pool  *)
(* were scored when the jury was first drawn and are in the case's         *)
(* selection proof; the others became eligible later and are drawn with a  *)
(* fresh drand round, which is the one await of a replacement.  Up to that *)
(* await the engine's tick runs alone: no request is handled in between.   *)
(***************************************************************************)
EXTENDS Naturals, FiniteSets

CONSTANTS
  Jurors,       \* agents that may ever be drawn, as numbers in score order
  Pool,         \* those in the selection proof
  Allowed,      \* those on the operator's allowlist, which may be newer than the proof
  PanelSize,    \* seats: 11, or 12 with a judge
  PerSeat,      \* JURY_READINESS_MAX_REPLACEMENTS_PER_SEAT
  MaxRestarts,  \* bound: process deaths in a behaviour
  HardKill      \* whether a death may fall between two writes

ASSUME PanelAssumption ==
  /\ IsFiniteSet(Jurors) /\ Jurors \subseteq Nat
  /\ PanelSize \in Nat \ {0} /\ PerSeat \in Nat \ {0} /\ MaxRestarts \in Nat
  /\ Pool \subseteq Jurors /\ Cardinality(Pool) >= PanelSize
  /\ Allowed \subseteq Jurors
  /\ HardKill \in BOOLEAN

VARIABLES
  stage,     \* case_runtime.current_stage; "addresses" stands for the four submission stages
  late,      \* now >= the hard deadline of the stage
  member,    \* member_status by juror, "none" without a row
  due,       \* where now stands relative to the juror's deadline for this stage
  drafted,   \* rows with a replacement_of_juror_id
  ballots,   \* jurors with a row in "ballots"
  casting,   \* jurors whose ballot passed its checks and waits for its hash
  tick,      \* the engine's tick
  restarts   \* restarts so far (bound)

rows == <<member, due, drafted>>
vars == <<stage, late, rows, ballots, casting, tick, restarts>>

\* The statuses replaceJuror takes for a seat held.
Held == {"pending_ready", "ready", "active_voting", "voted"}

Active == {j \in Jurors : member[j] \in Held}
Ready  == {j \in Jurors : member[j] = "ready"}

\* The engine runs: no request is handled until it awaits or ends.
Alone == tick.pc = "running"

Resting == [pc |-> "idle", todo |-> {}, juror |-> 0, eligible |-> {}, late |-> FALSE]

\* The first juror of a set by score, if any.
First(S) == {j \in S : \A k \in S : j <= k}

\* A possible first draw (selectJuryDeterministically): the best scored of the pool.
Drawn(panel) ==
  /\ Cardinality(panel) = PanelSize
  /\ \A j \in panel, k \in Pool \ panel : j < k

Init ==
  /\ stage = "pre_session" /\ late = FALSE
  /\ \E panel \in SUBSET Pool :
       /\ Drawn(panel)
       /\ member = [j \in Jurors |-> IF j \in panel THEN "pending_ready" ELSE "none"]
  /\ due = [j \in Jurors |-> "unset"]
  /\ drafted = {} /\ ballots = {} /\ casting = {}
  /\ tick = Resting
  /\ restarts = 0

Die ==
  /\ restarts < MaxRestarts
  /\ restarts' = restarts + 1
  /\ tick' = Resting
  /\ casting' = {}

Killed == IF HardKill THEN BOOLEAN ELSE {FALSE}

-----------------------------------------------------------------------------
(* The stages, as far as they concern the jury.                             *)

\* A stage is entered with a new hard deadline.
Enter(st) == stage' = st /\ late' = FALSE

\* processCase at the session's start: setStage, then setJuryReadinessDeadlines makes
\* every seated juror pending again.
StartSession(killed) ==
  /\ tick.pc = "idle" /\ stage = "pre_session"
  /\ Enter("jury_readiness")
  /\ IF killed
     THEN Die /\ UNCHANGED <<member, due>>
     ELSE /\ member' = [j \in Jurors |-> IF member[j] \in {"ready", "active_voting"}
                                         THEN "pending_ready" ELSE member[j]]
          /\ due' = [j \in Jurors |-> IF member[j] \in Held \ {"voted"} THEN "ahead" ELSE due[j]]
          /\ UNCHANGED <<casting, tick, restarts>>
  /\ UNCHANGED <<drafted, ballots>>

\* The last submission stage is complete: setStage, then setVotingDeadlinesForActiveJurors.
OpenVoting(killed) ==
  /\ tick.pc = "idle" /\ stage = "addresses"
  /\ Enter("voting")
  /\ IF killed
     THEN Die /\ UNCHANGED member /\ due' = [j \in Jurors |-> "unset"]
     ELSE /\ member' = [j \in Jurors |-> IF member[j] \in Held \ {"voted"}
                                         THEN "active_voting" ELSE member[j]]
          /\ due' = [j \in Jurors |-> IF member[j] \in Held \ {"voted"} THEN "ahead" ELSE "unset"]
          /\ UNCHANGED <<casting, tick, restarts>>
  /\ UNCHANGED <<drafted, ballots>>

-----------------------------------------------------------------------------
(* The engine's loop over silent jurors.                                    *)

\* Jurors of the given status that are past their deadline, in the list read at the
\* start of the loop.
Silent(status) == {j \in Jurors : member[j] = status /\ due[j] \in {"at", "past"}}

BeginReadiness ==
  /\ tick.pc = "idle" /\ stage = "jury_readiness"
  /\ tick' = [Resting EXCEPT !.pc = "running", !.todo = Silent("pending_ready"), !.late = late]
  /\ UNCHANGED <<stage, late, rows, ballots, casting, restarts>>

\* In voting, enough ballots close the case and the hard deadline voids it first.
BeginVoting ==
  /\ tick.pc = "idle" /\ stage = "voting"
  /\ IF Cardinality(ballots) >= PanelSize
     THEN tick' = [Resting EXCEPT !.pc = "closing"] /\ UNCHANGED <<stage, late>>
     ELSE IF late
     THEN Enter("void") /\ UNCHANGED tick
     ELSE /\ tick' = [Resting EXCEPT !.pc = "running", !.todo = Silent("active_voting")]
          /\ UNCHANGED <<stage, late>>
  /\ UNCHANGED <<rows, ballots, casting, restarts>>

\* What-if: only a juror that is still silent is marked replaced.
SeatOnlySilent(j, c, writes) ==
  /\ writes = 3
  /\ member' = [member EXCEPT
                  ![j] = IF @ \in {"pending_ready", "active_voting"} THEN "replaced" ELSE @,
                  ![c] = IF stage = "jury_readiness" THEN "pending_ready" ELSE "active_voting"]
  /\ due' = [due EXCEPT ![c] = "ahead"]
  /\ drafted' = drafted \cup {c}
  /\ tick' = [tick EXCEPT !.pc = "running", !.todo = @ \ {j}, !.juror = 0, !.eligible = {}]
  /\ UNCHANGED <<casting, restarts>>

\* replaceJuror's three writes, of which a death leaves the first ones: j is marked
\* timed out (unless it answered meanwhile), then replaced whatever its status is, then
\* c gets a row of its own, also over an older one.
Seat(j, c, writes) ==
  /\ member' =
       CASE writes = 1 -> [member EXCEPT ![j] = IF @ \in {"pending_ready", "active_voting"}
                                                THEN "timed_out" ELSE @]
         [] writes = 2 -> [member EXCEPT ![j] = "replaced"]
         [] writes = 3 -> [member EXCEPT ![j] = "replaced",
                             ![c] = IF stage = "jury_readiness" THEN "pending_ready"
                                    ELSE "active_voting"]
  /\ IF writes = 3
     THEN /\ due' = [due EXCEPT ![c] = "ahead"]
          /\ drafted' = drafted \cup {c}
          /\ tick' = [tick EXCEPT !.pc = "running", !.todo = @ \ {j}, !.juror = 0,
                                  !.eligible = {}]
          /\ UNCHANGED <<casting, restarts>>
     ELSE UNCHANGED <<due, drafted>> /\ Die

Writes == IF HardKill THEN 1 .. 3 ELSE {3}

\* What-if: the jurors that hold a seat are not excluded.
FromProofSeatedToo == First(Pool) \cap Allowed

\* pickReplacementFromProof: the best scored juror without a seat, one that was replaced
\* before included; when it is not on the allowlist, no other one of the proof is tried.
FromProof == First(Pool \ Active) \cap Allowed

\* listEligibleJurors: the proof's jurors as well as late registrants.
Eligible == Allowed \ Active

ReplaceFromProof(j, writes) ==
  /\ Alone /\ j \in tick.todo
  /\ \E c \in FromProof : Seat(j, c, writes)
  /\ UNCHANGED <<stage, late, ballots>>

\* No one by the proof: the eligible jurors are read, and drand is awaited.
AwaitDrand(j) ==
  /\ Alone /\ j \in tick.todo
  /\ FromProof = {} /\ Eligible # {}
  /\ tick' = [tick EXCEPT !.pc = "drand", !.juror = j, !.eligible = Eligible]
  /\ UNCHANGED <<stage, late, rows, ballots, casting, restarts>>

\* The draw goes by the list read before the await.
ReplaceFromDrand(writes) ==
  /\ tick.pc = "drand"
  /\ \E c \in tick.eligible : Seat(tick.juror, c, writes)
  /\ UNCHANGED <<stage, late, ballots>>

\* drand does not answer: the exception ends the tick, for this case and for the others.
DrandThrows ==
  /\ tick.pc = "drand"
  /\ tick' = Resting
  /\ UNCHANGED <<stage, late, rows, ballots, casting, restarts>>

\* No candidate at all: the silent juror keeps the seat.
SkipReplacement(j) ==
  /\ Alone /\ j \in tick.todo
  /\ FromProof = {} /\ Eligible = {}
  /\ tick' = [tick EXCEPT !.todo = @ \ {j}]
  /\ UNCHANGED <<stage, late, rows, ballots, casting, restarts>>

\* What-if: only the replacements end the readiness stage.
ReadinessOverByCount == Cardinality(drafted) >= PanelSize * PerSeat

ReadinessOver == Cardinality(drafted) >= PanelSize * PerSeat \/ tick.late

\* After the loop the members are counted again: open, void or wait.
EndReadiness ==
  /\ Alone /\ tick.todo = {} /\ stage = "jury_readiness"
  /\ IF Cardinality(Ready) >= PanelSize THEN Enter("addresses")
     ELSE IF ReadinessOver THEN Enter("void")
     ELSE UNCHANGED <<stage, late>>
  /\ tick' = Resting
  /\ UNCHANGED <<rows, ballots, casting, restarts>>

EndVoting ==
  /\ Alone /\ tick.todo = {} /\ stage = "voting"
  /\ tick' = Resting
  /\ UNCHANGED <<stage, late, rows, ballots, casting, restarts>>

\* closeCasePipeline returns, with a verdict or an inconclusive one.
Close ==
  /\ tick.pc = "closing"
  /\ Enter("closed") \/ Enter("void")
  /\ tick' = Resting
  /\ UNCHANGED <<rows, ballots, casting, restarts>>

-----------------------------------------------------------------------------
(* The jurors' requests.                                                    *)

\* POST /juror-ready, no await.
JurorReady(j) ==
  /\ ~Alone
  /\ stage = "jury_readiness" /\ member[j] = "pending_ready" /\ due[j] # "past"
  /\ member' = [member EXCEPT ![j] = "ready"]
  /\ UNCHANGED <<stage, late, due, drafted, ballots, casting, tick, restarts>>

\* POST /ballots up to its hash.
BeginBallot(j) ==
  /\ ~Alone
  /\ stage = "voting" /\ member[j] \in {"active_voting", "ready"} /\ due[j] # "past"
  /\ j \notin casting
  /\ casting' = casting \cup {j}
  /\ UNCHANGED <<stage, late, rows, ballots, tick, restarts>>

\* What-if: the juror is marked before its ballot is on file.
RecordBallotMarkedFirst(j, killed) ==
  /\ ~Alone /\ j \in casting
  /\ IF j \in ballots
     THEN casting' = casting \ {j} /\ UNCHANGED <<member, ballots, tick, restarts>>
     ELSE /\ member' = [member EXCEPT ![j] = "voted"]
          /\ IF killed THEN Die /\ UNCHANGED ballots
             ELSE /\ ballots' = ballots \cup {j} /\ casting' = casting \ {j}
                  /\ UNCHANGED <<tick, restarts>>
  /\ UNCHANGED <<stage, late, due, drafted>>

\* ... and after it: addBallot, which refuses a second ballot of the same juror, then
\* markJurorVoted, whatever the juror's status is by now.
RecordBallot(j, killed) ==
  /\ ~Alone /\ j \in casting
  /\ IF j \in ballots
     THEN casting' = casting \ {j} /\ UNCHANGED <<member, ballots, tick, restarts>>
     ELSE /\ ballots' = ballots \cup {j}
          /\ IF killed THEN Die /\ UNCHANGED member
             ELSE /\ member' = [member EXCEPT ![j] = "voted"]
                  /\ casting' = casting \ {j}
                  /\ UNCHANGED <<tick, restarts>>
  /\ UNCHANGED <<stage, late, due, drafted>>

-----------------------------------------------------------------------------
(* Time, the submission stages (CaseSession has them) and restarts.         *)

\* A juror's deadline is ahead, then equal to the millisecond, then past.  Those of jurors
\* that answered are not looked at.
DeadlineNears(j) ==
  /\ ~Alone
  /\ \/ stage = "jury_readiness" /\ member[j] = "pending_ready"
     \/ stage = "voting" /\ member[j] = "active_voting"
  /\ due[j] \in {"ahead", "at"}
  /\ due' = [due EXCEPT ![j] = IF @ = "ahead" THEN "at" ELSE "past"]
  /\ UNCHANGED <<stage, late, member, drafted, ballots, casting, tick, restarts>>

\* The tick goes by the clock it read at its start.
HardDeadline ==
  /\ stage \in {"jury_readiness", "voting"} /\ ~late
  /\ late' = TRUE
  /\ UNCHANGED <<stage, rows, ballots, casting, tick, restarts>>

\* A submission is missing.
AddressesFail ==
  /\ tick.pc = "idle" /\ stage = "addresses"
  /\ Enter("void")
  /\ UNCHANGED <<rows, ballots, casting, tick, restarts>>

\* A death during the tick's own run leaves some of its replacements undone.
Restart ==
  /\ Alone => HardKill
  /\ Die
  /\ UNCHANGED <<stage, late, rows, ballots>>

-----------------------------------------------------------------------------
EngineStep ==
  \/ BeginReadiness \/ BeginVoting \/ EndReadiness \/ EndVoting \/ Close
  \/ \E j \in Jurors :
       \/ \E writes \in Writes : ReplaceFromProof(j, writes)
       \/ AwaitDrand(j) \/ SkipReplacement(j)
  \/ \E writes \in Writes : ReplaceFromDrand(writes)
  \/ DrandThrows

StageStep == AddressesFail \/ \E killed \in Killed : StartSession(killed) \/ OpenVoting(killed)

JurorStep ==
  \E j \in Jurors :
    JurorReady(j) \/ BeginBallot(j) \/ \E killed \in Killed : RecordBallot(j, killed)

Next ==
  \/ EngineStep \/ StageStep \/ JurorStep
  \/ (\E j \in Jurors : DeadlineNears(j)) \/ HardDeadline
  \/ Restart

Spec == Init /\ [][Next]_vars

(***************************************************************************)
(* The engine's timer keeps firing, time passes, and drand fails finitely  *)
(* often: one answer is not enough for a tick that has several draws to    *)
(* make.  Nothing is assumed of the jurors.                                *)
(***************************************************************************)
FairSpec ==
  /\ Spec
  /\ WF_vars(EngineStep) /\ WF_vars(HardDeadline)
  /\ <>[][~DrandThrows]_vars

=============================================================================
