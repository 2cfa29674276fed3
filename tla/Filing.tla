------------------------------- MODULE Filing -------------------------------
(***************************************************************************)
(* Filing: POST /api/cases/:id/file from its checks to its one transaction, *)
(* with the claims of the defence that race it, the limits it counts, the  *)
(* first draw of the jury and the operator who changes the court's mode.   *)
(*                                                                         *)
(* handlePostCaseFile awaits twice before it commits: the payment's        *)
(* verification on chain, then drand's round.  The jury's candidates and   *)
(* its size are read before drand's await, the status and the payment are  *)
(* checked again in the transaction, the limits are not.                   *)
(*                                                                         *)
(* Cases are fee-paying (neither simulation nor alpha) and every agent has *)
(* offered to serve as juror.  The sessions of filed cases are in          *)
(* CaseSession.                                                            *)
(***************************************************************************)
EXTENDS Naturals, FiniteSets

CONSTANTS
  Cases, Requests, Payments,
  Agents,           \* the juror pool; parties come from it
  Prosecutors,      \* the agents that drafted the cases
  Nobody,           \* no agent, no payment
  JurorPanelSize,   \* rules.jurorPanelSize
  JudgePanelSize,   \* the 12 of a judge-mode panel
  FilingLimit,      \* rateLimits.filingPer24h
  WeeklyLimit,      \* listEligibleJurors' weeklyLimit
  DayCap,           \* softDailyCaseCap, in mode "enforce"
  MaxSwitches       \* bound: changes of the court mode

ASSUME FilingAssumption ==
  /\ IsFiniteSet(Cases) /\ IsFiniteSet(Requests) /\ IsFiniteSet(Agents)
  /\ Prosecutors \subseteq Agents
  /\ Nobody \notin Agents \cup Payments
  /\ JurorPanelSize \in Nat /\ JudgePanelSize \in Nat
  /\ FilingLimit \in Nat \ {0} /\ WeeklyLimit \in Nat \ {0} /\ DayCap \in Nat
  /\ MaxSwitches \in Nat

Modes == {"judge", "11-juror"}
Size(m) == IF m = "judge" THEN JudgePanelSize ELSE JurorPanelSize

VARIABLES
  prosecution, named,     \* per case: the parties of the draft
  status, paid, panel, courtMode, scheduled,
                          \* per case: "draft" or "jury_selected", treasury_tx_sig, the jurors
                          \* who hold a seat, court_mode, whether scheduled_for is set
  defence,                \* per case: defence_agent_id
  clock,                  \* per case: "exclusive", "open" or "closed" for the defence's claim
  used,                   \* used_treasury_txs
  mode, switches,         \* the runtime configuration's court_mode; its changes
  target, tx,             \* per request: the case and the payment it names
  pc,                     \* per request: where it is, or how it ended
  eligible, drawMode,     \* per request: candidates and mode read before drand's await
  taken,                  \* per case: when the defence was taken (history)
  switchedInDraw,         \* per case: the mode changed during a draw of it (history)
  peak                    \* the most filings that ever ran at once (history)

drafts   == <<prosecution, named, target, tx>>
caseRows == <<status, paid, panel, courtMode>>
claims   == <<defence, clock, scheduled>>
court    == <<mode, switches>>
draws    == <<eligible, drawMode>>
history  == <<taken, switchedInDraw, peak>>
vars     == <<drafts, caseRows, claims, used, court, pc, draws, history>>

Filed == {c \in Cases : status[c] # "draft"}
FiledBy(p) == {c \in Filed : prosecution[c] = p}
Seats(a) == {c \in Cases : a \in panel[c]}
InFlight == {r \in Requests : pc[r] \in {"paying", "drawing"}}
DrawnFor(c) == \E r \in Requests : pc[r] = "drawing" /\ target[r] = c

Init ==
  /\ prosecution \in [Cases -> Prosecutors]
  /\ named \in [Cases -> Agents \cup {Nobody}]
  /\ \A c \in Cases : named[c] # prosecution[c]
  /\ status = [c \in Cases |-> "draft"]
  /\ paid = [c \in Cases |-> Nobody] /\ panel = [c \in Cases |-> {}]
  /\ courtMode = [c \in Cases |-> "11-juror"]
  /\ defence = [c \in Cases |-> Nobody] /\ clock = [c \in Cases |-> "exclusive"]
  /\ scheduled = [c \in Cases |-> FALSE]
  /\ used = {}
  /\ mode \in Modes /\ switches = 0
  /\ target \in [Requests -> Cases] /\ tx \in [Requests -> Payments]
  /\ pc = [r \in Requests |-> "idle"]
  /\ eligible = [r \in Requests |-> {}] /\ drawMode = [r \in Requests |-> "11-juror"]
  /\ taken = [c \in Cases |-> "never"] /\ switchedInDraw = [c \in Cases |-> FALSE]
  /\ peak = 0

Goto(r, where) == pc' = [pc EXCEPT ![r] = where]

-----------------------------------------------------------------------------
(* handlePostCaseFile                                                       *)

\* What-if: the limit is tested after the new filing.
BelowFilingLimitOneMore(p) == Cardinality(FiledBy(p)) <= FilingLimit

\* enforceFilingLimit.
BelowFilingLimit(p) == Cardinality(FiledBy(p)) < FilingLimit

\* The checks before the first await: a draft of the caller, below the caller's limit,
\* a payment not used yet.
Submit(r) ==
  /\ pc[r] = "idle"
  /\ status[target[r]] = "draft"
  /\ BelowFilingLimit(prosecution[target[r]])
  /\ tx[r] \notin used
  /\ Goto(r, "paying")
  /\ peak' = IF peak > Cardinality(InFlight) THEN peak ELSE Cardinality(InFlight) + 1
  /\ UNCHANGED <<drafts, caseRows, claims, used, court, draws, taken, switchedInDraw>>

\* What-if: jurors are not limited by the week.
MayServeAlways(a) == TRUE

\* listEligibleJurors' count of the seats an agent holds.
MayServe(a) == Cardinality(Seats(a)) < WeeklyLimit

\* The candidates: neither prosecution nor defence, with a seat to spare this week.
Candidates(c) == {a \in Agents \ {prosecution[c], defence[c]} : MayServe(a)}

\* The payment is finalised: computeInitialJurySelection reads the mode and the candidates
\* and awaits drand.
PaymentVerified(r) ==
  /\ pc[r] = "paying"
  /\ Goto(r, "drawing")
  /\ eligible' = [eligible EXCEPT ![r] = Candidates(target[r])]
  /\ drawMode' = [drawMode EXCEPT ![r] = mode]
  /\ UNCHANGED <<drafts, caseRows, claims, used, court, history>>

\* What-if: the status is not checked again.
StillDraftUnchecked(r) == TRUE

\* The transaction's look at the case.
StillDraft(r) == status[target[r]] = "draft"

\* What-if: neither the payment's second check nor the key of used_treasury_txs is there.
StillUnspentUnchecked(r) == TRUE

\* The transaction's look at used_treasury_txs, and its primary key.
StillUnspent(r) == tx[r] \notin used

\* What-if: the twelfth seat of a judge's panel is forgotten.
PanelModeAlwaysJurors(r) == "11-juror"

\* The mode the panel's size was read from.
PanelMode(r) == drawMode[r]

\* What-if: the transaction ends without setCaseJurySelected.
FiledStatusOnly == "filed"

\* setCaseFiled, then setCaseJurySelected: the status at the end of the transaction.
FiledStatus == "jury_selected"

\* drand's round is there: the day's cap, the transaction and its commit, in one turn.  The
\* deterministic draw is any panel of the candidates; a pool that is too small throws.
Commit(r) ==
  LET c == target[r] IN
  /\ pc[r] = "drawing"
  /\ Cardinality(Filed) < DayCap
  /\ StillDraft(r) /\ StillUnspent(r)
  /\ \E jury \in SUBSET eligible[r] :
       /\ Cardinality(jury) = Size(PanelMode(r))
       /\ panel' = [panel EXCEPT ![c] = jury]
  /\ status' = [status EXCEPT ![c] = FiledStatus]
  /\ paid' = [paid EXCEPT ![c] = tx[r]]
  /\ used' = used \cup {tx[r]}
  /\ courtMode' = [courtMode EXCEPT ![c] = mode]
  /\ scheduled' = [scheduled EXCEPT ![c] = named[c] = Nobody]
  /\ clock' = [clock EXCEPT ![c] = "exclusive"]
  /\ Goto(r, IF named[c] # Nobody /\ defence[c] = Nobody THEN "inviting" ELSE "filed")
  /\ UNCHANGED <<drafts, defence, court, draws, history>>

\* The named defendant's invite was delivered or failed, or the process died meanwhile.
InviteDone(r) ==
  /\ pc[r] = "inviting"
  /\ Goto(r, "filed")
  /\ UNCHANGED <<drafts, caseRows, claims, used, court, draws, history>>

\* Any check, either service, or the transaction refuses, or the process dies before the
\* commit: nothing was written.
Refuse(r) ==
  /\ pc[r] \in {"idle", "paying", "drawing"}
  /\ Goto(r, "refused")
  /\ UNCHANGED <<drafts, caseRows, claims, used, court, draws, history>>

-----------------------------------------------------------------------------
(* Meanwhile                                                                *)

\* What-if: a seated juror may take the defence.
SeatedUnchecked(c, a) == FALSE

\* claimDefenceAssignment's look at jury_panel_members.
Seated(c, a) == a \in panel[c]

\* What-if: only "filed" counts, which the jury's selection overwrites in the same turn.
ClaimSchedulesFiled(c) == status[c] = "filed"

\* A claim schedules the session of a case that is filed.
ClaimSchedules(c) == status[c] = "jury_selected"

\* claimDefenceAssignment, on a draft too.  A named-defendant case that is filed is
\* scheduled by it.
ClaimDefence(c, a) ==
  /\ a # prosecution[c] /\ ~Seated(c, a)
  /\ defence[c] = Nobody
  /\ clock[c] # "closed"
  /\ named[c] \in {Nobody, a} \/ clock[c] # "exclusive"
  /\ defence' = [defence EXCEPT ![c] = a]
  /\ scheduled' = [scheduled EXCEPT ![c] = @ \/ ClaimSchedules(c)]
  /\ taken' = [taken EXCEPT ![c] = IF DrawnFor(c) THEN "in the draw"
                                  ELSE IF status[c] = "draft" THEN "as a draft" ELSE "filed"]
  /\ UNCHANGED <<drafts, caseRows, clock, used, court, pc, draws, switchedInDraw, peak>>

\* The named defendant's exclusive window ends; a filed case's defence window ends.
TimePasses(c) ==
  /\ \/ clock[c] = "exclusive" /\ clock' = [clock EXCEPT ![c] = "open"]
     \/ clock[c] = "open" /\ status[c] # "draft" /\ clock' = [clock EXCEPT ![c] = "closed"]
  /\ UNCHANGED <<drafts, caseRows, defence, scheduled, used, court, pc, draws, history>>

\* The operator sets court_mode.
SwitchMode ==
  /\ switches < MaxSwitches
  /\ mode' \in Modes \ {mode}
  /\ switches' = switches + 1
  /\ switchedInDraw' = [c \in Cases |-> switchedInDraw[c] \/ DrawnFor(c)]
  /\ UNCHANGED <<drafts, caseRows, claims, used, pc, draws, taken, peak>>

Next ==
  \/ \E r \in Requests :
       Submit(r) \/ PaymentVerified(r) \/ Commit(r) \/ InviteDone(r) \/ Refuse(r)
  \/ \E c \in Cases : TimePasses(c) \/ \E a \in Agents : ClaimDefence(c, a)
  \/ SwitchMode

Spec == Init /\ [][Next]_vars

=============================================================================
