--------------------------- MODULE OutcomeProofs ---------------------------
(***************************************************************************)
(* Proofs about Outcome: a verdict is the majority of the ballots it       *)
(* names, an agent's record follows the rows of its cases, and each case   *)
(* implements CaseVerdict, for any docket, panel and number of restarts.   *)
(***************************************************************************)
EXTENDS OutcomeProps, FiniteSetTheorems, TLAPS

(***************************************************************************)
(* Counting rows of a table.                                               *)
(***************************************************************************)

LEMMA RowsAre ==
  ASSUME NEW act, NEW x
  PROVE  x \in Rows(act) <=>
           \E c \in Cases : \E e \in DOMAIN act[c] : \E i \in 1 .. act[c][e] : x = <<c, e, i>>
BY DEF Rows

\* The bag of a set has its elements, once each.
LEMMA OneOfEach ==
  ASSUME NEW S
  PROVE  DOMAIN SetToBag(S) = S /\ \A e \in S : SetToBag(S)[e] = 1
BY DEF SetToBag

\* Every entry of a case's rows is there once and has the outcome out[c].
OneRowEach(act, out) ==
  \A c \in Cases : \A e \in DOMAIN act[c] :
    /\ act[c][e] = 1
    /\ e = [agent |-> e.agent, role |-> e.role, outcome |-> out[c]]

\* The cases with one of the outcomes os in which an agent has a row for a role.
CasesWith(act, out, a, r, os) ==
  {c \in Cases : /\ out[c] \in os
                 /\ [agent |-> a, role |-> r, outcome |-> out[c]] \in DOMAIN act[c]}

\* The outcomes of the rows of the cases.
OutcomeOf == [c \in Cases |-> row[c].outcome]

\* Where every entry is there once, COUNT(*) is the number of cases that have the row.
LEMMA RowsCounted ==
  ASSUME NEW act, NEW out, NEW a, NEW r, NEW os, OneRowEach(act, out)
  PROVE  RowsOf(a, act, r, os) = Cardinality(CasesWith(act, out, a, r, os))
<1> USE DEF OneRowEach, CasesWith
<1> DEFINE row_(c) == <<c, [agent |-> a, role |-> r, outcome |-> out[c]], 1>>
           D == CasesWith(act, out, a, r, os)
           T == {x \in Rows(act) : x[2].agent = a /\ x[2].role = r /\ x[2].outcome \in os}
           f == [c \in D |-> row_(c)]
<1>1. IsFiniteSet(D)
  BY FS_Subset, OutcomeAssumption DEF OutcomeAssumption
<1>2. ASSUME NEW c \in D PROVE row_(c) \in T
  <2>1. 1 \in 1 .. act[c][[agent |-> a, role |-> r, outcome |-> out[c]]]
    OBVIOUS
  <2>2. row_(c) \in Rows(act)
    BY <2>1, RowsAre
  <2> QED
    BY <2>2
<1>3. ASSUME NEW x \in T PROVE \E c \in D : x = row_(c)
  <2>1. PICK c \in Cases : \E e \in DOMAIN act[c] : \E i \in 1 .. act[c][e] : x = <<c, e, i>>
    BY RowsAre
  <2>2. PICK e \in DOMAIN act[c] : \E i \in 1 .. act[c][e] : x = <<c, e, i>>
    BY <2>1
  <2>3. PICK i \in 1 .. act[c][e] : x = <<c, e, i>>
    BY <2>2
  <2>4. i = 1 /\ x[2] = e /\ x = <<c, e, 1>>
    BY <2>3
  <2>5. e = [agent |-> a, role |-> r, outcome |-> out[c]] /\ out[c] \in os
    BY <2>4
  <2> QED
    BY <2>4, <2>5
<1>4. f \in Bijection(D, T)
  <2>1. f \in [D -> T]
    BY <1>2
  <2>2. \A c, d \in D : f[c] = f[d] => c = d
    OBVIOUS
  <2>3. \A x \in T : \E c \in D : f[c] = x
    BY <1>3
  <2> QED
    BY <2>1, <2>2, <2>3 DEF Bijection, Injection, Surjection, IsInjective
<1>5. Cardinality(T) = Cardinality(D)
  BY <1>1, <1>4, FS_Bijection DEF ExistsBijection
<1> QED
  BY <1>5 DEF RowsOf

(***************************************************************************)
(* Types.                                                                  *)
(***************************************************************************)

Roles   == {"prosecution", "defence", "juror"}
Reasons == {"none", "inconclusive_verdict", "voting_timeout", "manual_void"}

BallotsOf(c) ==
  UNION {[J -> [Docket[c].claims -> Findings]] : J \in SUBSET Docket[c].panel}
BrokenOf(c) ==
  UNION {[K -> {"proven", "not_proven"}] : K \in SUBSET Docket[c].claims}

RowsOfCase(c) ==
  [ status : {"voting", "void", "closed"}, reason : Reasons,
    outcome : Outcomes \cup {"none", "void"},
    claims : [Docket[c].claims -> Outcomes \cup {"undecided"}],
    read : SUBSET Docket[c].panel, broken : SUBSET Docket[c].claims ]

RunsOf(c) ==
  [pc : {"idle"}] \cup
  [ pc : {"judging"}, by : {"engine", "operator"}, read : BallotsOf(c), broken : BrokenOf(c),
    ask : SUBSET Docket[c].claims ]

\* A function on the cases.
OnCases(f) == f = [c \in Cases |-> f[c]]

TypeInv ==
  /\ OnCases(row)     /\ \A c \in Cases : row[c] \in RowsOfCase(c)
  /\ OnCases(ballots) /\ \A c \in Cases : ballots[c] \in BallotsOf(c)
  /\ OnCases(casting) /\ \A c \in Cases : casting[c] \in SUBSET Docket[c].panel
  /\ OnCases(closing) /\ \A c \in Cases : closing[c] \in RunsOf(c)
  /\ OnCases(activity)
  /\ restarts \in Nat

(***************************************************************************)
(* The invariant.                                                          *)
(***************************************************************************)

\* A ballot is on file or on its way, and what a run read is still on file.
ReadInv(c) ==
  /\ casting[c] \cap DOMAIN ballots[c] = {}
  /\ closing[c].pc = "judging" =>
       /\ row[c].status \in {"voting", "void"}
       /\ DOMAIN closing[c].read \subseteq DOMAIN ballots[c]
       /\ \A j \in DOMAIN closing[c].read : closing[c].read[j] = ballots[c][j]

\* What a row says of its outcome before and after the end.
RowInv(c) ==
  /\ row[c].status = "voting" => row[c].outcome = "none"
  /\ row[c].status = "void"   => row[c].outcome = "void"
  /\ row[c].status # "closed" => row[c].claims = Undecided(c)

\* A verdict rests on ballots on file.
MajorityOf(c) ==
  LET won  == IF row[c].outcome = "for_prosecution" THEN "proven" ELSE "not_proven"
      lost == IF row[c].outcome = "for_prosecution" THEN "not_proven" ELSE "proven"
  IN  /\ row[c].outcome \in Outcomes
      /\ \A k \in Docket[c].claims :
           /\ Counted(c, k, won) > Counted(c, k, "insufficient")
           /\ \/ Counted(c, k, won) > Counted(c, k, lost)
              \/ /\ Counted(c, k, won) = Counted(c, k, lost)
                 /\ Docket[c].mode = "judge" /\ k \in row[c].broken
           /\ \/ row[c].claims[k] = row[c].outcome
              \/ row[c].claims[k] = "undecided" /\ restarts > 0

VerdictInv(c) ==
  row[c].status = "closed" => row[c].read \subseteq DOMAIN ballots[c] /\ MajorityOf(c)

CaseInv == \A c \in Cases : ReadInv(c) /\ RowInv(c) /\ VerdictInv(c)

\* The rows a case has in the log, for the jurors H and the outcome o.
Logged(c, o, H) ==
  LET Entry(a, r) == [agent |-> a, role |-> r, outcome |-> o]
  IN  {Entry(Docket[c].prosecution, "prosecution"), Entry(Docket[c].defence, "defence")}
        \cup {Entry(j, "juror") : j \in H}

\* A case is in the log with the outcome its row has, or, before a verdict, not at all.
LogInv(c) ==
  \/ activity[c] = EmptyBag /\ row[c].outcome \notin Outcomes
  \/ /\ row[c].status # "voting"
     /\ \E H \in SUBSET DOMAIN ballots[c] : activity[c] = SetToBag(Logged(c, row[c].outcome, H))

RecordInv ==
  /\ \A c \in Cases : LogInv(c)
  /\ stats = [a \in Agents |-> Recount(a, activity)]

(***************************************************************************)
(* The tally.                                                              *)
(***************************************************************************)

\* A claim's finding is the judge's on a tie of a judge-mode case, or what leads.
LEMMA FindingIs ==
  ASSUME NEW c, NEW bs, NEW broken, NEW k, NEW f \in {"proven", "not_proven"},
         Finding(c, bs, broken, k) = f
  PROVE  \/ Tied(bs, k) /\ Docket[c].mode = "judge" /\ k \in DOMAIN broken
         \/ Leads(bs, k, f)
<1> DEFINE Chosen(g) == IF \E h \in {"proven", "not_proven"} : Leads(bs, k, h)
                          THEN g # "insufficient" /\ Leads(bs, k, g) ELSE g = "insufficient"
<1>1. \E g \in Findings : Chosen(g)
  BY DEF Findings
<1>2. Chosen(CHOOSE g \in Findings : Chosen(g))
  <2> HIDE DEF Chosen
  <2> QED
    BY <1>1
<1> QED
  BY <1>2 DEF Finding

LEMMA OverallIs ==
  ASSUME NEW c \in Cases, NEW bs, NEW broken
  PROVE  /\ Overall(c, bs, broken) \in Outcomes \cup {"none"}
         /\ Overall(c, bs, broken) = "for_prosecution"
              => \A k \in Docket[c].claims : Finding(c, bs, broken, k) = "proven"
         /\ Overall(c, bs, broken) = "for_defence"
              => \A k \in Docket[c].claims : Finding(c, bs, broken, k) = "not_proven"
BY DEF Overall, Outcomes

\* What follows for the votes.
LEMMA FindingWins ==
  ASSUME NEW c, NEW bs, NEW broken, NEW k,
         NEW won \in {"proven", "not_proven"}, NEW lost \in {"proven", "not_proven"} \ {won},
         Finding(c, bs, broken, k) = won
  PROVE  /\ Votes(bs, k, won) > Votes(bs, k, "insufficient")
         /\ \/ Votes(bs, k, won) > Votes(bs, k, lost)
            \/ /\ Votes(bs, k, won) = Votes(bs, k, lost)
               /\ Docket[c].mode = "judge" /\ k \in DOMAIN broken
<1>1. CASE Leads(bs, k, won)
  BY <1>1 DEF Leads, Findings
<1>2. CASE Tied(bs, k) /\ Docket[c].mode = "judge" /\ k \in DOMAIN broken
  BY <1>2 DEF Tied
<1> QED
  BY <1>1, <1>2, FindingIs

(***************************************************************************)
(* Types are kept.                                                         *)
(***************************************************************************)

LEMMA InitTypes == Init => TypeInv
<1> SUFFICES ASSUME Init PROVE TypeInv
  OBVIOUS
<1>1. ASSUME NEW c \in Cases
      PROVE  /\ row[c] \in RowsOfCase(c) /\ ballots[c] \in BallotsOf(c)
             /\ casting[c] \in SUBSET Docket[c].panel /\ closing[c] \in RunsOf(c)
  <2>1. row[c] \in RowsOfCase(c)
    BY DEF Init, RowsOfCase, Reasons, Undecided
  <2>2. << >> \in [{} -> [Docket[c].claims -> Findings]]
    OBVIOUS
  <2>3. ballots[c] \in BallotsOf(c)
    BY <2>2 DEF Init, BallotsOf
  <2> QED
    BY <2>1, <2>3 DEF Init, RunsOf
<1> QED
  BY <1>1 DEF Init, TypeInv, OnCases

LEMMA BallotTypes ==
  ASSUME TypeInv, NEW c \in Cases, NEW j \in Docket[c].panel,
         BeginBallot(c, j) \/ RecordBallot(c, j)
  PROVE  TypeInv'
<1>1. CASE BeginBallot(c, j)
  BY <1>1 DEF BeginBallot, TypeInv, OnCases
<1>2. CASE RecordBallot(c, j)
  <2>1. PICK votes \in [Docket[c].claims -> Findings] :
          ballots' = [ballots EXCEPT ![c] = [i \in DOMAIN @ \cup {j} |->
                        IF i = j THEN votes ELSE @[i]]]
    BY <1>2 DEF RecordBallot
  <2>2. PICK J \in SUBSET Docket[c].panel : ballots[c] \in [J -> [Docket[c].claims -> Findings]]
    BY DEF TypeInv, BallotsOf
  <2>3. ballots'[c] \in [J \cup {j} -> [Docket[c].claims -> Findings]]
    BY <2>1, <2>2 DEF TypeInv, OnCases
  <2>4. ballots'[c] \in BallotsOf(c)
    BY <2>3 DEF BallotsOf
  <2> QED
    BY <1>2, <2>1, <2>4 DEF RecordBallot, TypeInv, OnCases
<1> QED
  BY <1>1, <1>2

LEMMA CloseTypes ==
  ASSUME TypeInv, NEW c \in Cases,
         \/ \E by \in {"engine", "operator"} : BeginClose(c, by)
         \/ \E k \in Docket[c].claims : JudgeAnswers(c, k)
  PROVE  TypeInv'
<1>1. ASSUME NEW by \in {"engine", "operator"}, BeginClose(c, by)
      PROVE  TypeInv'
  <2>1. << >> \in [{} -> {"proven", "not_proven"}]
    OBVIOUS
  <2>2. << >> \in BrokenOf(c)
    BY <2>1 DEF BrokenOf
  <2>3. closing'[c] \in RunsOf(c)
    BY <1>1, <2>2 DEF BeginClose, TypeInv, OnCases, RunsOf
  <2> QED
    BY <1>1, <2>3 DEF BeginClose, TypeInv, OnCases
<1>2. ASSUME NEW k \in Docket[c].claims, JudgeAnswers(c, k)
      PROVE  TypeInv'
  <2>1. PICK answer \in {"proven", "not_proven", "none"} :
          closing' = [closing EXCEPT
            ![c].ask = @ \ {k},
            ![c].broken = IF answer = "none" THEN @
                          ELSE [i \in DOMAIN @ \cup {k} |-> IF i = k THEN answer ELSE @[i]]]
    BY <1>2 DEF JudgeAnswers
  <2>2. closing[c] \in [ pc : {"judging"}, by : {"engine", "operator"}, read : BallotsOf(c),
                         broken : BrokenOf(c), ask : SUBSET Docket[c].claims ]
    BY <1>2 DEF JudgeAnswers, TypeInv, RunsOf
  <2> DEFINE b == closing[c].broken
             b2 == IF answer = "none" THEN b
                   ELSE [i \in DOMAIN b \cup {k} |-> IF i = k THEN answer ELSE b[i]]
  <2>3. b2 \in BrokenOf(c)
    <3>1. PICK K \in SUBSET Docket[c].claims : b \in [K -> {"proven", "not_proven"}]
      BY <2>2 DEF BrokenOf
    <3>2. CASE answer = "none"
      BY <2>2, <3>2
    <3>3. CASE answer # "none"
      <4>1. b2 \in [K \cup {k} -> {"proven", "not_proven"}]
        BY <3>1, <3>3
      <4> QED
        BY <4>1 DEF BrokenOf
    <3> QED
      BY <3>2, <3>3
  <2>4. closing'[c] = [closing[c] EXCEPT !.ask = @ \ {k}, !.broken = b2]
    BY <2>1, <2>2 DEF TypeInv, OnCases
  <2>5. closing'[c] \in RunsOf(c)
    BY <2>2, <2>3, <2>4 DEF RunsOf
  <2> QED
    BY <1>2, <2>1, <2>5 DEF JudgeAnswers, TypeInv, OnCases
<1> QED
  BY <1>1, <1>2

\* The two rows that end a case.
LEMMA VoidRowType ==
  ASSUME TypeInv, NEW c \in Cases, NEW r \in Reasons
  PROVE  /\ VoidRow(c, r) \in RowsOfCase(c)
         /\ VoidRow(c, r).status = "void" /\ VoidRow(c, r).outcome = "void"
         /\ VoidRow(c, r).claims = Undecided(c)
<1>1. row[c] \in RowsOfCase(c)
  BY DEF TypeInv
<1> QED
  BY <1>1 DEF VoidRow, RowsOfCase, Undecided

LEMMA VerdictRowType ==
  ASSUME TypeInv, NEW c \in Cases, NEW done \in SUBSET Docket[c].claims, Concluding(c),
         Overall(c, closing[c].read, closing[c].broken) # "none"
  PROVE  /\ VerdictRow(c, done) \in RowsOfCase(c)
         /\ VerdictRow(c, done).status = "closed"
         /\ VerdictRow(c, done).outcome = Overall(c, closing[c].read, closing[c].broken)
         /\ VerdictRow(c, done).read = DOMAIN closing[c].read
         /\ VerdictRow(c, done).broken = DOMAIN closing[c].broken
         /\ \A k \in Docket[c].claims :
              VerdictRow(c, done).claims[k] =
                IF k \in done THEN Overall(c, closing[c].read, closing[c].broken)
                ELSE row[c].claims[k]
<1> DEFINE bs == closing[c].read
           br == closing[c].broken
           o  == Overall(c, bs, br)
           claims == [k \in Docket[c].claims |->
                        IF k \in done THEN ClaimOutcome[Finding(c, bs, br, k)]
                        ELSE row[c].claims[k]]
<1>1. row[c] \in RowsOfCase(c)
  BY DEF TypeInv
<1>2. bs \in BallotsOf(c) /\ br \in BrokenOf(c)
  BY DEF TypeInv, Concluding, RunsOf
<1>3. DOMAIN bs \in SUBSET Docket[c].panel /\ DOMAIN br \in SUBSET Docket[c].claims
  BY <1>2 DEF BallotsOf, BrokenOf
<1>4. o \in Outcomes
  BY OverallIs
<1>5. \A k \in Docket[c].claims : ClaimOutcome[Finding(c, bs, br, k)] = o
  BY <1>4, OverallIs DEF Outcomes, ClaimOutcome
<1>6. VerdictRow(c, done) = [row[c] EXCEPT !.status = "closed", !.outcome = o, !.read = DOMAIN bs,
                                           !.broken = DOMAIN br, !.claims = claims]
  BY DEF VerdictRow
<1>7. claims \in [Docket[c].claims -> Outcomes \cup {"undecided"}]
  BY <1>1, <1>4, <1>5 DEF RowsOfCase
<1> HIDE DEF claims, o
<1>8. /\ VerdictRow(c, done) \in RowsOfCase(c)
      /\ VerdictRow(c, done).status = "closed" /\ VerdictRow(c, done).outcome = o
      /\ VerdictRow(c, done).read = DOMAIN bs /\ VerdictRow(c, done).broken = DOMAIN br
      /\ VerdictRow(c, done).claims = claims
  BY <1>1, <1>3, <1>4, <1>6, <1>7 DEF RowsOfCase
<1> QED
  BY <1>5, <1>8 DEF claims, o

\* The start of the process, next to a row of its type.
LEMMA StartTypes ==
  ASSUME TypeInv, Start, OnCases(row)', \A c \in Cases : row'[c] \in RowsOfCase(c),
         ballots' = ballots
  PROVE  TypeInv'
<1>1. OnCases(casting)' /\ OnCases(closing)' /\ OnCases(activity)'
  BY DEF Start, OnCases
<1>2. \A c \in Cases : closing'[c] \in RunsOf(c) /\ casting'[c] \in SUBSET Docket[c].panel
  BY DEF Start, RunsOf
<1>3. restarts' \in Nat
  BY DEF Start, TypeInv
<1> QED
  BY <1>1, <1>2, <1>3 DEF TypeInv, OnCases

LEMMA EndTypes ==
  ASSUME TypeInv, NEW c \in Cases,
         \/ Conclude(c) \/ VotingTimeout(c) \/ ManualVoid(c)
         \/ \E done \in SUBSET Docket[c].claims : DieConcluding(c, done)
  PROVE  TypeInv'
<1>1. ASSUME NEW r \in RowsOfCase(c), row' = [row EXCEPT ![c] = r]
      PROVE  OnCases(row)' /\ \A d \in Cases : row'[d] \in RowsOfCase(d)
  BY <1>1 DEF TypeInv, OnCases
<1>2. ASSUME Sync(c) PROVE OnCases(activity)'
  BY <1>2 DEF Sync, TypeInv, OnCases
<1>3. CASE Conclude(c)
  <2>1. closing' = [closing EXCEPT ![c] = [pc |-> "idle"]]
    BY <1>3 DEF Conclude
  <2>2. OnCases(closing)' /\ \A d \in Cases : closing'[d] \in RunsOf(d)
    BY <2>1 DEF TypeInv, OnCases, RunsOf
  <2>3. PICK r \in RowsOfCase(c) : row' = [row EXCEPT ![c] = r]
    BY <1>3, VoidRowType, VerdictRowType DEF Conclude, Reasons
  <2> QED
    BY <1>1, <1>2, <1>3, <2>2, <2>3 DEF Conclude, TypeInv, OnCases
<1>4. CASE VotingTimeout(c) \/ ManualVoid(c)
  <2>1. PICK r \in RowsOfCase(c) : row' = [row EXCEPT ![c] = r]
    BY <1>4, VoidRowType DEF VotingTimeout, ManualVoid, Reasons
  <2>2. OnCases(activity)'
    BY <1>2, <1>4 DEF VotingTimeout, ManualVoid, TypeInv, OnCases
  <2> QED
    BY <1>1, <1>4, <2>1, <2>2 DEF VotingTimeout, ManualVoid, TypeInv, OnCases
<1>5. ASSUME NEW done \in SUBSET Docket[c].claims, DieConcluding(c, done) PROVE TypeInv'
  <2>1. Concluding(c) /\ Start /\ ballots' = ballots /\ row' = [row EXCEPT ![c] = VerdictRow(c, done)]
    BY <1>5 DEF DieConcluding
  <2>2. VerdictRow(c, done) \in RowsOfCase(c)
    BY <1>5, VerdictRowType DEF DieConcluding
  <2> QED
    BY <1>1, <2>1, <2>2, StartTypes
<1> QED
  BY <1>3, <1>4, <1>5

LEMMA StepTypes == TypeInv /\ [Next]_vars => TypeInv'
<1> SUFFICES ASSUME TypeInv, [Next]_vars PROVE TypeInv'
  OBVIOUS
<1>1. CASE Restart
  BY <1>1, StartTypes DEF Restart, TypeInv, OnCases
<1>2. CASE UNCHANGED vars
  BY <1>2 DEF vars, TypeInv, OnCases
<1> QED
  BY <1>1, <1>2, BallotTypes, CloseTypes, EndTypes DEF Next

\* Every variable of Outcome but the statistics stays in its type; what the statistics are
\* is said exactly below.
THEOREM OutcomeTypes == Spec => []TypeInv
  BY InitTypes, StepTypes, PTL DEF Spec

(***************************************************************************)
(* Verdicts: what a run read stays on file, so that a verdict can be       *)
(* counted again.                                                          *)
(***************************************************************************)

\* A case whose row a step leaves alone, and whose ballots it only adds to.
LEMMA VerdictKept ==
  ASSUME TypeInv, NEW c \in Cases, RowInv(c), VerdictInv(c),
         row'[c] = row[c], restarts' \in Nat, restarts' >= restarts,
         DOMAIN ballots[c] \subseteq DOMAIN ballots'[c],
         \A j \in DOMAIN ballots[c] : ballots'[c][j] = ballots[c][j]
  PROVE  (RowInv(c) /\ VerdictInv(c))'
<1>1. RowInv(c)'
  BY DEF RowInv, Undecided
<1>2. CASE row[c].status = "closed"
  <2>1. row[c].read \subseteq DOMAIN ballots[c] /\ MajorityOf(c)
    BY <1>2 DEF VerdictInv
  <2>2. ASSUME NEW k, NEW f PROVE Counted(c, k, f)' = Counted(c, k, f)
    <3>1. {j \in row[c].read : ballots'[c][j][k] = f} = {j \in row[c].read : ballots[c][j][k] = f}
      BY <2>1
    <3> QED
      BY <3>1 DEF Counted
  <2>3. restarts > 0 => restarts' > 0
    BY DEF TypeInv
  <2>4. MajorityOf(c)'
    BY <2>1, <2>2, <2>3 DEF MajorityOf
  <2> QED
    BY <1>1, <2>1, <2>4 DEF VerdictInv
<1> QED
  BY <1>1, <1>2 DEF VerdictInv

\* The same of a case whose run a step leaves alone, or ends.
LEMMA CaseKept ==
  ASSUME TypeInv, NEW c \in Cases, ReadInv(c), RowInv(c), VerdictInv(c),
         row'[c] = row[c], restarts' \in Nat, restarts' >= restarts,
         DOMAIN ballots[c] \subseteq DOMAIN ballots'[c],
         \A j \in DOMAIN ballots[c] : ballots'[c][j] = ballots[c][j],
         casting'[c] \cap DOMAIN ballots'[c] = {},
         closing'[c] = closing[c] \/ closing'[c].pc = "idle"
  PROVE  (ReadInv(c) /\ RowInv(c) /\ VerdictInv(c))'
<1>1. ReadInv(c)'
  BY DEF ReadInv
<1> QED
  BY <1>1, VerdictKept

\* The verdict of a run, however many of the claims' outcomes were written.
LEMMA VerdictCounts ==
  ASSUME TypeInv, NEW c \in Cases, ReadInv(c), RowInv(c), Concluding(c),
         Overall(c, closing[c].read, closing[c].broken) # "none",
         NEW done \in SUBSET Docket[c].claims,
         row'[c] = VerdictRow(c, done), ballots' = ballots,
         done = Docket[c].claims \/ restarts' > 0
  PROVE  VerdictInv(c)'
<1> DEFINE bs == closing[c].read
           br == closing[c].broken
           o  == Overall(c, bs, br)
           won  == IF o = "for_prosecution" THEN "proven" ELSE "not_proven"
           lost == IF o = "for_prosecution" THEN "not_proven" ELSE "proven"
<1>1. /\ row'[c].status = "closed" /\ row'[c].outcome = o
      /\ row'[c].read = DOMAIN bs /\ row'[c].broken = DOMAIN br
      /\ \A k \in Docket[c].claims :
           row'[c].claims[k] = IF k \in done THEN o ELSE row[c].claims[k]
  BY VerdictRowType
<1>2. /\ row[c].status # "closed" /\ DOMAIN bs \subseteq DOMAIN ballots[c]
      /\ \A j \in DOMAIN bs : bs[j] = ballots[c][j]
  BY DEF ReadInv, Concluding
<1>3. o \in Outcomes
  BY OverallIs
<1>4. ASSUME NEW k, NEW f PROVE Counted(c, k, f)' = Votes(bs, k, f)
  <2>1. {j \in row'[c].read : ballots'[c][j][k] = f} = {j \in DOMAIN bs : bs[j][k] = f}
    BY <1>1, <1>2
  <2> QED
    BY <2>1 DEF Counted, Votes
<1>5. ASSUME NEW k \in Docket[c].claims
      PROVE  /\ Votes(bs, k, won) > Votes(bs, k, "insufficient")
             /\ \/ Votes(bs, k, won) > Votes(bs, k, lost)
                \/ /\ Votes(bs, k, won) = Votes(bs, k, lost)
                   /\ Docket[c].mode = "judge" /\ k \in DOMAIN br
  <2>1. Finding(c, bs, br, k) = won
    BY <1>3, OverallIs DEF Outcomes
  <2> HIDE DEF bs, br, o
  <2>2. won \in {"proven", "not_proven"} /\ lost \in {"proven", "not_proven"} \ {won}
    OBVIOUS
  <2> QED
    BY <2>1, <2>2, FindingWins
<1>6. ASSUME NEW k \in Docket[c].claims
      PROVE  row'[c].claims[k] = o \/ (row'[c].claims[k] = "undecided" /\ restarts' > 0)
  BY <1>1, <1>2 DEF RowInv, Undecided
<1> HIDE DEF bs, br, o
<1>7. MajorityOf(c)'
  BY <1>1, <1>3, <1>4, <1>5, <1>6 DEF MajorityOf
<1> QED
  BY <1>1, <1>2, <1>7 DEF VerdictInv

LEMMA InitCase == Init => CaseInv
<1> SUFFICES ASSUME Init, NEW c \in Cases PROVE ReadInv(c) /\ RowInv(c) /\ VerdictInv(c)
  BY DEF CaseInv
<1> QED
  BY DEF Init, ReadInv, RowInv, VerdictInv

LEMMA BallotCase ==
  ASSUME TypeInv, CaseInv, NEW c \in Cases, NEW j \in Docket[c].panel,
         BeginBallot(c, j) \/ RecordBallot(c, j)
  PROVE  CaseInv'
<1> SUFFICES ASSUME NEW d \in Cases PROVE (ReadInv(d) /\ RowInv(d) /\ VerdictInv(d))'
  BY DEF CaseInv
<1>1. ReadInv(d) /\ RowInv(d) /\ VerdictInv(d) /\ restarts \in Nat
  BY DEF CaseInv, TypeInv
<1>2. casting[d] \cap DOMAIN ballots[d] = {}
  BY <1>1 DEF ReadInv
<1>3. CASE BeginBallot(c, j)
  <2>1. UNCHANGED <<row, ballots, closing, restarts>>
    BY <1>3 DEF BeginBallot
  <2>2. casting'[d] \cap DOMAIN ballots'[d] = {}
    BY <1>2, <1>3, <2>1 DEF BeginBallot, TypeInv, OnCases
  <2> QED
    BY <1>1, <2>1, <2>2, CaseKept
<1>4. CASE RecordBallot(c, j)
  <2>1. UNCHANGED <<row, closing, restarts>> /\ j \in casting[c]
    BY <1>4 DEF RecordBallot
  <2>2. CASE d # c
    <3>1. ballots'[d] = ballots[d] /\ casting'[d] = casting[d]
      BY <1>4, <2>2 DEF RecordBallot, TypeInv, OnCases
    <3> QED
      BY <1>1, <1>2, <2>1, <3>1, CaseKept
  <2>3. CASE d = c
    <3>1. PICK votes \in [Docket[c].claims -> Findings] :
            ballots' = [ballots EXCEPT ![c] = [i \in DOMAIN @ \cup {j} |->
                          IF i = j THEN votes ELSE @[i]]]
      BY <1>4 DEF RecordBallot
    <3>2. ballots'[c] = [i \in DOMAIN ballots[c] \cup {j} |->
                           IF i = j THEN votes ELSE ballots[c][i]]
      BY <3>1 DEF TypeInv, OnCases
    <3>3. j \notin DOMAIN ballots[c]
      BY <1>2, <2>1, <2>3
    <3>4. /\ DOMAIN ballots'[c] = DOMAIN ballots[c] \cup {j}
          /\ \A i \in DOMAIN ballots[c] : ballots'[c][i] = ballots[c][i]
      BY <3>2, <3>3
    <3>5. casting'[c] = casting[c] \ {j}
      BY <1>4 DEF RecordBallot, TypeInv, OnCases
    <3> QED
      BY <1>1, <1>2, <2>1, <2>3, <3>4, <3>5, CaseKept
  <2> QED
    BY <2>2, <2>3
<1> QED
  BY <1>3, <1>4

LEMMA CloseCase ==
  ASSUME TypeInv, CaseInv, NEW c \in Cases,
         \/ \E by \in {"engine", "operator"} : BeginClose(c, by)
         \/ \E k \in Docket[c].claims : JudgeAnswers(c, k)
  PROVE  CaseInv'
<1> SUFFICES ASSUME NEW d \in Cases PROVE (ReadInv(d) /\ RowInv(d) /\ VerdictInv(d))'
  BY DEF CaseInv
<1>1. ReadInv(d) /\ RowInv(d) /\ VerdictInv(d) /\ restarts \in Nat
  BY DEF CaseInv, TypeInv
<1>2. UNCHANGED <<row, ballots, casting, restarts>>
  BY DEF BeginClose, JudgeAnswers
<1>3. CASE d # c
  <2>1. closing'[d] = closing[d]
    BY <1>3 DEF BeginClose, JudgeAnswers, TypeInv, OnCases
  <2>2. casting'[d] \cap DOMAIN ballots'[d] = {}
    BY <1>1, <1>2 DEF ReadInv
  <2> QED
    BY <1>1, <1>2, <2>1, <2>2, CaseKept
<1>4. CASE d = c
  <2>1. ReadInv(c)'
    <3>1. ASSUME NEW by, BeginClose(c, by) PROVE ReadInv(c)'
      <4>1. row[c].status = "voting" /\ closing'[c].read = ballots[c]
        BY <3>1 DEF BeginClose, Closable, TypeInv, OnCases
      <4> QED
        BY <1>1, <1>2, <1>4, <4>1 DEF ReadInv
    <3>2. ASSUME NEW k, JudgeAnswers(c, k) PROVE ReadInv(c)'
      <4>1. closing[c].pc = "judging" /\ c \in DOMAIN closing
        BY <3>2 DEF JudgeAnswers, TypeInv, OnCases
      <4>2. "read" \in DOMAIN closing[c]
        BY <4>1 DEF TypeInv, RunsOf
      <4>3. PICK asked, found :
              closing' = [closing EXCEPT ![c].ask = asked, ![c].broken = found]
        BY <3>2 DEF JudgeAnswers
      <4>4. closing'[c].read = closing[c].read
        <5>1. closing'[c] = [closing[c] EXCEPT !.ask = asked, !.broken = found]
          BY <4>1, <4>3
        <5> QED
          BY <4>2, <5>1
      <4> QED
        BY <1>1, <1>2, <1>4, <4>1, <4>4 DEF ReadInv
    <3> QED
      BY <3>1, <3>2
  <2>2. (RowInv(c) /\ VerdictInv(c))'
    BY <1>1, <1>2, <1>4, VerdictKept
  <2> QED
    BY <1>4, <2>1, <2>2
<1> QED
  BY <1>3, <1>4

\* A case that a step voids.
LEMMA VoidCase ==
  ASSUME TypeInv, CaseInv, NEW c \in Cases, NEW r \in Reasons, row'[c] = VoidRow(c, r),
         ballots' = ballots, casting'[c] = casting[c],
         closing'[c] = closing[c] \/ closing'[c].pc = "idle"
  PROVE  (ReadInv(c) /\ RowInv(c) /\ VerdictInv(c))'
<1>1. ReadInv(c)
  BY DEF CaseInv
<1>2. row'[c].status = "void" /\ row'[c].outcome = "void" /\ row'[c].claims = Undecided(c)
  BY VoidRowType
<1>3. ReadInv(c)'
  BY <1>1, <1>2 DEF ReadInv
<1> QED
  BY <1>2, <1>3 DEF RowInv, VerdictInv, Undecided

\* A case whose run a step ends with a verdict.
LEMMA VerdictCase ==
  ASSUME TypeInv, CaseInv, NEW c \in Cases, Concluding(c),
         Overall(c, closing[c].read, closing[c].broken) # "none",
         NEW done \in SUBSET Docket[c].claims, row'[c] = VerdictRow(c, done),
         done = Docket[c].claims \/ restarts' > 0,
         ballots' = ballots, casting'[c] \subseteq casting[c], closing'[c].pc = "idle"
  PROVE  (ReadInv(c) /\ RowInv(c) /\ VerdictInv(c))'
<1>1. ReadInv(c) /\ RowInv(c)
  BY DEF CaseInv
<1>2. VerdictInv(c)'
  BY <1>1, VerdictCounts
<1>3. row'[c].status = "closed"
  BY VerdictRowType
<1>4. ReadInv(c)'
  BY <1>1 DEF ReadInv
<1> QED
  BY <1>2, <1>3, <1>4 DEF RowInv

\* The start of the process, for a case whose row is not written at its death.
LEMMA StartCase ==
  ASSUME TypeInv, CaseInv, Start, ballots' = ballots, NEW d \in Cases, row'[d] = row[d]
  PROVE  (ReadInv(d) /\ RowInv(d) /\ VerdictInv(d))'
<1>1. ReadInv(d) /\ RowInv(d) /\ VerdictInv(d)
  BY DEF CaseInv
<1>2. restarts' \in Nat /\ restarts' >= restarts /\ casting'[d] = {} /\ closing'[d].pc = "idle"
  BY DEF Start, TypeInv
<1> QED
  BY <1>1, <1>2, CaseKept

LEMMA EndCase ==
  ASSUME TypeInv, CaseInv, NEW c \in Cases,
         \/ Conclude(c) \/ VotingTimeout(c) \/ ManualVoid(c)
         \/ \E done \in SUBSET Docket[c].claims : DieConcluding(c, done)
  PROVE  CaseInv'
<1> SUFFICES ASSUME NEW d \in Cases PROVE (ReadInv(d) /\ RowInv(d) /\ VerdictInv(d))'
  BY DEF CaseInv
<1>1. ReadInv(d) /\ RowInv(d) /\ VerdictInv(d) /\ restarts \in Nat
  BY DEF CaseInv, TypeInv
<1>2. CASE Conclude(c)
  <2>1. UNCHANGED <<ballots, casting, restarts>> /\ Concluding(c)
    BY <1>2 DEF Conclude
  <2>2. CASE d # c
    <3>1. row'[d] = row[d] /\ closing'[d] = closing[d]
      BY <1>2, <2>2 DEF Conclude, TypeInv, OnCases
    <3>2. casting'[d] \cap DOMAIN ballots'[d] = {}
      BY <1>1, <2>1 DEF ReadInv
    <3> QED
      BY <1>1, <2>1, <3>1, <3>2, CaseKept
  <2>3. CASE d = c
    <3>1. closing'[c].pc = "idle"
      BY <1>2 DEF Conclude, TypeInv, OnCases
    <3>2. CASE Overall(c, closing[c].read, closing[c].broken) = "none"
      <4>1. row'[c] = VoidRow(c, "inconclusive_verdict")
        BY <1>2, <3>2 DEF Conclude, TypeInv, OnCases
      <4> QED
        BY <2>1, <2>3, <3>1, <4>1, VoidCase DEF Reasons
    <3>3. CASE Overall(c, closing[c].read, closing[c].broken) # "none"
      <4>1. row'[c] = VerdictRow(c, Docket[c].claims)
        BY <1>2, <3>3 DEF Conclude, TypeInv, OnCases
      <4> QED
        BY <2>1, <2>3, <3>1, <3>3, <4>1, VerdictCase
    <3> QED
      BY <3>2, <3>3
  <2> QED
    BY <2>2, <2>3
<1>3. CASE VotingTimeout(c) \/ ManualVoid(c)
  <2>1. UNCHANGED <<ballots, casting, closing, restarts>>
    BY <1>3 DEF VotingTimeout, ManualVoid
  <2>2. CASE d # c
    <3>1. row'[d] = row[d]
      BY <1>3, <2>2 DEF VotingTimeout, ManualVoid, TypeInv, OnCases
    <3>2. casting'[d] \cap DOMAIN ballots'[d] = {}
      BY <1>1, <2>1 DEF ReadInv
    <3> QED
      BY <1>1, <2>1, <3>1, <3>2, CaseKept
  <2>3. CASE d = c
    <3>1. PICK r \in Reasons : row'[c] = VoidRow(c, r)
      BY <1>3 DEF VotingTimeout, ManualVoid, TypeInv, OnCases, Reasons
    <3> QED
      BY <2>1, <2>3, <3>1, VoidCase
  <2> QED
    BY <2>2, <2>3
<1>4. ASSUME NEW done \in SUBSET Docket[c].claims, DieConcluding(c, done)
      PROVE  (ReadInv(d) /\ RowInv(d) /\ VerdictInv(d))'
  <2>1. /\ Start /\ ballots' = ballots /\ row' = [row EXCEPT ![c] = VerdictRow(c, done)]
        /\ Concluding(c) /\ Overall(c, closing[c].read, closing[c].broken) # "none"
    BY <1>4 DEF DieConcluding
  <2>2. CASE d # c
    BY <2>1, <2>2, StartCase DEF TypeInv, OnCases
  <2>3. CASE d = c
    <3>1. restarts' > 0 /\ casting'[c] = {} /\ closing'[c].pc = "idle"
      BY <1>1, <2>1 DEF Start
    <3>2. row'[c] = VerdictRow(c, done)
      BY <2>1 DEF TypeInv, OnCases
    <3> QED
      BY <2>1, <2>3, <3>1, <3>2, VerdictCase
  <2> QED
    BY <2>2, <2>3
<1> QED
  BY <1>2, <1>3, <1>4

LEMMA StepCase == TypeInv /\ CaseInv /\ [Next]_vars => CaseInv'
<1> SUFFICES ASSUME TypeInv, CaseInv, [Next]_vars PROVE CaseInv'
  OBVIOUS
<1>1. CASE Restart
  BY <1>1, StartCase DEF Restart, CaseInv
<1>2. CASE UNCHANGED vars
  <2>1. SUFFICES ASSUME NEW d \in Cases PROVE (ReadInv(d) /\ RowInv(d) /\ VerdictInv(d))'
    BY DEF CaseInv
  <2>2. ReadInv(d) /\ RowInv(d) /\ VerdictInv(d) /\ restarts \in Nat
    BY DEF CaseInv, TypeInv
  <2>3. casting[d] \cap DOMAIN ballots[d] = {}
    BY <2>2 DEF ReadInv
  <2> QED
    BY <1>2, <2>2, <2>3, CaseKept DEF vars
<1> QED
  BY <1>1, <1>2, BallotCase, CloseCase, EndCase DEF Next

\* What is recorded as a verdict is what more of the ballots it names found than found
\* anything else (majorityFinding), or the judge's finding on an exact tie, for any docket,
\* any panel and any ballots that land while the judge is asked.
THEOREM VerdictsAreMajorities == Spec => []VerdictIsMajority
<1>1. TypeInv /\ CaseInv => VerdictIsMajority
  BY DEF CaseInv, VerdictInv, MajorityOf, VerdictIsMajority
<1> QED
  BY <1>1, InitTypes, StepTypes, InitCase, StepCase, PTL DEF Spec

(***************************************************************************)
(* Records: an ended case is in the log with the outcome of its row, and   *)
(* the statistics are always what a recount would find.                    *)
(***************************************************************************)

\* What syncCaseReputation logs, and the agents it counts again.
LEMMA EntriesAre ==
  ASSUME NEW c, NEW rows, NEW bal
  PROVE  Entries(c, rows, bal) = SetToBag(Logged(c, rows[c].outcome, DOMAIN bal[c]))
BY DEF Entries, Logged, Heard

LEMMA LoggedAre ==
  ASSUME NEW c, NEW o, NEW H
  PROVE  /\ DOMAIN SetToBag(Logged(c, o, H)) = Logged(c, o, H)
         /\ \A e \in Logged(c, o, H) :
              /\ SetToBag(Logged(c, o, H))[e] = 1
              /\ e = [agent |-> e.agent, role |-> e.role, outcome |-> o]
              /\ e.agent \in {Docket[c].prosecution, Docket[c].defence} \cup H
         /\ \A a :
              /\ (a = Docket[c].prosecution
                    <=> [agent |-> a, role |-> "prosecution", outcome |-> o] \in Logged(c, o, H))
              /\ (a = Docket[c].defence
                    <=> [agent |-> a, role |-> "defence", outcome |-> o] \in Logged(c, o, H))
              /\ (a \in H <=> [agent |-> a, role |-> "juror", outcome |-> o] \in Logged(c, o, H))
<1>1. DOMAIN SetToBag(Logged(c, o, H)) = Logged(c, o, H)
  BY OneOfEach
<1>2. ASSUME NEW e \in Logged(c, o, H)
      PROVE  /\ SetToBag(Logged(c, o, H))[e] = 1
             /\ e = [agent |-> e.agent, role |-> e.role, outcome |-> o]
             /\ e.agent \in {Docket[c].prosecution, Docket[c].defence} \cup H
  BY OneOfEach DEF Logged
<1>3. ASSUME NEW a
      PROVE  /\ (a = Docket[c].prosecution
                   <=> [agent |-> a, role |-> "prosecution", outcome |-> o] \in Logged(c, o, H))
             /\ (a = Docket[c].defence
                   <=> [agent |-> a, role |-> "defence", outcome |-> o] \in Logged(c, o, H))
             /\ (a \in H <=> [agent |-> a, role |-> "juror", outcome |-> o] \in Logged(c, o, H))
  <2>1. ASSUME NEW r, NEW b, NEW s
        PROVE  [agent |-> a, role |-> r, outcome |-> o] = [agent |-> b, role |-> s, outcome |-> o]
                 <=> a = b /\ r = s
    <3>1. /\ [agent |-> a, role |-> r, outcome |-> o].agent = a
          /\ [agent |-> a, role |-> r, outcome |-> o].role = r
          /\ [agent |-> b, role |-> s, outcome |-> o].agent = b
          /\ [agent |-> b, role |-> s, outcome |-> o].role = s
      OBVIOUS
    <3> QED
      BY <3>1
  <2>2. ASSUME NEW r
        PROVE  [agent |-> a, role |-> r, outcome |-> o] \in Logged(c, o, H)
                 <=> \/ r = "prosecution" /\ a = Docket[c].prosecution
                     \/ r = "defence" /\ a = Docket[c].defence
                     \/ r = "juror" /\ a \in H
    <3>1. \A new : new \in Logged(c, o, H)
            <=> \/ new = [agent |-> Docket[c].prosecution, role |-> "prosecution", outcome |-> o]
                \/ new = [agent |-> Docket[c].defence, role |-> "defence", outcome |-> o]
                \/ \E j \in H : new = [agent |-> j, role |-> "juror", outcome |-> o]
      BY Zenon DEF Logged
    <3>2. /\ [agent |-> a, role |-> r, outcome |-> o] =
               [agent |-> Docket[c].prosecution, role |-> "prosecution", outcome |-> o]
               <=> r = "prosecution" /\ a = Docket[c].prosecution
          /\ [agent |-> a, role |-> r, outcome |-> o] =
               [agent |-> Docket[c].defence, role |-> "defence", outcome |-> o]
               <=> r = "defence" /\ a = Docket[c].defence
      BY <2>1, Zenon
    <3>3. (\E j \in H : [agent |-> a, role |-> r, outcome |-> o] =
                         [agent |-> j, role |-> "juror", outcome |-> o])
            <=> r = "juror" /\ a \in H
      BY <2>1, Zenon
    <3> QED
      BY <3>1, <3>2, <3>3, Zenon
  <2>3. "prosecution" # "defence" /\ "prosecution" # "juror" /\ "defence" # "juror"
    OBVIOUS
  <2> QED
    BY <2>2, <2>3, Zenon
<1> QED
  BY <1>1, <1>2, <1>3, Zenon

\* Agents without a row in a case are counted as before when its rows are replaced.
LEMMA RecountKept ==
  ASSUME NEW act, NEW act2, NEW c, NEW a,
         \A d \in Cases \ {c} : act2[d] = act[d],
         \A e \in DOMAIN act[c] : e.agent # a,
         \A e \in DOMAIN act2[c] : e.agent # a
  PROVE  Recount(a, act2) = Recount(a, act)
<1>1. ASSUME NEW r, NEW os PROVE RowsOf(a, act2, r, os) = RowsOf(a, act, r, os)
  <2> DEFINE T == {x \in Rows(act) : x[2].agent = a /\ x[2].role = r /\ x[2].outcome \in os}
             T2 == {x \in Rows(act2) : x[2].agent = a /\ x[2].role = r /\ x[2].outcome \in os}
  <2>1. ASSUME NEW x \in T PROVE x \in T2
    <3>1. PICK d \in Cases : \E e \in DOMAIN act[d] : \E i \in 1 .. act[d][e] : x = <<d, e, i>>
      BY RowsAre
    <3>2. d # c
      BY <3>1
    <3>3. x \in Rows(act2)
      BY <3>1, <3>2, RowsAre
    <3> QED
      BY <3>3
  <2>2. ASSUME NEW x \in T2 PROVE x \in T
    <3>1. PICK d \in Cases : \E e \in DOMAIN act2[d] : \E i \in 1 .. act2[d][e] : x = <<d, e, i>>
      BY RowsAre
    <3>2. d # c
      BY <3>1
    <3>3. x \in Rows(act)
      BY <3>1, <3>2, RowsAre
    <3> QED
      BY <3>3
  <2>3. T = T2
    BY <2>1, <2>2
  <2> QED
    BY <2>3 DEF RowsOf
<1> QED
  BY <1>1 DEF Recount

\* What COUNT(*) finds in a log that satisfies the invariant.
LEMMA CountsAre ==
  ASSUME \A c \in Cases : LogInv(c), NEW a, NEW r, NEW os
  PROVE  RowsOf(a, activity, r, os) = Cardinality(CasesWith(activity, OutcomeOf, a, r, os))
<1>1. ASSUME NEW c \in Cases, NEW e \in DOMAIN activity[c]
      PROVE  /\ activity[c][e] = 1
             /\ e = [agent |-> e.agent, role |-> e.role, outcome |-> OutcomeOf[c]]
  <2>1. activity[c] # EmptyBag
    BY OneOfEach DEF EmptyBag
  <2>2. PICK H : activity[c] = SetToBag(Logged(c, row[c].outcome, H))
    BY <2>1 DEF LogInv
  <2>3. OutcomeOf[c] = row[c].outcome
    BY DEF OutcomeOf
  <2>4. e \in Logged(c, row[c].outcome, H)
    BY <2>2, LoggedAre
  <2> QED
    BY <2>2, <2>3, <2>4, LoggedAre
<1>2. OneRowEach(activity, OutcomeOf)
  BY <1>1, Zenon DEF OneRowEach
<1> QED
  BY <1>2, RowsCounted

LEMMA InitRecord == Init => RecordInv
BY DEF Init, RecordInv, LogInv, Outcomes

\* A step that writes one case's row, or none, and does not synchronise.
LEMMA UnsyncedRecord ==
  ASSUME RecordInv, activity' = activity, stats' = stats,
         \A d \in Cases : /\ DOMAIN ballots[d] \subseteq DOMAIN ballots'[d]
                          /\ \/ row'[d] = row[d]
                             \/ row[d].status = "voting" /\ row'[d].outcome \notin Outcomes
  PROVE  RecordInv'
<1> SUFFICES ASSUME NEW d \in Cases PROVE LogInv(d)'
  BY DEF RecordInv
<1>1. LogInv(d)
  BY DEF RecordInv
<1>2. CASE activity[d] = EmptyBag /\ row[d].outcome \notin Outcomes
  BY <1>2 DEF LogInv
<1>3. CASE row[d].status # "voting"
  BY <1>1, <1>3 DEF LogInv
<1> QED
  BY <1>1, <1>2, <1>3 DEF LogInv

\* A step that ends case c and synchronises it.
LEMMA SyncRecord ==
  ASSUME TypeInv, RecordInv, NEW c \in Cases, Sync(c), ballots' = ballots,
         row'[c].status # "voting", \A d \in Cases \ {c} : row'[d] = row[d]
  PROVE  RecordInv'
<1> DEFINE L == Logged(c, row'[c].outcome, DOMAIN ballots[c])
<1>1. Entries(c, row', ballots) = SetToBag(L)
  BY EntriesAre
<1>2. activity' = [activity EXCEPT ![c] = SetToBag(L)]
  BY <1>1 DEF Sync, Replaced
<1>3. activity'[c] = SetToBag(L) /\ \A d \in Cases \ {c} : activity'[d] = activity[d]
  BY <1>2 DEF TypeInv, OnCases
<1>4. ASSUME NEW d \in Cases PROVE LogInv(d)'
  <2>1. CASE d = c
    BY <1>3, <2>1 DEF LogInv
  <2>2. CASE d # c
    BY <1>3, <2>2 DEF RecordInv, LogInv
  <2> QED
    BY <2>1, <2>2
<1>5. ToRebuild(c, activity') = {e.agent : e \in L}
  BY <1>3, LoggedAre DEF ToRebuild, BagToSet
<1>6. ASSUME NEW a, a \notin ToRebuild(c, activity')
      PROVE  Recount(a, activity') = Recount(a, activity)
  <2>1. \A e \in DOMAIN activity'[c] : e.agent # a
    BY <1>3, <1>5, <1>6, LoggedAre
  <2>2. a \notin {Docket[c].prosecution, Docket[c].defence} \cup DOMAIN ballots[c]
    <3>1. \A b : \A r : [agent |-> b, role |-> r, outcome |-> row'[c].outcome] \in L
                          => b \in ToRebuild(c, activity')
      BY <1>5
    <3> QED
      BY <1>6, <3>1, LoggedAre
  <2>3. \A e \in DOMAIN activity[c] : e.agent # a
    <3>1. CASE activity[c] = EmptyBag
      BY <3>1, OneOfEach DEF EmptyBag
    <3>2. CASE activity[c] # EmptyBag
      <4>1. PICK H \in SUBSET DOMAIN ballots[c] :
              activity[c] = SetToBag(Logged(c, row[c].outcome, H))
        BY <3>2 DEF RecordInv, LogInv
      <4> QED
        BY <2>2, <4>1, LoggedAre
    <3> QED
      BY <3>1, <3>2
  <2>4. \A d \in Cases \ {c} : activity'[d] = activity[d]
    BY <1>3
  <2> HIDE DEF L
  <2> QED
    BY <2>1, <2>3, <2>4, RecountKept, SMTT(30)
<1>7. stats' = [a \in Agents |-> Recount(a, activity')]
  <2>1. ASSUME NEW a \in Agents
        PROVE  (IF a \in ToRebuild(c, activity') THEN Recount(a, activity') ELSE stats[a])
                 = Recount(a, activity')
    BY <1>6 DEF RecordInv
  <2> QED
    BY <2>1 DEF Sync
<1> QED
  BY <1>4, <1>7 DEF RecordInv

\* The start of the process logs every ended case with all its ballots.
LEMMA StartLogs ==
  ASSUME Start, ballots' = ballots, NEW c \in Cases
  PROVE  activity'[c] = IF row'[c].status \in {"closed", "void"}
                          THEN SetToBag(Logged(c, row'[c].outcome, DOMAIN ballots'[c]))
                          ELSE activity[c]
BY EntriesAre DEF Start, Historical, Replaced

LEMMA StartRecord ==
  ASSUME TypeInv, RecordInv, Start, ballots' = ballots,
         \A d \in Cases : row'[d] = row[d] \/ row'[d].status = "closed"
  PROVE  RecordInv'
<1>1. stats' = [a \in Agents |-> Recount(a, activity')]
  BY DEF Start
<1>2. ASSUME NEW d \in Cases PROVE LogInv(d)'
  <2>1. CASE row'[d].status \in {"closed", "void"}
    BY <2>1, StartLogs DEF LogInv
  <2>2. CASE row'[d].status \notin {"closed", "void"}
    <3>1. row'[d] = row[d] /\ activity'[d] = activity[d]
      BY <2>2, StartLogs
    <3> QED
      BY <3>1 DEF RecordInv, LogInv
  <2> QED
    BY <2>1, <2>2
<1> QED
  BY <1>1, <1>2 DEF RecordInv

LEMMA BallotRecord ==
  ASSUME TypeInv, RecordInv, NEW c \in Cases, NEW j \in Docket[c].panel,
         BeginBallot(c, j) \/ RecordBallot(c, j)
  PROVE  RecordInv'
<1>1. \A d \in Cases : DOMAIN ballots[d] \subseteq DOMAIN ballots'[d]
  <2>1. CASE BeginBallot(c, j)
    BY <2>1 DEF BeginBallot
  <2>2. CASE RecordBallot(c, j)
    <3>1. PICK votes :
            ballots' = [ballots EXCEPT ![c] = [i \in DOMAIN @ \cup {j} |->
                          IF i = j THEN votes ELSE @[i]]]
      BY <2>2 DEF RecordBallot
    <3>2. /\ DOMAIN ballots'[c] = DOMAIN ballots[c] \cup {j}
          /\ \A d \in Cases \ {c} : ballots'[d] = ballots[d]
      BY <3>1 DEF TypeInv, OnCases
    <3> QED
      BY <3>2
  <2> QED
    BY <2>1, <2>2
<1>2. UNCHANGED <<row, activity, stats>>
  BY DEF BeginBallot, RecordBallot
<1> QED
  BY <1>1, <1>2, UnsyncedRecord

LEMMA EndRecord ==
  ASSUME TypeInv, RecordInv, NEW c \in Cases,
         \/ Conclude(c) \/ VotingTimeout(c) \/ ManualVoid(c)
         \/ \E done \in SUBSET Docket[c].claims : DieConcluding(c, done)
  PROVE  RecordInv'
<1>1. CASE Conclude(c)
  <2>1. Sync(c) /\ ballots' = ballots /\ Concluding(c) /\ \A d \in Cases \ {c} : row'[d] = row[d]
    BY <1>1 DEF Conclude, TypeInv, OnCases
  <2>2. row'[c].status # "voting"
    <3>1. CASE Overall(c, closing[c].read, closing[c].broken) = "none"
      <4>1. row'[c] = VoidRow(c, "inconclusive_verdict")
        BY <1>1, <3>1 DEF Conclude, TypeInv, OnCases
      <4> QED
        BY <4>1, VoidRowType DEF Reasons
    <3>2. CASE Overall(c, closing[c].read, closing[c].broken) # "none"
      <4>1. row'[c] = VerdictRow(c, Docket[c].claims)
        BY <1>1, <3>2 DEF Conclude, TypeInv, OnCases
      <4>2. row'[c].status = "closed"
        BY <2>1, <3>2, <4>1, VerdictRowType
      <4> QED
        BY <4>2
    <3> QED
      BY <3>1, <3>2
  <2> QED
    BY <2>1, <2>2, SyncRecord
<1>2. CASE VotingTimeout(c)
  <2>1. /\ Sync(c) /\ ballots' = ballots /\ row'[c] = VoidRow(c, "voting_timeout")
        /\ \A d \in Cases \ {c} : row'[d] = row[d]
    BY <1>2 DEF VotingTimeout, TypeInv, OnCases
  <2>2. row'[c].status = "void"
    BY <2>1, VoidRowType DEF Reasons
  <2> QED
    BY <2>1, <2>2, SyncRecord
<1>3. CASE ManualVoid(c)
  <2>1. /\ row'[c] = VoidRow(c, "manual_void") /\ row[c].status = "voting"
        /\ \A d \in Cases \ {c} : row'[d] = row[d]
        /\ UNCHANGED <<ballots, activity, stats>>
    BY <1>3 DEF ManualVoid, TypeInv, OnCases
  <2>2. row'[c].outcome \notin Outcomes
    BY <2>1, VoidRowType DEF Reasons, Outcomes
  <2> QED
    BY <2>1, <2>2, UnsyncedRecord
<1>4. ASSUME NEW done \in SUBSET Docket[c].claims, DieConcluding(c, done)
      PROVE  RecordInv'
  <2>1. /\ Start /\ ballots' = ballots /\ row' = [row EXCEPT ![c] = VerdictRow(c, done)]
        /\ Concluding(c) /\ Overall(c, closing[c].read, closing[c].broken) # "none"
    BY <1>4 DEF DieConcluding
  <2>2. row'[c] = VerdictRow(c, done) /\ \A d \in Cases \ {c} : row'[d] = row[d]
    BY <2>1 DEF TypeInv, OnCases
  <2>3. row'[c].status = "closed"
    BY <2>1, <2>2, VerdictRowType
  <2> QED
    BY <2>1, <2>2, <2>3, StartRecord
<1> QED
  BY <1>1, <1>2, <1>3, <1>4

LEMMA StepRecord == TypeInv /\ RecordInv /\ [Next]_vars => RecordInv'
<1> SUFFICES ASSUME TypeInv, RecordInv, [Next]_vars PROVE RecordInv'
  OBVIOUS
<1>1. CASE Restart
  BY <1>1, StartRecord DEF Restart
<1>2. CASE UNCHANGED vars
  BY <1>2, UnsyncedRecord DEF vars
<1>3. ASSUME NEW c \in Cases,
             \/ \E by \in {"engine", "operator"} : BeginClose(c, by)
             \/ \E k \in Docket[c].claims : JudgeAnswers(c, k)
      PROVE  RecordInv'
  BY <1>3, UnsyncedRecord DEF BeginClose, JudgeAnswers
<1> QED
  BY <1>1, <1>2, <1>3, BallotRecord, EndRecord DEF Next

\* The cases an agent was a party to that ended with one of the outcomes os.
EndedFor(a, side, os) == {c \in Cases : Docket[c][side] = a /\ row[c].outcome \in os}

\* The cases an agent's rows in a role count, where the log is as the invariant has it.
LEMMA PartyCounts ==
  ASSUME \A c \in Cases : LogInv(c), NEW a, NEW os \in SUBSET Outcomes
  PROVE  /\ RowsOf(a, activity, "prosecution", os) =
              Cardinality(EndedFor(a, "prosecution", os))
         /\ RowsOf(a, activity, "defence", os) = Cardinality(EndedFor(a, "defence", os))
<1>1. ASSUME NEW c \in Cases, row[c].outcome \in os
      PROVE  /\ (Docket[c].prosecution = a <=>
                   [agent |-> a, role |-> "prosecution", outcome |-> row[c].outcome]
                     \in DOMAIN activity[c])
             /\ (Docket[c].defence = a <=>
                   [agent |-> a, role |-> "defence", outcome |-> row[c].outcome]
                     \in DOMAIN activity[c])
  <2>1. PICK H : activity[c] = SetToBag(Logged(c, row[c].outcome, H))
    BY <1>1 DEF LogInv
  <2>2. DOMAIN activity[c] = Logged(c, row[c].outcome, H)
    BY <2>1, OneOfEach
  <2>3. /\ (a = Docket[c].prosecution
             <=> [agent |-> a, role |-> "prosecution", outcome |-> row[c].outcome]
                   \in Logged(c, row[c].outcome, H))
        /\ (a = Docket[c].defence
             <=> [agent |-> a, role |-> "defence", outcome |-> row[c].outcome]
                   \in Logged(c, row[c].outcome, H))
    BY LoggedAre, Zenon
  <2> QED
    BY <2>2, <2>3, Zenon
<1> DEFINE In(r) == CasesWith(activity, OutcomeOf, a, r, os)
<1>2. In("prosecution") = EndedFor(a, "prosecution", os)
  BY <1>1 DEF EndedFor, CasesWith, OutcomeOf
<1>3. In("defence") = EndedFor(a, "defence", os)
  BY <1>1 DEF EndedFor, CasesWith, OutcomeOf
<1>4. \A r : RowsOf(a, activity, r, os) = Cardinality(In(r))
  BY CountsAre
<1> HIDE DEF In
<1> QED
  BY <1>2, <1>3, <1>4

LEMMA JuryCounts ==
  ASSUME \A c \in Cases : LogInv(c), NEW a
  PROVE  RowsOf(a, activity, "juror", Outcomes \cup {"void"}) <= Cardinality(JurorIn(a))
<1> DEFINE S == CasesWith(activity, OutcomeOf, a, "juror", Outcomes \cup {"void"})
<1>1. ASSUME NEW c \in S PROVE c \in JurorIn(a)
  <2> USE DEF CasesWith, OutcomeOf
  <2>1. activity[c] # EmptyBag
    BY OneOfEach DEF EmptyBag
  <2>2. row[c].status # "voting"
    BY <2>1 DEF LogInv
  <2>3. PICK H \in SUBSET DOMAIN ballots[c] :
          activity[c] = SetToBag(Logged(c, row[c].outcome, H))
    BY <2>1 DEF LogInv
  <2>4. [agent |-> a, role |-> "juror", outcome |-> row[c].outcome]
          \in Logged(c, row[c].outcome, H)
    BY <2>3, OneOfEach
  <2>5. a \in H
    BY <2>4, LoggedAre, Zenon
  <2> QED
    BY <2>2, <2>5 DEF JurorIn
<1>2. IsFiniteSet(JurorIn(a))
  BY FS_Subset, OutcomeAssumption DEF OutcomeAssumption, JurorIn
<1>3. Cardinality(S) <= Cardinality(JurorIn(a))
  BY <1>1, <1>2, FS_Subset
<1> QED
  BY <1>3, CountsAre

\* An agent's prosecutions, defences and wins in agent_stats_cache are at every moment the
\* cases it was a party to and won, whatever was voided, overwritten, killed or
\* synchronised twice, and it is credited with no jury it did not sit on.
THEOREM RecordsFollow == Spec => []RecordsFollowCases
<1>1. RecordInv => RecordsFollowCases
  <2> SUFFICES ASSUME RecordInv, NEW a \in Agents
               PROVE  /\ stats[a].prosecutions    = Cardinality(PartyIn(a, "prosecution"))
                      /\ stats[a].prosecutionWins = Cardinality(WonBy(a, "prosecution"))
                      /\ stats[a].defences        = Cardinality(PartyIn(a, "defence"))
                      /\ stats[a].defenceWins     = Cardinality(WonBy(a, "defence"))
                      /\ stats[a].juries         <= Cardinality(JurorIn(a))
    BY DEF RecordsFollowCases
  <2>1. stats[a] = Recount(a, activity) /\ \A c \in Cases : LogInv(c)
    BY DEF RecordInv
  <2>2. \A side : PartyIn(a, side) = EndedFor(a, side, Outcomes)
    BY DEF PartyIn, EndedFor
  <2>3. /\ WonBy(a, "prosecution") = EndedFor(a, "prosecution", {"for_prosecution"})
        /\ WonBy(a, "defence") = EndedFor(a, "defence", {"for_defence"})
    BY DEF PartyIn, WonBy, Wins, Outcomes, EndedFor
  <2>4. /\ {"for_prosecution"} \in SUBSET Outcomes /\ {"for_defence"} \in SUBSET Outcomes
        /\ Outcomes \in SUBSET Outcomes
    BY DEF Outcomes
  <2>5. stats[a] = Recount(a, activity)
    BY <2>1
  <2>6. /\ RowsOf(a, activity, "prosecution", Outcomes) = Cardinality(PartyIn(a, "prosecution"))
        /\ RowsOf(a, activity, "defence", Outcomes) = Cardinality(PartyIn(a, "defence"))
    <3>1. /\ RowsOf(a, activity, "prosecution", Outcomes) =
               Cardinality(EndedFor(a, "prosecution", Outcomes))
          /\ RowsOf(a, activity, "defence", Outcomes) =
               Cardinality(EndedFor(a, "defence", Outcomes))
      BY <2>1, <2>4, PartyCounts, Zenon
    <3> QED
      BY <2>2, <3>1, Zenon
  <2>7. /\ RowsOf(a, activity, "prosecution", {"for_prosecution"}) =
             Cardinality(WonBy(a, "prosecution"))
        /\ RowsOf(a, activity, "defence", {"for_defence"}) = Cardinality(WonBy(a, "defence"))
    <3>1. RowsOf(a, activity, "prosecution", {"for_prosecution"}) =
            Cardinality(EndedFor(a, "prosecution", {"for_prosecution"}))
      BY <2>1, <2>4, PartyCounts, Zenon
    <3>2. RowsOf(a, activity, "defence", {"for_defence"}) =
            Cardinality(EndedFor(a, "defence", {"for_defence"}))
      BY <2>1, <2>4, PartyCounts, Zenon
    <3> QED
      BY <2>3, <3>1, <3>2, Zenon
  <2>8. RowsOf(a, activity, "juror", Outcomes \cup {"void"}) <= Cardinality(JurorIn(a))
    BY <2>1, JuryCounts
  <2> QED
    BY <2>5, <2>6, <2>7, <2>8 DEF Recount
<1> QED
  BY <1>1, InitTypes, StepTypes, InitRecord, StepRecord, PTL DEF Spec

\* The start of the process (syncHistoricalReputation) leaves every juror credited with
\* exactly the ended cases it has a ballot in, whatever the credits lagged behind before.
THEOREM RestartSettles == Spec => RestartSettlesJuries
<1>1. TypeInv /\ CaseInv /\ RecordInv /\ CaseInv' /\ RecordInv' /\ TypeInv' /\ [Next]_vars
        => [restarts' > restarts =>
              \A a \in Agents : stats'[a].juries = Cardinality(JurorIn(a)')]_vars
  <2> SUFFICES ASSUME TypeInv, CaseInv, RecordInv, CaseInv', RecordInv', TypeInv', [Next]_vars,
                      restarts' > restarts, NEW a \in Agents
               PROVE  stats'[a].juries = Cardinality(JurorIn(a)')
    OBVIOUS
  <2>1. Start /\ ballots' = ballots
    <3>1. restarts' # restarts
      BY DEF TypeInv
    <3> QED
      BY <3>1 DEF Next, vars, BeginBallot, RecordBallot, BeginClose, JudgeAnswers, Conclude,
                  DieConcluding, VotingTimeout, ManualVoid, Restart
  <2> DEFINE out == [c \in Cases |-> row'[c].outcome]
             os  == Outcomes \cup {"void"}
             S   == CasesWith(activity', out, a, "juror", os)
  <2>2. ASSUME NEW c \in Cases, row'[c].status = "voting"
        PROVE  DOMAIN activity'[c] = {}
    <3>1. activity'[c] = EmptyBag
      BY <2>2 DEF RecordInv, LogInv
    <3> QED
      BY <3>1, OneOfEach DEF EmptyBag
  <2>3. ASSUME NEW c \in Cases, row'[c].status # "voting"
        PROVE  /\ activity'[c] = SetToBag(Logged(c, out[c], DOMAIN ballots'[c]))
               /\ out[c] \in os
    <3>1. row'[c].status \in {"closed", "void"}
      BY <2>3 DEF TypeInv, RowsOfCase
    <3>2. activity'[c] = SetToBag(Logged(c, out[c], DOMAIN ballots'[c]))
      BY <2>1, <3>1, StartLogs
    <3>3. RowInv(c)' /\ VerdictInv(c)'
      BY DEF CaseInv
    <3> QED
      BY <3>1, <3>2, <3>3 DEF RowInv, VerdictInv, MajorityOf
  <2>4. ASSUME NEW c \in Cases, NEW e \in DOMAIN activity'[c]
        PROVE  /\ activity'[c][e] = 1
               /\ e = [agent |-> e.agent, role |-> e.role, outcome |-> out[c]]
    BY <2>2, <2>3, LoggedAre
  <2>5. S = JurorIn(a)'
    <3>1. ASSUME NEW c \in Cases
          PROVE  c \in S <=> row'[c].status # "voting" /\ a \in DOMAIN ballots'[c]
      <4>1. CASE row'[c].status = "voting"
        BY <2>2, <4>1 DEF CasesWith
      <4>2. CASE row'[c].status # "voting"
        <5>1. DOMAIN activity'[c] = Logged(c, out[c], DOMAIN ballots'[c]) /\ out[c] \in os
          BY <2>3, <4>2, OneOfEach
        <5>2. a \in DOMAIN ballots'[c]
                <=> [agent |-> a, role |-> "juror", outcome |-> out[c]] \in DOMAIN activity'[c]
          <6>1. a \in DOMAIN ballots'[c]
                  <=> [agent |-> a, role |-> "juror", outcome |-> out[c]]
                        \in Logged(c, out[c], DOMAIN ballots'[c])
            BY LoggedAre, Zenon
          <6> QED
            BY <5>1, <6>1, Zenon
        <5> QED
          BY <4>2, <5>1, <5>2 DEF CasesWith
      <4> QED
        BY <4>1, <4>2
    <3>2. S \subseteq Cases
      BY DEF CasesWith
    <3> HIDE DEF S
    <3> QED
      BY <3>1, <3>2 DEF JurorIn
  <2>6. RowsOf(a, activity', "juror", os) = Cardinality(S)
    <3> HIDE DEF out, os
    <3>1. OneRowEach(activity', out)
      BY <2>4, Zenon DEF OneRowEach
    <3> QED
      BY <3>1, RowsCounted
  <2>7. stats'[a].juries = RowsOf(a, activity', "juror", os)
    BY DEF RecordInv, Recount
  <2> QED
    BY <2>5, <2>6, <2>7
<1> QED
  BY <1>1, InitTypes, StepTypes, InitCase, StepCase, InitRecord, StepRecord, PTL
     DEF Spec, RestartSettlesJuries

(***************************************************************************)
(* Every case comes by its verdict as CaseVerdict has it.                  *)
(***************************************************************************)

VerdictStep(c) == [VerdictOf(c)!Next]_<<row[c].outcome, Runs(c)>>

LEMMA VerdictStays ==
  ASSUME NEW c, row'[c].outcome = row[c].outcome, closing'[c].pc = closing[c].pc
  PROVE  VerdictStep(c)
BY DEF VerdictStep, Runs

\* What each step has to show.
LEMMA VerdictMoves ==
  ASSUME NEW c,
         \/ /\ ~Runs(c) /\ Runs(c)' /\ row[c].outcome = "none"
            /\ row'[c].outcome = row[c].outcome
         \/ Runs(c) /\ ~Runs(c)' /\ row'[c].outcome \in Outcomes \cup {"void"}
         \/ /\ row[c].outcome = "none" /\ row'[c].outcome = "void"
            /\ Runs(c)' <=> Runs(c)
         \/ Runs(c) /\ ~Runs(c)' /\ row'[c].outcome = row[c].outcome
  PROVE  VerdictStep(c)
<1>1. Runs(c) \in BOOLEAN /\ Runs(c)' \in BOOLEAN
  BY DEF Runs
<1>2. CASE /\ ~Runs(c) /\ Runs(c)' /\ row[c].outcome = "none"
           /\ row'[c].outcome = row[c].outcome
  <2>1. VerdictOf(c)!Begin
    BY <1>1, <1>2 DEF VerdictOf!Begin
  <2> QED
    BY <2>1 DEF VerdictStep, VerdictOf!Next
<1>3. CASE Runs(c) /\ ~Runs(c)' /\ row'[c].outcome \in Outcomes \cup {"void"}
  <2>1. VerdictOf(c)!Decide
    BY <1>1, <1>3 DEF VerdictOf!Decide, VerdictOf!Verdicts, Outcomes
  <2> QED
    BY <2>1 DEF VerdictStep, VerdictOf!Next
<1>4. CASE /\ row[c].outcome = "none" /\ row'[c].outcome = "void"
           /\ Runs(c)' <=> Runs(c)
  <2>1. VerdictOf(c)!Void
    BY <1>1, <1>4 DEF VerdictOf!Void
  <2> QED
    BY <2>1 DEF VerdictStep, VerdictOf!Next
<1>5. CASE Runs(c) /\ ~Runs(c)' /\ row'[c].outcome = row[c].outcome
  <2>1. VerdictOf(c)!Die
    BY <1>1, <1>5 DEF VerdictOf!Die
  <2> QED
    BY <2>1 DEF VerdictStep, VerdictOf!Next
<1> QED
  BY <1>2, <1>3, <1>4, <1>5

\* A death ends the runs of all cases whose rows it leaves alone.
LEMMA StartVerdict ==
  ASSUME NEW c \in Cases, Start, row'[c] = row[c]
  PROVE  VerdictStep(c)
<1>1. closing'[c].pc = "idle"
  BY DEF Start
<1>2. CASE closing[c].pc = "idle"
  BY <1>1, <1>2, VerdictStays
<1>3. CASE closing[c].pc # "idle"
  BY <1>1, <1>3, VerdictMoves DEF Runs
<1> QED
  BY <1>2, <1>3

\* Ballots, runs that begin and answers of the judge.
LEMMA RunVerdict ==
  ASSUME TypeInv, CaseInv, NEW c \in Cases, NEW d \in Cases,
         \/ \E j \in Docket[d].panel : BeginBallot(d, j) \/ RecordBallot(d, j)
         \/ \E by \in {"engine", "operator"} : BeginClose(d, by)
         \/ \E k \in Docket[d].claims : JudgeAnswers(d, k)
  PROVE  VerdictStep(c)
<1>1. ASSUME NEW j, BeginBallot(d, j) \/ RecordBallot(d, j)
      PROVE  VerdictStep(c)
  BY <1>1, VerdictStays DEF BeginBallot, RecordBallot
<1>2. ASSUME NEW by, BeginClose(d, by)
      PROVE  VerdictStep(c)
  <2>1. row' = row /\ row[d].status = "voting" /\ closing[d].pc = "idle"
    BY <1>2 DEF BeginClose, Closable
  <2>2. CASE c # d
    <3>1. closing'[c] = closing[c]
      BY <1>2, <2>2 DEF BeginClose, TypeInv, OnCases
    <3> QED
      BY <2>1, <3>1, VerdictStays
  <2>3. CASE c = d
    <3>1. closing'[c].pc = "judging"
      BY <1>2, <2>3 DEF BeginClose, TypeInv, OnCases
    <3>2. row[c].outcome = "none"
      BY <2>1, <2>3 DEF CaseInv, RowInv
    <3> QED
      BY <2>1, <2>3, <3>1, <3>2, VerdictMoves DEF Runs
  <2> QED
    BY <2>2, <2>3
<1>3. ASSUME NEW k, JudgeAnswers(d, k)
      PROVE  VerdictStep(c)
  <2>1. row' = row /\ d \in DOMAIN closing
    BY <1>3 DEF JudgeAnswers, TypeInv, OnCases
  <2>2. PICK asked, found : closing' = [closing EXCEPT ![d].ask = asked, ![d].broken = found]
    BY <1>3 DEF JudgeAnswers
  <2>3. closing'[c].pc = closing[c].pc
    <3>1. CASE c # d
      BY <2>2, <3>1 DEF TypeInv, OnCases
    <3>2. CASE c = d
      <4>1. "pc" \in DOMAIN closing[d]
        BY DEF TypeInv, RunsOf
      <4>2. closing'[d] = [closing[d] EXCEPT !.ask = asked, !.broken = found]
        BY <2>1, <2>2
      <4> QED
        BY <3>2, <4>1, <4>2
    <3> QED
      BY <3>1, <3>2
  <2> QED
    BY <2>1, <2>3, VerdictStays
<1> QED
  BY <1>1, <1>2, <1>3

\* The ends of the case itself.
LEMMA EndVerdict ==
  ASSUME TypeInv, CaseInv, NEW c \in Cases,
         \/ Conclude(c) \/ VotingTimeout(c) \/ ManualVoid(c)
         \/ \E done \in SUBSET Docket[c].claims : DieConcluding(c, done)
  PROVE  VerdictStep(c)
<1>1. CASE VotingTimeout(c) \/ ManualVoid(c)
  <2>1. closing' = closing /\ row[c].outcome = "none"
    BY <1>1 DEF VotingTimeout, ManualVoid, CaseInv, RowInv
  <2>2. PICK r \in Reasons : row'[c] = VoidRow(c, r)
    BY <1>1 DEF VotingTimeout, ManualVoid, TypeInv, OnCases, Reasons
  <2>3. row'[c].outcome = "void"
    BY <2>2, VoidRowType
  <2>4. Runs(c)' <=> Runs(c)
    BY <2>1 DEF Runs
  <2> QED
    BY <2>1, <2>3, <2>4, VerdictMoves
<1>2. CASE Conclude(c)
  <2>1. Concluding(c) /\ closing'[c].pc = "idle"
    BY <1>2 DEF Conclude, TypeInv, OnCases
  <2>2. CASE Overall(c, closing[c].read, closing[c].broken) = "none"
    <3>1. row'[c] = VoidRow(c, "inconclusive_verdict")
      BY <1>2, <2>2 DEF Conclude, TypeInv, OnCases
    <3>2. row'[c].outcome = "void"
      BY <3>1, VoidRowType DEF Reasons
    <3> QED
      BY <2>1, <3>2, VerdictMoves DEF Runs, Concluding
  <2>3. CASE Overall(c, closing[c].read, closing[c].broken) # "none"
    <3>1. row'[c] = VerdictRow(c, Docket[c].claims)
      BY <1>2, <2>3 DEF Conclude, TypeInv, OnCases
    <3>2. row'[c].outcome \in Outcomes
      BY <2>1, <2>3, <3>1, VerdictRowType, OverallIs
    <3> QED
      BY <2>1, <3>2, VerdictMoves DEF Runs, Concluding
  <2> QED
    BY <2>2, <2>3
<1>3. ASSUME NEW done \in SUBSET Docket[c].claims, DieConcluding(c, done)
      PROVE  VerdictStep(c)
  <2>1. /\ Start /\ row'[c] = VerdictRow(c, done)
        /\ Concluding(c) /\ Overall(c, closing[c].read, closing[c].broken) # "none"
    BY <1>3 DEF DieConcluding, TypeInv, OnCases
  <2>2. closing'[c].pc = "idle"
    BY <2>1 DEF Start
  <2>3. row'[c].outcome \in Outcomes
    BY <2>1, VerdictRowType, OverallIs
  <2> QED
    BY <2>1, <2>2, <2>3, VerdictMoves DEF Runs, Concluding
<1> QED
  BY <1>1, <1>2, <1>3

\* What they do to the other cases.
LEMMA OthersVerdict ==
  ASSUME TypeInv, NEW c \in Cases, NEW d \in Cases \ {c},
         \/ Conclude(d) \/ VotingTimeout(d) \/ ManualVoid(d)
         \/ \E done \in SUBSET Docket[d].claims : DieConcluding(d, done)
  PROVE  VerdictStep(c)
<1>1. CASE Conclude(d) \/ VotingTimeout(d) \/ ManualVoid(d)
  <2>1. row'[c] = row[c] /\ closing'[c] = closing[c]
    BY <1>1 DEF Conclude, VotingTimeout, ManualVoid, TypeInv, OnCases
  <2> QED
    BY <2>1, VerdictStays
<1>2. ASSUME NEW done \in SUBSET Docket[d].claims, DieConcluding(d, done)
      PROVE  VerdictStep(c)
  <2>1. Start /\ row'[c] = row[c]
    BY <1>2 DEF DieConcluding, TypeInv, OnCases
  <2> QED
    BY <2>1, StartVerdict
<1> QED
  BY <1>1, <1>2

LEMMA StepVerdict ==
  ASSUME TypeInv, CaseInv, [Next]_vars, NEW c \in Cases
  PROVE  VerdictStep(c)
<1>1. CASE Restart
  BY <1>1, StartVerdict DEF Restart
<1>2. CASE UNCHANGED vars
  BY <1>2, VerdictStays DEF vars
<1>3. ASSUME NEW d \in Cases,
             \/ Conclude(d) \/ VotingTimeout(d) \/ ManualVoid(d)
             \/ \E done \in SUBSET Docket[d].claims : DieConcluding(d, done)
      PROVE  VerdictStep(c)
  BY <1>3, EndVerdict, OthersVerdict
<1> QED
  BY <1>1, <1>2, <1>3, RunVerdict DEF Next

\* Every case of the docket gets its outcome from one run of closeCasePipeline, which began
\* while the case was voted on, or from a void before it, whatever the other cases, the
\* operator and the deaths of the process do (closeCasePipeline, storeVerdict, markCaseVoid).
THEOREM VerdictsComeAsPromised == Spec => ImplementsCaseVerdict
<1>1. Init => \A c \in Cases : VerdictOf(c)!Init
  BY DEF Init, VerdictOf!Init, Runs
<1>2. TypeInv /\ CaseInv /\ [Next]_vars
        => [\A c \in Cases : [VerdictOf(c)!Next]_<<row[c].outcome, Runs(c)>>]_vars
  BY StepVerdict DEF VerdictStep
<1> QED
  BY <1>1, <1>2, InitTypes, StepTypes, InitCase, StepCase, PTL DEF Spec, ImplementsCaseVerdict

\* A run works towards the first verdict of its case: CaseVerdict has no other runs.
Unsettled(c) == Runs(c) => row[c].outcome \notin Outcomes

LEMMA StepUnsettled ==
  ASSUME NEW c \in Cases, Unsettled(c), VerdictStep(c)
  PROVE  /\ Unsettled(c)'
         /\ row[c].outcome \in Outcomes => row'[c].outcome = row[c].outcome
<1>1. "none" \notin Outcomes /\ "void" \notin Outcomes
  BY DEF Outcomes
<1>2. CASE VerdictOf(c)!Begin
  BY <1>1, <1>2 DEF VerdictOf!Begin, Unsettled
<1>3. CASE VerdictOf(c)!Decide
  BY <1>3 DEF VerdictOf!Decide, Unsettled
<1>4. CASE VerdictOf(c)!Void
  BY <1>1, <1>4 DEF VerdictOf!Void, Unsettled
<1>5. CASE VerdictOf(c)!Die
  BY <1>5 DEF VerdictOf!Die, Unsettled
<1>6. CASE UNCHANGED <<row[c].outcome, Runs(c)>>
  BY <1>6 DEF Unsettled
<1> QED
  BY <1>2, <1>3, <1>4, <1>5, <1>6 DEF VerdictStep, VerdictOf!Next

\* A verdict is written once: no run, void or start of the process comes after it, on any
\* docket.  It follows from what CaseVerdict allows a case alone (storeVerdict and
\* markCaseVoid look at no outcome before they write theirs).
THEOREM VerdictsStand ==
  Spec => [][\A c \in Cases :
               row[c].outcome \in Outcomes => row'[c].outcome = row[c].outcome]_vars
<1>1. Init => \A c \in Cases : Unsettled(c)
  BY DEF Init, Unsettled, Runs
<1>2. TypeInv /\ CaseInv /\ (\A c \in Cases : Unsettled(c)) /\ [Next]_vars
        => /\ \A c \in Cases : Unsettled(c)'
           /\ \A c \in Cases :
                row[c].outcome \in Outcomes => row'[c].outcome = row[c].outcome
  BY StepVerdict, StepUnsettled
<1>3. (\A c \in Cases : Unsettled(c)') => (\A c \in Cases : Unsettled(c))'
  OBVIOUS
<1> QED
  BY <1>1, <1>2, <1>3, InitTypes, StepTypes, InitCase, StepCase, PTL DEF Spec

=============================================================================
