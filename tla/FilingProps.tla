---------------------------- MODULE FilingProps ----------------------------
(***************************************************************************)
(* What must hold of Filing.                                               *)
(***************************************************************************)
EXTENDS Filing, TLC

\* Every variable stays in its type.
TypeOK ==
  /\ prosecution \in [Cases -> Prosecutors] /\ named \in [Cases -> Agents \cup {Nobody}]
  /\ status \in [Cases -> {"draft", "jury_selected"}]
  /\ paid \in [Cases -> Payments \cup {Nobody}] /\ used \subseteq Payments
  /\ panel \in [Cases -> SUBSET Agents]
  /\ courtMode \in [Cases -> Modes] /\ scheduled \in [Cases -> BOOLEAN]
  /\ defence \in [Cases -> Agents \cup {Nobody}]
  /\ clock \in [Cases -> {"exclusive", "open", "closed"}]
  /\ mode \in Modes /\ switches \in Nat
  /\ target \in [Requests -> Cases] /\ tx \in [Requests -> Payments]
  /\ pc \in [Requests -> {"idle", "paying", "drawing", "inviting", "filed", "refused"}]
  /\ eligible \in [Requests -> SUBSET Agents] /\ drawMode \in [Requests -> Modes]
  /\ taken \in [Cases -> {"never", "as a draft", "in the draw", "filed"}]
  /\ switchedInDraw \in [Cases -> BOOLEAN]
  /\ peak \in Nat

-----------------------------------------------------------------------------
(* Safety                                                                   *)

\* "tx signature replay prevention" (README.md): a case is filed by one payment and a
\* payment files one case, whatever filings overlapped on chain and at drand.
PaymentFilesOneCase ==
  /\ \A c \in Cases : status[c] # "draft" <=> paid[c] \in used
  /\ \A c, d \in Filed : paid[c] = paid[d] => c = d

\* Of the filings of a case one is answered as filed, and the case carries its payment
\* and a panel of its candidates.
FiledByOneRequest ==
  \A r \in Requests : pc[r] \in {"inviting", "filed"} =>
    /\ status[target[r]] # "draft" /\ paid[target[r]] = tx[r]
    /\ panel[target[r]] \subseteq eligible[r]
    /\ \A q \in Requests : pc[q] \in {"inviting", "filed"} /\ target[q] = target[r] => q = r

\* One payment, one request and one case belong to each filing.
FiledOnce == PaymentFilesOneCase /\ FiledByOneRequest

\* A party sits on the panel of its own case in one way only: it took the defence during
\* the draw's await, after the candidates were read.
PartyOnPanelOnlyByRace ==
  \A c \in Cases :
    /\ prosecution[c] \notin panel[c]
    /\ defence[c] \in panel[c] => taken[c] = "in the draw"

\* The engine waits for as many jurors as the case's mode has seats; the panel has as
\* many, unless the operator changed the mode during the draw's await.
PanelFitsMode ==
  \A c \in Filed :
    Cardinality(panel[c]) = Size(courtMode[c]) \/ switchedInDraw[c]

\* The filing limit and the jurors' weekly limit are counted before the awaits: they are
\* exceeded, but by less than the filings that ran at once.
OvershootByConcurrency ==
  /\ \A p \in Prosecutors : Cardinality(FiledBy(p)) < FilingLimit + peak
  /\ \A a \in Agents : Cardinality(Seats(a)) < WeeklyLimit + peak

\* A filed case whose defence is there has its session scheduled, unless the defence of
\* a named defendant's case was taken before the filing, which then never schedules it.
DefendedIsScheduled ==
  \A c \in Filed :
    defence[c] # Nobody /\ ~scheduled[c] =>
      named[c] # Nobody /\ taken[c] \in {"as a draft", "in the draw"}

\* Requests are interchangeable, and so are payments, and the agents that drafted nothing.
Symmetry == Permutations(Requests) \cup Permutations(Payments)
            \cup Permutations(Prosecutors) \cup Permutations(Agents \ Prosecutors)

=============================================================================
