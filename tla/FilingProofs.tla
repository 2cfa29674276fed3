---------------------------- MODULE FilingProofs ----------------------------
(***************************************************************************)
(* Proofs about Filing: payments, panels, schedules and limits, for any    *)
(* cases, requests, payments, agents, panel sizes and limits.              *)
(***************************************************************************)
EXTENDS FilingProps, FiniteSetTheorems, TLAPS

(***************************************************************************)
(* What the properties need to be inductive: what a draft looks like, and  *)
(* what a request that waits for drand knew when it read the candidates    *)
(* and the mode.                                                           *)
(***************************************************************************)

\* A draft is unpaid and has no panel; whoever took its defence did so before the filing.
DraftInv ==
  \A c \in Cases : status[c] = "draft" =>
    /\ paid[c] = Nobody /\ panel[c] = {}
    /\ defence[c] # Nobody => taken[c] \in {"as a draft", "in the draw"}

\* The candidates of a draw leave out the prosecution, and the defence unless it was taken
\* during the draw; the mode is the court's unless it was switched during the draw.
DrawInv ==
  \A r \in Requests : pc[r] = "drawing" =>
    /\ prosecution[target[r]] \notin eligible[r]
    /\ defence[target[r]] \in eligible[r] => taken[target[r]] = "in the draw"
    /\ drawMode[r] = mode \/ switchedInDraw[target[r]]

FilingInv ==
  /\ TypeOK /\ DraftInv /\ DrawInv
  /\ PaymentFilesOneCase /\ FiledByOneRequest
  /\ PartyOnPanelOnlyByRace /\ PanelFitsMode /\ DefendedIsScheduled

\* The initial states satisfy the invariant.
LEMMA FilingInvInit == Init => FilingInv
<1> SUFFICES ASSUME Init PROVE FilingInv
  OBVIOUS
<1> USE FilingAssumption DEF Init
<1>1. TypeOK
  BY DEF TypeOK, Modes
<1>2. DraftInv /\ DrawInv
  BY DEF DraftInv, DrawInv
<1>3. PaymentFilesOneCase /\ FiledByOneRequest
  BY DEF PaymentFilesOneCase, FiledByOneRequest, Filed
<1>4. PartyOnPanelOnlyByRace /\ PanelFitsMode /\ DefendedIsScheduled
  BY DEF PartyOnPanelOnlyByRace, PanelFitsMode, DefendedIsScheduled, Filed
<1> QED
  BY <1>1, <1>2, <1>3, <1>4 DEF FilingInv

\* A request that moves on without reading or writing a row, to a place where it does not
\* draw, and is answered only if it was being answered, keeps the invariant.
LEMMA FilingInvMoves ==
  ASSUME FilingInv, NEW r \in Requests, NEW w \in {"paying", "filed", "refused"},
         w = "filed" => pc[r] = "inviting",
         Goto(r, w), peak' \in Nat,
         UNCHANGED <<drafts, caseRows, claims, used, court, draws, taken, switchedInDraw>>
  PROVE  FilingInv'
<1> USE DEF FilingInv, Goto, drafts, caseRows, claims, court, draws
<1>1. TypeOK'
  BY DEF TypeOK
<1>2. DraftInv'
  BY DEF DraftInv
<1>3. DrawInv'
  BY DEF DrawInv, TypeOK
<1>4. PaymentFilesOneCase'
  BY DEF PaymentFilesOneCase, Filed
<1>5. FiledByOneRequest'
  <2>1. \A q \in Requests : pc'[q] \in {"inviting", "filed"} => pc[q] \in {"inviting", "filed"}
    BY DEF TypeOK
  <2> QED
    BY <2>1 DEF FiledByOneRequest
<1>6. PartyOnPanelOnlyByRace'
  BY DEF PartyOnPanelOnlyByRace
<1>7. PanelFitsMode' /\ DefendedIsScheduled'
  BY DEF PanelFitsMode, DefendedIsScheduled, Filed, Size
<1> QED
  BY <1>1, <1>2, <1>3, <1>4, <1>5, <1>6, <1>7

\* The numbers of filings that run at once are natural numbers.
LEMMA FlightsCount ==
  ASSUME NEW S, S \subseteq Requests
  PROVE  IsFiniteSet(S) /\ Cardinality(S) \in Nat
<1> QED
  BY FilingAssumption, FS_Subset, FS_CardinalityType

\* The candidates and the mode are read as they are.
LEMMA FilingInvDraws ==
  ASSUME FilingInv, NEW r \in Requests, PaymentVerified(r)
  PROVE  FilingInv'
<1> USE DEF FilingInv, PaymentVerified, Goto, drafts, caseRows, claims, court, history
<1>1. TypeOK'
  BY DEF TypeOK, Candidates
<1>2. DraftInv'
  BY DEF DraftInv
<1>3. DrawInv'
  <2> SUFFICES ASSUME NEW q \in Requests, pc'[q] = "drawing"
               PROVE  /\ prosecution[target[q]] \notin eligible'[q]
                      /\ defence[target[q]] \in eligible'[q] => taken[target[q]] = "in the draw"
                      /\ drawMode'[q] = mode \/ switchedInDraw[target[q]]
    BY DEF DrawInv
  <2>1. CASE q = r
    BY <2>1 DEF TypeOK, Candidates
  <2>2. CASE q # r
    BY <2>2 DEF TypeOK, DrawInv
  <2> QED
    BY <2>1, <2>2
<1>4. PaymentFilesOneCase'
  BY DEF PaymentFilesOneCase, Filed
<1>5. FiledByOneRequest'
  <2>1. \A q \in Requests : pc'[q] \in {"inviting", "filed"} =>
          pc[q] \in {"inviting", "filed"} /\ eligible'[q] = eligible[q]
    BY DEF TypeOK
  <2> QED
    BY <2>1 DEF FiledByOneRequest
<1>6. PartyOnPanelOnlyByRace'
  BY DEF PartyOnPanelOnlyByRace
<1>7. PanelFitsMode' /\ DefendedIsScheduled'
  BY DEF PanelFitsMode, DefendedIsScheduled, Filed, Size
<1> QED
  BY <1>1, <1>2, <1>3, <1>4, <1>5, <1>6, <1>7

\* The commit finds a draft, which has no panel and no payment, and a payment no case has.
LEMMA FilingInvCommits ==
  ASSUME FilingInv, NEW r \in Requests, Commit(r)
  PROVE  FilingInv'
<1> DEFINE c == target[r]
<1>0. PICK jury \in SUBSET eligible[r] :
        /\ Cardinality(jury) = Size(drawMode[r])
        /\ panel' = [panel EXCEPT ![c] = jury]
  BY DEF Commit, PanelMode
<1>1. /\ c \in Cases /\ pc[r] = "drawing" /\ status[c] = "draft" /\ tx[r] \notin used
      /\ tx[r] \in Payments /\ tx[r] # Nobody
      /\ status' = [status EXCEPT ![c] = "jury_selected"]
      /\ paid' = [paid EXCEPT ![c] = tx[r]]
      /\ used' = used \cup {tx[r]}
      /\ courtMode' = [courtMode EXCEPT ![c] = mode]
      /\ scheduled' = [scheduled EXCEPT ![c] = named[c] = Nobody]
      /\ clock' = [clock EXCEPT ![c] = "exclusive"]
      /\ \E w \in {"inviting", "filed"} : pc' = [pc EXCEPT ![r] = w]
      /\ UNCHANGED <<prosecution, named, target, tx, defence, mode, switches, eligible, drawMode,
                     taken, switchedInDraw, peak>>
  <2>1. c \in Cases /\ tx[r] \in Payments /\ tx[r] # Nobody
    <3>1. target \in [Requests -> Cases] /\ tx \in [Requests -> Payments]
      BY DEF FilingInv, TypeOK
    <3> QED
      BY <3>1, FilingAssumption
  <2>2. \E w \in {"inviting", "filed"} : pc' = [pc EXCEPT ![r] = w]
    BY DEF Commit, Goto
  <2>3. pc[r] = "drawing" /\ status[c] = "draft" /\ tx[r] \notin used
    BY DEF Commit, StillDraft, StillUnspent
  <2>4. /\ status' = [status EXCEPT ![c] = "jury_selected"]
        /\ paid' = [paid EXCEPT ![c] = tx[r]]
        /\ used' = used \cup {tx[r]}
        /\ courtMode' = [courtMode EXCEPT ![c] = mode]
        /\ scheduled' = [scheduled EXCEPT ![c] = named[c] = Nobody]
        /\ clock' = [clock EXCEPT ![c] = "exclusive"]
    BY DEF Commit, FiledStatus
  <2>5. UNCHANGED <<prosecution, named, target, tx, defence, mode, switches, eligible, drawMode,
                    taken, switchedInDraw, peak>>
    BY DEF Commit, drafts, court, draws, history
  <2> HIDE DEF c
  <2> QED
    BY <2>1, <2>2, <2>3, <2>4, <2>5
<1> HIDE DEF c
<1>2. TypeOK'
  <2> USE DEF FilingInv, TypeOK
  <2>1. /\ status' \in [Cases -> {"draft", "jury_selected"}]
        /\ paid' \in [Cases -> Payments \cup {Nobody}] /\ used' \subseteq Payments
    BY <1>1
  <2>2. panel' \in [Cases -> SUBSET Agents]
    BY <1>0, <1>1
  <2>3. /\ courtMode' \in [Cases -> Modes] /\ scheduled' \in [Cases -> BOOLEAN]
        /\ clock' \in [Cases -> {"exclusive", "open", "closed"}]
    BY <1>1
  <2>4. pc' \in [Requests -> {"idle", "paying", "drawing", "inviting", "filed", "refused"}]
    BY <1>1
  <2> QED
    BY <1>1, <2>1, <2>2, <2>3, <2>4
<1>3. DraftInv'
  BY <1>0, <1>1 DEF FilingInv, TypeOK, DraftInv
<1>4. DrawInv'
  BY <1>1 DEF FilingInv, TypeOK, DrawInv
<1>5. PaymentFilesOneCase'
  <2>1. \A d \in Cases : d # c => status'[d] = status[d] /\ paid'[d] = paid[d]
    BY <1>1 DEF FilingInv, TypeOK
  <2>2. status'[c] = "jury_selected" /\ paid'[c] = tx[r] /\ tx[r] \in used'
    BY <1>1 DEF FilingInv, TypeOK
  <2>3. \A d \in Cases : d # c => (paid[d] \in used <=> paid[d] \in used')
    <3> SUFFICES ASSUME NEW d \in Cases, d # c, paid[d] = tx[r] PROVE FALSE
      BY <1>1
    <3>1. CASE status[d] = "draft"
      BY <1>1, <3>1 DEF FilingInv, DraftInv
    <3>2. CASE status[d] # "draft"
      BY <1>1, <3>2 DEF FilingInv, PaymentFilesOneCase
    <3> QED
      BY <3>1, <3>2
  <2>4. \A d \in Cases : status[d] # "draft" => paid[d] \in used
    BY DEF FilingInv, PaymentFilesOneCase
  <2> QED
    BY <1>1, <2>1, <2>2, <2>3, <2>4 DEF FilingInv, PaymentFilesOneCase, Filed
<1>6. FiledByOneRequest'
  <2>1. \A q \in Requests : pc[q] \in {"inviting", "filed"} => target[q] # c /\ q # r
    BY <1>1 DEF FilingInv, FiledByOneRequest
  <2>2. \A q \in Requests : q # r => pc'[q] = pc[q]
    BY <1>1 DEF FilingInv, TypeOK
  <2> SUFFICES ASSUME NEW q \in Requests, pc'[q] \in {"inviting", "filed"}
               PROVE  /\ status'[target[q]] # "draft" /\ paid'[target[q]] = tx[q]
                      /\ panel'[target[q]] \subseteq eligible[q]
                      /\ \A s \in Requests :
                           pc'[s] \in {"inviting", "filed"} /\ target[s] = target[q] => s = q
    BY <1>1 DEF FiledByOneRequest
  <2>3. CASE q = r
    BY <1>0, <1>1, <2>1, <2>2, <2>3 DEF FilingInv, TypeOK, c
  <2>4. CASE q # r
    <3>1. target[q] # c /\ target[q] \in Cases /\ pc[q] \in {"inviting", "filed"}
      BY <2>1, <2>2, <2>4 DEF FilingInv, TypeOK
    <3>2. /\ status'[target[q]] = status[target[q]] /\ paid'[target[q]] = paid[target[q]]
          /\ panel'[target[q]] = panel[target[q]]
      BY <1>0, <1>1, <3>1 DEF FilingInv, TypeOK
    <3> QED
      BY <2>2, <3>1, <3>2 DEF FilingInv, FiledByOneRequest, c
  <2> QED
    BY <2>3, <2>4
<1>7. PartyOnPanelOnlyByRace'
  BY <1>0, <1>1 DEF FilingInv, TypeOK, PartyOnPanelOnlyByRace, DrawInv, c
<1>8. PanelFitsMode'
  <2>1. \A d \in Cases : d # c =>
          status'[d] = status[d] /\ panel'[d] = panel[d] /\ courtMode'[d] = courtMode[d]
    BY <1>0, <1>1 DEF FilingInv, TypeOK
  <2>2. panel'[c] = jury /\ courtMode'[c] = mode
    BY <1>0, <1>1 DEF FilingInv, TypeOK
  <2>3. drawMode[r] = mode \/ switchedInDraw[c]
    BY <1>1 DEF FilingInv, DrawInv, c
  <2> QED
    BY <1>0, <1>1, <2>1, <2>2, <2>3 DEF FilingInv, PanelFitsMode, Filed, Size
<1>9. DefendedIsScheduled'
  BY <1>1 DEF FilingInv, TypeOK, DraftInv, DefendedIsScheduled, Filed
<1> QED
  BY <1>2, <1>3, <1>4, <1>5, <1>6, <1>7, <1>8, <1>9 DEF FilingInv

\* A claim of the defence takes a party that holds no seat, and during a draw it says so.
LEMMA FilingInvClaims ==
  ASSUME FilingInv, NEW c \in Cases, NEW a \in Agents, ClaimDefence(c, a)
  PROVE  FilingInv'
<1>1. /\ a # prosecution[c] /\ a \notin panel[c] /\ defence[c] = Nobody
      /\ defence' = [defence EXCEPT ![c] = a]
      /\ scheduled' = [scheduled EXCEPT ![c] = @ \/ status[c] = "jury_selected"]
      /\ taken' = [taken EXCEPT ![c] = IF DrawnFor(c) THEN "in the draw"
                                      ELSE IF status[c] = "draft" THEN "as a draft" ELSE "filed"]
      /\ UNCHANGED <<prosecution, named, target, tx, status, paid, panel, courtMode, clock, used,
                     mode, switches, pc, eligible, drawMode, switchedInDraw, peak>>
  BY DEF ClaimDefence, Seated, ClaimSchedules, drafts, caseRows, court, draws
<1>2. TypeOK'
  BY <1>1 DEF FilingInv, TypeOK
<1>3. DraftInv'
  BY <1>1 DEF FilingInv, TypeOK, DraftInv
<1>4. DrawInv'
  BY <1>1 DEF FilingInv, TypeOK, DrawInv, DrawnFor
<1>5. PaymentFilesOneCase' /\ PanelFitsMode'
  BY <1>1 DEF FilingInv, PaymentFilesOneCase, PanelFitsMode, Filed, Size
<1>6. FiledByOneRequest'
  BY <1>1 DEF FilingInv, FiledByOneRequest
<1>7. PartyOnPanelOnlyByRace'
  BY <1>1 DEF FilingInv, TypeOK, PartyOnPanelOnlyByRace
<1>8. DefendedIsScheduled'
  BY <1>1 DEF FilingInv, TypeOK, DefendedIsScheduled, Filed
<1> QED
  BY <1>2, <1>3, <1>4, <1>5, <1>6, <1>7, <1>8 DEF FilingInv

\* The windows of the defence are in no other part of the invariant.
LEMMA FilingInvTime ==
  ASSUME FilingInv, NEW c \in Cases, TimePasses(c)
  PROVE  FilingInv'
<1>1. /\ clock' \in [Cases -> {"exclusive", "open", "closed"}]
      /\ UNCHANGED <<drafts, caseRows, defence, scheduled, used, court, pc, draws, history>>
  BY DEF FilingInv, TypeOK, TimePasses
<1> USE DEF drafts, caseRows, court, draws, history
<1>2. TypeOK'
  BY <1>1 DEF FilingInv, TypeOK
<1>3. DraftInv' /\ DrawInv'
  BY <1>1 DEF FilingInv, DraftInv, DrawInv
<1>4. PaymentFilesOneCase' /\ FiledByOneRequest'
  BY <1>1 DEF FilingInv, PaymentFilesOneCase, FiledByOneRequest, Filed
<1>5. PartyOnPanelOnlyByRace' /\ PanelFitsMode' /\ DefendedIsScheduled'
  BY <1>1 DEF FilingInv, PartyOnPanelOnlyByRace, PanelFitsMode, DefendedIsScheduled, Filed, Size
<1> QED
  BY <1>2, <1>3, <1>4, <1>5 DEF FilingInv

\* A switch of the mode marks every case that is being drawn for.
LEMMA FilingInvSwitches ==
  ASSUME FilingInv, SwitchMode
  PROVE  FilingInv'
<1>1. /\ mode' \in Modes /\ switches' = switches + 1
      /\ switchedInDraw' = [c \in Cases |-> switchedInDraw[c] \/ DrawnFor(c)]
      /\ UNCHANGED <<drafts, caseRows, claims, used, pc, draws, taken, peak>>
  BY DEF SwitchMode
<1> USE DEF drafts, caseRows, claims, draws
<1>2. TypeOK'
  <2>1. switchedInDraw' \in [Cases -> BOOLEAN]
    BY <1>1, Zenon
  <2>2. switches' \in Nat
    <3>1. switches \in Nat /\ switches' = switches + 1
      BY <1>1 DEF FilingInv, TypeOK
    <3> QED
      BY ONLY <3>1
  <2> QED
    BY <1>1, <2>1, <2>2 DEF FilingInv, TypeOK
<1>3. DraftInv'
  BY <1>1 DEF FilingInv, DraftInv
<1>4. DrawInv'
  BY <1>1 DEF FilingInv, TypeOK, DrawInv, DrawnFor
<1>5. PaymentFilesOneCase' /\ FiledByOneRequest'
  BY <1>1 DEF FilingInv, PaymentFilesOneCase, FiledByOneRequest, Filed
<1>6. PartyOnPanelOnlyByRace' /\ DefendedIsScheduled'
  BY <1>1 DEF FilingInv, PartyOnPanelOnlyByRace, DefendedIsScheduled, Filed
<1>7. PanelFitsMode'
  BY <1>1 DEF FilingInv, PanelFitsMode, Filed, Size
<1> QED
  BY <1>2, <1>3, <1>4, <1>5, <1>6, <1>7 DEF FilingInv

\* Every step keeps the invariant.
LEMMA FilingInvNext == FilingInv /\ [Next]_vars => FilingInv'
<1> SUFFICES ASSUME FilingInv, [Next]_vars PROVE FilingInv'
  OBVIOUS
<1>1. ASSUME NEW r \in Requests, Submit(r) PROVE FilingInv'
  <2>1. Cardinality(InFlight) \in Nat /\ peak \in Nat
    BY FlightsCount DEF InFlight, FilingInv, TypeOK
  <2>2. peak' \in Nat
    BY <1>1, <2>1 DEF Submit
  <2> QED
    BY <1>1, <2>2, FilingInvMoves DEF Submit
<1>2. ASSUME NEW r \in Requests, PaymentVerified(r) PROVE FilingInv'
  BY <1>2, FilingInvDraws
<1>3. ASSUME NEW r \in Requests, Commit(r) PROVE FilingInv'
  BY <1>3, FilingInvCommits
<1>4. ASSUME NEW r \in Requests, InviteDone(r) \/ Refuse(r) PROVE FilingInv'
  <2>1. peak' \in Nat
    BY <1>4 DEF InviteDone, Refuse, history, FilingInv, TypeOK
  <2> QED
    BY <1>4, <2>1, FilingInvMoves DEF InviteDone, Refuse, history
<1>5. ASSUME NEW c \in Cases, TimePasses(c) PROVE FilingInv'
  BY <1>5, FilingInvTime
<1>6. ASSUME NEW c \in Cases, NEW a \in Agents, ClaimDefence(c, a) PROVE FilingInv'
  BY <1>6, FilingInvClaims
<1>7. CASE SwitchMode
  BY <1>7, FilingInvSwitches
<1>8. CASE UNCHANGED vars
  <2> USE <1>8 DEF vars, drafts, caseRows, claims, court, draws, history
  <2>1. TypeOK'
    BY DEF FilingInv, TypeOK
  <2>2. DraftInv' /\ DrawInv'
    BY DEF FilingInv, DraftInv, DrawInv
  <2>3. PaymentFilesOneCase' /\ FiledByOneRequest'
    BY DEF FilingInv, PaymentFilesOneCase, FiledByOneRequest, Filed
  <2>4. PartyOnPanelOnlyByRace' /\ PanelFitsMode' /\ DefendedIsScheduled'
    BY DEF FilingInv, PartyOnPanelOnlyByRace, PanelFitsMode, DefendedIsScheduled, Filed, Size
  <2> QED
    BY <2>1, <2>2, <2>3, <2>4 DEF FilingInv
<1> QED
  BY <1>1, <1>2, <1>3, <1>4, <1>5, <1>6, <1>7, <1>8 DEF Next

\* The invariant holds in every reachable state.
LEMMA FilingInvHolds == Spec => []FilingInv
<1> QED
  BY FilingInvInit, FilingInvNext, PTL DEF Spec

-----------------------------------------------------------------------------
(* The limits: what is counted before the awaits and what runs meanwhile    *)

\* The filings of a prosecutor that run, and the draws an agent is a candidate of.
Pending(p) == {r \in InFlight : prosecution[target[r]] = p}
DrawnWith(a) == {r \in Requests : pc[r] = "drawing" /\ a \in eligible[r]}

\* A filing that passed its limit stays within it together with all that run beside it.
CountInv ==
  /\ Cardinality(InFlight) <= peak
  /\ \A p \in Prosecutors :
       Cardinality(FiledBy(p)) + Cardinality(Pending(p)) < FilingLimit + peak
  /\ \A a \in Agents :
       Cardinality(Seats(a)) + Cardinality(DrawnWith(a)) < WeeklyLimit + peak

\* A part of a finite set is finite and no larger; neither is more than one larger than what
\* it is without one element.
LEMMA Parts ==
  ASSUME NEW T, IsFiniteSet(T), NEW S, NEW x, S \subseteq T \cup {x}
  PROVE  /\ Cardinality(S) \in Nat /\ Cardinality(T) \in Nat
         /\ Cardinality(S) <= Cardinality(T) + 1
         /\ S \subseteq T => Cardinality(S) <= Cardinality(T)
<1>1. /\ IsFiniteSet(T \cup {x}) /\ Cardinality(T \cup {x}) \in Nat /\ Cardinality(T) \in Nat
      /\ Cardinality(T \cup {x}) <= Cardinality(T) + 1
  <2>1. IsFiniteSet(T \cup {x}) /\ Cardinality(T) \in Nat /\ Cardinality(T \cup {x}) \in Nat
    BY FS_AddElement, FS_CardinalityType
  <2>2. Cardinality(T \cup {x}) = Cardinality(T) \/ Cardinality(T \cup {x}) = Cardinality(T) + 1
    BY FS_AddElement
  <2> QED
    BY <2>1, <2>2
<1>2. IsFiniteSet(S) /\ Cardinality(S) <= Cardinality(T \cup {x})
  BY <1>1, FS_Subset
<1>3. Cardinality(S) \in Nat
  BY <1>2, FS_CardinalityType
<1>4. S \subseteq T => Cardinality(S) <= Cardinality(T)
  BY FS_Subset
<1> QED
  BY <1>1, <1>2, <1>3, <1>4

\* What runs, and what is counted for a prosecutor and for a juror, is finite.
LEMMA RunsCount == IsFiniteSet(InFlight) /\ Cardinality(InFlight) \in Nat
<1> QED
  BY FlightsCount DEF InFlight

LEMMA FilingsCount ==
  ASSUME NEW p
  PROVE  /\ IsFiniteSet(FiledBy(p)) /\ Cardinality(FiledBy(p)) \in Nat
         /\ IsFiniteSet(Pending(p)) /\ Cardinality(Pending(p)) \in Nat
<1>1. FiledBy(p) \subseteq Cases /\ Pending(p) \subseteq Requests
  BY DEF FiledBy, Filed, Pending, InFlight
<1> QED
  BY <1>1, FilingAssumption, FS_Subset, FS_CardinalityType

LEMMA SeatsCount ==
  ASSUME NEW a
  PROVE  /\ IsFiniteSet(Seats(a)) /\ Cardinality(Seats(a)) \in Nat
         /\ IsFiniteSet(DrawnWith(a)) /\ Cardinality(DrawnWith(a)) \in Nat
<1>1. Seats(a) \subseteq Cases /\ DrawnWith(a) \subseteq Requests
  BY DEF Seats, DrawnWith
<1> QED
  BY <1>1, FilingAssumption, FS_Subset, FS_CardinalityType

\* The limits are numbers.
LEMMA Limits == FilingLimit \in Nat /\ WeeklyLimit \in Nat /\ FilingLimit > 0 /\ WeeklyLimit > 0
<1> QED
  BY FilingAssumption

\* Nothing is filed and nothing runs at the start.
LEMMA CountInvInit == Init => CountInv
<1> SUFFICES ASSUME Init PROVE CountInv
  OBVIOUS
<1>1. Cardinality({}) = 0
  BY FS_EmptySet
<1>2. InFlight = {} /\ peak = 0
  BY DEF Init, InFlight
<1>3. ASSUME NEW p \in Prosecutors
      PROVE  Cardinality(FiledBy(p)) + Cardinality(Pending(p)) < FilingLimit + peak
  <2>1. FiledBy(p) = {} /\ Pending(p) = {}
    BY <1>2 DEF Init, FiledBy, Filed, Pending
  <2> QED
    BY <1>1, <1>2, <2>1, Limits
<1>4. ASSUME NEW a \in Agents
      PROVE  Cardinality(Seats(a)) + Cardinality(DrawnWith(a)) < WeeklyLimit + peak
  <2>1. Seats(a) = {} /\ DrawnWith(a) = {}
    BY DEF Init, Seats, DrawnWith
  <2> QED
    BY <1>1, <1>2, <2>1, Limits
<1>5. Cardinality(InFlight) <= peak
  BY <1>1, <1>2
<1> QED
  BY <1>3, <1>4, <1>5 DEF CountInv

\* A step that files nothing and starts nothing keeps the counts.
LEMMA CountInvShrinks ==
  ASSUME TypeOK, CountInv,
         \A r \in Requests :
           \/ pc'[r] = pc[r] /\ eligible'[r] = eligible[r]
           \/ pc'[r] \notin {"paying", "drawing"},
         UNCHANGED <<prosecution, target, status, panel, peak>>
  PROVE  CountInv'
<1>1. peak \in Nat /\ peak' = peak
  BY DEF TypeOK
<1>2. Cardinality(InFlight') <= peak'
  <2>1. InFlight' \subseteq InFlight
    BY DEF InFlight
  <2>2. Cardinality(InFlight') \in Nat /\ Cardinality(InFlight') <= Cardinality(InFlight)
    BY <2>1, RunsCount, Parts
  <2>3. Cardinality(InFlight) <= peak
    BY DEF CountInv
  <2> QED
    BY ONLY <1>1, <2>2, <2>3, RunsCount
<1>3. ASSUME NEW p \in Prosecutors
      PROVE  Cardinality(FiledBy(p)') + Cardinality(Pending(p)') < FilingLimit + peak'
  <2>1. FiledBy(p)' = FiledBy(p) /\ Pending(p)' \subseteq Pending(p)
    BY DEF FiledBy, Filed, Pending, InFlight
  <2>2. Cardinality(Pending(p)') \in Nat /\ Cardinality(Pending(p)') <= Cardinality(Pending(p))
    BY <2>1, FilingsCount, Parts
  <2>3. Cardinality(FiledBy(p)) + Cardinality(Pending(p)) < FilingLimit + peak
    BY DEF CountInv
  <2> QED
    BY <1>1, <2>1, <2>2, <2>3, FilingsCount, Limits
<1>4. ASSUME NEW a \in Agents
      PROVE  Cardinality(Seats(a)') + Cardinality(DrawnWith(a)') < WeeklyLimit + peak'
  <2>1. Seats(a)' = Seats(a) /\ DrawnWith(a)' \subseteq DrawnWith(a)
    BY DEF Seats, DrawnWith
  <2>2. /\ Cardinality(DrawnWith(a)') \in Nat
        /\ Cardinality(DrawnWith(a)') <= Cardinality(DrawnWith(a))
    BY <2>1, SeatsCount, Parts
  <2>3. Cardinality(Seats(a)) + Cardinality(DrawnWith(a)) < WeeklyLimit + peak
    BY DEF CountInv
  <2> QED
    BY <1>1, <2>1, <2>2, <2>3, SeatsCount, Limits
<1> QED
  BY <1>2, <1>3, <1>4 DEF CountInv

\* A new filing is below its limit, and no more than peak' of them run.
LEMMA CountInvSubmits ==
  ASSUME TypeOK, CountInv, NEW r \in Requests, Submit(r)
  PROVE  CountInv'
<1> USE DEF drafts, caseRows, draws
<1>1. r \notin InFlight /\ InFlight' = InFlight \cup {r}
  <2>1. pc[r] = "idle" /\ pc' = [pc EXCEPT ![r] = "paying"]
    BY DEF Submit, Goto
  <2>2. pc'[r] = "paying" /\ \A q \in Requests : q # r => pc'[q] = pc[q]
    BY <2>1 DEF TypeOK
  <2> QED
    BY <2>1, <2>2 DEF InFlight
<1>2. IsFiniteSet(InFlight') /\ Cardinality(InFlight') = Cardinality(InFlight) + 1
  BY <1>1, RunsCount, FS_AddElement
<1>3. /\ peak \in Nat /\ Cardinality(InFlight) <= peak
      /\ peak' = IF peak > Cardinality(InFlight) THEN peak ELSE Cardinality(InFlight) + 1
  BY DEF Submit, TypeOK, CountInv
<1>4. peak' \in Nat /\ peak <= peak' /\ Cardinality(InFlight') <= peak'
  BY <1>2, <1>3, RunsCount
<1>5. ASSUME NEW p \in Prosecutors
      PROVE  Cardinality(FiledBy(p)') + Cardinality(Pending(p)') < FilingLimit + peak'
  <2>1. FiledBy(p)' = FiledBy(p)
    BY DEF Submit, FiledBy, Filed
  <2>2. CASE p = prosecution[target[r]]
    <3>1. Cardinality(FiledBy(p)) < FilingLimit
      BY <2>2 DEF Submit, BelowFilingLimit
    <3>2. Pending(p)' \subseteq InFlight'
      BY DEF Pending
    <3>3. /\ Cardinality(Pending(p)') \in Nat /\ Cardinality(InFlight') \in Nat
          /\ Cardinality(Pending(p)') <= Cardinality(InFlight')
      BY <1>2, <3>2, Parts
    <3> QED
      BY <1>4, <2>1, <3>1, <3>3, FilingsCount, Limits
  <2>3. CASE p # prosecution[target[r]]
    <3>1. Pending(p)' = Pending(p)
      BY <1>1, <2>3 DEF Submit, Pending
    <3>2. Cardinality(FiledBy(p)) + Cardinality(Pending(p)) < FilingLimit + peak
      BY DEF CountInv
    <3> QED
      BY <1>3, <1>4, <2>1, <3>1, <3>2, FilingsCount, Limits
  <2> QED
    BY <2>2, <2>3
<1>6. ASSUME NEW a \in Agents
      PROVE  Cardinality(Seats(a)') + Cardinality(DrawnWith(a)') < WeeklyLimit + peak'
  <2>1. Seats(a)' = Seats(a) /\ DrawnWith(a)' = DrawnWith(a)
    BY DEF Submit, Goto, Seats, DrawnWith, TypeOK
  <2>2. Cardinality(Seats(a)) + Cardinality(DrawnWith(a)) < WeeklyLimit + peak
    BY DEF CountInv
  <2> QED
    BY <1>3, <1>4, <2>1, <2>2, SeatsCount, Limits
<1> QED
  BY <1>4, <1>5, <1>6 DEF CountInv

\* A candidate has a seat to spare when a draw reads it, and no more than peak draws run.
LEMMA CountInvDraws ==
  ASSUME TypeOK, CountInv, NEW r \in Requests, PaymentVerified(r)
  PROVE  CountInv'
<1> USE DEF drafts, caseRows, history
<1>1. InFlight' = InFlight /\ peak' = peak
  BY DEF PaymentVerified, Goto, InFlight, TypeOK
<1>2. peak \in Nat /\ Cardinality(InFlight) <= peak
  BY DEF CountInv, TypeOK
<1>3. ASSUME NEW p \in Prosecutors
      PROVE  FiledBy(p)' = FiledBy(p) /\ Pending(p)' = Pending(p)
  BY <1>1 DEF PaymentVerified, FiledBy, Filed, Pending
<1>4. ASSUME NEW a \in Agents
      PROVE  Cardinality(Seats(a)') + Cardinality(DrawnWith(a)') < WeeklyLimit + peak
  <2>1. Seats(a)' = Seats(a)
    BY DEF PaymentVerified, Seats
  <2>2. CASE a \in Candidates(target[r])
    <3>1. Cardinality(Seats(a)) < WeeklyLimit
      BY <2>2 DEF Candidates, MayServe
    <3>2. DrawnWith(a)' \subseteq InFlight
      BY <1>1 DEF DrawnWith, InFlight
    <3>3. /\ Cardinality(DrawnWith(a)') \in Nat
          /\ Cardinality(DrawnWith(a)') <= Cardinality(InFlight)
      BY <3>2, RunsCount, Parts
    <3> QED
      BY <1>2, <2>1, <3>1, <3>3, RunsCount, SeatsCount, Limits
  <2>3. CASE a \notin Candidates(target[r])
    <3>1. DrawnWith(a)' = DrawnWith(a)
      BY <2>3 DEF PaymentVerified, Goto, DrawnWith, TypeOK
    <3> QED
      BY <2>1, <3>1 DEF CountInv
  <2> QED
    BY <2>2, <2>3
<1> QED
  BY <1>1, <1>3, <1>4 DEF CountInv

\* A commit moves its request from what runs to what is filed, and its jurors from
\* candidates to seats.
LEMMA CountInvCommits ==
  ASSUME TypeOK, CountInv, NEW r \in Requests, Commit(r)
  PROVE  CountInv'
<1> DEFINE c == target[r]
<1>1. PICK jury \in SUBSET eligible[r] : panel' = [panel EXCEPT ![c] = jury]
  BY DEF Commit
<1>2. /\ c \in Cases /\ pc[r] = "drawing" /\ pc'[r] \notin {"paying", "drawing"}
      /\ \A q \in Requests : q # r => pc'[q] = pc[q]
      /\ \A d \in Cases : d # c => status'[d] = status[d]
      /\ UNCHANGED <<prosecution, target, eligible, peak>>
  BY DEF Commit, Goto, TypeOK, drafts, draws, history
<1> HIDE DEF c
<1>3. r \in InFlight /\ InFlight' = InFlight \ {r}
  BY <1>2 DEF InFlight
<1>4. Cardinality(InFlight') <= peak'
  <2>1. Cardinality(InFlight') = Cardinality(InFlight) - 1
    BY <1>3, RunsCount, FS_RemoveElement
  <2>2. Cardinality(InFlight) <= peak /\ peak \in Nat
    BY DEF CountInv, TypeOK
  <2> QED
    BY <1>2, <2>1, <2>2, RunsCount
<1>5. ASSUME NEW p \in Prosecutors
      PROVE  Cardinality(FiledBy(p)') + Cardinality(Pending(p)') < FilingLimit + peak
  <2>1. Cardinality(FiledBy(p)) + Cardinality(Pending(p)) < FilingLimit + peak /\ peak \in Nat
    BY DEF CountInv, TypeOK
  <2>2. CASE p = prosecution[c]
    <3>1. r \in Pending(p) /\ Pending(p)' = Pending(p) \ {r}
      BY <1>2, <1>3, <2>2 DEF Pending, c
    <3>2. Cardinality(Pending(p)') = Cardinality(Pending(p)) - 1
      BY <3>1, FilingsCount, FS_RemoveElement
    <3>3. FiledBy(p)' \subseteq FiledBy(p) \cup {c}
      BY <1>2 DEF FiledBy, Filed
    <3>4. /\ Cardinality(FiledBy(p)') \in Nat
          /\ Cardinality(FiledBy(p)') <= Cardinality(FiledBy(p)) + 1
      BY <3>3, FilingsCount, Parts
    <3> QED
      BY <2>1, <3>2, <3>4, FilingsCount, Limits
  <2>3. CASE p # prosecution[c]
    <3>1. FiledBy(p)' = FiledBy(p) /\ Pending(p)' = Pending(p)
      BY <1>2, <1>3, <2>3 DEF FiledBy, Filed, Pending, c
    <3> QED
      BY <2>1, <3>1
  <2> QED
    BY <2>2, <2>3
<1>6. ASSUME NEW a \in Agents
      PROVE  Cardinality(Seats(a)') + Cardinality(DrawnWith(a)') < WeeklyLimit + peak
  <2>1. Cardinality(Seats(a)) + Cardinality(DrawnWith(a)) < WeeklyLimit + peak /\ peak \in Nat
    BY DEF CountInv, TypeOK
  <2>2. \A d \in Cases : d # c => panel'[d] = panel[d]
    BY <1>1, <1>2 DEF TypeOK
  <2>3. CASE a \in eligible[r]
    <3>1. r \in DrawnWith(a) /\ DrawnWith(a)' = DrawnWith(a) \ {r}
      BY <1>2, <2>3 DEF DrawnWith
    <3>2. Cardinality(DrawnWith(a)') = Cardinality(DrawnWith(a)) - 1
      BY <3>1, SeatsCount, FS_RemoveElement
    <3>3. Seats(a)' \subseteq Seats(a) \cup {c}
      BY <2>2 DEF Seats
    <3>4. /\ Cardinality(Seats(a)') \in Nat
          /\ Cardinality(Seats(a)') <= Cardinality(Seats(a)) + 1
      BY <3>3, SeatsCount, Parts
    <3> QED
      BY <2>1, <3>2, <3>4, SeatsCount, Limits
  <2>4. CASE a \notin eligible[r]
    <3>1. DrawnWith(a)' = DrawnWith(a)
      BY <1>2, <2>4 DEF DrawnWith
    <3>2. Seats(a)' \subseteq Seats(a)
      BY <1>1, <1>2, <2>2, <2>4 DEF Seats, TypeOK
    <3>3. /\ Cardinality(Seats(a)') \in Nat
          /\ Cardinality(Seats(a)') <= Cardinality(Seats(a))
      BY <3>2, SeatsCount, Parts
    <3> QED
      BY <2>1, <3>1, <3>3, SeatsCount, Limits
  <2> QED
    BY <2>3, <2>4
<1> QED
  BY <1>2, <1>4, <1>5, <1>6 DEF CountInv

\* Every step keeps the counts.
LEMMA CountInvNext == TypeOK /\ CountInv /\ [Next]_vars => CountInv'
<1> SUFFICES ASSUME TypeOK, CountInv, [Next]_vars PROVE CountInv'
  OBVIOUS
<1> USE DEF drafts, caseRows, draws, history
<1>1. ASSUME NEW r \in Requests, Submit(r) PROVE CountInv'
  BY <1>1, CountInvSubmits
<1>2. ASSUME NEW r \in Requests, PaymentVerified(r) PROVE CountInv'
  BY <1>2, CountInvDraws
<1>3. ASSUME NEW r \in Requests, Commit(r) PROVE CountInv'
  BY <1>3, CountInvCommits
<1>4. ASSUME NEW r \in Requests, InviteDone(r) \/ Refuse(r) PROVE CountInv'
  BY <1>4, CountInvShrinks DEF InviteDone, Refuse, Goto, TypeOK
<1>5. ASSUME NEW c \in Cases, TimePasses(c) PROVE CountInv'
  BY <1>5, CountInvShrinks DEF TimePasses
<1>6. ASSUME NEW c \in Cases, NEW a \in Agents, ClaimDefence(c, a) PROVE CountInv'
  BY <1>6, CountInvShrinks DEF ClaimDefence
<1>7. CASE SwitchMode
  BY <1>7, CountInvShrinks DEF SwitchMode
<1>8. CASE UNCHANGED vars
  BY <1>8, CountInvShrinks DEF vars
<1> QED
  BY <1>1, <1>2, <1>3, <1>4, <1>5, <1>6, <1>7, <1>8 DEF Next

-----------------------------------------------------------------------------
(* Theorems                                                                 *)

\* Whatever overlaps, every column of the filing keeps its type.
THEOREM FilingTypes == Spec => []TypeOK
<1>1. FilingInv => TypeOK
  BY DEF FilingInv
<1> QED
  BY <1>1, FilingInvHolds, PTL

\* The second look at the case and at the payment, in the transaction, is enough: one
\* payment, one request and one case belong to each filing (handlePostCaseFile).
THEOREM FiledOnceHolds == Spec => []FiledOnce
<1>1. FilingInv => FiledOnce
  BY DEF FilingInv, FiledOnce
<1> QED
  BY <1>1, FilingInvHolds, PTL

\* A party sits on its own case's panel only if it took the defence during the draw.
THEOREM PartiesSitByRaceOnly == Spec => []PartyOnPanelOnlyByRace
<1>1. FilingInv => PartyOnPanelOnlyByRace
  BY DEF FilingInv
<1> QED
  BY <1>1, FilingInvHolds, PTL

\* The panel has as many jurors as the engine waits for, unless the mode was switched
\* during the draw.
THEOREM PanelsFit == Spec => []PanelFitsMode
<1>1. FilingInv => PanelFitsMode
  BY DEF FilingInv
<1> QED
  BY <1>1, FilingInvHolds, PTL

\* A filed case with a defence is scheduled, unless a named defendant's case lost its
\* claim to the filing.
THEOREM DefendedAreScheduled == Spec => []DefendedIsScheduled
<1>1. FilingInv => DefendedIsScheduled
  BY DEF FilingInv
<1> QED
  BY <1>1, FilingInvHolds, PTL

\* The filing limit and the jurors' weekly limit are exceeded by fewer filings than ran at
\* once, whatever the limits (enforceFilingLimit, listEligibleJurors).
THEOREM LimitsOvershootByConcurrency == Spec => []OvershootByConcurrency
<1>1. TypeOK /\ CountInv => OvershootByConcurrency
  <2> SUFFICES ASSUME TypeOK, CountInv PROVE OvershootByConcurrency
    OBVIOUS
  <2>1. peak \in Nat
    BY DEF TypeOK
  <2>2. ASSUME NEW p \in Prosecutors PROVE Cardinality(FiledBy(p)) < FilingLimit + peak
    <3>1. Cardinality(FiledBy(p)) + Cardinality(Pending(p)) < FilingLimit + peak
      BY DEF CountInv
    <3> QED
      BY <2>1, <3>1, FilingsCount, Limits
  <2>3. ASSUME NEW a \in Agents PROVE Cardinality(Seats(a)) < WeeklyLimit + peak
    <3>1. Cardinality(Seats(a)) + Cardinality(DrawnWith(a)) < WeeklyLimit + peak
      BY DEF CountInv
    <3> QED
      BY <2>1, <3>1, SeatsCount, Limits
  <2> QED
    BY <2>2, <2>3 DEF OvershootByConcurrency
<1>2. FilingInv => TypeOK
  BY DEF FilingInv
<1> QED
  BY <1>1, <1>2, FilingInvHolds, CountInvInit, CountInvNext, PTL DEF Spec

=============================================================================
