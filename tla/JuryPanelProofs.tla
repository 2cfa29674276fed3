-------------------------- MODULE JuryPanelProofs --------------------------
(***************************************************************************)
(* Proofs about JuryPanel: every seat stays held or heard, and a vote is   *)
(* counted only with its ballot, for any pool, panel and number of deaths. *)
(***************************************************************************)
EXTENDS JuryPanelProps, FiniteSetTheorems, TLAPS

Statuses == Held \cup {"none", "timed_out", "replaced"}

Ticks == [ pc : {"idle", "running", "drand", "closing"}, todo : SUBSET Jurors,
           juror : Jurors \cup {0}, eligible : SUBSET Jurors, late : BOOLEAN ]

\* The types the argument needs.
PanelTypes ==
  /\ member \in [Jurors -> Statuses]
  /\ ballots \subseteq Jurors /\ casting \subseteq Jurors
  /\ tick.eligible \subseteq Jurors
  /\ tick \in Ticks
  /\ tick.pc = "drand" => tick.juror \in Jurors
  /\ late \in BOOLEAN /\ restarts \in Nat

(***************************************************************************)
(* SeatsFilled is not inductive: the draw after drand's await goes by the  *)
(* candidates read before it, and one of them may hold a seat again by     *)
(* then, because its late ballot was recorded in the meantime.  What is    *)
(* inductive leaves out such jurors: the seats held by others fill the     *)
(* panel, and outside the await there are no candidates to leave out.      *)
(***************************************************************************)
SeatInv ==
  /\ PanelTypes
  /\ tick.pc # "drand" => tick.eligible = {}
  /\ Cardinality(Active \ tick.eligible) + restarts >= PanelSize

-----------------------------------------------------------------------------
(* Counting.                                                                *)

\* The jurors that hold a seat are finitely many.
LEMMA FiniteSeats ==
  ASSUME NEW S, S \subseteq Jurors
  PROVE  IsFiniteSet(S) /\ Cardinality(S) \in Nat
<1>1. IsFiniteSet(S)
  BY FS_Subset, PanelAssumption
<1> QED
  BY <1>1, FS_CardinalityType

\* Giving one seat to a juror without one loses none.
LEMMA SwapKeepsCount ==
  ASSUME NEW S, NEW T, S \subseteq Jurors, T \subseteq Jurors, NEW j, NEW c, c \notin S,
         (S \ {j}) \cup {c} \subseteq T
  PROVE  Cardinality(S) <= Cardinality(T)
<1> DEFINE R == S \ {j}
<1>1. c \in T /\ R \cup {c} \subseteq T /\ R \subseteq Jurors
  OBVIOUS
<1>2. IsFiniteSet(S) /\ IsFiniteSet(T) /\ IsFiniteSet(R)
      /\ Cardinality(S) \in Nat /\ Cardinality(T) \in Nat /\ Cardinality(R) \in Nat
  BY <1>1, FiniteSeats
<1>3. Cardinality(R) >= Cardinality(S) - 1
  BY <1>2, FS_RemoveElement
<1>4. Cardinality(R \cup {c}) = Cardinality(R) + 1
  BY <1>2, FS_AddElement
<1>5. Cardinality(R \cup {c}) <= Cardinality(T)
  BY <1>1, <1>2, FS_Subset
<1> QED
  BY <1>2, <1>3, <1>4, <1>5

\* Losing one seat loses one.
LEMMA LossCountsOne ==
  ASSUME NEW S, NEW T, S \subseteq Jurors, T \subseteq Jurors, NEW j, S \ {j} \subseteq T
  PROVE  Cardinality(S) <= Cardinality(T) + 1
<1> DEFINE R == S \ {j}
<1>1. IsFiniteSet(S) /\ IsFiniteSet(T) /\ IsFiniteSet(R)
      /\ Cardinality(S) \in Nat /\ Cardinality(T) \in Nat /\ Cardinality(R) \in Nat
  BY FiniteSeats
<1>2. Cardinality(R) >= Cardinality(S) - 1
  BY <1>1, FS_RemoveElement
<1>3. Cardinality(R) <= Cardinality(T)
  BY <1>1, FS_Subset
<1> QED
  BY <1>1, <1>2, <1>3

\* What a step that takes no seat away has to show.
LEMMA SeatsKept ==
  ASSUME SeatInv, PanelTypes', tick'.pc # "drand" => tick'.eligible = {},
         restarts' \in {restarts, restarts + 1},
         Active \ tick.eligible \subseteq Active' \ tick'.eligible
  PROVE  SeatInv'
<1> DEFINE S == Active \ tick.eligible
           T == Active' \ tick'.eligible
<1>1. S \subseteq Jurors /\ T \subseteq Jurors
  BY DEF Active
<1>2. Cardinality(S) \in Nat /\ Cardinality(T) \in Nat /\ Cardinality(S) <= Cardinality(T)
  BY <1>1, FiniteSeats, FS_Subset
<1>3. Cardinality(T) + restarts' >= PanelSize
  BY <1>2, PanelAssumption DEF SeatInv, PanelTypes
<1> QED
  BY <1>3 DEF SeatInv

-----------------------------------------------------------------------------
(* The steps.                                                               *)

LEMMA KilledIsBoolean == Killed \subseteq BOOLEAN /\ Writes \subseteq 1 .. 3
<1>1. Killed \subseteq BOOLEAN
  BY DEF Killed
<1>2. Writes \subseteq 1 .. 3
  BY DEF Writes
<1> QED BY <1>1, <1>2

\* A death of the process forgets the candidates.
LEMMA DieTypes ==
  ASSUME PanelTypes, Die
  PROVE  /\ restarts' = restarts + 1 /\ restarts' \in Nat
         /\ casting' \subseteq Jurors
         /\ tick' = Resting /\ tick'.eligible = {} /\ tick'.pc = "idle"
         /\ tick' \in Ticks
BY DEF Die, Resting, Ticks, PanelTypes

\* replaceJuror, also when it is cut short.
LEMMA SeatStep ==
  ASSUME SeatInv, NEW j \in Jurors, NEW c \in Jurors, c \notin Active \ tick.eligible,
         NEW writes \in 1 .. 3, Seat(j, c, writes), UNCHANGED <<stage, late, ballots>>
  PROVE  SeatInv'
<1> DEFINE S == Active \ tick.eligible
           T == Active' \ tick'.eligible
<1>0. PanelTypes /\ S \subseteq Jurors /\ T \subseteq Jurors
  BY DEF SeatInv, Active
<1>1. Cardinality(S) \in Nat /\ Cardinality(T) \in Nat
  BY <1>0, FiniteSeats
<1>2. member' \in [Jurors -> Statuses]
  BY <1>0 DEF Seat, PanelTypes, Statuses, Held
<1>3. CASE writes = 3
  <2>1. member'[c] \in Held /\ \A k \in Jurors \ {j, c} : member'[k] = member[k]
    BY <1>0, <1>3 DEF Seat, PanelTypes, Held
  <2>2. /\ tick' = [tick EXCEPT !.pc = "running", !.todo = @ \ {j}, !.juror = 0, !.eligible = {}]
        /\ UNCHANGED <<casting, restarts>>
    BY <1>3 DEF Seat
  <2>3. PanelTypes' /\ tick'.eligible = {}
    BY <1>0, <1>2, <2>2 DEF PanelTypes, Ticks
  <2>4. (S \ {j}) \cup {c} \subseteq T
    BY <1>0, <2>1, <2>3 DEF Active
  <2>5. Cardinality(S) <= Cardinality(T)
    BY <1>0, <2>4, SwapKeepsCount
  <2> QED
    BY <1>0, <1>1, <2>2, <2>3, <2>5, PanelAssumption DEF SeatInv, PanelTypes
<1>4. CASE writes # 3
  <2>1. \A k \in Jurors \ {j} : member'[k] = member[k]
    BY <1>0, <1>4 DEF Seat, PanelTypes
  <2>2. Die
    BY <1>4 DEF Seat
  <2>3. PanelTypes' /\ tick'.eligible = {} /\ restarts' = restarts + 1
    BY <1>0, <1>2, <2>2, DieTypes DEF PanelTypes
  <2>4. S \ {j} \subseteq T
    BY <1>0, <2>1, <2>3 DEF Active
  <2>5. Cardinality(S) <= Cardinality(T) + 1
    BY <1>0, <2>4, LossCountsOne
  <2> QED
    BY <1>0, <1>1, <2>3, <2>5, PanelAssumption DEF SeatInv, PanelTypes
<1> QED BY <1>3, <1>4

\* The engine's loop.
LEMMA EngineSeats == ASSUME SeatInv, EngineStep PROVE SeatInv'
<1>0. PanelTypes
  BY DEF SeatInv
<1>1. ASSUME NEW j \in Jurors, NEW writes \in Writes, ReplaceFromProof(j, writes) PROVE SeatInv'
  <2>1. PICK c \in FromProof : Seat(j, c, writes)
    BY <1>1 DEF ReplaceFromProof
  <2>2. c \in Jurors /\ c \notin Active
    BY PanelAssumption DEF FromProof, First
  <2> QED
    BY <1>1, <2>1, <2>2, SeatStep, KilledIsBoolean DEF ReplaceFromProof
<1>2. ASSUME NEW writes \in Writes, ReplaceFromDrand(writes) PROVE SeatInv'
  <2>1. PICK c \in tick.eligible : Seat(tick.juror, c, writes)
    BY <1>2 DEF ReplaceFromDrand
  <2>2. c \in Jurors /\ tick.juror \in Jurors
    BY <1>0, <1>2 DEF ReplaceFromDrand, PanelTypes
  <2> QED
    BY <1>2, <2>1, <2>2, SeatStep, KilledIsBoolean DEF ReplaceFromDrand
<1>3. ASSUME NEW j \in Jurors, AwaitDrand(j) PROVE SeatInv'
  <2>1. /\ tick' = [tick EXCEPT !.pc = "drand", !.juror = j, !.eligible = Eligible]
        /\ UNCHANGED <<stage, late, rows, ballots, casting, restarts>>
    BY <1>3 DEF AwaitDrand
  <2>2. PanelTypes' /\ tick'.pc = "drand" /\ tick'.eligible = Allowed \ Active
    BY <1>0, <2>1, PanelAssumption DEF PanelTypes, Ticks, Eligible, rows
  <2>3. Active' = Active
    BY <2>1 DEF Active, rows
  <2> QED
    BY <1>0, <2>1, <2>2, <2>3, SeatsKept DEF PanelTypes
<1>4. ASSUME \/ BeginReadiness \/ BeginVoting \/ EndReadiness \/ EndVoting \/ Close
             \/ DrandThrows \/ \E j \in Jurors : SkipReplacement(j)
      PROVE SeatInv'
  <2>1. /\ tick' \in Ticks
        /\ tick'.pc # "drand" /\ tick'.eligible = {}
    <3>1. CASE EndReadiness \/ EndVoting \/ Close \/ DrandThrows
      <4>1. tick' = [pc |-> "idle", todo |-> {}, juror |-> 0, eligible |-> {}, late |-> FALSE]
        BY <3>1 DEF EndReadiness, EndVoting, Close, DrandThrows, Resting
      <4> QED
        BY <4>1 DEF Ticks
    <3>2. CASE BeginReadiness
      <4>1. tick' = [pc |-> "running", todo |-> Silent("pending_ready"), juror |-> 0,
                     eligible |-> {}, late |-> late]
        BY <3>2 DEF BeginReadiness, Resting
      <4> QED
        BY <1>0, <4>1 DEF Silent, Ticks, PanelTypes
    <3>3. CASE BeginVoting
      <4>1. \/ tick' = [pc |-> "closing", todo |-> {}, juror |-> 0, eligible |-> {},
                        late |-> FALSE]
            \/ tick' = [pc |-> "running", todo |-> Silent("active_voting"), juror |-> 0,
                        eligible |-> {}, late |-> FALSE]
            \/ tick' = tick /\ tick.pc = "idle"
        BY <3>3 DEF BeginVoting, Resting
      <4>2. Silent("active_voting") \subseteq Jurors
        BY DEF Silent
      <4>3. CASE tick' = [pc |-> "closing", todo |-> {}, juror |-> 0, eligible |-> {},
                          late |-> FALSE]
        BY <4>3 DEF Ticks
      <4>4. CASE tick' = [pc |-> "running", todo |-> Silent("active_voting"), juror |-> 0,
                          eligible |-> {}, late |-> FALSE]
        BY <4>2, <4>4 DEF Ticks
      <4>5. CASE tick' = tick /\ tick.pc = "idle"
        BY <1>0, <4>5 DEF SeatInv, PanelTypes
      <4> QED
        BY <4>1, <4>3, <4>4, <4>5
    <3>4. CASE \E j \in Jurors : SkipReplacement(j)
      BY <1>0, <3>4 DEF SkipReplacement, Alone, SeatInv, PanelTypes, Ticks
    <3> QED BY <1>4, <3>1, <3>2, <3>3, <3>4
  <2>2. UNCHANGED <<member, ballots, casting, restarts>> /\ late' \in BOOLEAN
    BY <1>0, <1>4
    DEF BeginReadiness, BeginVoting, EndReadiness, EndVoting, Close, DrandThrows,
        SkipReplacement, Enter, rows, PanelTypes
  <2>3. PanelTypes' /\ Active' = Active
    BY <1>0, <2>1, <2>2 DEF PanelTypes, Active
  <2> QED
    BY <2>1, <2>2, <2>3, SeatsKept
<1> QED
  BY <1>1, <1>2, <1>3, <1>4 DEF EngineStep

\* Stages, requests, time and restarts take no seat away.
LEMMA OtherSeats ==
  ASSUME SeatInv, \/ StageStep \/ JurorStep \/ (\E j \in Jurors : DeadlineNears(j))
                  \/ HardDeadline \/ Restart
  PROVE  SeatInv'
<1>0. PanelTypes
  BY DEF SeatInv
<1>1. /\ member' \in [Jurors -> Statuses] /\ ballots' \subseteq Jurors
      /\ \A k \in Jurors : member[k] \in Held => member'[k] \in Held
  BY <1>0 DEF StageStep, StartSession, OpenVoting, AddressesFail, JurorStep, JurorReady,
              BeginBallot, RecordBallot, DeadlineNears, HardDeadline, Restart, rows,
              PanelTypes, Statuses, Held
<1>2. casting' \subseteq Jurors /\ late' \in BOOLEAN
  BY <1>0 DEF StageStep, StartSession, OpenVoting, AddressesFail, JurorStep, JurorReady,
              BeginBallot, RecordBallot, DeadlineNears, HardDeadline, Restart, Die, Enter,
              PanelTypes
<1>3. Die \/ UNCHANGED <<tick, restarts>>
  BY DEF StageStep, StartSession, OpenVoting, AddressesFail, JurorStep, JurorReady,
         BeginBallot, RecordBallot, DeadlineNears, HardDeadline, Restart
<1>4. CASE Die
  <2>1. PanelTypes' /\ tick'.eligible = {} /\ restarts' = restarts + 1
    BY <1>0, <1>1, <1>2, <1>4, DieTypes DEF PanelTypes
  <2> QED
    BY <1>1, <2>1, SeatsKept DEF Active
<1>5. CASE UNCHANGED <<tick, restarts>>
  <2>1. PanelTypes'
    BY <1>0, <1>1, <1>2, <1>5 DEF PanelTypes
  <2> QED
    BY <1>1, <1>5, <2>1, SeatsKept DEF Active, SeatInv
<1> QED BY <1>3, <1>4, <1>5

\* The first draw fills the panel.
LEMMA InitSeats == Init => SeatInv
<1> SUFFICES ASSUME Init PROVE SeatInv
  OBVIOUS
<1>1. PICK panel \in SUBSET Pool :
        /\ Drawn(panel)
        /\ member = [j \in Jurors |-> IF j \in panel THEN "pending_ready" ELSE "none"]
  BY DEF Init
<1>2. PanelTypes /\ tick.eligible = {} /\ restarts = 0
  BY <1>1 DEF Init, PanelTypes, Ticks, Statuses, Held, Resting
<1>3. Active \ tick.eligible = panel
  BY <1>1, <1>2, PanelAssumption DEF Active, Held
<1> QED
  BY <1>1, <1>2, <1>3, PanelAssumption DEF SeatInv, Drawn

\* Every seat is held or has voted; a death of the process costs at most one.
THEOREM SeatsStayFilled == Spec => []SeatsFilled
<1>1. SeatInv /\ [Next]_vars => SeatInv'
  <2> SUFFICES ASSUME SeatInv, [Next]_vars PROVE SeatInv'
    OBVIOUS
  <2>1. CASE Next
    BY <2>1, EngineSeats, OtherSeats DEF Next
  <2>2. CASE UNCHANGED vars
    BY <2>2 DEF vars, rows, SeatInv, PanelTypes, Active
  <2> QED BY <2>1, <2>2
<1>2. SeatInv => SeatsFilled
  <2> SUFFICES ASSUME SeatInv PROVE SeatsFilled
    OBVIOUS
  <2> DEFINE S == Active \ tick.eligible
  <2>1. S \subseteq Heard /\ Heard \subseteq Jurors
    BY DEF Heard, Active, SeatInv, PanelTypes
  <2>2. Cardinality(S) \in Nat /\ Cardinality(Heard) \in Nat
        /\ Cardinality(S) <= Cardinality(Heard)
    BY <2>1, FiniteSeats, FS_Subset
  <2> QED
    BY <2>2, PanelAssumption DEF SeatInv, PanelTypes, SeatsFilled
<1> QED
  BY InitSeats, <1>1, <1>2, PTL DEF Spec

-----------------------------------------------------------------------------
(* Votes and ballots.                                                       *)

\* A juror is marked as having voted after its ballot is on file, in every interleaving.
THEOREM VotesHaveBallots == Spec => []VotedHasBallot
<1>1. Init => SeatInv /\ VotedHasBallot
  BY InitSeats DEF Init, VotedHasBallot
<1>2. SeatInv /\ VotedHasBallot /\ [Next]_vars => VotedHasBallot'
  <2> SUFFICES ASSUME SeatInv, VotedHasBallot, [Next]_vars PROVE VotedHasBallot'
    OBVIOUS
  <2>1. PanelTypes
    BY DEF SeatInv
  <2>2. ASSUME NEW j, NEW c, NEW writes \in 1 .. 3, Seat(j, c, writes), UNCHANGED ballots
        PROVE VotedHasBallot'
    BY <2>1, <2>2 DEF Seat, PanelTypes, VotedHasBallot
  <2>3. CASE EngineStep
    BY <2>2, <2>3, KilledIsBoolean
    DEF EngineStep, ReplaceFromProof, ReplaceFromDrand, BeginReadiness, BeginVoting,
        EndReadiness, EndVoting, Close, AwaitDrand, SkipReplacement, DrandThrows, rows,
        VotedHasBallot
  <2>4. CASE JurorStep
    BY <2>1, <2>4 DEF JurorStep, JurorReady, BeginBallot, RecordBallot, rows, PanelTypes,
                      VotedHasBallot
  <2>5. CASE \/ StageStep \/ (\E j \in Jurors : DeadlineNears(j)) \/ HardDeadline \/ Restart
             \/ UNCHANGED vars
    BY <2>1, <2>5 DEF StageStep, StartSession, OpenVoting, AddressesFail, DeadlineNears,
                      HardDeadline, Restart, rows, vars, PanelTypes, VotedHasBallot
  <2> QED
    BY <2>3, <2>4, <2>5 DEF Next
<1>3. SeatInv /\ [Next]_vars => SeatInv'
  <2> SUFFICES ASSUME SeatInv, [Next]_vars PROVE SeatInv'
    OBVIOUS
  <2>1. CASE Next
    BY <2>1, EngineSeats, OtherSeats DEF Next
  <2>2. CASE UNCHANGED vars
    BY <2>2 DEF vars, rows, SeatInv, PanelTypes, Active
  <2> QED BY <2>1, <2>2
<1> QED
  BY <1>1, <1>2, <1>3, PTL DEF Spec

-----------------------------------------------------------------------------
(* No seat is held twice.                                                   *)

(***************************************************************************)
(* Before the vote nobody casts a ballot, and the jurors the engine's loop *)
(* is about to replace still hold their seats: a juror may confirm while   *)
(* drand is awaited, but only the loop itself takes a seat away.  So each  *)
(* replacement gives out one seat and takes one back.                      *)
(***************************************************************************)
BeforeVote == stage \in {"pre_session", "jury_readiness", "addresses"}

OnceInv ==
  /\ PanelTypes
  /\ BeforeVote => Cardinality(Active) <= PanelSize
  /\ BeforeVote => casting = {}
  /\ BeforeVote /\ tick.pc # "idle" => stage = "jury_readiness" /\ tick.todo \subseteq Active
  /\ tick.pc = "drand" => tick.juror \in tick.todo

\* What a step has to show that hands out no seat.
LEMMA OnceKept ==
  ASSUME OnceInv, PanelTypes', BeforeVote' => BeforeVote /\ Active' = Active /\ casting' = {},
         \/ tick'.pc = "idle"
         \/ ~BeforeVote' /\ tick'.pc # "drand"
         \/ UNCHANGED <<tick, stage>>
         \/ stage' = "jury_readiness" /\ tick'.todo \subseteq Active' /\ tick'.pc # "drand"
  PROVE  OnceInv'
BY DEF OnceInv, BeforeVote

\* replaceJuror, also when it is cut short.
LEMMA OnceSeat ==
  ASSUME OnceInv, PanelTypes', tick.pc # "idle", NEW j \in tick.todo, NEW c \in Jurors,
         NEW writes \in 1 .. 3, Seat(j, c, writes), UNCHANGED <<stage, late, ballots>>
  PROVE  OnceInv'
<1>0. PanelTypes /\ j \in Jurors
  BY DEF OnceInv, PanelTypes, Ticks
<1>1. CASE ~BeforeVote
  <2>1. tick'.pc # "drand"
    <3>1. CASE writes = 3
      <4>1. tick' = [tick EXCEPT !.pc = "running", !.todo = @ \ {j}, !.juror = 0, !.eligible = {}]
        BY <3>1 DEF Seat
      <4> QED
        BY <1>0, <4>1 DEF PanelTypes, Ticks
    <3>2. CASE writes # 3
      BY <3>2 DEF Seat, Die, Resting
    <3> QED
      BY <3>1, <3>2
  <2> QED
    BY <1>1, <2>1 DEF OnceInv, BeforeVote
<1>2. CASE BeforeVote
  <2>1. j \in Active /\ tick.todo \subseteq Active /\ stage = "jury_readiness" /\ casting = {}
        /\ Cardinality(Active) <= PanelSize
    BY <1>2 DEF OnceInv
  <2>2. Active \subseteq Jurors /\ Active' \subseteq Jurors
    BY DEF Active
  <2>3. Cardinality(Active) \in Nat /\ Cardinality(Active') \in Nat /\ IsFiniteSet(Active)
    BY <2>2, FiniteSeats
  <2>4. CASE writes = 3
    <3>1. /\ tick' = [tick EXCEPT !.pc = "running", !.todo = @ \ {j}, !.juror = 0,
                                  !.eligible = {}]
          /\ casting' = casting
          /\ member' = [member EXCEPT ![j] = "replaced", ![c] = "pending_ready"]
      BY <2>1, <2>4 DEF Seat
    <3>2. Active' = (Active \ {j}) \cup {c}
      BY <1>0, <3>1 DEF Active, Held, PanelTypes
    <3> DEFINE R == Active \ {j}
    <3>3. IsFiniteSet(R) /\ Cardinality(R) = Cardinality(Active) - 1
      BY <2>1, <2>3, FS_RemoveElement
    <3>4. Cardinality(R \cup {c}) <= Cardinality(R) + 1
      BY <2>3, <3>3, FS_AddElement
    <3>5. Cardinality(Active') <= PanelSize
      BY <2>1, <2>3, <3>2, <3>3, <3>4, PanelAssumption
    <3>6. tick'.pc = "running" /\ tick'.todo = tick.todo \ {j}
      BY <1>0, <3>1 DEF PanelTypes, Ticks
    <3> QED
      BY <2>1, <3>1, <3>2, <3>5, <3>6 DEF OnceInv
  <2>5. CASE writes # 3
    <3>1. Die
      BY <2>5 DEF Seat
    <3>2. Active' \subseteq Active
      BY <1>0, <2>5 DEF Seat, Active, Held, PanelTypes
    <3>3. Cardinality(Active') <= PanelSize
      BY <2>1, <2>3, <3>2, FS_Subset, PanelAssumption
    <3>4. tick'.pc = "idle" /\ casting' = {}
      BY <3>1 DEF Die, Resting
    <3> QED
      BY <3>3, <3>4 DEF OnceInv
  <2> QED
    BY <2>4, <2>5
<1> QED
  BY <1>1, <1>2

LEMMA OnceEngine == ASSUME OnceInv, PanelTypes', EngineStep PROVE OnceInv'
<1>0. PanelTypes
  BY DEF OnceInv
<1>1. ASSUME NEW j \in Jurors, NEW writes \in Writes, ReplaceFromProof(j, writes) PROVE OnceInv'
  <2>1. PICK c \in FromProof : Seat(j, c, writes)
    BY <1>1 DEF ReplaceFromProof
  <2>2. c \in Jurors /\ tick.pc # "idle" /\ j \in tick.todo
    BY <1>1, PanelAssumption DEF FromProof, First, ReplaceFromProof, Alone
  <2> QED
    BY <1>1, <2>1, <2>2, OnceSeat, KilledIsBoolean DEF ReplaceFromProof
<1>2. ASSUME NEW writes \in Writes, ReplaceFromDrand(writes) PROVE OnceInv'
  <2>1. PICK c \in tick.eligible : Seat(tick.juror, c, writes)
    BY <1>2 DEF ReplaceFromDrand
  <2>2. c \in Jurors /\ tick.pc # "idle" /\ tick.juror \in tick.todo
    BY <1>0, <1>2 DEF ReplaceFromDrand, PanelTypes, OnceInv
  <2> QED
    BY <1>2, <2>1, <2>2, OnceSeat, KilledIsBoolean DEF ReplaceFromDrand
<1>3. ASSUME NEW j \in Jurors, AwaitDrand(j) PROVE OnceInv'
  <2>1. /\ tick' = [tick EXCEPT !.pc = "drand", !.juror = j, !.eligible = Eligible]
        /\ UNCHANGED <<stage, member, casting>> /\ tick.pc # "idle" /\ j \in tick.todo
    BY <1>3 DEF AwaitDrand, rows, Alone
  <2>2. tick'.todo = tick.todo /\ tick'.juror = j /\ Active' = Active
    BY <1>0, <2>1 DEF PanelTypes, Ticks, Active
  <2> QED
    BY <2>1, <2>2 DEF OnceInv, BeforeVote
<1>4. ASSUME BeginReadiness PROVE OnceInv'
  <2>1. /\ tick' = [pc |-> "running", todo |-> Silent("pending_ready"), juror |-> 0,
                    eligible |-> {}, late |-> late]
        /\ UNCHANGED <<stage, member, casting>> /\ stage = "jury_readiness"
    BY <1>4 DEF BeginReadiness, Resting, rows
  <2>2. Silent("pending_ready") \subseteq Active' /\ Active' = Active
    BY <2>1 DEF Silent, Active, Held
  <2> QED
    BY <2>1, <2>2, OnceKept DEF OnceInv, BeforeVote
<1>5. ASSUME NEW j \in Jurors, SkipReplacement(j) PROVE OnceInv'
  <2>1. /\ tick' = [tick EXCEPT !.todo = @ \ {j}] /\ tick.pc = "running"
        /\ UNCHANGED <<stage, member, casting>>
    BY <1>5 DEF SkipReplacement, rows, Alone
  <2>2. tick'.pc = "running" /\ tick'.todo \subseteq tick.todo /\ Active' = Active
    BY <1>0, <2>1 DEF PanelTypes, Ticks, Active
  <2> QED
    BY <2>1, <2>2 DEF OnceInv, BeforeVote
<1>6. ASSUME EndReadiness \/ EndVoting \/ Close \/ DrandThrows PROVE OnceInv'
  <2>1. tick'.pc = "idle" /\ UNCHANGED <<member, casting>>
    BY <1>6 DEF EndReadiness, EndVoting, Close, DrandThrows, Resting, rows
  <2>2. BeforeVote' => BeforeVote
    BY <1>6 DEF EndReadiness, EndVoting, Close, DrandThrows, Enter, BeforeVote
  <2> QED
    BY <2>1, <2>2, OnceKept DEF OnceInv, Active
<1>7. ASSUME BeginVoting PROVE OnceInv'
  <2>1. ~BeforeVote'
    BY <1>7 DEF BeginVoting, Enter, BeforeVote
  <2>2. tick'.pc # "drand"
    BY <1>7 DEF BeginVoting, Resting
  <2> QED
    BY <2>1, <2>2, OnceKept
<1> QED
  BY <1>1, <1>2, <1>3, <1>4, <1>5, <1>6, <1>7 DEF EngineStep

LEMMA OnceOthers ==
  ASSUME OnceInv, PanelTypes',
         \/ StageStep \/ JurorStep \/ (\E j \in Jurors : DeadlineNears(j))
         \/ HardDeadline \/ Restart
  PROVE  OnceInv'
<1>0. PanelTypes
  BY DEF OnceInv
<1>1. ASSUME NEW killed, StartSession(killed) PROVE OnceInv'
  <2>1. tick'.pc = "idle" /\ casting' \in {casting, {}} /\ BeforeVote
    BY <1>1 DEF StartSession, Die, Resting, BeforeVote
  <2>2. Active' = Active
    BY <1>0, <1>1 DEF StartSession, Active, Held, PanelTypes
  <2> QED
    BY <2>1, <2>2, OnceKept DEF OnceInv
<1>2. ASSUME NEW killed, OpenVoting(killed) PROVE OnceInv'
  <2>1. tick'.pc = "idle" /\ ~BeforeVote'
    BY <1>2 DEF OpenVoting, Die, Resting, Enter, BeforeVote
  <2> QED
    BY <2>1, OnceKept
<1>3. ASSUME AddressesFail PROVE OnceInv'
  <2>1. tick'.pc = "idle" /\ ~BeforeVote'
    BY <1>3 DEF AddressesFail, Enter, BeforeVote
  <2> QED
    BY <2>1, OnceKept
<1>4. ASSUME NEW j \in Jurors, JurorReady(j) PROVE OnceInv'
  <2>1. UNCHANGED <<tick, stage, casting>>
    BY <1>4 DEF JurorReady
  <2>2. Active' = Active
    BY <1>0, <1>4 DEF JurorReady, Active, Held, PanelTypes
  <2> QED
    BY <2>1, <2>2, OnceKept DEF OnceInv, BeforeVote
<1>5. ASSUME NEW j \in Jurors, BeginBallot(j) PROVE OnceInv'
  <2>1. UNCHANGED <<tick, stage>> /\ ~BeforeVote'
    BY <1>5 DEF BeginBallot, BeforeVote
  <2> QED
    BY <2>1, OnceKept
<1>6. ASSUME NEW j \in Jurors, NEW killed, RecordBallot(j, killed) PROVE OnceInv'
  <2>1. stage' = stage /\ ~BeforeVote
    BY <1>6 DEF RecordBallot, OnceInv
  <2>2. tick' = tick \/ tick'.pc = "idle"
    BY <1>6 DEF RecordBallot, Die, Resting
  <2> QED
    BY <2>1, <2>2, OnceKept DEF BeforeVote
<1>7. ASSUME (\E j \in Jurors : DeadlineNears(j)) \/ HardDeadline PROVE OnceInv'
  <2>1. UNCHANGED <<tick, stage, casting, member>>
    BY <1>7 DEF DeadlineNears, HardDeadline, rows
  <2> QED
    BY <2>1, OnceKept DEF OnceInv, BeforeVote, Active
<1>8. ASSUME Restart PROVE OnceInv'
  <2>1. tick'.pc = "idle" /\ casting' = {} /\ UNCHANGED <<stage, member>>
    BY <1>8 DEF Restart, Die, Resting, rows
  <2> QED
    BY <2>1, OnceKept DEF OnceInv, BeforeVote, Active
<1> QED
  BY <1>1, <1>2, <1>3, <1>4, <1>5, <1>6, <1>7, <1>8 DEF StageStep, JurorStep

LEMMA InitOnce == Init => SeatInv /\ OnceInv
<1> SUFFICES ASSUME Init PROVE OnceInv
  BY InitSeats
<1>1. PICK panel \in SUBSET Pool :
        /\ Drawn(panel)
        /\ member = [j \in Jurors |-> IF j \in panel THEN "pending_ready" ELSE "none"]
  BY DEF Init
<1>2. Active = panel
  BY <1>1, PanelAssumption DEF Active, Held
<1>3. Cardinality(Active) <= PanelSize
  BY <1>1, <1>2, PanelAssumption DEF Drawn
<1>4. PanelTypes /\ tick.pc = "idle" /\ casting = {}
  BY InitSeats DEF SeatInv, Init, Resting
<1> QED
  BY <1>3, <1>4 DEF OnceInv

LEMMA StepOnce == SeatInv /\ OnceInv /\ [Next]_vars => SeatInv' /\ OnceInv'
<1> SUFFICES ASSUME SeatInv, OnceInv, [Next]_vars PROVE SeatInv' /\ OnceInv'
  OBVIOUS
<1>1. CASE Next
  <2>1. SeatInv'
    BY <1>1, EngineSeats, OtherSeats DEF Next
  <2>2. PanelTypes'
    BY <2>1 DEF SeatInv
  <2> QED
    BY <1>1, <2>1, <2>2, OnceEngine, OnceOthers DEF Next
<1>2. CASE UNCHANGED vars
  BY <1>2 DEF vars, rows, SeatInv, OnceInv, PanelTypes, Active, BeforeVote
<1> QED BY <1>1, <1>2

\* Up to the vote no more seats are held than the panel has, whoever confirms while its
\* replacement is drawn and wherever the process dies in replaceJuror.
THEOREM NoSeatHeldTwice == Spec => []SeatsHeldOnce
<1>1. OnceInv => SeatsHeldOnce
  BY DEF OnceInv, BeforeVote, SeatsHeldOnce
<1> QED
  BY <1>1, InitOnce, StepOnce, PTL DEF Spec

-----------------------------------------------------------------------------
(* The counts.                                                              *)

(***************************************************************************)
(* Nobody has confirmed before the session, the candidates of a draw in    *)
(* readiness still have no seat when drand answers, and a run of the       *)
(* pipeline began on a full panel of ballots.                              *)
(***************************************************************************)
CountInv ==
  /\ stage \in {"pre_session", "jury_readiness", "addresses", "voting", "closed", "void"}
  /\ stage = "pre_session" => Ready = {}
  /\ tick.pc = "closing" => stage = "voting" /\ Cardinality(ballots) >= PanelSize
  /\ tick.pc = "drand" /\ stage = "jury_readiness" => tick.eligible \cap Active = {}

\* The step as PanelCount sees it.
CountsStep == [Counts!Next]_<<stage, Confirmed, OnFile>>

LEMMA CountsStay ==
  ASSUME stage' = stage, ballots' = ballots, stage = "jury_readiness" => Ready' = Ready
  PROVE  CountsStep
BY DEF CountsStep, Confirmed, OnFile

\* A stage is entered.
LEMMA CountsEnter ==
  ASSUME NEW st, stage' = st, ballots' = ballots, st = "jury_readiness" => Ready' = {},
         \/ stage = "pre_session" /\ st = "jury_readiness"
         \/ stage = "jury_readiness" /\ st = "addresses" /\ Cardinality(Ready) >= PanelSize
         \/ stage = "jury_readiness" /\ st = "void" /\ Cardinality(Ready) < PanelSize
         \/ stage = "addresses" /\ st \in {"voting", "void"}
         \/ stage = "voting" /\ st = "void"
         \/ stage = "voting" /\ st = "closed" /\ Cardinality(ballots) >= PanelSize
  PROVE  CountsStep
<1>1. Confirmed' = 0
  BY FS_EmptySet DEF Confirmed
<1>2. OnFile' = OnFile /\ OnFile = Cardinality(ballots)
  BY DEF OnFile
<1>3. Counts!Enter(st)
  BY <1>1, <1>2 DEF Counts!Enter
<1>4. stage = "jury_readiness" => Confirmed = Cardinality(Ready)
  BY DEF Confirmed
<1>5. CASE st = "jury_readiness"
  BY <1>3, <1>5 DEF CountsStep, Counts!Next, Counts!Start
<1>6. CASE stage = "jury_readiness"
  BY <1>3, <1>4, <1>6 DEF CountsStep, Counts!Next, Counts!Open, Counts!GiveUp
<1>7. CASE stage \in {"addresses", "voting"}
  BY <1>2, <1>3, <1>7 DEF CountsStep, Counts!Next, Counts!Fail, Counts!Vote, Counts!Close
<1> QED
  BY <1>5, <1>6, <1>7

\* A juror confirms, or loses its seat after it has.
LEMMA CountsChange ==
  ASSUME stage = "jury_readiness", stage' = stage, ballots' = ballots,
         \/ \E j \in Jurors \ Ready : Ready' = Ready \cup {j} /\ Cardinality(Ready) < PanelSize
         \/ \E j \in Jurors : Ready' = Ready \ {j}
  PROVE  CountsStep
<1>1. Ready \subseteq Jurors
  BY DEF Ready
<1>2. IsFiniteSet(Ready) /\ Cardinality(Ready) \in Nat
  BY <1>1, FiniteSeats
<1>3. Confirmed = Cardinality(Ready) /\ Confirmed' = Cardinality(Ready') /\ OnFile' = OnFile
  BY DEF Confirmed, OnFile
<1>4. ASSUME NEW j \in Jurors \ Ready, Ready' = Ready \cup {j}, Cardinality(Ready) < PanelSize
      PROVE  CountsStep
  <2>1. Cardinality(Ready') = Cardinality(Ready) + 1
    BY <1>2, <1>4, FS_AddElement
  <2>2. Counts!Confirm
    BY <1>3, <1>4, <2>1 DEF Counts!Confirm, Counts!Count
  <2> QED
    BY <2>2 DEF CountsStep, Counts!Next
<1>5. ASSUME NEW j \in Ready, Ready' = Ready \ {j} PROVE CountsStep
  <2>1. Cardinality(Ready') = Cardinality(Ready) - 1
    BY <1>2, <1>5, FS_RemoveElement
  <2>2. Cardinality(Ready') \in Nat
    BY <1>1, <1>5, FiniteSeats
  <2>3. Counts!Withdraw
    BY <1>2, <1>3, <2>1, <2>2 DEF Counts!Withdraw, Counts!Count
  <2> QED
    BY <2>3 DEF CountsStep, Counts!Next
<1>6. ASSUME NEW j \in Jurors \ Ready, Ready' = Ready \ {j} PROVE CountsStep
  BY <1>6, CountsStay
<1> QED
  BY <1>4, <1>5, <1>6

\* replaceJuror, also when it is cut short, takes at most one confirmation away.
LEMMA CountsSeat ==
  ASSUME PanelTypes, CountInv, tick.pc \in {"running", "drand"}, NEW j \in Jurors,
         NEW c \in Jurors, stage = "jury_readiness" => c \notin Active, NEW writes \in 1 .. 3,
         Seat(j, c, writes), UNCHANGED <<stage, late, ballots>>
  PROVE  CountInv' /\ CountsStep
<1>1. tick'.pc \in {"running", "idle"}
  <2>1. CASE writes = 3
    BY <2>1 DEF Seat, PanelTypes, Ticks
  <2>2. CASE writes # 3
    BY <2>2 DEF Seat, Die, Resting
  <2> QED
    BY <2>1, <2>2
<1>2. Ready' \in {Ready, Ready \ {j}, Ready \ {j, c}}
  BY DEF Seat, Ready, PanelTypes
<1>3. Ready \subseteq Active
  BY DEF Ready, Active, Held
<1>4. stage = "jury_readiness" => Ready' = Ready \/ Ready' = Ready \ {j}
  BY <1>2, <1>3
<1>5. CountsStep
  BY <1>4, CountsStay, CountsChange
<1>6. stage = "pre_session" => Ready' = {}
  BY <1>2 DEF CountInv
<1> QED
  BY <1>1, <1>5, <1>6 DEF CountInv

LEMMA CountsEngine ==
  ASSUME PanelTypes, CountInv, EngineStep
  PROVE  CountInv' /\ CountsStep
<1>1. ASSUME NEW j \in Jurors, NEW writes \in Writes, ReplaceFromProof(j, writes)
      PROVE  CountInv' /\ CountsStep
  <2>1. PICK c \in FromProof : Seat(j, c, writes)
    BY <1>1 DEF ReplaceFromProof
  <2>2. c \in Jurors /\ c \notin Active
    BY PanelAssumption DEF FromProof, First
  <2> QED
    BY <1>1, <2>1, <2>2, CountsSeat, KilledIsBoolean DEF ReplaceFromProof, Alone
<1>2. ASSUME NEW writes \in Writes, ReplaceFromDrand(writes) PROVE CountInv' /\ CountsStep
  <2>1. PICK c \in tick.eligible : Seat(tick.juror, c, writes)
    BY <1>2 DEF ReplaceFromDrand
  <2>2. c \in Jurors /\ tick.juror \in Jurors /\ (stage = "jury_readiness" => c \notin Active)
    BY <1>2 DEF ReplaceFromDrand, PanelTypes, CountInv
  <2>3. tick.pc \in {"running", "drand"} /\ writes \in 1 .. 3 /\ UNCHANGED <<stage, late, ballots>>
    BY <1>2, KilledIsBoolean DEF ReplaceFromDrand
  <2> HIDE DEF CountInv, CountsStep
  <2> QED
    BY <2>1, <2>2, <2>3, CountsSeat, Zenon
<1>3. ASSUME NEW j \in Jurors, AwaitDrand(j) \/ SkipReplacement(j)
      PROVE  CountInv' /\ CountsStep
  <2>1. UNCHANGED <<stage, member, ballots>> /\ tick'.pc \in {"drand", "running"}
        /\ (tick'.pc = "drand" => tick'.eligible = Allowed \ Active)
    BY <1>3 DEF AwaitDrand, SkipReplacement, Alone, Eligible, PanelTypes, Ticks, rows
  <2>2. Ready' = Ready /\ Active' = Active
    BY <2>1 DEF Ready, Active
  <2> QED
    BY <2>1, <2>2, CountsStay DEF CountInv
<1>4. ASSUME BeginReadiness \/ EndVoting \/ DrandThrows PROVE CountInv' /\ CountsStep
  <2>1. UNCHANGED <<stage, member, ballots>> /\ tick'.pc \in {"running", "idle"}
    <3>1. CASE BeginReadiness
      BY <3>1 DEF BeginReadiness, Resting, rows
    <3>2. CASE EndVoting \/ DrandThrows
      BY <3>2 DEF EndVoting, DrandThrows, Resting, rows
    <3> QED
      BY <1>4, <3>1, <3>2
  <2>2. Ready' = Ready
    BY <2>1 DEF Ready
  <2> QED
    BY <2>1, <2>2, CountsStay DEF CountInv
<1>5. ASSUME BeginVoting PROVE CountInv' /\ CountsStep
  <2>1. stage = "voting" /\ tick.pc = "idle" /\ ballots' = ballots
        /\ \/ Cardinality(ballots) >= PanelSize /\ stage' = stage
           \/ stage' = "void" /\ tick' = tick
           \/ tick'.pc = "running" /\ stage' = stage
    BY <1>5 DEF BeginVoting, Resting, Enter
  <2>2. tick'.pc # "drand"
    BY <1>5 DEF BeginVoting, Resting
  <2>3. tick'.pc = "closing" => Cardinality(ballots) >= PanelSize /\ stage' = stage
    BY <2>1
  <2>4. CountsStep
    BY <2>1, CountsStay, CountsEnter
  <2> QED
    BY <2>1, <2>2, <2>3, <2>4 DEF CountInv
<1>6. ASSUME EndReadiness PROVE CountInv' /\ CountsStep
  <2>1. /\ stage = "jury_readiness" /\ tick'.pc = "idle" /\ ballots' = ballots
        /\ Ready' = Ready
        /\ \/ stage' = "addresses" /\ Cardinality(Ready) >= PanelSize
           \/ stage' = "void" /\ ~(Cardinality(Ready) >= PanelSize)
           \/ stage' = stage
    BY <1>6 DEF EndReadiness, Enter, Resting, rows, Ready
  <2>2. Cardinality(Ready) \in Nat
    BY FiniteSeats DEF Ready
  <2>3. CountsStep
    BY <2>1, <2>2, CountsStay, CountsEnter, PanelAssumption
  <2> QED
    BY <2>1, <2>3 DEF CountInv
<1>7. ASSUME Close PROVE CountInv' /\ CountsStep
  <2>1. /\ stage = "voting" /\ Cardinality(ballots) >= PanelSize /\ tick'.pc = "idle"
        /\ ballots' = ballots /\ stage' \in {"closed", "void"}
    BY <1>7 DEF Close, CountInv, Enter, Resting
  <2>2. CountsStep
    BY <2>1, CountsEnter
  <2> QED
    BY <2>1, <2>2 DEF CountInv
<1> QED
  BY <1>1, <1>2, <1>3, <1>4, <1>5, <1>6, <1>7 DEF EngineStep

LEMMA CountsRequests ==
  ASSUME OnceInv, CountInv, JurorStep
  PROVE  CountInv' /\ CountsStep
<1>0. PanelTypes
  BY DEF OnceInv
<1>1. ASSUME NEW j \in Jurors, JurorReady(j) PROVE CountInv' /\ CountsStep
  <2>1. /\ stage = "jury_readiness" /\ j \in Active /\ j \notin Ready
        /\ UNCHANGED <<stage, ballots, tick>>
    BY <1>1 DEF JurorReady, Active, Ready, Held
  <2>2. Ready' = Ready \cup {j} /\ Active' = Active
    BY <1>0, <1>1 DEF JurorReady, Active, Ready, Held, PanelTypes
  <2>3. Ready \subseteq Active \ {j} /\ Active \subseteq Jurors
    BY <2>1 DEF Ready, Active, Held
  <2>4. Cardinality(Active \ {j}) = Cardinality(Active) - 1
    BY <2>1, <2>3, FiniteSeats, FS_RemoveElement
  <2>5. /\ Cardinality(Ready) <= Cardinality(Active \ {j})
        /\ Cardinality(Ready) \in Nat /\ Cardinality(Active) \in Nat
    BY <2>3, FiniteSeats, FS_Subset
  <2>6. Cardinality(Active) <= PanelSize
    BY <2>1 DEF OnceInv, BeforeVote
  <2>7. Cardinality(Ready) < PanelSize
    BY <2>4, <2>5, <2>6, PanelAssumption
  <2>8. CountsStep
    BY <2>1, <2>2, <2>7, CountsChange
  <2> QED
    BY <2>1, <2>2, <2>8 DEF CountInv
<1>2. ASSUME NEW j \in Jurors, BeginBallot(j) PROVE CountInv' /\ CountsStep
  <2>1. UNCHANGED <<stage, member, ballots, tick>>
    BY <1>2 DEF BeginBallot, rows
  <2>2. Ready' = Ready /\ Active' = Active
    BY <2>1 DEF Ready, Active
  <2> QED
    BY <2>1, <2>2, CountsStay DEF CountInv
<1>3. ASSUME NEW j \in Jurors, NEW killed, RecordBallot(j, killed) PROVE CountInv' /\ CountsStep
  <2>1. stage' = stage /\ stage \in {"voting", "closed", "void"} /\ j \in casting
    BY <1>3 DEF RecordBallot, OnceInv, CountInv, BeforeVote
  <2>2. tick' = tick \/ tick'.pc = "idle"
    BY <1>3 DEF RecordBallot, Die, Resting
  <2>3. IsFiniteSet(ballots) /\ Cardinality(ballots) \in Nat
    BY <1>0, FiniteSeats DEF PanelTypes
  <2>4. CASE ballots' = ballots
    BY <2>1, <2>2, <2>4, CountsStay DEF CountInv
  <2>5. CASE ballots' = ballots \cup {j} /\ j \notin ballots
    <3>1. Cardinality(ballots') = Cardinality(ballots) + 1
      BY <2>3, <2>5, FS_AddElement
    <3>2. Counts!Ballot
      BY <2>1, <3>1 DEF Counts!Ballot, OnFile, Confirmed
    <3>3. CountInv'
      BY <2>1, <2>2, <2>3, <3>1, PanelAssumption DEF CountInv
    <3> QED
      BY <3>2, <3>3 DEF CountsStep, Counts!Next
  <2> QED
    BY <1>3, <2>4, <2>5 DEF RecordBallot
<1> QED
  BY <1>1, <1>2, <1>3 DEF JurorStep

LEMMA CountsOthers ==
  ASSUME OnceInv, CountInv,
         StageStep \/ (\E j \in Jurors : DeadlineNears(j)) \/ HardDeadline \/ Restart
  PROVE  CountInv' /\ CountsStep
<1>0. PanelTypes
  BY DEF OnceInv
<1>1. ASSUME NEW killed, StartSession(killed) PROVE CountInv' /\ CountsStep
  <2>1. /\ stage = "pre_session" /\ stage' = "jury_readiness" /\ ballots' = ballots
        /\ tick'.pc = "idle" /\ Ready = {}
    BY <1>1 DEF StartSession, Enter, Die, Resting, CountInv
  <2>2. Ready' = {}
    BY <1>0, <1>1, <2>1 DEF StartSession, Ready, PanelTypes
  <2> QED
    BY <2>1, <2>2, CountsEnter DEF CountInv
<1>2. ASSUME (\E killed \in Killed : OpenVoting(killed)) \/ AddressesFail
      PROVE  CountInv' /\ CountsStep
  <2>1. /\ stage = "addresses" /\ stage' \in {"voting", "void"} /\ ballots' = ballots
        /\ tick'.pc = "idle"
    BY <1>2 DEF OpenVoting, AddressesFail, Enter, Die, Resting
  <2>2. CountsStep
    BY <2>1, CountsEnter
  <2> QED
    BY <2>1, <2>2 DEF CountInv
<1>3. ASSUME (\E j \in Jurors : DeadlineNears(j)) \/ HardDeadline \/ Restart
      PROVE  CountInv' /\ CountsStep
  <2>1. UNCHANGED <<stage, member, ballots>> /\ (tick' = tick \/ tick'.pc = "idle")
    BY <1>3 DEF DeadlineNears, HardDeadline, Restart, Die, Resting, rows
  <2>2. Ready' = Ready /\ Active' = Active
    BY <2>1 DEF Ready, Active
  <2> QED
    BY <2>1, <2>2, CountsStay DEF CountInv
<1> QED
  BY <1>1, <1>2, <1>3 DEF StageStep

\* What a case counts of its jury is what its jurors do (processCase's counts of
\* jury_panel_members and ballots), for any panel, pool and allowlist, whichever juror
\* confirms or votes while its replacement is drawn and wherever the process dies.
THEOREM PanelCounts == Spec => ImplementsPanelCount
<1>1. Init => CountInv /\ Counts!Init
  <2> SUFFICES ASSUME Init PROVE CountInv /\ Counts!Init
    OBVIOUS
  <2>1. Ready = {}
    BY DEF Init, Ready
  <2>2. OnFile = 0
    BY FS_EmptySet DEF Init, OnFile
  <2> QED
    BY <2>1, <2>2 DEF Init, CountInv, Counts!Init, Confirmed, Resting
<1>2. OnceInv /\ CountInv /\ [Next]_vars => CountInv' /\ CountsStep
  <2> SUFFICES ASSUME OnceInv, CountInv, [Next]_vars PROVE CountInv' /\ CountsStep
    OBVIOUS
  <2>1. CASE UNCHANGED vars
    <3>1. UNCHANGED <<stage, member, ballots, tick>>
      BY <2>1 DEF vars, rows
    <3>2. Ready' = Ready /\ Active' = Active
      BY <3>1 DEF Ready, Active
    <3> QED
      BY <3>1, <3>2, CountsStay DEF CountInv
  <2>2. PanelTypes
    BY DEF OnceInv
  <2> QED
    BY <2>1, <2>2, CountsEngine, CountsRequests, CountsOthers DEF Next
<1> QED
  BY <1>1, <1>2, InitOnce, StepOnce, PTL DEF Spec, CountsStep, ImplementsPanelCount, Counts!Spec

=============================================================================
