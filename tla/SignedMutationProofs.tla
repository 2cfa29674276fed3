------------------------ MODULE SignedMutationProofs ------------------------
(***************************************************************************)
(* Proofs about SignedMutation: what a key and a signature promise, and    *)
(* how far the limits are exceeded, for any requests, payloads, keys,      *)
(* limits, deaths and expiries.                                            *)
(***************************************************************************)
EXTENDS SignedMutationProps, FiniteSetTheorems, TLAPS

\* A keyed handler that runs is the one its key's record was claimed for.
HolderInv ==
  \A r \in Requests : Running(r) /\ key[r] # NoKey =>
    /\ records[key[r]].status = "in_progress" /\ records[key[r]].by = {r}
    /\ records[key[r]].payload = {sig[r].payload}
    /\ life[r] = purged[key[r]]

\* A row precedes the answer.
WrittenInv == \A r \in Requests : pc[r] = "written" => r \in evidence

\* An answered request left its row and its signature; its key's record holds its answer,
\* or has expired since.
AnsweredInv ==
  \A r \in Requests : pc[r] = "answered" =>
    /\ sig[r] \in log /\ r \in evidence
    /\ key[r] # NoKey =>
         \/ life[r] < purged[key[r]]
         \/ /\ life[r] = purged[key[r]]
            /\ records[key[r]].status = "complete" /\ records[key[r]].by = {r}

\* A completed record holds the answer of an answered request of its key and payload.
CompleteInv ==
  \A k \in Keys : records[k].status = "complete" =>
    \E a \in Requests :
      /\ records[k].by = {a} /\ pc[a] = "answered" /\ key[a] = k
      /\ records[k].payload = {sig[a].payload}

(***************************************************************************)
(* The properties speak of answered requests only; what makes them         *)
(* inductive is who holds a record while it is in progress, and whose      *)
(* answer it keeps once complete: the release and the completion do not    *)
(* look at the holder.                                                     *)
(***************************************************************************)
MutInv ==
  /\ TypeOK
  /\ HolderInv /\ WrittenInv /\ AnsweredInv /\ CompleteInv
  /\ AnsweredOncePerKey /\ AnsweredOncePerSignature /\ ReplayFaithful

\* The initial states satisfy the invariant.
LEMMA MutInvInit == Init => MutInv
<1> SUFFICES ASSUME Init PROVE MutInv
  OBVIOUS
<1> USE DEF Init, NoRecord
<1>1. TypeOK
  BY MutationAssumption DEF TypeOK
<1>2. HolderInv /\ WrittenInv /\ AnsweredInv
  BY DEF HolderInv, WrittenInv, AnsweredInv, Running
<1>3. CompleteInv
  BY DEF CompleteInv
<1>4. AnsweredOncePerKey /\ AnsweredOncePerSignature /\ ReplayFaithful
  BY DEF AnsweredOncePerKey, AnsweredOncePerSignature, ReplayFaithful
<1> QED
  BY <1>1, <1>2, <1>3, <1>4 DEF MutInv

\* A step that moves one request, which was not answered, to a place where it neither runs
\* nor is answered nor replayed, and leaves the tables alone, keeps the invariant.
LEMMA MutInvRetire ==
  ASSUME MutInv, NEW r \in Requests, NEW w,
         w \in {"verifying", "verified", "refused"},
         pc[r] \in {"idle", "verifying", "verified"},
         Goto(r, w), UNCHANGED <<message, answer, tables, history, restarts>>
  PROVE  MutInv'
<1> USE DEF MutInv, Goto, message, tables, history
<1>1. TypeOK'
  BY DEF TypeOK
<1>2. HolderInv' /\ WrittenInv'
  BY DEF TypeOK, HolderInv, WrittenInv, Running
<1>3. AnsweredInv'
  BY DEF TypeOK, AnsweredInv
<1>4. CompleteInv'
  BY DEF TypeOK, CompleteInv
<1>5. AnsweredOncePerKey' /\ AnsweredOncePerSignature'
  BY DEF TypeOK, AnsweredOncePerKey, AnsweredOncePerSignature
<1>6. ReplayFaithful'
  BY DEF TypeOK, ReplayFaithful
<1> QED
  BY <1>1, <1>2, <1>3, <1>4, <1>5, <1>6

\* Starting a handler keeps the invariant: no other request runs for its key, because the
\* key has no record.
LEMMA MutInvStart ==
  ASSUME MutInv, NEW r \in Requests, StartHandler(r)
  PROVE  MutInv'
<1> USE DEF MutInv, StartHandler, Goto, message
<1>1. TypeOK'
  <2>1. Cardinality(Runners) \in Nat /\ peak' \in Nat
    <3>1. IsFiniteSet(Runners)
      BY FS_Subset, MutationAssumption DEF Runners
    <3> QED
      BY <3>1, FS_CardinalityType DEF TypeOK
  <2> QED
    BY <2>1 DEF TypeOK, Signatures
<1>2. \A q \in Requests : Running(q) /\ key[q] = key[r] => key[r] = NoKey
  BY DEF HolderInv, Claimable, RecordOf
<1>3. HolderInv' /\ WrittenInv'
  BY <1>2 DEF TypeOK, HolderInv, WrittenInv, Running
<1>4. AnsweredInv'
  BY DEF TypeOK, AnsweredInv, Claimable, RecordOf
<1>5. CompleteInv'
  <2> SUFFICES ASSUME NEW k \in Keys, records'[k].status = "complete"
               PROVE  \E a \in Requests :
                        /\ records'[k].by = {a} /\ pc'[a] = "answered" /\ key[a] = k
                        /\ records'[k].payload = {sig[a].payload}
    BY DEF CompleteInv
  <2>1. records'[k] = records[k]
    BY DEF TypeOK
  <2> QED
    BY <2>1 DEF TypeOK, CompleteInv
<1>6. AnsweredOncePerKey' /\ AnsweredOncePerSignature'
  BY DEF TypeOK, AnsweredOncePerKey, AnsweredOncePerSignature
<1>7. ReplayFaithful'
  BY DEF TypeOK, ReplayFaithful
<1> QED
  BY <1>1, <1>3, <1>4, <1>5, <1>6, <1>7

\* A replay gives the answer the record holds, which CompleteInv traces to its request.
LEMMA MutInvReplay ==
  ASSUME MutInv, NEW r \in Requests, Replay(r)
  PROVE  MutInv'
<1> USE DEF MutInv, Replay, Goto, message, tables, history
<1>1. key[r] \in Keys /\ RecordOf(r) = records[key[r]] /\ records[key[r]].status = "complete"
  BY DEF TypeOK, RecordOf, NoRecord
<1>2. TypeOK'
  BY <1>1 DEF TypeOK
<1>3. HolderInv' /\ WrittenInv' /\ AnsweredInv'
  BY DEF TypeOK, HolderInv, WrittenInv, AnsweredInv, Running
<1>4. CompleteInv'
  BY DEF TypeOK, CompleteInv
<1>5. AnsweredOncePerKey' /\ AnsweredOncePerSignature'
  BY DEF TypeOK, AnsweredOncePerKey, AnsweredOncePerSignature
<1>6. ReplayFaithful'
  <2>1. PICK a \in Requests :
          /\ records[key[r]].by = {a} /\ pc[a] = "answered" /\ key[a] = key[r]
          /\ records[key[r]].payload = {sig[a].payload}
    BY <1>1 DEF CompleteInv
  <2>2. a \in evidence /\ sig[a] \in log /\ sig[a].payload = sig[r].payload
    BY <1>1, <2>1 DEF AnsweredInv, SamePayload
  <2>3. a # r /\ answer'[r] = {a}
    BY <1>1, <2>1 DEF TypeOK
  <2> QED
    BY <2>1, <2>2, <2>3 DEF TypeOK, ReplayFaithful
<1> QED
  BY <1>2, <1>3, <1>4, <1>5, <1>6

\* Inserting the row keeps the invariant.
LEMMA MutInvWrite ==
  ASSUME MutInv, NEW r \in Requests, Write(r)
  PROVE  MutInv'
<1> USE DEF MutInv, Write, Goto, message, history
<1>1. TypeOK'
  BY DEF TypeOK
<1>2. HolderInv' /\ WrittenInv' /\ AnsweredInv'
  BY DEF TypeOK, HolderInv, WrittenInv, AnsweredInv, Running
<1>3. CompleteInv'
  BY DEF TypeOK, CompleteInv
<1>4. AnsweredOncePerKey' /\ AnsweredOncePerSignature'
  BY DEF TypeOK, AnsweredOncePerKey, AnsweredOncePerSignature
<1>5. ReplayFaithful'
  BY DEF TypeOK, ReplayFaithful
<1> QED
  BY <1>1, <1>2, <1>3, <1>4, <1>5

\* An error that ends a running handler, with its claim released, keeps the invariant: the
\* claim is its own.
LEMMA MutInvRelease ==
  ASSUME MutInv, NEW r \in Requests, NEW w, w \in {"errored", "refused"},
         Running(r), Goto(r, w), records' = Release(r),
         UNCHANGED <<message, answer, log, evidence, history, restarts>>
  PROVE  MutInv'
<1> USE DEF MutInv, Goto, message, history
<1>1. ASSUME key[r] # NoKey
      PROVE  records' = [records EXCEPT ![key[r]] = NoRecord]
  BY <1>1 DEF HolderInv, Release, RecordOf
<1>2. ASSUME key[r] = NoKey
      PROVE  records' = records
  BY <1>2 DEF Release, RecordOf, NoRecord
<1>3. TypeOK'
  BY <1>1, <1>2 DEF TypeOK, NoRecord
<1>4. \A q \in Requests : Running(q) /\ key[q] = key[r] /\ key[r] # NoKey => q = r
  BY DEF HolderInv
<1>5. HolderInv' /\ WrittenInv'
  BY <1>1, <1>2, <1>4 DEF TypeOK, HolderInv, WrittenInv, Running
<1>6. AnsweredInv'
  BY <1>1, <1>2 DEF TypeOK, AnsweredInv, HolderInv, Running
<1>7. CompleteInv'
  <2> SUFFICES ASSUME NEW k \in Keys, records'[k].status = "complete"
               PROVE  \E a \in Requests :
                        /\ records'[k].by = {a} /\ pc'[a] = "answered" /\ key[a] = k
                        /\ records'[k].payload = {sig[a].payload}
    BY DEF CompleteInv
  <2>1. records'[k] = records[k]
    BY <1>1, <1>2 DEF TypeOK, NoRecord
  <2>2. PICK a \in Requests :
          /\ records[k].by = {a} /\ pc[a] = "answered" /\ key[a] = k
          /\ records[k].payload = {sig[a].payload}
    BY <2>1 DEF CompleteInv
  <2>3. pc'[a] = "answered"
    BY <2>2 DEF TypeOK, Running
  <2> QED
    BY <2>1, <2>2, <2>3
<1>8. AnsweredOncePerKey' /\ AnsweredOncePerSignature'
  BY DEF TypeOK, AnsweredOncePerKey, AnsweredOncePerSignature
<1>9. ReplayFaithful'
  BY DEF TypeOK, ReplayFaithful, Running
<1> QED
  BY <1>3, <1>5, <1>6, <1>7, <1>8, <1>9

\* The two writes that end a request keep the invariant: its record is still its own, and
\* no earlier answer of the key is in this record.
LEMMA MutInvFinish ==
  ASSUME MutInv, NEW r \in Requests, Finish(r)
  PROVE  MutInv'
<1> USE DEF MutInv, Finish, Goto, message, history, Recordable
<1>1. Running(r) /\ r \in evidence
  BY DEF Running, WrittenInv
<1>2. ASSUME key[r] # NoKey
      PROVE  /\ records[key[r]].status = "in_progress" /\ records[key[r]].by = {r}
             /\ records[key[r]].payload = {sig[r].payload} /\ life[r] = purged[key[r]]
             /\ key[r] \in Keys
             /\ records' = [records EXCEPT ![key[r]].status = "complete", ![key[r]].by = {r}]
  BY <1>1, <1>2 DEF TypeOK, HolderInv, Completed, RecordOf
<1>3. ASSUME key[r] = NoKey
      PROVE  records' = records
  BY <1>3 DEF Completed, RecordOf, NoRecord
<1>4. pc' = [pc EXCEPT ![r] = "answered"] /\ answer' = [answer EXCEPT ![r] = {r}]
  BY <1>2 DEF RecordOf
<1>5. \A k \in Keys : k # key[r] => records'[k] = records[k]
  BY <1>2, <1>3 DEF TypeOK
<1>6. ASSUME key[r] # NoKey
      PROVE  /\ records'[key[r]].status = "complete" /\ records'[key[r]].by = {r}
             /\ records'[key[r]].payload = {sig[r].payload}
             /\ records'[key[r]] \in [status : {"none", "in_progress", "complete"},
                                      payload : SUBSET Payloads, by : SUBSET Requests]
             /\ DOMAIN records' = Keys /\ records' = [k \in Keys |-> records'[k]]
  <2> DEFINE old == records[key[r]]
             new == [old EXCEPT !.status = "complete", !.by = {r}]
  <2>1. old \in [status : {"none", "in_progress", "complete"},
                 payload : SUBSET Payloads, by : SUBSET Requests]
    BY <1>2, <1>6 DEF TypeOK
  <2>2. records'[key[r]] = new /\ DOMAIN records' = Keys
    BY <1>2, <1>6 DEF TypeOK
  <2>3. /\ new.status = "complete" /\ new.by = {r} /\ new.payload = old.payload
        /\ new \in [status : {"none", "in_progress", "complete"},
                     payload : SUBSET Payloads, by : SUBSET Requests]
    BY <2>1
  <2>4. records' = [k \in Keys |-> records'[k]]
    BY <1>2, <1>6 DEF TypeOK
  <2> QED
    BY <1>2, <1>6, <2>2, <2>3, <2>4
<1>7. TypeOK'
  <2>1. records' \in [Keys -> [status : {"none", "in_progress", "complete"},
                               payload : SUBSET Payloads, by : SUBSET Requests]]
    BY <1>3, <1>5, <1>6 DEF TypeOK
  <2> QED
    BY <1>4, <2>1 DEF TypeOK
<1>8. \A q \in Requests : Running(q) /\ key[q] = key[r] /\ key[r] # NoKey => q = r
  BY <1>2 DEF HolderInv
<1>9. HolderInv' /\ WrittenInv'
  BY <1>4, <1>5, <1>8 DEF TypeOK, HolderInv, WrittenInv, Running
<1>10. AnsweredInv'
  BY <1>1, <1>2, <1>4, <1>5, <1>6 DEF TypeOK, AnsweredInv
<1>11. CompleteInv'
  <2> SUFFICES ASSUME NEW k \in Keys, records'[k].status = "complete"
               PROVE  \E a \in Requests :
                        /\ records'[k].by = {a} /\ pc'[a] = "answered" /\ key[a] = k
                        /\ records'[k].payload = {sig[a].payload}
    BY DEF CompleteInv
  <2>1. CASE k = key[r]
    BY <1>2, <1>4, <1>6, <2>1, MutationAssumption DEF TypeOK
  <2>2. CASE k # key[r]
    <3>1. PICK a \in Requests :
            /\ records[k].by = {a} /\ pc[a] = "answered" /\ key[a] = k
            /\ records[k].payload = {sig[a].payload}
      BY <1>5, <2>2 DEF CompleteInv
    <3> QED
      BY <1>4, <1>5, <2>2, <3>1 DEF TypeOK
  <2> QED
    BY <2>1, <2>2
<1>12. AnsweredOncePerKey'
  <2>1. \A q \in Requests : pc[q] = "answered" /\ key[q] = key[r] /\ key[r] # NoKey
                            => life[q] < purged[key[r]]
    BY <1>2 DEF AnsweredInv
  <2>2. \A q \in Requests : pc[q] = "answered" /\ key[q] = key[r] /\ key[r] # NoKey
                            => life[q] # life[r]
    BY <1>2, <2>1 DEF TypeOK
  <2> QED
    BY <1>4, <2>2 DEF TypeOK, AnsweredOncePerKey
<1>13. AnsweredOncePerSignature'
  BY <1>4 DEF TypeOK, AnsweredOncePerSignature, AnsweredInv
<1>14. ReplayFaithful'
  BY <1>4 DEF TypeOK, ReplayFaithful
<1> QED
  BY <1>7, <1>9, <1>10, <1>11, <1>12, <1>13, <1>14

\* An expiry keeps the invariant: the record has no live holder.
LEMMA MutInvExpire ==
  ASSUME MutInv, NEW k \in Keys, Expire(k)
  PROVE  MutInv'
<1> USE DEF MutInv, Expire, message
<1>1. \A r \in Requests : Running(r) => key[r] # k
  BY MutationAssumption DEF HolderInv, Runners
<1>2. /\ \A j \in Keys : j # k => purged'[j] = purged[j] /\ records'[j] = records[j]
      /\ purged'[k] \in Nat /\ records'[k] = NoRecord
      /\ purged'[k] = IF records[k].status = "complete" THEN purged[k] + 1 ELSE purged[k]
  BY DEF TypeOK
<1>3. TypeOK'
  BY <1>2 DEF TypeOK, NoRecord
<1>4. HolderInv' /\ WrittenInv'
  BY <1>1, <1>2 DEF TypeOK, HolderInv, WrittenInv, Running
<1>5. AnsweredInv'
  <2> SUFFICES ASSUME NEW r \in Requests, pc[r] = "answered", key[r] = k
               PROVE  life[r] < purged'[k]
    BY <1>2, MutationAssumption DEF TypeOK, AnsweredInv
  <2>1. CASE life[r] < purged[k]
    BY <1>2, <2>1 DEF TypeOK
  <2>2. CASE life[r] = purged[k] /\ records[k].status = "complete"
    BY <1>2, <2>2 DEF TypeOK
  <2> QED
    BY <2>1, <2>2, MutationAssumption DEF TypeOK, AnsweredInv
<1>6. CompleteInv'
  <2> SUFFICES ASSUME NEW j \in Keys, records'[j].status = "complete"
               PROVE  \E a \in Requests :
                        /\ records'[j].by = {a} /\ pc[a] = "answered" /\ key[a] = j
                        /\ records'[j].payload = {sig[a].payload}
    BY DEF CompleteInv
  <2>1. j # k
    BY <1>2 DEF NoRecord
  <2> QED
    BY <1>2, <2>1 DEF CompleteInv
<1>7. AnsweredOncePerKey' /\ AnsweredOncePerSignature' /\ ReplayFaithful'
  BY DEF TypeOK, AnsweredOncePerKey, AnsweredOncePerSignature, ReplayFaithful
<1> QED
  BY <1>3, <1>4, <1>5, <1>6, <1>7

\* A death keeps the invariant: claims stay without a holder, answers stay.
LEMMA MutInvKill ==
  ASSUME MutInv, Kill
  PROVE  MutInv'
<1> USE DEF MutInv, Kill, message, history
<1>1. log \subseteq log' /\ log' \subseteq Signatures
  BY DEF TypeOK
<1>2. TypeOK'
  BY <1>1 DEF TypeOK
<1>3. \A r \in Requests : /\ pc'[r] = "answered" <=> pc[r] = "answered"
                          /\ pc'[r] = "replayed" <=> pc[r] = "replayed"
                          /\ pc'[r] # "hashing" /\ pc'[r] # "written"
  BY DEF TypeOK, InFlight, Running
<1>4. HolderInv' /\ WrittenInv'
  BY <1>3 DEF HolderInv, WrittenInv, Running
<1>5. AnsweredInv'
  BY <1>1, <1>3 DEF AnsweredInv
<1>6. CompleteInv'
  BY <1>3 DEF CompleteInv
<1>7. AnsweredOncePerKey' /\ AnsweredOncePerSignature'
  BY <1>3 DEF AnsweredOncePerKey, AnsweredOncePerSignature
<1>8. ReplayFaithful'
  BY <1>1, <1>3 DEF ReplayFaithful
<1> QED
  BY <1>2, <1>4, <1>5, <1>6, <1>7, <1>8

\* Every step keeps the invariant.
LEMMA MutInvNext == MutInv /\ [Next]_vars => MutInv'
<1> SUFFICES ASSUME MutInv, [Next]_vars PROVE MutInv'
  OBVIOUS
<1>1. ASSUME NEW r \in Requests, Arrive(r) PROVE MutInv'
  BY <1>1, MutInvRetire DEF Arrive
<1>2. ASSUME NEW r \in Requests, CheckSignature(r) PROVE MutInv'
  BY <1>2, MutInvRetire DEF CheckSignature
<1>3. ASSUME NEW r \in Requests, StartHandler(r) PROVE MutInv'
  BY <1>3, MutInvStart
<1>4. ASSUME NEW r \in Requests, HandlerRefuses(r) PROVE MutInv'
  BY <1>4, MutInvRetire DEF HandlerRefuses
<1>5. ASSUME NEW r \in Requests, ClaimConflicts(r) PROVE MutInv'
  BY <1>5, MutInvRetire DEF ClaimConflicts
<1>6. ASSUME NEW r \in Requests, Replay(r) PROVE MutInv'
  BY <1>6, MutInvReplay
<1>7. ASSUME NEW r \in Requests, Write(r) PROVE MutInv'
  BY <1>7, MutInvWrite
<1>8. ASSUME NEW r \in Requests, Throw(r) PROVE MutInv'
  BY <1>8, MutInvRelease DEF Throw
<1>9. ASSUME NEW r \in Requests, Finish(r) PROVE MutInv'
  BY <1>9, MutInvFinish
<1>10. ASSUME NEW r \in Requests, FinishReplayed(r) PROVE MutInv'
  BY <1>10, MutInvRelease DEF FinishReplayed, Running
<1>11. ASSUME NEW k \in Keys, Expire(k) PROVE MutInv'
  BY <1>11, MutInvExpire
<1>12. CASE Kill
  BY <1>12, MutInvKill
<1>13. CASE UNCHANGED vars
  <2> USE <1>13 DEF MutInv, vars, message, tables, history
  <2>1. TypeOK' /\ HolderInv' /\ WrittenInv'
    BY DEF TypeOK, HolderInv, WrittenInv, Running
  <2>2. AnsweredInv' /\ CompleteInv'
    BY DEF AnsweredInv, CompleteInv
  <2>3. AnsweredOncePerKey' /\ AnsweredOncePerSignature' /\ ReplayFaithful'
    BY DEF AnsweredOncePerKey, AnsweredOncePerSignature, ReplayFaithful
  <2> QED
    BY <2>1, <2>2, <2>3
<1> QED
  BY <1>1, <1>2, <1>3, <1>4, <1>5, <1>6, <1>7, <1>8, <1>9, <1>10, <1>11, <1>12, <1>13
     DEF Next, Proceed

\* The invariant holds of the specification.
LEMMA MutInvHolds == Spec => []MutInv
<1> QED
  BY MutInvInit, MutInvNext, PTL DEF Spec

-----------------------------------------------------------------------------
(* The theorems                                                             *)

\* Every variable keeps its type, for any requests, keys and limits.
THEOREM MutationTypes == Spec => []TypeOK
<1>1. MutInv => TypeOK
  BY DEF MutInv
<1> QED
  BY <1>1, MutInvHolds, PTL

\* A claim keeps other requests of its key out of the handler.
THEOREM RunnersExclusive == Spec => []OneRunnerPerKey
<1>1. MutInv => OneRunnerPerKey
  BY DEF MutInv, HolderInv, OneRunnerPerKey
<1> QED
  BY <1>1, MutInvHolds, PTL

\* Until its record expires, one run of the handler answers a key.
THEOREM KeyAnsweredOnce == Spec => []AnsweredOncePerKey
<1>1. MutInv => AnsweredOncePerKey
  BY DEF MutInv
<1> QED
  BY <1>1, MutInvHolds, PTL

\* One copy of a signed message is answered.
THEOREM SignatureAnsweredOnce == Spec => []AnsweredOncePerSignature
<1>1. MutInv => AnsweredOncePerSignature
  BY DEF MutInv
<1> QED
  BY <1>1, MutInvHolds, PTL

\* A replayed response is that of an answered run for the same key and payload.
THEOREM ReplaysFaithful == Spec => []ReplayFaithful
<1>1. MutInv => ReplayFaithful
  BY DEF MutInv
<1> QED
  BY <1>1, MutInvHolds, PTL

-----------------------------------------------------------------------------
(* The limits                                                               *)

Hashing == {r \in Requests : pc[r] = "hashing"}

(***************************************************************************)
(* A handler counted against a limit owns a place from its check on: the   *)
(* rows plus the handlers yet to insert theirs, and the log plus the       *)
(* handlers yet to be recorded, were below limit + peak when the last      *)
(* handler started, and do not grow until the next one starts.             *)
(***************************************************************************)
CountInv ==
  /\ IsFiniteSet(log)
  /\ Cardinality(Runners) <= peak
  /\ peak > 0 =>
       /\ Cardinality(evidence \cup Hashing) < ItemLimit + peak
       /\ Cardinality(log) + Cardinality(Runners) < RateLimit + peak

\* Sets of requests are finite.
LEMMA FiniteRequests ==
  ASSUME NEW S, S \subseteq Requests
  PROVE  IsFiniteSet(S) /\ Cardinality(S) \in Nat
<1> QED
  BY FS_Subset, FS_CardinalityType, MutationAssumption

\* Counting is monotone on requests.
LEMMA FewerRequests ==
  ASSUME NEW S, NEW T, T \subseteq Requests, S \subseteq T
  PROVE  Cardinality(S) <= Cardinality(T)
<1> QED
  BY FiniteRequests, FS_Subset

\* A step that starts no handler, inserts no row beyond those of running handlers and
\* records nothing keeps the count.
LEMMA CountKept ==
  ASSUME MutInv, MutInv', CountInv, UNCHANGED <<log, peak>>,
         Runners' \subseteq Runners, (evidence \cup Hashing)' \subseteq evidence \cup Hashing
  PROVE  CountInv'
<1>1. evidence \cup Hashing \subseteq Requests /\ Runners \subseteq Requests
  BY DEF MutInv, TypeOK, Hashing, Runners
<1>2. /\ Cardinality(Runners') <= Cardinality(Runners)
      /\ Cardinality((evidence \cup Hashing)') <= Cardinality(evidence \cup Hashing)
  BY <1>1, FewerRequests
<1>3. /\ Cardinality(Runners') \in Nat /\ Cardinality(Runners) \in Nat
      /\ Cardinality((evidence \cup Hashing)') \in Nat
      /\ Cardinality(evidence \cup Hashing) \in Nat
      /\ Cardinality(log) \in Nat /\ peak \in Nat
  <2>1. Runners' \subseteq Requests /\ (evidence \cup Hashing)' \subseteq Requests
    BY <1>1
  <2> QED
    BY <1>1, <2>1, FiniteRequests, FS_CardinalityType DEF CountInv, MutInv, TypeOK
<1> QED
  BY <1>2, <1>3, MutationAssumption DEF CountInv

\* Starting a handler is where a place is taken: the counts were below the limits.
LEMMA CountStart ==
  ASSUME MutInv, CountInv, NEW r \in Requests, StartHandler(r)
  PROVE  CountInv'
<1> USE DEF StartHandler, Goto
<1>1. /\ evidence \subseteq Requests /\ Runners \subseteq Requests
      /\ peak \in Nat /\ pc' = [pc EXCEPT ![r] = "hashing"] /\ pc \in [Requests -> {"idle", "verifying",
           "verified", "hashing", "written", "answered", "replayed", "refused", "errored", "lost"}]
  BY DEF MutInv, TypeOK, Runners
<1>2. Runners' = Runners \cup {r} /\ r \notin Runners
  BY <1>1 DEF Runners, Running
<1>3. Hashing' \subseteq Runners' /\ evidence' = evidence /\ log' = log
  BY DEF Hashing, Runners, Running
<1>4. Cardinality(Runners') = Cardinality(Runners) + 1
  BY <1>1, <1>2, FiniteRequests, FS_AddElement
<1>5. peak' \in Nat /\ peak' > 0 /\ Cardinality(Runners') <= peak'
  BY <1>1, <1>4, FiniteRequests DEF CountInv
<1>6. Cardinality((evidence \cup Hashing)') <= Cardinality(evidence) + Cardinality(Runners')
  <2>1. (evidence \cup Hashing)' \subseteq evidence \cup Runners' /\ Runners' \subseteq Requests
    BY <1>1, <1>2, <1>3
  <2>2. Cardinality((evidence \cup Hashing)') <= Cardinality(evidence \cup Runners')
    BY <1>1, <2>1, FewerRequests
  <2>3. /\ IsFiniteSet(evidence) /\ IsFiniteSet(Runners') /\ IsFiniteSet(evidence \cap Runners')
        /\ Cardinality(evidence \cap Runners') \in Nat /\ Cardinality(evidence) \in Nat
        /\ Cardinality(Runners') \in Nat /\ Cardinality(evidence \cup Runners') \in Nat
        /\ Cardinality((evidence \cup Hashing)') \in Nat
    BY <1>1, <2>1, FiniteRequests
  <2>4. Cardinality(evidence \cup Runners')
        = Cardinality(evidence) + Cardinality(Runners') - Cardinality(evidence \cap Runners')
    BY <2>3, FS_Union
  <2> QED
    BY <2>2, <2>3, <2>4
<1>7. Cardinality(log) < RateLimit /\ Cardinality(evidence) < ItemLimit
  BY DEF RoomForEvidence
<1>8. /\ Cardinality(log) \in Nat /\ Cardinality(evidence) \in Nat
      /\ Cardinality(Runners') \in Nat /\ Cardinality((evidence \cup Hashing)') \in Nat
  <2>1. Runners' \subseteq Requests /\ (evidence \cup Hashing)' \subseteq Requests
    BY <1>1, <1>2, <1>3
  <2> QED
    BY <1>1, <2>1, FiniteRequests, FS_CardinalityType DEF CountInv
<1> QED
  BY <1>3, <1>5, <1>6, <1>7, <1>8, MutationAssumption DEF CountInv

\* Recording a signature gives up the handler's own place.
LEMMA CountFinish ==
  ASSUME MutInv, CountInv, NEW r \in Requests, Finish(r)
  PROVE  CountInv'
<1> USE DEF Finish, Goto, history
<1>1. /\ evidence \subseteq Requests /\ Runners \subseteq Requests /\ peak \in Nat
      /\ r \in Runners /\ Runners' = Runners \ {r} /\ Hashing' \subseteq Hashing
      /\ evidence' = evidence
  BY DEF MutInv, TypeOK, Runners, Running, Hashing
<1>2. Cardinality(Runners') = Cardinality(Runners) - 1 /\ Cardinality(Runners) \in Nat
      /\ Cardinality(Runners') \in Nat
  <2>1. IsFiniteSet(Runners) /\ Cardinality(Runners) \in Nat
    BY <1>1, FiniteRequests
  <2>2. Cardinality(Runners \ {r}) = Cardinality(Runners) - 1
    BY <1>1, <2>1, FS_RemoveElement
  <2>3. Cardinality(Runners \ {r}) \in Nat
    BY <1>1, FiniteRequests
  <2> QED
    BY <1>1, <2>1, <2>2, <2>3
<1>3. IsFiniteSet(log') /\ Cardinality(log') = Cardinality(log) + 1 /\ Cardinality(log) \in Nat
  <2>1. IsFiniteSet(log) /\ log' = log \cup {sig[r]} /\ sig[r] \notin log
    BY DEF CountInv, Recordable
  <2> QED
    BY <2>1, FS_AddElement, FS_CardinalityType
<1>4. Cardinality((evidence \cup Hashing)') <= Cardinality(evidence \cup Hashing)
      /\ Cardinality((evidence \cup Hashing)') \in Nat /\ Cardinality(evidence \cup Hashing) \in Nat
  <2>1. (evidence \cup Hashing)' \subseteq evidence \cup Hashing
        /\ evidence \cup Hashing \subseteq Requests
    BY <1>1 DEF Hashing
  <2> QED
    BY <2>1, FewerRequests, FiniteRequests
<1> QED
  BY <1>1, <1>2, <1>3, <1>4, MutationAssumption DEF CountInv

\* A death records one signature at most, that of a handler that was running.
LEMMA CountKill ==
  ASSUME MutInv, CountInv, Kill
  PROVE  CountInv'
<1> USE DEF Kill, history
<1>1. /\ evidence \subseteq Requests /\ Runners \subseteq Requests /\ peak \in Nat /\ peak' = peak
      /\ Runners' = {} /\ Hashing' = {} /\ evidence' = evidence
  BY DEF MutInv, TypeOK, Runners, Running, Hashing, InFlight
<1>2. Cardinality(Runners') = 0
  BY <1>1, FS_EmptySet
<1>3. Cardinality((evidence \cup Hashing)') <= Cardinality(evidence \cup Hashing)
      /\ Cardinality((evidence \cup Hashing)') \in Nat /\ Cardinality(evidence \cup Hashing) \in Nat
  <2>1. (evidence \cup Hashing)' \subseteq evidence \cup Hashing
        /\ evidence \cup Hashing \subseteq Requests
    BY <1>1 DEF Hashing
  <2> QED
    BY <2>1, FewerRequests, FiniteRequests
<1>4. IsFiniteSet(log') /\ Cardinality(log') \in Nat
      /\ Cardinality(log') <= Cardinality(log) + Cardinality(Runners)
      /\ Cardinality(log) \in Nat /\ Cardinality(Runners) \in Nat
  <2>1. IsFiniteSet(log) /\ Cardinality(log) \in Nat
    BY FS_CardinalityType DEF CountInv
  <2>2. Cardinality(Runners) \in Nat /\ IsFiniteSet(Runners)
    BY <1>1, FiniteRequests
  <2>3. CASE log' = log
    <3> HIDE DEF Kill
    <3>1. IsFiniteSet(log') /\ Cardinality(log') = Cardinality(log)
      BY <2>1, <2>3
    <3> QED
      BY <2>1, <2>2, <3>1
  <2>4. CASE \E r \in Runners : log' = log \cup {sig[r]} /\ sig[r] \notin log
    <3>1. PICK r \in Runners : log' = log \cup {sig[r]} /\ sig[r] \notin log
      BY <2>4
    <3>2. IsFiniteSet(log') /\ Cardinality(log') = Cardinality(log) + 1
      BY <2>1, <3>1, FS_AddElement
    <3>3. Cardinality(Runners) # 0
      BY <2>2, <3>1, FS_EmptySet
    <3> QED
      BY <2>1, <2>2, <3>2, <3>3
  <2>5. log' = log \/ \E r \in Runners : log' = log \cup {sig[r]} /\ sig[r] \notin log
    <3>1. PICK torn \in {{}} \cup {{r} : r \in {q \in Requests : pc[q] = "written" /\ Recordable(q)}} :
            log' = log \cup {sig[r] : r \in torn}
      OBVIOUS
    <3>2. CASE torn = {}
      BY <3>1, <3>2
    <3>3. CASE \E r \in Requests : torn = {r} /\ pc[r] = "written" /\ Recordable(r)
      BY <3>1, <3>3 DEF Recordable, Runners, Running
    <3> QED
      BY <3>2, <3>3
  <2> QED
    BY <2>3, <2>4, <2>5
<1> QED
  BY <1>1, <1>2, <1>3, <1>4, MutationAssumption DEF CountInv

\* The count holds of the specification.
LEMMA CountHolds == Spec => []CountInv
<1>1. Init => CountInv
  <2> SUFFICES ASSUME Init PROVE CountInv
    OBVIOUS
  <2>1. Runners = {} /\ log = {} /\ peak = 0
    BY DEF Init, Runners, Running
  <2> QED
    BY <2>1, FS_EmptySet DEF CountInv
<1>2. MutInv /\ MutInv' /\ CountInv /\ [Next]_vars => CountInv'
  <2> SUFFICES ASSUME MutInv, MutInv', CountInv, [Next]_vars PROVE CountInv'
    OBVIOUS
  <2> USE DEF Goto, history, tables, Runners, Running, Hashing
  <2>1. ASSUME NEW r \in Requests,
               Arrive(r) \/ CheckSignature(r) \/ HandlerRefuses(r) \/ ClaimConflicts(r) \/ Replay(r)
        PROVE  CountInv'
    BY <2>1, CountKept DEF MutInv, TypeOK, Arrive, CheckSignature, HandlerRefuses, ClaimConflicts, Replay
  <2>2. ASSUME NEW r \in Requests, StartHandler(r) PROVE CountInv'
    BY <2>2, CountStart
  <2>3. ASSUME NEW r \in Requests, Write(r) PROVE CountInv'
    BY <2>3, CountKept DEF MutInv, TypeOK, Write
  <2>4. ASSUME NEW r \in Requests, Throw(r) \/ FinishReplayed(r) PROVE CountInv'
    BY <2>4, CountKept DEF MutInv, TypeOK, Throw, FinishReplayed
  <2>5. ASSUME NEW r \in Requests, Finish(r) PROVE CountInv'
    BY <2>5, CountFinish
  <2>6. ASSUME NEW k \in Keys, Expire(k) PROVE CountInv'
    BY <2>6, CountKept DEF Expire
  <2>7. CASE Kill
    BY <2>7, CountKill
  <2>8. CASE UNCHANGED vars
    BY <2>8, CountKept DEF vars
  <2> QED
    BY <2>1, <2>2, <2>3, <2>4, <2>5, <2>6, <2>7, <2>8 DEF Next, Proceed
<1> QED
  BY <1>1, <1>2, MutInvHolds, PTL DEF Spec

\* Overlapping requests exceed a limit by less than the handlers that ran at once.
THEOREM OvershootBounded == Spec => []OvershootByConcurrency
<1>1. MutInv /\ CountInv => OvershootByConcurrency
  <2> SUFFICES ASSUME MutInv, CountInv, peak > 0 PROVE OvershootByConcurrency
    BY DEF OvershootByConcurrency
  <2>1. evidence \cup Hashing \subseteq Requests /\ Runners \subseteq Requests /\ peak \in Nat
    BY DEF MutInv, TypeOK, Hashing, Runners
  <2>2. Cardinality(evidence) <= Cardinality(evidence \cup Hashing)
    BY <2>1, FewerRequests
  <2>3. /\ Cardinality(evidence) \in Nat /\ Cardinality(evidence \cup Hashing) \in Nat
        /\ Cardinality(log) \in Nat /\ Cardinality(Runners) \in Nat
    BY <2>1, FiniteRequests, FS_CardinalityType DEF CountInv
  <2> QED
    BY <2>1, <2>2, <2>3, MutationAssumption DEF CountInv, OvershootByConcurrency
<1> QED
  BY <1>1, MutInvHolds, CountHolds, PTL

=============================================================================
