--------------------------- MODULE SignedMutation ---------------------------
(***************************************************************************)
(* Signed requests of one agent to one endpoint, with or without an        *)
(* Idempotency-Key: handleSignedMutationWithIdempotency around the         *)
(* evidence handler, which checks its limits, awaits a hash and then       *)
(* inserts its row.                                                        *)
(*                                                                         *)
(* A request is a message that arrived; the client, or the network, may    *)
(* send the same signed message twice, sign the payload again, or use one  *)
(* key for two payloads.  Every await of the code is a point where the     *)
(* other requests run.  The process may be killed at any of them, and      *)
(* between the two writes that end a request.                              *)
(*                                                                         *)
(* A signature covers the payload and the second it was made in, never the *)
(* key.  Claims expire after a day, which no live handler waits for.       *)
(***************************************************************************)
EXTENDS Naturals, FiniteSets

CONSTANTS
  Requests,     \* the requests that may arrive
  Payloads,
  Seconds,      \* the seconds a payload may be signed in
  Keys,         \* Idempotency-Key values
  NoKey,        \* a request without the header
  RateLimit,    \* rateLimits.evidencePerHour
  ItemLimit,    \* limits.maxEvidenceItemsPerCase
  MaxRestarts,  \* bound: process deaths in a behaviour
  MaxExpiries   \* bound: completed records purged per key

ASSUME MutationAssumption ==
  /\ IsFiniteSet(Requests)
  /\ NoKey \notin Keys
  /\ RateLimit \in Nat \ {0} /\ ItemLimit \in Nat \ {0}
  /\ MaxRestarts \in Nat /\ MaxExpiries \in Nat

Signatures == [payload : Payloads, second : Seconds]

VARIABLES
  pc,        \* per request: where it is, or how it ended
  sig, key,  \* per request: X-Signature, Idempotency-Key; whatever the client sends
  answer,    \* per request: the requests whose answer it was given (one, or none)
  log,       \* agent_action_log: the signatures recorded
  records,   \* idempotency_records, per key
  evidence,  \* evidence_items: the requests that inserted one
  purged,    \* per key: completed records that expired (history)
  life,      \* per request: purged[key] when its handler started (history)
  peak,      \* the most handlers that ever ran at once (history)
  restarts

message == <<sig, key>>
tables  == <<log, records, evidence>>
history == <<purged, life, peak>>
vars    == <<pc, message, answer, tables, history, restarts>>

Running(r) == pc[r] \in {"hashing", "written"}
InFlight(r) == Running(r) \/ pc[r] \in {"verifying", "verified"}
Runners == {r \in Requests : Running(r)}

NoRecord == [status |-> "none", payload |-> {}, by |-> {}]
RecordOf(r) == IF key[r] = NoKey THEN NoRecord ELSE records[key[r]]

Init ==
  /\ pc = [r \in Requests |-> "idle"]
  /\ sig \in [Requests -> Signatures] /\ key \in [Requests -> Keys \cup {NoKey}]
  /\ answer = [r \in Requests |-> {}]
  /\ log = {} /\ evidence = {}
  /\ records = [k \in Keys |-> NoRecord]
  /\ purged = [k \in Keys |-> 0] /\ life = [r \in Requests |-> 0]
  /\ peak = 0
  /\ restarts = 0

Goto(r, where) == pc' = [pc EXCEPT ![r] = where]

-----------------------------------------------------------------------------
(* verifySignedMutation                                                     *)

\* A request arrives with a fresh timestamp; the body's hash and the signature's check
\* are awaited.
Arrive(r) ==
  /\ pc[r] = "idle"
  /\ Goto(r, "verifying")
  /\ UNCHANGED <<message, answer, tables, history, restarts>>

\* After the awaits: a recorded signature is refused; so is a banned agent or a capability
\* that is missing or revoked.
CheckSignature(r) ==
  /\ pc[r] = "verifying"
  /\ \/ sig[r] \notin log /\ Goto(r, "verified")
     \/ Goto(r, "refused")
  /\ UNCHANGED <<message, answer, tables, history, restarts>>

-----------------------------------------------------------------------------
(* tryClaimIdempotency, and the handler up to its await                      *)

\* What-if: the limits are tested after the new item.
RoomForEvidenceOneMore == Cardinality(log) <= RateLimit /\ Cardinality(evidence) <= ItemLimit

\* enforceActionRateLimit and the count of the case's items.
RoomForEvidence == Cardinality(log) < RateLimit /\ Cardinality(evidence) < ItemLimit

\* The claim's INSERT meets no row of the key.
Claimable(r) == RecordOf(r).status = "none"

\* What-if: the record's request hash is not compared.
SamePayloadUnchecked(r) == TRUE

\* The record's request hash is the request's.
SamePayload(r) == RecordOf(r).payload = {sig[r].payload}

\* The claim, and the handler's checks, which pass.
StartHandler(r) ==
  /\ pc[r] = "verified"
  /\ Claimable(r) /\ RoomForEvidence
  /\ Goto(r, "hashing")
  /\ records' = IF key[r] = NoKey THEN records ELSE
                [records EXCEPT ![key[r]] =
                   [status |-> "in_progress", payload |-> {sig[r].payload}, by |-> {r}]]
  /\ life' = IF key[r] = NoKey THEN life ELSE [life EXCEPT ![r] = purged[key[r]]]
  /\ peak' = IF peak > Cardinality(Runners) THEN peak ELSE Cardinality(Runners) + 1
  /\ UNCHANGED <<message, answer, log, evidence, purged, restarts>>

\* One of the handler's checks fails: a limit, the stage, the party, the body.  The claim
\* made in the same turn is released.
HandlerRefuses(r) ==
  /\ pc[r] = "verified" /\ Claimable(r)
  /\ Goto(r, "refused")
  /\ UNCHANGED <<message, answer, tables, history, restarts>>

\* The key is taken: by another payload, or by a request in progress.
ClaimConflicts(r) ==
  /\ pc[r] = "verified" /\ ~Claimable(r)
  /\ ~SamePayload(r) \/ RecordOf(r).status = "in_progress"
  /\ Goto(r, "refused")
  /\ UNCHANGED <<message, answer, tables, history, restarts>>

\* The key is complete: the stored response is sent again, and nothing is recorded.
Replay(r) ==
  /\ pc[r] = "verified"
  /\ RecordOf(r).status = "complete" /\ SamePayload(r)
  /\ Goto(r, "replayed")
  /\ answer' = [answer EXCEPT ![r] = RecordOf(r).by]
  /\ UNCHANGED <<message, tables, history, restarts>>

-----------------------------------------------------------------------------
(* The handler after its await, and the end of the request                   *)

\* addEvidence and the transcript event.
Write(r) ==
  /\ pc[r] = "hashing"
  /\ evidence' = evidence \cup {r}
  /\ Goto(r, "written")
  /\ UNCHANGED <<message, answer, log, records, history, restarts>>

\* What-if: an error leaves the claim where it is.
ReleaseNothing(r) == records

\* What-if: an error marks the claim instead of deleting it.
ReleaseMarked(r) ==
  IF RecordOf(r).status = "in_progress"
  THEN [records EXCEPT ![key[r]].status = "released"] ELSE records

\* releaseIdempotencyClaim: whoever holds the key, if it is in progress.
Release(r) ==
  IF RecordOf(r).status = "in_progress"
  THEN [records EXCEPT ![key[r]] = NoRecord] ELSE records

\* A statement of the handler throws, before or after its INSERT.
Throw(r) ==
  /\ Running(r)
  /\ Goto(r, IF pc[r] = "written" THEN "errored" ELSE "refused")
  /\ records' = Release(r)
  /\ UNCHANGED <<message, answer, log, evidence, history, restarts>>

\* What-if: completion drops the record.
CompletedDropped(r) == IF key[r] = NoKey THEN records ELSE [records EXCEPT ![key[r]] = NoRecord]

\* completeIdempotencyRecord: whoever holds the key, if it is in progress.
Completed(r) ==
  IF RecordOf(r).status = "in_progress"
  THEN [records EXCEPT ![key[r]].status = "complete", ![key[r]].by = {r}] ELSE records

\* What-if: the log ignores a second copy of a signature.
RecordableAlways(r) == TRUE

\* logSignedAction's INSERT meets UNIQUE(agent_id, signature, timestamp_sec).
Recordable(r) == sig[r] \notin log

\* recordSignedMutation, completeIdempotency, the response.
Finish(r) ==
  /\ pc[r] = "written" /\ Recordable(r)
  /\ log' = log \cup {sig[r]}
  /\ records' = Completed(r)
  /\ IF key[r] = NoKey \/ RecordOf(r).status = "in_progress"
     THEN Goto(r, "answered") /\ answer' = [answer EXCEPT ![r] = {r}]
     ELSE Goto(r, "errored") /\ UNCHANGED answer
  /\ UNCHANGED <<message, evidence, history, restarts>>

\* The signature was recorded by another copy since it was looked up: the INSERT throws,
\* after the handler's write.
FinishReplayed(r) ==
  /\ pc[r] = "written" /\ ~Recordable(r)
  /\ Goto(r, "errored")
  /\ records' = Release(r)
  /\ UNCHANGED <<message, answer, log, evidence, history, restarts>>

-----------------------------------------------------------------------------
(* Time and failures                                                         *)

\* purgeExpiredIdempotency, for a record no live request owns.
Expire(k) ==
  /\ \/ records[k].status = "complete" /\ purged[k] < MaxExpiries
     \/ records[k].status = "in_progress" /\ \A r \in Runners : key[r] # k
  /\ purged' = [purged EXCEPT ![k] = @ + IF records[k].status = "complete" THEN 1 ELSE 0]
  /\ records' = [records EXCEPT ![k] = NoRecord]
  /\ UNCHANGED <<pc, message, answer, log, evidence, life, peak, restarts>>

\* The process dies, with "torn" between its INSERT in the log and its completion.
Kill ==
  /\ restarts < MaxRestarts
  /\ restarts' = restarts + 1
  /\ \E torn \in {{}} \cup {{r} : r \in {q \in Requests : pc[q] = "written" /\ Recordable(q)}} :
       log' = log \cup {sig[r] : r \in torn}
  /\ pc' = [r \in Requests |-> IF InFlight(r) THEN "lost" ELSE pc[r]]
  /\ UNCHANGED <<message, answer, records, evidence, history>>

Proceed(r) ==
  \/ CheckSignature(r)
  \/ StartHandler(r) \/ HandlerRefuses(r) \/ ClaimConflicts(r) \/ Replay(r)
  \/ Write(r) \/ Throw(r) \/ Finish(r) \/ FinishReplayed(r)

Next ==
  \/ \E r \in Requests : Arrive(r) \/ Proceed(r)
  \/ \E k \in Keys : Expire(k)
  \/ Kill

Spec == Init /\ [][Next]_vars

\* Node's event loop resumes every handler whose await is over.
FairSpec == Spec /\ \A r \in Requests : WF_vars(Proceed(r))

=============================================================================
