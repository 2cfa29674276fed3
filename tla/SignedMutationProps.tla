------------------------ MODULE SignedMutationProps ------------------------
(***************************************************************************)
(* What must hold of SignedMutation.                                       *)
(***************************************************************************)
EXTENDS SignedMutation

\* Every variable stays in its type.
TypeOK ==
  /\ pc \in [Requests -> {"idle", "verifying", "verified", "hashing", "written", "answered",
                          "replayed", "refused", "errored", "lost"}]
  /\ sig \in [Requests -> Signatures]
  /\ key \in [Requests -> Keys \cup {NoKey}]
  /\ answer \in [Requests -> SUBSET Requests]
  /\ log \subseteq Signatures /\ evidence \subseteq Requests
  /\ records \in [Keys -> [status : {"none", "in_progress", "complete"},
                           payload : SUBSET Payloads, by : SUBSET Requests]]
  /\ purged \in [Keys -> Nat] /\ life \in [Requests -> Nat]
  /\ peak \in Nat /\ restarts \in Nat

-----------------------------------------------------------------------------
(* Safety                                                                   *)

\* A claim keeps other requests of its key out of the handler, through every await, every
\* error path and every expiry of a dead process's claim: neither the release nor the
\* completion checks whose claim it is.
OneRunnerPerKey ==
  \A r, q \in Requests :
    Running(r) /\ Running(q) /\ key[r] = key[q] /\ key[r] # NoKey => r = q

\* Until its record expires, a key is answered by one run of the handler only.  Another
\* run of it may have written its row, but ended in an error or with the process.
AnsweredOncePerKey ==
  \A r, q \in Requests :
    /\ pc[r] = "answered" /\ pc[q] = "answered"
    /\ key[r] = key[q] /\ key[r] # NoKey /\ life[r] = life[q]
    => r = q

\* "Signature replay protection still applies to raw signatures" (README.md): of the
\* copies of a signed message, overlapping or not, keyed or not, one at most is answered.
\* The copies that overlapped it may have written their row before they were refused.
AnsweredOncePerSignature ==
  \A r, q \in Requests :
    pc[r] = "answered" /\ pc[q] = "answered" /\ sig[r] = sig[q] => r = q

\* "Same key plus same payload returns stored response" (README.md): a replayed response
\* is that of a run for this key and this payload which was answered, left its row and
\* is in the log.
ReplayFaithful ==
  \A r \in Requests : pc[r] = "replayed" =>
    \E a \in Requests :
      /\ answer[r] = {a} /\ pc[a] = "answered" /\ key[a] = key[r]
      /\ sig[a].payload = sig[r].payload
      /\ a \in evidence /\ sig[a] \in log

\* The limits are counted before the hash is awaited and the row, or the log entry, comes
\* after it: they are exceeded, but by no more than the handlers that ran at once.
OvershootByConcurrency ==
  peak > 0 =>
    /\ Cardinality(evidence) < ItemLimit + peak
    /\ Cardinality(log) < RateLimit + peak

-----------------------------------------------------------------------------
(* Liveness                                                                 *)

\* Unless the process dies, a claimed key is completed or released without waiting for
\* its expiry, whatever throws.
ClaimsSettle ==
  \A k \in Keys :
    records[k].status = "in_progress" ~> (records[k].status # "in_progress" \/ restarts > 0)

=============================================================================
