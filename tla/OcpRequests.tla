---------------------------- MODULE OcpRequests ----------------------------
(***************************************************************************)
(* The OCP server's signed requests (v1) to propose an agreement or to     *)
(* draft a decision: authentication with a timestamp and a nonce, and the  *)
(* Idempotency-Key with the response kept for it.  What the two handlers   *)
(* write meanwhile is in OcpAgreements and OcpDecisions.                   *)
(*                                                                         *)
(* The timestamp is checked, the signature's verification is awaited, and  *)
(* the nonce is looked up and stored in the turn that goes on with the     *)
(* handler.  A proposal awaits its checks between its look for a kept      *)
(* response and the response it keeps; a draft awaits nothing.             *)
(*                                                                         *)
(* Timestamps are whole seconds, the nonces' expiry is kept in             *)
(* milliseconds: the clock counts ticks of a part of a second.             *)
(***************************************************************************)
EXTENDS Integers, FiniteSets

CONSTANTS
  Requests,   \* the requests that may arrive
  Nonces, Stamps,
  Keys,       \* Idempotency-Key values
  Nothing,    \* no request, no header
  Window,     \* windowSec
  Tick,       \* ticks of the clock in a second; 1000 in the code
  MaxTime     \* bound: ticks in a behaviour

Endpoints == {"propose", "decisions.draft"}
Messages  == [nonce : Nonces, stamp : Stamps, endpoint : Endpoints]

ASSUME RequestAssumption ==
  /\ Nothing \notin Keys \cup Messages
  /\ Stamps \subseteq Nat /\ Window \in Nat
  /\ Tick \in Nat \ {0} /\ MaxTime \in Nat

VARIABLES
  now,          \* the server's clock, in ticks
  pc,           \* per request: where it is, or how it ended
  msg, key,     \* per request: what is signed; its Idempotency-Key, which is not
  nonces,       \* ocp_nonces: per nonce {its expires_at}, or no row
  kept,         \* ocp_idempotency: per key and endpoint the requests whose response is kept
  waited,       \* per request: the clock moved while it was verified (history)
  passed,       \* per request: when its nonce was stored (history)
  before        \* per request: those that had written when it looked for a response (history)

message == <<msg, key>>
rVars   == <<now, pc, message, nonces, kept, waited, passed, before>>

\* The requests that are authenticated, and those whose agreement or decision is on file.
Passed  == {r \in Requests : pc[r] \notin {"idle", "verifying", "unheard"}}
Written == {r \in Requests : pc[r] \in {"answered", "torn"}}

RInit ==
  /\ now = 0
  /\ pc = [r \in Requests |-> "idle"]
  /\ msg = [r \in Requests |-> Nothing] /\ key = [r \in Requests |-> Nothing]
  /\ nonces = [n \in Nonces |-> {}]
  /\ kept = [k \in Keys |-> [e \in Endpoints |-> {}]]
  /\ waited = [r \in Requests |-> FALSE] /\ passed = [r \in Requests |-> 0]
  /\ before = [r \in Requests |-> {}]

Goto(r, where) == pc' = [pc EXCEPT ![r] = where]

-----------------------------------------------------------------------------
(* verifyOcpAuth                                                            *)

\* The timestamp, in whole seconds, is within the window on either side of the clock.
Timely(m) == Tick * (m.stamp - Window) <= now /\ now < Tick * (m.stamp + Window + 1)

\* A request with a timely timestamp awaits the verification of its signature.
Arrive(r) ==
  /\ pc[r] = "idle"
  /\ \E m \in Messages, k \in Keys \cup {Nothing} :
       /\ Timely(m)
       /\ msg' = [msg EXCEPT ![r] = m] /\ key' = [key EXCEPT ![r] = k]
  /\ Goto(r, "verifying")
  /\ UNCHANGED <<now, nonces, kept, waited, passed, before>>

\* The signature does not hold, or the nonce is on file.
RefuseUnauthenticated(r) ==
  /\ pc[r] = "verifying"
  /\ Goto(r, "unheard")
  /\ UNCHANGED <<now, message, nonces, kept, waited, passed, before>>

\* What-if: the nonce expires as it is stored.
NonceExpiryNow == now

\* When a nonce stored now expires.
NonceExpiry == now + Tick * Window

\* insertNonceIfAbsent stores the nonce: the request goes on in the same turn.
Authenticate(r) ==
  /\ pc[r] = "verifying"
  /\ nonces[msg[r].nonce] = {}
  /\ nonces' = [nonces EXCEPT ![msg[r].nonce] = {NonceExpiry}]
  /\ passed' = [passed EXCEPT ![r] = now]
  /\ UNCHANGED <<now, message, waited>>

\* pruneExpiredNonces, by any request now and then.
PruneNonces ==
  /\ nonces' = [n \in Nonces |-> {e \in nonces[n] : e >= now}]
  /\ UNCHANGED <<now, pc, message, kept, waited, passed, before>>

-----------------------------------------------------------------------------
(* The handlers                                                             *)

\* The responses kept for a request's key at its endpoint.
Kept(r) == IF key[r] = Nothing THEN {} ELSE kept[key[r]][msg[r].endpoint]

\* What-if: a response is kept for one endpoint only.
KeepAtProposeOnly(r) ==
  IF key[r] = Nothing \/ msg[r].endpoint # "propose" THEN kept
  ELSE [kept EXCEPT ![key[r]][msg[r].endpoint] = IF @ = {} THEN {r} ELSE @]

\* storeIdempotentResponse: the first one stays.
Keep(r) ==
  IF key[r] = Nothing THEN kept
  ELSE [kept EXCEPT ![key[r]][msg[r].endpoint] = IF @ = {} THEN {r} ELSE @]

\* checkIdempotency found a response, whatever this request's body is.
RepeatResponse(r) ==
  /\ Authenticate(r)
  /\ Kept(r) # {}
  /\ Goto(r, "repeated")
  /\ UNCHANGED <<kept, before>>

\* One of the handler's checks refuses, some of them before it looks for a response.
RefuseRequest(r) ==
  /\ Authenticate(r)
  /\ Goto(r, "refused")
  /\ UNCHANGED <<kept, before>>

\* A proposal awaits the verification of its attestation and of its payment.
BeginProposal(r) ==
  /\ Authenticate(r)
  /\ msg[r].endpoint = "propose" /\ Kept(r) = {}
  /\ Goto(r, "proposing")
  /\ before' = [before EXCEPT ![r] = Written]
  /\ UNCHANGED kept

\* Its rows, then its response.
AnswerProposal(r) ==
  /\ pc[r] = "proposing"
  /\ Goto(r, "answered")
  /\ kept' = Keep(r)
  /\ UNCHANGED <<now, message, nonces, waited, passed, before>>

\* One of the awaited checks, or a key of the tables, refuses: nothing is kept.
ProposalFails(r) ==
  /\ pc[r] = "proposing"
  /\ Goto(r, "refused")
  /\ UNCHANGED <<now, message, nonces, kept, waited, passed, before>>

\* A draft's turn: look for a response, rows, response.
BeginDraft(r) ==
  /\ Authenticate(r)
  /\ msg[r].endpoint = "decisions.draft" /\ Kept(r) = {}
  /\ before' = [before EXCEPT ![r] = Written]

AnswerDraft(r) ==
  /\ BeginDraft(r)
  /\ Goto(r, "answered")
  /\ kept' = Keep(r)

-----------------------------------------------------------------------------
(* Time and death                                                           *)

TimePasses ==
  /\ now < MaxTime
  /\ now' = now + 1
  /\ waited' = [r \in Requests |-> waited[r] \/ pc[r] = "verifying"]
  /\ UNCHANGED <<pc, message, nonces, kept, passed, before>>

\* Requests in flight get no answer.
Dropped(r) ==
  CASE pc[r] = "verifying" -> "unheard"
    [] pc[r] = "proposing" -> "refused"
    [] OTHER -> pc[r]

\* Death between two turns.
DeathUnanswered ==
  /\ pc' = [r \in Requests |-> Dropped(r)]
  /\ UNCHANGED <<now, message, nonces, kept, waited, passed, before>>

\* Death between the rows of a proposal, or of a draft, and the response kept for them.
DeathAnswering(r) ==
  /\ \/ /\ pc[r] = "proposing"
        /\ UNCHANGED <<now, message, nonces, waited, passed, before>>
     \/ BeginDraft(r)
  /\ pc' = [q \in Requests |-> IF q = r THEN "torn" ELSE Dropped(q)]
  /\ UNCHANGED kept

=============================================================================
