# OpenCawt: verification development

TLA+ modules for the OpenCawt court server, the TLC runs that check them on small instances, and
TLAPS proofs of their main invariants for every instance. File names below are relative to the
repository (`server/...`); PROJECT.json maps every definition to its lines.

## 1. The system

OpenCawt is one Node process (the API, with the session engine inside), a mint worker process, and
an agreement protocol server (OCP) that runs in the API process or alone. State is kept in SQLite
through synchronous calls. **Concurrency therefore exists only at awaits**: between two awaits a
handler or a tick runs alone. What makes the system hard is what happens *at* an await (the judge's
answer, a drand round, a hash, an HTTP call) and what a process death leaves behind *between* two
writes, since most operations are several commits.

| Component | State | Operations | Talks to |
|---|---|---|---|
| Case session (`server/services/sessionEngine.ts`, `closeCasePipeline` in `server/main.ts`, `server/db/repository.ts`) | rows `cases`, `case_runtime`, `submissions`; in memory: the tick, `judgeRetryState`, `closingCases` | file, claim defence, tick, close, stage message, juror ready, ballot, void, select-jury | judge, drand, jury panel, sealing, reputation |
| Jury panel (`services/jury.ts`, repository) | rows `jury_panels`, `jury_panel_members`, `ballots` | select, confirm, time out, replace, vote | drand, case session |
| Verdict (`services/verdict.ts`, `storeVerdict`) | verdict columns of `cases`, `claims` | tally, finding, tie-break, outcome, remedy, bundle hash | close pipeline |
| Reputation (`services/reputation.ts`) | rows `agent_case_activity`, `agent_stats_cache` | log a case's roles, count an agent again, synchronise at the start | close pipeline, engine, start |
| Sealing (`services/sealing.ts`, `services/http.ts`) | rows `seal_jobs`, seal fields of `cases` | enqueue, claim, post, apply result, fail, redrive, retry, callback | mint worker, engine's tick |
| Mint worker (`server/mint-worker`) | the chain | POST /mint | Pinata, Solana |
| Filing (`handlePostCaseFile`, `claimDefenceAssignment`) | `cases`, `used_treasury_txs`, `jury_panel_members`, the counted limits | check payment, select jury, file, claim the defence, set the court mode | Solana RPC, drand, jury |
| Signed mutations (`services/auth.ts`, `services/idempotency.ts`) | `agent_action_log`, `idempotency_records` | verify, claim a key, run, record, complete or release | every signed handler |
| Transcript, seal hashes | `case_transcript_events` | append, hash | everything |
| OCP agreements, decisions, nonces (`OCP/server`) | `ocp_*` tables | propose, accept, seal, cancel; draft, sign, seal | mint, notifications, court |
| Front end, plugin, scripts, presenters, rate limits | none that matters here | render, read, administer | API |

What has to be right, component by component:

- **Case session.** Stages in order; none left before both sides completed it; no session without a
  defence; void, verdict and seal exclude each other and are final; the two rows agree; every filed
  case ends although all parties may fall silent.
- **Jury panel.** As many seats as the court mode wants; none held twice before the vote; no seat
  lost by a replacement; a vote has its ballot; readiness and voting end whatever the jurors do.
- **Verdict, reputation.** A claim is won by a majority of the ballots the verdict names, or by the
  judge on an exact tie, never by a tie nobody broke; an agent's record counts each ended case once.
- **Sealing.** One runner per job, one asset per case, job and case agree, every job ends.
- **Filing.** One payment files one case; nobody judges its own case; the panel has the seats of its
  case's mode; the limits hold; a filed case with a defence gets a session.
- **Signed mutations.** One answer per key and per signature, however copies, errors and deaths fall;
  a replay tells what was answered.
- **OCP.** A payment funds one agreement; a sealed agreement has both signatures and one receipt; a
  sealed decision has its quorum; what ended stays ended; a nonce is good for one request.

PROJECT.json lists, under `hazards`, where in the code each of these can go wrong.

## 2. Modules

| Module | What it is |
|---|---|
| `CaseLifecycle` | The abstract specification of one case: a single variable `phase`. |
| `PanelCount` | The abstract specification of its jury: the stage, the jurors that confirmed, the ballots. |
| `CaseVerdict` | The abstract specification of its outcome: one run works towards it. |
| `CaseSeal` | The abstract specification of its seal: the job, and whether the case is sealed. |
| `CaseSession` | The session engine, the close pipeline and the handlers over one case. |
| `CaseSessionProps` | Its type invariant, safety, action and liveness properties; the refinement mappings to the four abstract specifications. |
| `CaseSessionProofs` | Its types, complete stages, defended sessions. |
| `CaseFinalProofs` | How a case ends: voids and verdicts are final; the four refinements, the agreement of the two rows, verdicts on full panels. |
| `JuryPanel`, `JuryPanelProps`, `JuryPanelProofs` | The jury of one case juror by juror: replacement loops, drand's await, requests, ballots. |
| `SealJob`, `SealJobProps`, `SealJobProofs` | One seal job: the three callers of `runSealJob`, the HTTP retries, the worker, the callback. |
| `SignedMutation`, `SignedMutationProps`, `SignedMutationProofs` | Signed requests to one endpoint: signatures, idempotency keys, limits. |
| `Filing`, `FilingProps`, `FilingProofs` | Overlapping filings, defence claims and mode changes over several cases. |
| `OcpAgreements`, `OcpDecisions` | What the OCP server's handlers write. |
| `OcpRequests` | The requests that reach them: timestamps, nonces, idempotency keys. |
| `Ocp`, `OcpProps`, `OcpProofs` | Their composition in one process, its properties and their proofs. |
| `Outcome`, `OutcomeProps`, `OutcomeProofs` | Ballots to verdicts to the agents' records, over several cases. |

How they meet: `Filing` ends with a filed case, where `CaseSession` begins its stages; what
`CaseSession` counts of its jury, `JuryPanel` keeps juror by juror, and both implement `PanelCount`, so
that neither lets the counts do what the other rules out; `Outcome` starts in the voting stage and looks inside the verdict
that `CaseSession` takes as a choice, and both implement `CaseVerdict`; `CaseSession` ends where `SealJob`
begins: its variable `sealJob` only says whether the job exists and was minted, `SealJob` starts with a
closed case and no job, and both implement `CaseSeal`. Two parameters say where the two models of a
thing differ: `Revives`, that a voided case may be voted on again (in `CaseSession` when the operator's
void is in use; `Outcome` has no stage before the vote), and `Torn`, that a death may separate the
receipt's two rows (in `SealJob`; `CaseSession` writes them in one step).
`SignedMutation` wraps every signed handler, and models the evidence handler in it. The OCP server
shares no row with the court.

### 2.1 CaseSession

- **Rows.** `status`, `sessionStage`, `voidReason`, `outcome`, `sealedDisabled`, `screening`,
  `defence`, `scheduled`, `mode`, `named` are columns of `cases`; `currentStage` is
  `case_runtime.current_stage`. They are two tables written by two commits: `SetStage` and `MarkVoid`
  take a flag `killed`, which stops them after the first.
- **Deadlines.** No clock value is kept. `clock[d]` says for each of the four deadlines (defence
  window, session start, stage, voting hard timeout) whether now is ahead of it, at it, or past it.
  The three values are needed because the engine compares with `>=` and the handlers with `>`.
  `TimePasses` moves a deadline only while the current stage's code looks at it (`Watched`).
- **The tick.** `ListCases` takes the snapshot (`engine.defence`); `processCase` reads the clock
  (`engine.seen`) and, in three stages, awaits (`AskJudge`, `SendInvite`, `DrawReplacement`); what it
  decides afterwards uses the snapshot or a fresh read exactly where the code does.
- **The pipeline.** `closers[c]` is one run of `closeCasePipeline`: `judging` (the judge's calls and
  the verdict's hash), `hashing` (seal hashes), `enqueuing`. `PipelineFree` is `closingCases`.
- **Requests.** `posting` and `casting` are stage messages and ballots that passed their checks and
  wait for their hash; `selecting` is a select-jury that waits for drand.
- **Restarts.** `Die` loses everything kept in memory, including the judge's attempt count.
- **Over-approximations.** `ReplaceReadyJuror` lets any ready juror be replaced while the engine
  draws a replacement (in the code only one that confirmed in its deadline's millisecond), and
  ballots are counted up to `MaxBallots`, not per juror. Both only add behaviours.
- **Left out.** Showcase samples (they wait without a defence on purpose), simulation mode, the
  retry delay of the judge (waiting is stuttering), errors thrown by the database.

### 2.2 JuryPanel

- **Rows.** `member` is `member_status`, `due` the juror's deadline relative to now (ahead, at,
  past, or unset), `drafted` the rows with a `replacement_of_juror_id`, `ballots` the jurors in table
  `ballots`. Jurors are numbers in the order of their score hashes; `Pool` are those in the case's
  selection proof, `Allowed` those on the operator's allowlist, which may be newer than the proof.
- **The loops.** `BeginReadiness` and `BeginVoting` read the members once (`tick.todo`); the loop
  then walks that list. `FromProof` takes the best scored juror without a seat, also one that was
  replaced before. When that juror is not allowed, or there is none, the eligible jurors are read and
  drand is awaited (`tick.pc = "drand"`): requests are handled, and the replacement goes by the
  silent juror and the list read before. While `tick.pc = "running"` the tick is alone.
- **`Seat`** is `replaceJuror`'s three writes; `writes` says how many of them a death leaves.
- **`addresses`** stands for the four submission stages, which `CaseSession` has in full.
- **Left out.** The weekly limit, the machine-learning rows that go with a ballot, select-jury's
  second draw, manual voids, the replacement counters of `cases` (shown, never read by
  the engine).
- A replaced juror whose ballot was waiting for its hash still gets it recorded, and holds a seat
  again as `voted`: in voting there may be more seats than the panel has, and more ballots. This is
  why `SeatsHeldOnce` (no more seats are held than the panel has; proved, not run) ends with the
  submissions, and why `PanelCount` takes ballots without a bound.
- `PanelCount` sees `Cardinality(Ready)` while readiness is waited for, and `Cardinality(ballots)`. The
  torn forms of `Seat` are one `Withdraw` or nothing.

### 2.3 SealJob

- `jobStatus`, `attempts`, `jobAsset` are the row of `seal_jobs`; `caseStatus`, `sealStatus`,
  `caseAsset` the case's. `post[r]` is what runner `r` (pipeline, engine, operator) waits for,
  `reply[r]` the asset a reply names, `tries[r]` the POSTs made for this claim.
- A POST given up by `fetchWithRetry` is not cancelled at the worker: it becomes one of the
  `orphans`, which the worker may still complete.
- The worker is external: it mints for every POST, once. `Callbacks` says whether it also reports to
  `/api/internal/seal-result`; the worker in this repository does not.
- `ImplementsCaseSeal` is what `CaseSession` relies on. It holds without callbacks; with them a minted
  job can be taken back (`finalised_job`), and a case then has more of a story than `CaseSession` tells.

### 2.4 SignedMutation

- A request is one arrival of a message. `sig[r]` is `X-Signature`, which covers the payload and the
  second it was made in; `key[r]` is the `Idempotency-Key`, which no signature covers. Copies of a
  message are requests with equal `sig`. `Init` leaves both open: every pattern of copies, repeated
  signatures and shared keys over the given sets is an initial state.
- `log` is `agent_action_log`; `records` is `idempotency_records`, with the request hash as `payload`
  and the response as `by`, the request whose answer it is. `evidence` holds the requests that
  inserted a row.
- `pc[r]` is the await a request is in: `verifying` (body hash and signature), `hashing` (the
  handler's), and `written`, from the row's insertion to `recordSignedMutation`.
- `Throw` is an error on either side of the handler's write, `FinishReplayed` the unique key of the log
  met after it; both release the claim, and the release looks only at its status.
- `Kill` may fall between the log's insertion and the completion; `Expire` is the purge of a completed
  record, or of a claim whose process died. A claim lives for a day, so that no live handler loses it.
- **Left out.** What the other handlers do inside; several agents (all tables are keyed by the agent).

### 2.5 Filing

- `status`, `paid`, `courtMode`, `scheduled`, `defence` are columns of `cases` (whether `scheduled_for`
  is set), `panel` the seats in `jury_panel_members`, `used` is `used_treasury_txs`.
- `paying` and `drawing` are the two awaits, the payment's verification and drand's round; `eligible`
  and `drawMode` are what was read before the second. `Commit` is the rest of the handler, the
  transaction included, in one turn. Any panel of the right size may come out of the draw.
- `clock[c]` is the named defendant's exclusive window and the defence window; the filing sets it
  again. `ClaimDefence` is `claimDefenceAssignment`, which accepts drafts too.
- `taken`, `switchedInDraw`, `peak` are history: when a defence was taken, whether the mode changed in
  a draw, how many filings ran at once.
- **Left out.** Simulation and the free alpha filings, which skip the payment; drafting; the panel's
  later life (`JuryPanel`); the day's soft cap has no property, since it is checked in the transaction's
  turn.

### 2.6 OcpAgreements, OcpDecisions, OcpRequests, Ocp

- `status`, `terms`, `paidBy` are columns of `ocp_agreements`; `sigs`, `receipt`, `usedTx` are
  `ocp_signatures`, `ocp_receipts`, `ocp_used_treasury_txs`. `prop[p]` and `acc[a]` are requests in
  flight, v1 and legacy alike (they differ in the payment, which the legacy endpoint does not ask for);
  a slot is used again after its answer.
- The server's writes are separate commits: `DeathStoring` and `DeathSealing` keep a prefix of them.
  The tables' unique keys are conjuncts (`TermsFree`, `PaymentFree`, `SignatureFree`).
- `mints` counts the receipts on chain; a lost answer may or may not have minted.
- `dStatus`, `declared`, `required`, `signed` are the tables of decisions; `listed` remembers how many
  entries the list of signers had, which may repeat an agent.
- `OcpRequests` follows a v1 request to the two endpoints that take an `Idempotency-Key`, apart from what
  it asks for: `msg[r]` is what its signature covers (nonce, timestamp, endpoint; two requests with the
  same `msg` are copies), `key[r]` the header, which it does not cover. `nonces` is `ocp_nonces` with
  `expires_at`, `kept` is `ocp_idempotency`. A timestamp is compared with the clock in whole
  seconds and a nonce's expiry in milliseconds: the clock counts ticks, `Tick` of them in a second, which
  is 1000 in the code, 3 in the run and any positive number in the proofs. `verifying` and `proposing` are the two awaits;
  all else of a request is one turn. `waited`, `passed` and `before` are history.
- `Ocp` joins the three in one process, whose death ends the requests of all.
- **Left out.** API keys and the legacy scheme, which have no nonce; the limiter of failed attempts;
  notifications; the cross-registration of a sealed agreement as a court case.

### 2.7 Outcome

- `row[c]` has status, void reason, outcome and the claims' outcomes, with the jurors and tie-breaks of
  `verdict_bundle_json`; `ballots[c]` maps a juror to its findings. `casting` and `closing` are a ballot
  and a run of the pipeline across their awaits: the run keeps the ballots it read.
- `Tied` is the test that `closeCasePipeline` and `computeDeterministicVerdict` both make, `Finding` is
  `majorityFinding` with the judge's answer, `Overall` is `deriveOverallOutcome`.
- `activity[c]` is the bag of rows of `agent_case_activity`, `Rows` the table itself, with every copy of a
  row; `stats[a]` is the row of `agent_stats_cache`, which counts them (`RowsOf` is `COUNT(*)`). `Sync`
  is `syncCaseReputation`, `Start` the synchronisation at the process's start. `DieConcluding` tears `storeVerdict` between its writes.
- **Left out.** Remedies, hashes and percentages; a juror's label `vote`, which is data of its own;
  replaced jurors.

## 3. Runs

Sizes were measured with two workers. All runs have `CHECK_DEADLOCK FALSE`: a case that is sealed
or void, a job that is minted and a request that was answered have nothing left to do.

| Run | What may happen | Checks | States |
|---|---|---|---|
| `case_operators` | void, close; kills | `VoidNeverSealed`, `VerdictFinal` | 350 k |
| `case_all_endpoints` | all endpoints; kills | `PhasesComplete`, `SessionHasDefence` | 2.1 M |
| `case_automatic` | no endpoints; kills; 2 jurors | `TablesAgree`, `ImplementsLifecycle`, `ImplementsPanelCount`, `FiledCaseEnds`, `ClosedGetsSealJob` | 150 k |
| `jury_panel` | kills; 3 jurors, 2 seats | `SeatsFilled`, `ImplementsPanelCount`, `PanelSettles` | 260 k |
| `seal` | 2 operator runs; kills | `OneDispatcher`, `SealedByMintedJob`, `MintsWithinClaims`, `ImplementsCaseSeal` | 6 k |
| `seal_callback` | callbacks, no restart | `JobSettles` | 80 k |
| `signed_mutation` | 3 requests, a key, kills, expiry | `AnsweredOncePerKey`, `AnsweredOncePerSignature`, `ReplayFaithful`, `OvershootByConcurrency`, `ClaimsSettle` | 1.8 M |
| `filing` | 2 cases, 2 filings, claims, a mode change | `FiledOnce`, `PartyOnPanelOnlyByRace`, `PanelFitsMode`, `OvershootByConcurrency`, `DefendedIsScheduled` | 4.2 M |
| `ocp` | proposals, acceptances, decisions, copies of requests, a kill | `PaymentFundsOneAgreement`, `SealedIsComplete`, `OneAcceptanceMints`, `EndedStands`, `SealedByQuorum`, `AllSignedIsReady`, `DecisionStands`, `PassesOnce`, `KeyWritesOnce` | 410 k |
| `outcome` | 2 cases that share agents, voids, a restart | `VerdictIsMajority`, `RecordsFollowCases`, `RestartSettlesJuries`, `ImplementsCaseVerdict` | 270 k |

Each property is preceded by a comment that states it. Several say exactly how far a check made
before an await can fail: the limits are exceeded, but by less than the requests that ran at once
(`OvershootByConcurrency`); a party may sit on its own panel, but only through a claim made while drand
was awaited (`PartyOnPanelOnlyByRace`); an ended agreement is sealed after all, but only by an
acceptance that was already verifying (`EndedStands`); a signed request passes twice, but only at the
end of its window, and if it was first accepted before the second of its timestamp was over or waited
for its verification (`PassesOnce`). The exceptions happen in the models.

Two more runs expect a violation; each checks one statement of the documentation which the code does
not keep. They are the `findings` of PROJECT.json:

| Run | Statement | What happens |
|---|---|---|
| `void_is_final` | `void` ends the stage order | a void during an await is overwritten by the stage or the verdict after it |
| `finalised_job` | finalised seal jobs accept an exact replay only | a run whose POST fails after the worker's callback marks the minted job of a sealed case failed, to be minted again |

The models also reach states that no run states as a property, and that a maintainer should know of:

- A defence claimed after the tick listed its cases is not seen by that tick: the case may be voided for
  a missing defence that is there (sessionEngine.ts:541).
- A defence claimed while a named defendant's case is still a draft never gets a start time
  (repository.ts:1430), and the engine passes such a case over for ever. `FiledCaseEnds` is about cases
  that have one; `DefendedIsScheduled` says that there is no other way to miss it.
- A restart between a stored verdict and its seal job (main.ts:947) leaves a closed case without one;
  `ClosedGetsSealJob` is stated for behaviours without a restart.
- A restart while `runSealJob` waits leaves the job in `minting`, which the engine does not list,
  redrive answers with a replay and retry with a conflict.
- select-jury in the voting stage sets the case row back while the runtime row stays `voting`, after
  which a full set of ballots makes every tick throw `CASE_NOT_VOTING`.
- A death between the last failed screening and the void leaves a case that every tick skips.
- A POST /mint that timed out is repeated, so that two receipts can be minted for one case. It is the
  same for agreements: "one NFT per agreement" (OCP/OPENCAWT_PROTOCOL_V1.md:217) and "Idempotent per
  proposalId" (OCP/server/mint/index.ts:86) do not hold when the worker's answer is lost, since each POST
  mints. `MintsWithinClaims` and `OneAcceptanceMints` bound what is minted by the attempts, no better.
- "nonce must be unique within the timestamp window" (OCP/server/main.ts:324) does not hold at the end of
  that window. An ordinary client stamps a request `s` with the second it sends it in; accepted at `s + 0.7`,
  its nonce expires at `s + 300.7`, and at `s + 300.8` the timestamp is still 300 whole seconds old: once
  the row is pruned the same request passes again.
- A proposal signed over an id of the client's own, as docs/OCP_API_V1.md:243 tells clients to do, is always
  refused (`SIG_A_INVALID`): the server makes up another id in the same request (OCP/server/main.ts:721).
- A signed request whose copy overlapped it may have written its row before it is refused as a replay
  (auth.ts:86), and one that failed after its write is applied again by the retry of its key.

### Bounds

**Case.** One or two jurors are enough: the engine and the pipeline only compare counts with the panel
size, and two is where a partial panel exists. One more ballot than seats lets a late one be recorded.
Two screening attempts give one retry and one exhaustion. One restart covers every
death between two steps; a second one starts from a state a first one already leaves behind. With
one case the tick's interleavings are those of its own awaits; cases share nothing but the tick.
**Seal job.** Two POSTs per claim and two claims are the least for a repeated POST and a retried job.
**Panel.** Two seats, two jurors in the proof and one late registrant reach every way a replacement
can go (from the proof, a replaced juror again, by drand, nobody left); one juror of the proof is off
the allowlist; two deaths show that each costs one seat. With one replacement per seat the count's
bound is reached.
**Signed mutations.** Three requests are a holder, its copy or rival, and a later retry; two payloads and
two seconds make a copy, a second signature and another message; one key is shared or not used; one
expiry and one death are enough for a claim whose holder is gone.
**Filing.** Two cases with two filings are same case, same payment, both or neither; three agents are
two parties and one bystander; a judge's panel of two and a jury of one make the modes differ; the
limits are 1, so that two filings exceed them. Requests, payments and agents of a kind are
interchangeable, and only sets of them are compared: the run declares them symmetric.
**OCP.** Two ids, terms and requests for each race; two attempts to mint. Two authenticated requests are a
message and its copy, two messages with one nonce, or two with one key; a window of one second and
timestamps of the first two seconds let a nonce expire, be pruned and be used again, in and out
of its timestamp's window. Three ticks to a second are the least for a request that is accepted after
its second began and passes again before its window ends; seven show that one accepted a tick after its
second does not. `RequestsMeet` leaves out requests that share neither nonce nor key. Agreements, decisions and the requests' tables share nothing but
the process, so the constraint `OneSideBusy` explores one while the others are idle. Ids, terms, requests
and nonces are interchangeable, and the run declares them symmetric.
**Outcome.** A case in judge mode with two claims and two jurors has ties, split outcomes and partial
tie-breaks; a second case without a judge shares its agents in other roles, so that an agent's
statistics span cases. Its two claims are symmetric.

### Fairness

`FairSpec` assumes of the case session that the engine's timer keeps firing and its awaits
return (judge calls run under `withJudgeTimeout`, HTTP calls under `fetchWithRetry`'s timeout), the
same of the pipeline, and that time passes. Nothing is assumed of parties, jurors and operators:
`FiledCaseEnds` holds although none of them ever acts. `JuryPanel` assumes the same of the engine.
drand may fail, and its error ends the tick before the stage's hard deadline is looked at
(`DrawFails`, `DrandThrows`); both specifications assume that it fails finitely often. That assumption
is needed: while drand is down and a silent juror can be replaced only by a draw, no tick reaches the
hard deadline of readiness. An answer now and then is not enough either, since one tick may need
several. For the seal job, an HTTP call returns
or times out and the tick keeps coming; nothing is assumed of the worker. For signed mutations, Node
resumes a handler whose await is over; the awaits are hashes and signature checks, which end, and the
client sends what and when it likes.
A restart is never fair: the model bounds restarts, the system may have them whenever it likes.

## 4. Proofs

Proved with TLAPS for every value of the constants (any panel size, limit, bound, set of requests and
set of endpoints, with and without kills, unless an assumption is named):

- **`CaseSession`: before the verdict.** `TypeCorrect` rests on `TypeInv`, the types with
  `ballots + casting <= MaxBallots`, without which the count of ballots is not preserved when a
  waiting ballot is recorded. `StagesAreComplete` and `SessionsAreDefended` rest on `SessionInv`.
  Neither property is inductive: a verdict is stored and a receipt applied long after the check that
  let them begin, and the engine opens a session after an await. `SessionInv` therefore remembers that
  whatever is on its way has its grounds: a run of the pipeline or a seal job means that the case was
  heard to its end (`Closing => Heard`), and a tick that draws a replacement means that there is
  a defence. One lemma, `SessionKept`, says what a step has to show; each action shows it.
- **`CaseSession`: after it.** `VoidIsNeverSealed` and `VerdictIsFinal` assume that no jury is selected
  anew (`"select_jury" \notin OperatorOps`). No writer of a verdict or a void looks at the status, so
  `FinalInv` says who can be waiting when: the engine only with an undecided case (`WaitInv`), one run
  of the pipeline at a time, which hashes and enqueues decided cases only (`RunInv`), and seal jobs only
  for verdicts (`SealInv`). `TornInv` covers a verdict whose runtime row a death took away.
- **`CaseSession`: the refinement.** `FollowsLifecycle` and `TablesStayTogether` assume that no operator
  endpoint is used; the run `void_is_final` shows what else happens. Every step, torn by a death
  or not, is one of seven moves of the two rows (`RowsMove`): they stay, are filed, advance, are
  voided, closed or sealed. `LifeInv` is what that needs: the engine's turn and the pipeline's run
  exclude each other and find the case where they left it. Each move is a step of `CaseLifecycle` or a
  stutter (`MoveLifecycle`), and keeps the rows within a stage of each other (`MoveTables`).
  `VerdictsOnFullPanels` assumes only that the close endpoint is out of use: the engine counted the
  ballots before it closed the case, and ballots are never taken back.
- **`CaseSession`: the counts.** `CountsAsTheJury`, also without operator endpoints: a juror or a ballot
  changes one count at a time (`JuryMove`), which combined with the move of the rows is one step of
  `PanelCount` or none. `VoteInv` is what that adds to `LifeInv`: who waits for a ballot's hash has
  passed a check in voting, from which there is no way back to readiness, and a closed row is
  not at a stage whose count would be lost when the receipt is applied. With select-jury the
  theorem is false: it takes every confirmation back at once.
- **`CaseSession`: the verdict and the seal.** `VerdictComesAsPromised` and `SealComesAsPromised`, unless a
  jury is selected anew; with select-jury both are false, since it opens a decided case again. The steps
  are those of `FinalInv`; the first needs `CourtInv` too: a verdict belongs to a decided
  row and to no other (`VerdictInv`), and without the operator's void the engine never holds a case that
  was voided under it (`ReviveInv`), so that no run begins on one. For the second, only the receipt
  writes "sealed" and only `EnqueueSeal` creates a job (`OnlyReceiptsSeal`, `OnlyThePipelineAsks`).
- **`JuryPanel`.** `SeatsStayFilled` rests on `SeatInv`. The property is not inductive: drand's draw
  goes by the candidates read before the await, one of which may hold a seat again by then through
  its late ballot, so that seating it adds no seat. `SeatInv` counts without such jurors: the
  seats held by others than the candidates fill the panel, and outside the await there are no
  candidates. Two counting lemmas (`SwapKeepsCount`, `LossCountsOne`) rest on the library's finite
  set theorems. `NoSeatHeldTwice` rests on `OnceInv`, which counts from above.
  `PanelCounts`, the refinement, needs it: a juror may confirm because its own seat is one of the
  panel's and not yet among the confirmed. `CountInv` adds that the candidates of a draw in readiness
  hold no seat, so that a replacement takes no second confirmation away, and that a tick that closes
  has counted a full panel. `VotesHaveBallots` (a juror marked as having voted has its ballot; proved,
  not run) uses `SeatInv` for the types.
- **`SealJob`.** `ClaimIsExclusive`, `SealedCaseHasItsJob` and `MintedJobStands` rest on `ClaimInv`:
  the claim is a compare-and-set on the status, so a waiting run owns the job. They assume
  `~Callbacks`, and need it: `MintedJobStands` proves `FinalisedStands` for a worker that reports in its
  reply only, and `finalised_job` shows that a callback breaks it. `SpendIsBounded` rests on `BudgetInv`, which counts next to the assets the POSTs that
  may still mint; it holds with callbacks too. `MintedJobSealsCase` (without a death between two
  writes the case of a minted job is sealed; proved, not run) assumes `~HardKill` and is inductive as it
  stands. `SealsAsTheCaseExpects`, the refinement of `CaseSeal`, assumes `~Callbacks`: with them a late
  failure takes a minted job back.
- **`SignedMutation`.** All its safety properties, and `OneRunnerPerKey` (one request of a key is in the
  handler at a time; proved, not run). `MutInv` says who holds a record while it is in
  progress (`HolderInv`) and whose answer it keeps once complete (`AnsweredInv`, `CompleteInv`): without
  it a release could be another request's. The limits rest on `CountInv`, which counts the runs
  that may still write.
- **`Filing`.** All five properties. `FilingInv` adds what a draft looks like (`DraftInv`) and what a draw
  knew when it read the candidates and the mode (`DrawInv`); the limits rest on a `CountInv` of their
  own.
- **`Ocp`.** All nine properties, and that terms are agreed once. `AgreementInv` says what an acceptance
  in flight has signed and how often it can have minted (`MintInv`); `DecisionInv` that signatures, on
  their way or on file, are those of declared signers. `RequestInv` says that a nonce outlives the
  window of the request that used it (`NonceInv`; with `WindowTicks`, that a timestamp's window ends a
  window after its second, this is why a copy passes only if the first was accepted within that second), that a response is kept for every answered key
  (`KeptInv`), and that whoever wrote before a key was found free was torn (`BeforeInv`). A death between
  writes is one case more in each proof.
- **`Outcome`.** All four properties, for any number of cases, claims and jurors. `VerdictIsMajority` is
  not inductive: a run reads the ballots, waits for the judge, and others land meanwhile. `ReadInv` says
  that what a run read is still on file as it was read, and `RowInv` that the row it will write has
  neither an outcome nor a claim decided; `FindingWins` turns the tally into numbers of votes.
  `RecordsFollowCases` rests on `RecordInv`: a case is in the log with its row's outcome and some of its
  jurors, each row once, or it is not there and has no verdict (`LogInv`), and the statistics are at every
  moment what a recount would find. The second holds although only the agents of one case are counted
  again, since the rows replaced and the rows written name the same parties and no juror is lost
  (`RecountKept`). `RowsCounted` is the lemma that a `COUNT(*)` over such a log is a number of cases.
  `VerdictsComeAsPromised`, the refinement of `CaseVerdict` case by case, uses `RowInv` for the case that a
  step is about, and that a death ends the runs of all others without touching their rows. That a verdict
  is written once (`VerdictsStand`) then follows from what `CaseVerdict` allows alone (`StepUnsettled`).

The assumptions on the constants are the named ones of the modules: `SessionAssumption`,
`PanelAssumption`, `SealAssumption`, `MutationAssumption`, `FilingAssumption`, `AgreementAssumption`,
`DecisionAssumption`, `RequestAssumption`, `OcpAssumption`, `OutcomeAssumption`. The inductive
invariants were checked by TLC before they were proved.

Only model-checked: the liveness properties `FiledCaseEnds`, `ClosedGetsSealJob`, `PanelSettles`,
`JobSettles` and `ClaimsSettle`, since the prover does not handle fairness. Every safety and action
property that a passing run checks, and each of their five refinements, is also a theorem. Proved but
not run are the two other refinements, of `CaseVerdict` and of `CaseSeal` by `CaseSession`: TLC found no
violation of them under the constants of `case_operators`, and finds one as soon as an assumption of the
theorem is dropped.

## 5. What is left to do

1. Select-jury's second draw and the weekly limit, in `JuryPanel`.
2. OCP's API keys and the legacy scheme.
3. The transcript and the seal hashes: which events a sealed case's root hash covers (it asks for 2000
   events and the repository returns 500 at most, sealHashes.ts:35).
4. Defence invites with their attempts and back-off; two cases under one tick, where one that throws
   ends the tick for those after it.

## 6. Not modelled, and why

Most of the repository's lines do not decide anything that these models could be wrong about. The
front end and the plugin render and call the API. The presenters, search, metrics and read endpoints
in `server/main.ts` and `server/db/repository.ts` read and format; so do the validation of bodies and
the mapping of rows. Showcase, demo and backup scripts rewrite data offline. Tests, types and
configuration have no behaviour of their own. Notifications and cross-registration are
fire-and-forget: nothing waits for them. The in-memory rate limiter and the administrators' sessions
touch nothing else. Text, hashes and signatures appear only where a property depends on them. The
modules follow the stateful core: engine, pipeline, jury, sealing, filing, signed requests, agreements,
decisions, verdicts and records; the map therefore covers a small share of the lines, and the
components' notes in PROJECT.json say what each module leaves out.
