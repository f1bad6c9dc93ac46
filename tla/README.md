# AgentMED control plane: verification

AgentMED is a control plane that takes a quality incident of an AI application
from a complaint to a verified, released and notified repair.  Paths below are
relative to the repository; `services/` stands for
`control-plane/app/services/`, `api/` for `control-plane/app/api/`.

This directory holds TLA+ models of that way and of the public API beside it:
a complaint becomes a case (the inbox; the command line and the public services),
it is handed to
workers under fenced leases and attributed by an experiment, a candidate is
created on the Quality API, gated, approved and released in steps over a network
that loses messages, and the outcome is turned into a reply to the complainant.
TLC checks the models on small instances; TLAPS proves every safety property the
runs check, and the refinements, for every value of the constants.  Liveness is
left to TLC.

Contents: 1 the system, 2 the models and the code, 3 the runs, 4 what was met
on the way, 5 the proofs, 6 what is not modelled, 7 the plan.

## 1. The system

| component | state it keeps | operations | talks to |
|---|---|---|---|
| release controller (`services/release_service.py`) | release aggregate, `controller_operations`, `approvals`, `work_orders`, `ReleaseClosure`, candidate and demo-fault intents | create a candidate, register work orders and grants, start, stage, canary, verify, promote, rollback, reconcile | Quality API; case and change-set aggregates; outbox |
| Quality API (`control-plane/app/quality/client.py`, client and fake) | version sets with status and revision, asynchronous operations, receipts by idempotency key | create, lifecycle call under an expected revision, operation poll | called by the controller |
| event store and state machines (`services/event_store.py`, `services/state_machines.py`) | events, aggregates with a revision, outbox rows | append under compare-and-set | every service |
| outbox dispatcher (`services/outbox_relay.py`, `control-plane/app/workers/outbox.py`) | outbox rows with a claim, attempts, receipts | claim, consume, deliver, acknowledge, retry, dead-letter | trust ledger, case closure, notification provider |
| trust ledger (`services/trust_service.py`) | samples, autonomy state | record an outcome, block on UNKNOWN | dispatcher |
| notification service and case closure | notification aggregate | queue, acknowledge, fail | case service, dispatcher |
| case service (`services/case_service.py`) and leases (`services/lease.py`) | case aggregate, lease with fencing token | intake, claim, heartbeat, reclaim, submit, escalate, reopen, resolve, close | agents over HTTP and MCP |
| complaint intake (`services/case_service.py`, `api/cases.py`) | inbox rows by dedup key | post a complaint, file a Feishu message | Feishu, case service |
| experiments (`services/experiment_service.py`, `services/attribution.py`) | experiment aggregate, trial receipts | create, freeze, start, checkpoint, cell, verdict, cancel | case leases; evaluation runner |
| evaluation runner (`mcp-servers/servers/eval_runner.py`, `eval-harness/`) | a background thread, artifacts on disk | run an experiment, run a gate, register its report | Quality API, experiments, gate controller |
| gate reports (`services/gate_service.py`) | `gate_reports`, eval aggregate | register, bind to a work order, verify a release | evaluation runner, release controller |
| change sets (`services/changeset_service.py`) | change-set aggregate | draft, gate, approval, expiry, supersession | case projection, grants, release start |
| public services: signal intake, application catalog, system versions, case binding, acceptance (`services/*.py`, `api/public_v4.py`, `api/public_v5.py`) | their own tables, an idempotency ledger | one locked transaction per request; verified reads | HTTP clients |
| bootstrap and credentials (`control-plane/app/bootstrap/`, `public_api/credential_resolver.py`) | principals, credentials, sources, controllers | install, rotate, log in, resolve a bearer | public services |
| command line (`cli/src/agentmed_cli`) | a snapshot of an issue on disk | `case from-issue`, `acceptance-criteria confirm` | public API |
| read views, audit log, HTTP layer, console, deployment, agents | none, or append only | | |

`PROJECT.json` lists them all with what is modelled.

**What is hard.**  A lifecycle step is four to six transactions with a network
call between them; any of them may be the last one before a crash.  Quality
works asynchronously, so a call that timed out may take effect later.  A step
may run under several keys at once, a key may be retried while its first
request is still at work, and reconcile may run beside all of them.  Leases on
cases and claims on outbox rows end by wall-clock time, so a worker and its
successor may both be at work, and two servers may execute one experiment.  A
change set, its grant, its case and its release are four aggregates that other
callers move on their own.  Evaluator and controller conclude a gate apart from
each other.  Public commands take three to five locks in orders of their own.
People rerun a filing in several shells while the issue they file is edited.
One complaint is brought by several callers at once, and nothing but a primary key
serialises them.

**What makes it correct.**  A controller never believes what Quality did not
do, and every effect has a committed anchor, its own grant, and happens once.
UNKNOWN is left by proof only, and eventually.  A write under an old fencing
token never follows one under a newer token, no receipt is lost with its worker,
and no lost worker goes unnoticed.  A verdict is true of the version under test;
a pass is earned; a release rests on one human approval of exactly what was
gated.  A reply reaches the complainant at most once and a case closes only
when it did.  A public command is done once per key, whatever it has written can
be read, and no two commands wait for each other.

## 2. The models and the code

`StateMachines` has the transition tables of cases, releases, change sets,
evaluations, experiments and notifications, and `NextState`, which is
`next_state` with its guard precedence.  Every change of an aggregate below goes
through it, except where a module says otherwise.

| module | what it models | its abstract specification |
|---|---|---|
| `ReleaseController` | one release after `start_release` | `ReleaseLifecycle` |
| `OutboxDispatcher` | outbox, workers, trust ledger, end of a case | `ReplyLifecycle` |
| `CaseLease` | cases, leases, workers, the experiment under its lease | `FencedLease` |
| `ComplaintIntake` | the inbox, its handlers, the messages they fetch | |
| `ExperimentRun` | execution, adjudication and recording of one experiment | |
| `GateReport` | the gate: evaluator, artifacts, judge, registration | |
| `ChangeApproval` | gate reports, work orders, change sets, grants, start, verdict | |
| `ExternalIntents` | candidate creation, demo faults, and Quality behind them | `DurableIntent` |
| `PublicLedger`, `ApplicationCatalog`, `SystemVersions`, `SignalIntake`, `CaseDecisions`, composed by `PublicApi` | the commands of the public API | |
| `LocalIdentity`, composed with the command line by `IssueFiling` | credentials, bootstraps, filing of a case | |

Modules named `MC...` have the instances for TLC, modules named `...Proofs` the
proofs of section 5; `EvaluationProofs` and `FilingProofs` are about two models
each, which share the null of `Absence` and nothing else.  A definition commented "Mutant" is the code with one
mistake in it; it is used by no specification.

### ReleaseController

| variable | code |
|---|---|
| `rel` | `Aggregate` of type release: state, revision, verification result, confirmed and authorised Quality revisions, rollback reason, unknown operation |
| `closure` | the `ReleaseClosure` row exists |
| `op` | `controller_operations`, one row per Idempotency-Key |
| `grant` | `approvals` used as action grants |
| `pc`, `req` | where the handler running `_write_step` for a key is, and the revisions it read |
| `inflight`, `quality`, `qop` | requests on their way, the candidate, Quality's operations |
| `rec` | each caller of `reconcile`: what it replayed and what it was told |

`_write_step` is cut at its commits and at its network calls: `Begin` (read and
check), `CommitIntent` (consume the grant, write the pending row, commit),
`Send`, `RecordRemoteId`, `Poll`, and then `RecordSuccess`, `RecordFailure`,
`Escalate` or `RecordUnknown`.  `HttpError` is an answer with a status that the
client takes for a definite failure (any but 410), whatever has become of the
request: Quality's own, or a gateway's after the request was accepted.  `Retry` is the branch for a key that is already
pending, `Crash` the death of the handler anywhere, `Abandon` any refusal before
the intent.  `reconcile` is cut in the same way: `ReconcileStart`,
`ReconcileReplay`, then `ReconcileCommit`, `ReconcileWait` or `ReconcileRaise`;
`ReconcileGivesUp` is the end of `reconcile_loop`.  `QualityReceives`,
`NetworkLoses`, `QualityApplies` and `QualityFails` are the other side, as the
client and its fake show it.

Abstractions: a key serves one kind of step; digest, expiry and hash-chain
refusals are `Abandon`; the reads of the candidate before a commit are taken
with the read of the aggregate (Quality's revision only grows, so a later read
can only refuse more).  The fake's lists of acceptable previous statuses are
wider than `RemoteBefore`; with one candidate, the expected revision already
implies the status.

### OutboxDispatcher

| variable | code |
|---|---|
| `case` | case aggregate: state, the release of its work order, `resolved_release_id` |
| `release` | the outcome of each release, and whether its closure is configured |
| `trust` | `TrustLedger.autonomy_state` and the `TrustLedgerEntry` per release |
| `notif` | the notification aggregate of each release |
| `row` | the outbox rows `RELEASE_UNKNOWN`, the result and the delivery command of each release: status, attempts, claim |
| `worker` | where each `dispatch_batch` is with the row it claimed |
| `messages`, `aged` | what the provider has delivered; whether its dedup window has passed |

A worker's `Claim` is `_claim_one`.  A domain event is consumed and acknowledged
in one transaction (`ConsumeUnknown`, `ConsumeResult`, or `RefuseResult` and
`ConsumeFails`, which leave nothing); a notification is delivered between two
transactions: `CheckWindow`, `Deliver` or `DeliverFails`, then `Acknowledge` or
`RefuseReceipt`.  `RetryLater` and `GiveUp` are `_record_failure`, `LoseClaim`
is `_claimed_row` refusing a worker whose claim was taken over.

Abstractions: a release announces UNKNOWN at most once, then its result; rows
that are only journalled are left out (a dead one would freeze its aggregate in
the same way); a retry delay is any delay; a claim token is the worker that
holds it, which works on one claim at a time; attempts are counted to
`MaxAttempts + 1` and messages to 2.  `Attribute` and `Approve` stand for what
`CaseLease` and `ChangeApproval` have in detail.  No code reinstates trust, so
no action does.

### CaseLease

| variable | code |
|---|---|
| `counter`, `lease` | `FencingCounter.next_token`, the row of `leases` of a case |
| `case` | case aggregate: state, `worker`, token, experiment |
| `exp`, `trials`, `arms` | experiment aggregate; `trial_completed` and `cell_completed` events |
| `suggestion` | `worker_suggestion_receipts` by idempotency key |
| `pending` | a claim between its first read of the case and the lock on the lease |
| `tokens` | the tokens a worker was ever given, any of which it may still send |
| `newest`, `written` | history: the newest token of a case, the token of its last fenced write |

Each action is a transaction of `CaseService`, `LeaseService` or
`ExperimentService` with the checks of the lease it makes (`CheckFencing`,
`RequireActive`); only a claim is two steps (`ClaimRead`, `ClaimCommit`), for it
reads the case, waits for the lease row and reads the case again.  `Reclaim` is
`reclaim_if_expired` with the loss of the runner (`RunnerLost`); `Transition` is
the generic event endpoint, which lets callers assert the events of `ApiEvents`.
A lease id is issued with each token and stands or falls with it.

### ComplaintIntake

| variable | code |
|---|---|
| `now` | the hour: `datetime.now` in units of the window |
| `message` | Feishu: text and time of each message, which may be rewritten or recalled |
| `injection` | completed `demo_fault_injection` aggregates and their `injected_at` |
| `inbox` | the rows of `inbox`: case, `received_at`, previous case, demo fault and provenance |
| `case` | whether each case was received, opened or closed |
| `req` | where each handler is, what it was given, the row and key it will insert, its answer |

`PostComplaint` and `FileMessage` are the two handlers of `api/cases.py`, `Fetch`
is `fetch_text_message` with the checks of the evidence of a demo fault.
`ingest_complaint` is cut where its transaction is not serialised with others:
the lookup (`LookUpNew`, `LookUpOld`, `Duplicate`, `Conflict`) and the insert
(`Insert`, or `Collide` on a primary key that is taken, which no handler
catches).  `AuditFails` is the 503 of either.  A refused call leaves nothing and
may be made again.

Abstractions: a dedup key is the pair that is hashed; a text stands for its
digest, and `Fingerprint`, which may give several texts one value, for redaction
and normalisation.  Redaction cannot fail on a string.  A case is only
opened here, since the inbox is never asked what became of it.  `known` is
history.

### ExperimentRun

| variable | code |
|---|---|
| `world` | what is wrong with the version under test: which layers, whether any or all of them make a probe fail, whether the hidden probes show it, broken controls, flaky trials |
| `exp` | the experiment: state, token of its run, recorded verdict |
| `receipts`, `cells` | `experiment.trial_completed` and `cell_completed` |
| `ex` | each server's background thread |

A thread reads the receipts there are (`ReadReceipts`), sends its first
heartbeat (`FirstBeat`), evaluates and checkpoints the remaining trials in the
seeded order (`Evaluate`, `Checkpoint`), adjudicates (`Report`), posts cells and
verdict (`PostCell`, `PostVerdict`), and on any failure cancels (`Fail`,
`Cancel`); `Execute` and `Die` are its beginning and the death of its process,
`Declare` is anybody's post of a verdict.  Heartbeats come while trials run and
no longer: `Report` ends them before cells and verdict are posted.  One that
fails is the last (`BeatFails`), and is noticed when the trials are done.  So the
lease may lapse under an execution that goes on: `RunnerLost` needs only that no
executor `Beats`, that is, sends heartbeats and holds the token they renew.
`Adjudicate` is the harness, `RecomputedVerdict` the controller's own arithmetic.
Whether a difference of recovery counts is significant is a constant relation, of
which only one thing is assumed: equal counts never are.

### GateReport

`target` is the target's revision on Quality, `logged` the probes it answered
rightly through the official provider, as Quality's log of its calls tells,
`run` the evaluator's evaluations (suites, answers, judge, scores, report), `gate`
what the controller registered, from whom, and at which revision.  `Begin`,
`RunSuite`, `ReadTarget`, `Probe`, `ChooseJudge`, `Score`, `Build`, `Raise`, `Store`
and `Stop` are `_execute_gate` and `_run_and_register_gate`; `Register`, `Refused`
and `Claim` are `register_report` with its checks (`FollowsFromTracks`, `BorneOut`);
`Drift` moves the target on.  Suites are told apart by exit code, counts and
timeout; answers by right, wrong, and right from the wrong provider.

`Claim` is a post by anybody else who may post, of a report made up to be
accepted (`Forged`).  All a report holds is its poster's word, the threshold
included that its scores are compared with (`Reaches`): what the suites did and
what the judge replied are inline artifacts, from which the controller computes
summaries and scores again.  Only the target's revision and its answers are
looked up elsewhere.  `Ask` is anybody's question to the target, which gets into
the same log.

### ChangeApproval

| variable | code |
|---|---|
| `report` | `gate_reports`: work order, conclusion, eval state, sealed hash, whether its work order authorised it |
| `wo` | `work_orders`: hash and report |
| `cs` | change-set aggregates, with the work order and the case each was drafted for; the history field `moved` says that approval was asked for on an attributed case |
| `grant` | `approvals`: initial grant or action grant, and their status |
| `release` | what `start_release` and verification bind |
| `case` | case aggregate: state, attributed or not, reopened or not, the change set it names |
| `starting` | grants whose row a `start_release` has locked and checked |
| `lapsed` | work orders and grants past their expiry |

One action per operation; `start_release` is two steps (`StartCheck`,
`StartCommit` or `StartRefused`) around its call of Quality.  `Advance` is
`_advance_changeset_to_approved`, `Projected` is `project_changeset_event`.
`Draft` is any caller's, for any work order and case, under any name that is
free, the name of another's work order included.  Of the case there is as much
as change sets meet: it is dispatched (`DispatchCase`), gets a verdict
(`Attributed`, `Unattributed`), is escalated from anywhere (`EscalateCase`) and
reopened by an officer (`ReopenCase`), after which it is dispatched and judged
once more with its old change set still there.

### ExternalIntents

`intent`, `candidate`, `completed` are the controller's rows; `holder` and
`bound` the lease and the case a creation answers to; `req` where each handler
is and what it was told; `ver` and `cache` Quality; `stray` messages given up by
their sender.  `Begin` commits the intent, `Call` reaches Quality with no
transaction open, `CallFails` loses the request or the answer, `LateArrival`
delivers a lost request, `ReadBack` and `ReadFails` look for the effect of a
lost answer, and `RecordError`, `RecordUnknown` and `Complete` settle the
intent.  A creation has one content, so its key names the version set it makes.

### The public API

`PublicLedger` is the frame of every command: one transaction that takes its
locks in order (`Begin`, `Take`), looks up its key (`Replay`), and commits its
rows with its ledger entry (`Commit`) or fails (`Fail`).  `cmd` is what each
request asks, `db` the committed rows of each table by identity, `ledger` the
idempotency records, `sessions` the open transactions with the locks they hold,
`answers` everything answered.  The service modules give each command its
admission, the order of its locks (`...Plan`), its refusals under each lock, its
rows, and the checks of the reads (`...Answer`); `CaseDecisions` adds who has
logged in since a proposal (`seen`, `presented`).  `PublicApi` composes them.

### Filing a case

`LocalIdentity` has the two bootstraps, the rotation of the operator, the
owner's login and the credential resolver over `credentials`, `people`,
`registrations` and `clock`.  `IssueFiling` composes it with the command line:
`cache` is the snapshot file, which a crash may leave torn, `run` what a shell
does, `wire` the requests on their way (one that timed out may still arrive),
`ledger`, `cases`, `bindings`, `drafts` and `confirmed` the server, where a command
is one step.  A shell reads (`FetchIssue`, `Read`), sends (`Send`), gives up or is
killed (`TimeOut`, `Stop`); the server answers (`Serve`, `Reject`), whether or not
the shell still waits.

## 3. The runs

Deadlock is not checked in any run: a finished release, an answered case, a
concluded gate, used-up requests stop.  Type invariants are in no run where
they are proved for every instance (section 5).  Each run ends within about two
minutes, most within one.

### Release controller

| run | instance | properties |
|---|---|---|
| `release_faults` | one key per step (stage, canary, promote, rollback), three of them faulty, promotion and rollback doomed, two grants, one fair reconciler | `UnknownLeftByProof`, `ImplementsLifecycle`, `UnknownResolved` |
| `release_races` | two rollback keys, faulty and doomed, three grants, one reconciler | `ViewIsReal`, `EffectsAuthorised`, `OneEffectPerTransition` |

`Faulty` are the keys whose handler may die or be retried and whose messages may
be lost; `Doomed` those whose accepted operation may fail on Quality.  Nothing
else is bounded: revisions are bounded by the number of keys.  The bounds
suffice because a release takes each step once: the interesting conflicts are
between two writers of the same step, between a writer and the retry of its key,
and between either and a reconciler, and each appears in some run.  Two
grants serve canary and one outcome; the third is for the second writer.
Grants are symmetric in the run that uses symmetry: nothing orders them.

`UnknownResolved` excepts two kinds of UNKNOWN, on which reconcile raises until a
person decides.  The candidate of the one has `Drifted`, because its operation
failed or another moved the candidate.  The operation of the other is recorded
as failed (`Forsaken`): a retry doubted it while its writer still waited for what
came as an HTTP error, and reconcile asks for an operation that is still in doubt.

Fairness (`FairSpec`): Quality runs what it accepted (WF `QualityApplies`); somebody keeps calling reconcile (WF
`ReconcileStart`), as `reconcile_loop` and its callers do; a network that answers
again and again does not lose every answer (SF on a replay answered with
acceptance and on the commit that needs another successful read); a reconcile
that has read finishes (WF on waiting or raising).  That an HTTP error answers some replays delays the
end only; one that answers every replay for ever (a revoked credential) is
excluded by the second of these.  Writers are under no fairness: they may die.

### Outbox dispatcher

| run | instance | properties |
|---|---|---|
| `outbox` | one disputed case and its release, one reliable worker, one that is slow and crashes, flaky deliveries and transactions, a window that closes, two attempts | `ClosedIsAnswered`, `UnknownNeverCounts`, `SampledWithItsRow`, `ImplementsReply`, `RepliesSettle` |

`Slow` workers may outlive `outbox_claim_ttl_seconds`; the claim of any other
worker expires only when it is no longer at work.  No worker is suspended for
the provider's window of an hour between its check of the window and the answer
to its call: one that is can send a second message, which no check before the
call can exclude.  `Crashing` workers die anywhere.  `Flaky` releases are those
whose deliveries and transactions may fail, `Delayed` those whose reply may be
due after the window, `Disputed` the cases an agent may escalate.  `MaxAttempts`
is 5 in `control-plane/app/config.py`; with 2, a row is claimed first and for
the last time and a retry lies between.  A slow worker's claim is taken over without counting against either, so a row is
still held by two in turn.  Two workers are enough for one row: the claim names
one of them, all others are in the position of the one that lost it.  Rows of
different releases meet in the one ledger only: all
safety properties of this run are proved for any number of releases and cases.

Fairness: a worker that does not outlive its claims goes on or dies (WF of a
step or a crash), and `_claim_one` takes the oldest claimable row, so that a
worker that stays alive claims every row that keeps being claimable (SF
`Claim`).  Nothing is assumed of cases, releases, slow or dying workers.

### Cases, experiments, gates, approval

| run | instance | properties |
|---|---|---|
| `case_lease` | one case, two experiments, a runner and an officer, two arms of one probe, two tokens | `WorkIsCovered`, `FixIsAttributed`, `ReceiptsFrozen`, `ImplementsFencedLease`, `LostWorkIsTakenOver` |
| `complaint_intake` | three calls, three cases, one message, one demo fault, two spellings of one text, three hours and a window of one | `OneCasePerWindow`, `FiledAsAsked` |
| `intake_repeat` | the same | `RepeatIsAnswered`, which the code violates: section 4 |
| `experiment_run` | two servers, five cells of three probes (15 trials), eight worlds, two tokens | `BundleIsAcceptable`, `VerdictIsTrue`, `NeverLeftRunning` |
| `gate_report` | one evaluation, two probes, five outcomes of a suite, a target that may move on once, one probe anybody asks, one report anybody posts | `PassedIsEarned`, `HonestIsAcceptable`, `FailureIsNamed` |
| `change_approval` | two work orders of one case and one of another, two reports, grants and releases, four change sets, which callers draft under their own or others' names, one incident | `ReleaseRestsOnGrant`, `CaseFollowsItsChange`, `VerdictRestsOnGate`, `CommittedIsReleased` |
| `external_intents` | two requests of one creation with an injection, or one with an injection and a recovery; one fault | `CompletedIsReal`, `CandidateUnderLease`, `ImplementsDurableIntent`, `LandedIsRecorded` |

`case_lease`: two tokens are a worker that is lost and its successor, with every
write of the first still possible; further tokens repeat the succession
(`MaxToken`).  The events of the generic endpoint are those its only callers,
the MCP servers, assert.  Fairness: agents poll for work and a claim that has
begun ends (WF `ClaimLocked`, `ClaimCommit`); the takeover is owed only while
tokens last.

`complaint_intake`: three calls are a complaint, its repetition and a call that
meets either between lookup and insert; a call that was refused is made again
without limit.  `MaxTime` = 2 with a `Window` of 1 lets the window be open, be at
its last moment, and be over.  Calls and cases are symmetric.

`experiment_run`: the worlds are one faulty layer, two that fail alone or
together, a layer and a fault outside the layers that do so, one the hidden probe
does not show, a broken control, a flaky trial.  What two executions do to each
other depends on the answers only where they differ, which is the flaky trial.  So
with it, and with one faulty layer, `MaxCalls` lets each of two servers be called
once, and their executions overlap or follow each other; in the other worlds one
server is called twice.  One recovered probe more is significant, so that there
are enough of them (`EnoughProbes`).  Fairness: a thread that runs goes on (also
one whose lease is lost: it ends by the refusal of what it posts), and the
reclaimer finds a lease that no heartbeat keeps.

`gate_report`: `Claimed` are the evaluations somebody else posts a report of,
`Asked` the probes somebody else asks.  One of two probes is asked, so that a pass
may be claimed when the other was answered to the evaluator, and not before.  A
suite is clean, has a failing test, exits with an error but without one, has run
no test, or is timed out.

`change_approval`: one content, and two of everything that can be confused for
another: two grants for one nonce, two starts for one grant, a report that gates
and one that verifies, two work orders of one case and one of another.  Reports,
grants and releases are symmetric.  Four kinds of things happen out of the
ordinary: a report that does not pass, the expiry of a grant or a work order, a
case that is escalated (and perhaps reopened), and a change set that no work order
would have drafted: one under the name of another's, or a third one for a case.
`MaxIncidents` = 1 of these happens in a behaviour.  Each exception that
`CaseFollowsItsChange` and `CommittedIsReleased` state comes about by one of them,
and TLC violates the properties when it is left out; the theorems hold for any number.

`external_intents`: `MaxFaults` = 1 lost message, dead handler or lost lease;
each recovery the code has answers one.  Fairness: a caller retries its key until
it is told how it ended, and a handler that runs goes on.

### The public API and filing

| run | instance | properties |
|---|---|---|
| `public_api` | sixteen teams of three requests that meet on the records they need, one request sent again | `OncePerKey`, `GraphIsAcyclic`, `ConfirmationsAreEarned`, `CommittedIsReadable`, `SignalsAreMerged`, `Answered` |
| `first_case` | both bootstraps, two shells, four credentials, one edit, two runs, two attempts | `OneLiveCredential`, `FilingIsRepeatable` |

`public_api`: the teams (`MCTeams`) let commands meet that share locks,
tables or keys; three edges are the shortest cycle no two of which close it, and
the smallest waiting cycle of three.  One team has a manifest that lists a
dependency twice, and two others after it.  `MaxResends` = 1 is a retry that meets its
own first attempt.  Fairness: a transaction that runs goes on.

`first_case`: `MaxClock` = 2 with a `Lifetime` of 2 lets a credential be fresh,
too old to log in with, and expired; `MaxRuns` = 2 is a filing and its rerun, or
a confirmation.  Shells are symmetric.

## 4. What was met on the way

### A difference from the documents, shown by a run

`intake_repeat`, `RepeatIsAnswered`: `control-plane/README.md:246` says that within
the window a repeated complaint is answered with its case and after it filed
again under another key.  `ingest_complaint` looks for the first row of a
complaint only, and derives the other key from that row's case
(`case_service.py:168`, `:224`).  So when a complaint has been filed twice, every
further call computes the key of the second row and fails on the primary key of
the inbox, within the window of the second case and for ever after; no case is
filed and the caller is told of an internal error.

### Other observations

No run is about these; they are what the code does, and the models do the same
where the part is modelled.

Release controller.  `docs/spec.md:272` forbids new write calls in UNKNOWN; a
writer that read the aggregate before it became UNKNOWN still commits its intent
and calls Quality (`release_service.py:2743`).  A rollback under a second grant with another reason fails
reconcile for ever (`release_service.py:2318`; the comment at `:2713` expects it
to be reconcilable).  Of two racing rollbacks the loser's 409 is recorded as
failed though the base version is restored (`:2796`).  Every HTTP status but 410
is a definite failure (`quality/client.py:112`, `release_service.py:2782`), also
a 5xx that a gateway answers after Quality has accepted: the step then takes
effect under an operation recorded as failed.  When a retry has put the release
into UNKNOWN by then, reconcile raises for ever, though nothing has drifted
(`:2263`).  A failed rollback
projects nothing on its case (`:3011`).

Outbox.  Attempts are not compared with their limit at a claim
(`outbox_relay.py:280`), so a row whose receipt and failure are both refused is
claimed without limit.  A receipt closes the case whichever release it is for
(`notification_service.py:215`).  A ledger blocked by one release kills the
results of others, whose cases stay in RELEASING (`trust_service.py:132`).

Change sets.  A change set may ask for approval before its case is attributed;
the case then moves without it.  When it is rejected afterwards, the case goes
back to AWAITING_FIX although a later change set still awaits its approval, and a
third one may then be approved and released beside it.  A case that is escalated
and reopened (`api/cases.py:467`) is attributed again while its old change set
still awaits approval or is approved, for nothing withdraws it, and a second one
takes the case beside it.  `CaseFollowsItsChange` states both exceptions.  An EXPIRED change set is still released by its pending grant
(`release_service.py:1800`).  `ChangeSetService.commit` (`:369`) asks for an
APPROVED change set whose grant is consumed, which `start_release` never leaves,
so it can only refuse and is no action of the model.  A caller may choose the
name of a change set (`api/changesets.py:29`); under the name of another work
order's it is committed with that work order's release, even when its own grant
approved it.  Where that work order is of another case, its grant approves the
change set without a word to the case it was drafted for.
`CommittedIsReleased` and `CaseFollowsItsChange` state this as an exception.

External intents.  A definite HTTP error after an effect that landed records
FAILED; an answer that breaks its contract is kept and blocks completion for
ever; recovery may read back a stale receipt.  `LandedIsRecorded` excludes
exactly these.

Gates.  The threshold of the judge's scores is taken from the posted report and
is 0.0 where it names none (`gate_service.py:550`); it is never compared with the
configured one.  Suites and judge replies are inline data of whoever posts
(`:597`, `:660`).  So a registered pass shows that the target answered every
probe rightly; that the suites ran and the scores were high is known only of the
evaluator's own posts, and `PassedIsEarned` says no more.  Any failed track is `failed` in the schema, but an error dominates in
`gate.py:614`.  An artifact of more than 2 MB makes `_inline_gate_artifacts`
raise outside the handler, so that nothing is persisted (`eval_runner.py:734`,
`:830`).  A lost registration answer leaves the local run
`registration_failed` beside a registered report.

Experiments.  A second server's exception, or a lost checkpoint answer, cancels
a healthy run.  Heartbeats stop before cells and verdict are posted
(`eval_runner.py:559`), and a failed one ends them while the trials go on (`:482`):
an execution that has asked every provider may find its experiment put back.  `trial_completed` checks the owner and not the token of the run
(`experiment_service.py:425`).  The guard of `escalate_full_factorial` is always
given `verdict=CONFOUNDED`, so the state alone decides.  A create that comes
after its runner was lost leaves an ATTRIBUTING case without a lease.  Internal callers of the case API that are no
MCP servers may assert other events than an escalation (`api/cases.py:485`),
and then `WorkIsCovered` need not hold.

Complaints.  The source is part of the dedup key, so one message that comes by
webhook and by polling is two cases.  The loser of two first calls is answered
with an internal error; repeated, it gets the winner's case.  `docs/spec.md:152`
says that a complaint that meets a closed case is filed anew and linked;
`ingest_complaint` looks at the window only (`case_service.py:173`), so within it
the answer is the closed case and nobody will reply.

Filing.  The two bootstraps lock different keys (`stage1a_local.py:385`,
`v5_catalog_local.py:841`): both may register a controller, after which every
signal is refused.  Rotation and login are single-shot: an operator whose rotated
credential expires cannot get another.  A bootstrap rerun after a rotation
reports a principal drift.  An owner or repository in other letter case makes a
second event.  A crash after the signal, then a refresh of an edited issue,
leaves the first version's case unbound.  A rerun with other arguments under
the same key is refused.

Public API.  `register_application` takes no import lock
(`system_versions.py:466`).  A manifest with a duplicate dependency is imported
but never readable (`system_versions.py:1253`, `:2112`), since nothing before the
read looks for one (`public_api/v5_models.py:529`).  `CommittedIsReadable` states it
as the exception.
Several refusals are not audited (`application_catalog.py:448`,
`system_versions.py:445`).

## 5. The proofs

All theorems hold for every value of the constants under the named assumptions
of their modules, which TLC evaluates in the runs.  Every invariant was checked
with TLC before it was proved.  The usual shape is the same throughout: a
lemma says what a step may do to one piece of state at all, each action is shown
once to make only such moves, and the invariants follow from the moves.

| module | theorem | statement |
|---|---|---|
| `ReleaseControllerProofs` | `Inductive` | `Spec => []IInv` |
| | `TypeCorrect` | `Spec => []TypeOK` |
| | `Authorised` | `Spec => []EffectsAuthorised` |
| | `EffectOnce` | `Spec => []OneEffectPerTransition` |
| | `LeftByProof` | `Spec => UnknownLeftByProof` |
| | `TheViewIsReal` | `Spec => []ViewIsReal` |
| | `ControllerImplementsLifecycle` | `Spec => ImplementsLifecycle` |
| `OutboxDispatcherProofs` | `Inductive` | `Spec => []IInv` |
| | `TypeCorrect` | `Spec => []TypeOK` |
| | `SampledOnce` | `Spec => []SampledWithItsRow` |
| | `UnknownExcluded` | `Spec => []UnknownNeverCounts` |
| | `ClosedCasesAreAnswered` | `Spec => []ClosedIsAnswered` |
| | `DeliveryImplementsReply` | `Spec => ImplementsReply` |
| `CaseLeaseProofs` | `TypeCorrect` | `Spec => []TypeOK` |
| | `WritesAreFenced` | `Spec => ImplementsFencedLease` |
| | `ReceiptsStay` | `Spec => ReceiptsFrozen` |
| | `FixesAreAttributed` | `Spec => []FixIsAttributed` |
| | `WorkStaysCovered` | `Spec => []WorkIsCovered`, if `ApiEvents` has at most `case.escalated` |
| `FilingProofs` | `Inductive` | `Spec => []IInv` |
| | `TypeCorrect` | `Spec => []TypeOK` |
| | `OnePerWindow` | `Spec => []OneCasePerWindow` |
| | `AsAsked` | `Spec => []FiledAsAsked` |
| | `FilingTypeCorrect` | `FilingSpec => [](IdentityTypeOK /\ FilingTypeOK)` |
| | `OneCredentialEach` | `FilingSpec => []OneLiveCredential` |
| | `FilingsAreRepeatable` | `FilingSpec => []FilingIsRepeatable` |
| `EvaluationProofs` | `TypeCorrect` | `Spec => []TypeOK` |
| | `HonestAccepted` | `Spec => []HonestIsAcceptable` |
| | `PassesAreEarned` | `Spec => []PassedIsEarned` |
| | `FailuresAreNamed` | `Spec => []FailureIsNamed` |
| | `ExperimentTypeCorrect` | `ExperimentSpec => []ExperimentTypeOK` |
| | `BundlesAreAcceptable` | `ExperimentSpec => []BundleIsAcceptable` |
| | `OnlyCulpritsAreNamed` | `ExperimentSpec => []OnlyTheCulprit` |
| | `VerdictsAreTrue` | `ExperimentSpec => []VerdictIsTrue`, if there are enough probes (`EnoughProbes`) |
| `ChangeApprovalProofs` | `TypeCorrect` | `Spec => []TypeOK` |
| | `ReleasesRestOnGrants` | `Spec => []ReleaseRestsOnGrant` |
| | `VerdictsRestOnGates` | `Spec => []VerdictRestsOnGate` |
| | `CommitsAreReleased` | `Spec => []CommittedIsReleased` |
| | `CasesFollowTheirChanges` | `Spec => []CaseFollowsItsChange` |
| `ExternalIntentsProofs` | `TypeCorrect` | `Spec => []TypeOK` |
| | `CompletionsAreReal` | `Spec => []CompletedIsReal` |
| | `CandidatesUnderLease` | `Spec => CandidateUnderLease` |
| | `IntentsAreDurable` | `Spec => ImplementsDurableIntent` |
| `PublicApiProofs` | `OneEffectPerKey` | `Spec => []OncePerKey` |
| | `OneCasePerEvent` | `Spec => []SignalsAreMerged` |
| | `OthersConfirm` | `Spec => []ConfirmationsAreEarned` |
| | `CommitsAreReadable` | `Spec /\ RecordsFit => []CommittedIsReadable` |
| | `DependenciesStayAcyclic` | `Spec /\ Joined /\ GraphIsAcyclic => []GraphIsAcyclic` |

### Release controller

Assumptions: `KindAssumption` (every key has a kind), `NoneAssumption` (None is
no key, grant or reason), `FaultAssumption`.

None of the properties is inductive as it stands.  `OneEffectPerTransition`, for
instance, holds because Quality applies an operation only at the revision it
expects and raises the revision when it does, so that whatever has succeeded
expected less than the present revision: that clause (in `EffectInv`) is what
makes a second success at the same revision impossible, and it rests in turn on
the committed row not changing what it expects.  `UnknownLeftByProof` needs to
know that a reconciler which sees the revision it read also sees the operation
it replayed.  `IInv` is the conjunction

* `TypeOK`;
* `VerdictInv`: revisions are positive, UNKNOWN names its operation, and a
  release with a verdict is past its canary, in doubt or not;
* `WriterInv`: a handler that has begun a promotion or rollback has its verdict
  (and closure), a row exists exactly from the intent on, a handler that was
  told of success was told the truth, only rollbacks escalate;
* `GrantInv`: a committed operation other than a stage has consumed its grant,
  which names it and its action;
* `EffectInv`: what reached Quality has a row; what succeeded expected less than
  the present revision; what is recorded as succeeded did succeed;
* `UniqueInv`: no two operations succeeded from the same revision;
* `ReconcilerInv`: a replay is of a row that exists, and while the release is at
  the revision the reconciler read, the marker is still its operation.

`ViewIsReal` and the refinement of `ReleaseLifecycle` need more: what the
controller has recorded, read through an UNKNOWN to the state it came from
(`PlainState`), must fix what Quality shows.  `PlaceInv` says so.  In every plain
state Quality has one of at most two statuses, each status has one revision, and
the controller has confirmed exactly the revision that state was entered with.
`KeyInv` says that each kind of step runs from exactly one revision, whoever
writes it.  So of two keys of one kind, or a key and a reconciler that replays
it, only one can have its effect, and the effect is the transition the recorded
state is about to make.  Every action is then, of `PlainState` and Quality, one
of a few moves (stage, canary, judge, turn back, the end, or none), and each of
these is a step of the abstract release or a stutter.

### Outbox dispatcher

Assumptions: `CaseAssumption` (every release has a case), `NoneAssumption` (None
is no worker or release), `AttemptAssumption` (at least one attempt).

Why an UNKNOWN release never counts takes both mechanisms of the code.  A result
is claimed only when the UNKNOWN row before it is absent or SENT
(`_claim_one`), and one that is SENT has blocked the ledger in the transaction
that acknowledged it (`_complete_internal`); a slow worker with an old claim does
not matter, for it no longer owns its row.  So the result that is at work has
either no UNKNOWN before it or a blocked ledger, which is `OrderInv`; and no
UNKNOWN row is written later, because the release has ended (`RowInv`).  `IInv` is

* `TypeOK`, with a row held exactly while it is PROCESSING;
* `WorkerInv`: a worker that is not idle has a row, and calls only for replies;
* `RowInv`: a release that has not ended has no result row, one that has not
  begun no UNKNOWN row, and a reply row exists exactly with its notification;
* `OrderInv`, as above;
* `SampledWithItsRow` and `UnknownNeverCounts` themselves.

That a case closes only when its complainant was told once, and that delivery
implements `ReplyLifecycle`, rests on `ReplyInv` beside it:

* `AnswerInv`: a notification and its row are settled together, and only after
  a message; there is never more than one;
* `CallInv`: a worker that holds a receipt holds it for a message that was
  delivered; one that is about to call does so within the provider's window, or
  knows that its row was attempted before and will stop at `CheckWindow`;
* `WindowInv`: the window closes only for a row that has been attempted.

The last two are what makes a retry harmless: within the window the provider
suppresses the second message, and after it nobody calls again.

### Case leases

Assumptions: None is none of the other values, runners and officers are
workers, `MaxToken` is a number, the cells are finite.

The refinement of `FencedLease` needs one invariant: every token ever granted is
below the counter, and a lease in force has the newest token of its case
(`LeaseInv`).  A step then is a grant, a lapse, a
write under the token in force, a taking back, or nothing (`LeaseStep`).
`FixIsAttributed` rests on `FixInv`: an arm is in only with all its receipts, no
two arms share a place, an ATTRIBUTED verdict has all its arms, and a case that
awaits its fix names an experiment of its own with that verdict; that arms fill
all places is then a count.  `WorkIsCovered` is inductive with the types once
the generic endpoint asserts escalations only; without that assumption a caller
could assert the claim of a case nobody leases.

### Complaint intake

Assumptions: messages are external ids, the fixture is a text, texts have a
fingerprint, the window and the last hour are numbers, None is no other value.

A complaint never has more than two rows: one under its own key, and one under
the key made of that and of the case of the first (`Rows`: a refiled row names
the case of the first row and was received after its window).  Rows and faults
only accumulate, so what a call found at its lookup still holds at its insert
(`Carried`), and whoever was answered with a case keeps the row that answers for
it (`Told`).  `OneCasePerWindow` follows from `Rows` alone: of two rows of one
complaint one is the first, for two refiled ones would have the same key.

### Gate reports

Assumptions: the JSON probes are probes, executions have an exit code, counts
and a timeout, None and Raised are no such value, the bounds are a number and
subsets (`BoundsAssumption`).

`Course` says that an evaluation that has come to store or post holds either the
report of an exception or the one its complete evidence yields (`Built`), and
that what is registered belongs to an evaluation that has ended.  Evaluator and
controller compute alike from complete evidence, case by case of suites, answers
and scores (`RunAcceptable`); and once registered, the evidence no longer
changes, so what the controller demanded at registration stays true (`Settled`).  What
others post is any report at all, so of theirs only that remains which the
controller looks up (`PassIsBorneOut`): the log, which only grows, and the
revision, which is kept with the registration.  That the log has every right
answer the evaluator was given (`Heard`) is why its own passes are not refused.

### Experiments

Assumptions: `GroupsAssumption` (finitely many probes, in groups that do not
overlap), `OrderAssumption` (each cell asks each probe once), `WorldsAssumption`,
`SignificanceAssumption`, `CallsAssumption`.

`ExperimentInv` says of each executor that every result it holds is the receipt
of the controller, and that its verdict is what its results yield once it has
them all (`Knows`); of the controller, that recorded cells and verdict rest on
receipts that are all there (`CellsRest`, `VerdictRests`), and that a receipt is
an answer the version under test gives (`ReceiptsAreOutcomes`).  A receipt is
written once, so each of these stays true whoever else executes the experiment,
whenever a server dies and whatever becomes of its lease.  `BundleIsAcceptable` is then that harness and
controller adjudicate alike, two definitions of different shape.

That a verdict is true is an argument about the versions.  Without flaky trials
the receipts are what the cells answer (`VerdictOfWorld`).  If the hidden probes
show the fault, all affected probes recover in a cell or none does
(`AllOrNothing`); if they do not, they recover everywhere and reproduce nothing
(`HiddenProbesPass`).  So an arm stands out only if its one layer repairs the
version (`Repaired`) and the cell with nothing restored fails (`StandsOut`), and
by cases of one fault or several, alone or together, there is a culprit exactly
when that cell fails and one single arm repairs the version
(`CulpritIsRepaired`).  Of `Significant` this uses that equal counts never are;
`OnlyCulpritsAreNamed` needs no more.  That the culprit is named as well takes a
full recovery that stands out: with the default `delta_min` of 0.2 that is three
affected and two hidden trials to a cell, and with fewer the code rightly
concludes nothing.  `EnoughProbes` says so, and TLC finds it true of the
instance.

The proof corrected the property.  It used to count a layer as the culprit only
when nothing else was wrong; but where faults do harm only together, and one of
two is outside the layers, restoring the other repairs the version, and the code
names it.  `Culprit` includes this, and the run has got a world for it.

### Change sets and approvals

Assumptions: each work order has a case and a change-set name of its own
(`OwnAssumption`), drafts are of the given sets, the bound is a number, None is no
row and no other value.

`Core` is what a release rests on: a work order names a report of its own sealed
with its hash (`Sealed`); a later report rests on the gate of its work order and
is not that gate (`Later`); grants are of gated work orders (`GrantsBacked`);
one initial grant of each (`NonceOnce`); a release has consumed an initial grant
(`Consumed`) and is the only one of its work order (`OneRelease`); a start that
waits for Quality still holds a pending grant (`StartingPending`); passed
verdicts and action grants go back to reports (`VerdictsBacked`,
`ActionsBacked`).  `OneRelease` is why the nonce matters: a second release would
need a second initial grant, or the first one pending again.  `TypeOK` needs
`StartingPending`, without which a commit could write into a grant that is not
there.  `CommittedIsReleased` adds `Committal`: a change set that is APPROVED has
an initial grant, of the work order it was drafted for or of the one whose name
it bears (`Granted`), and one that is COMMITTED a release of the latter
(`Released`); that grants and releases are never taken back is `Kept`.

`CasesFollowTheirChanges` (`Follows`) has one clause per stage of a case: the
change set it names is its own and has asked for approval (`Tracks`), awaits it
or has expired while the case awaits it, or bears the name of another case's work
order, whose grant has approved it (`AwaitsApproval`, `BearsAnothersName`), and has
its grant once the case is releasing (`Releasing`).  These hold of reopened cases
too.  Until then a case has at most one verdict, and has it before any change
set moves it (`Staged`, `Judged`); back at AWAITING_FIX it has no approval in
flight that it has seen (`Cleared`), and of those it has seen only the one it names
is in flight (`OneInFlight`).  The last two hold up to the exception of
section 4 (`MadeRoom`), which was found here: the property without it is not
inductive, and with a third change set in the run TLC shows why.

### External intents

Assumptions: `KeysAssumption` (keys have a kind, requests a key and a worker, and
no key is the name of what exists from the start), `BoundAssumption`,
`CandidatesAssumption` (only candidates are moved or quarantined),
`AnswersAssumption` (neither None nor the malformed answer is a row, a receipt or
a state of an intent).

`RealInv` says what a handler may conclude from what it holds: whatever is on the
wire was recorded (`Sent`), and so was whatever took effect (`Landed`), in the
order the code commits and calls; a sound answer is the effect as Quality shows
or keeps it (`Holds`), also when it was read back after a loss (`Reads`); and a
completed intent was completed once, with such an answer (`Completed`).  Quality's
version sets and receipts do not go away, so an answer that was true stays true
while the handler waits, its message arrives late, or another request of the key
completes first.  The refinement of `DurableIntent` maps each key on its own: a
step is its recording, its effect, its settlement by that effect, its doubt, or
none of these.

### The public API

Assumptions: `TablesAssumption`, `RequestsAssumption` (a request has an intent
the API serves and a known principal; a manifest is one the wire model lets
through, `public_api/v5_models.py:529`: finite, its dependencies between its own
components and without a cycle; a refusal is not None), `SeedsAssumption` (what
earlier commands committed is by others than the requests of the instance,
components are finitely many, and signals, cases, links and evidence fit each
other), `MaxResendsAssumption`.

`ApiInv` has a part for each of the first three theorems.

* `LedgerPart`: locks are exclusive (`Exclusive`), a transaction past its first
  lock holds that of its key (`Keyed`); a key is recorded once (`Unique`), every
  row of a request has its record and every record its row (`Kept`, `Shown`), and
  whoever was answered was told of a record of its key (`Told`).  A second attempt
  at one key waits for the lock, finds the record and replays it; a rolled back one
  has left neither.
* `SignalPart`: a report goes on only with the lock of its event, and takes the
  one that opens a case only for an event without a signal (`Watches`).  So no
  two open a case for one event, and the unique index behind it never refuses
  (`Sane`).
* `ConfirmPart`: what a confirmation was let on for still holds when it commits
  (`Earns`): the proposal of a case and attempt does not change, and the
  credential was compared with it under lock.  The hard clause is `Past`: no
  credential is younger than a proposal that has not come yet, or "issued after
  the proposal" would say nothing of the proposal that is confirmed.

`CommitsAreReadable` adds `ReadPart`: what a read will demand of a record is
there when it is committed, and nothing takes it away.  `RecordsFit` says it of
the records: a part of the catalog has its application (`Placed`), a version its
application, environment, components and edges (`Whole`), a binding the version it
declares (`Bound`), a case its signal and evidence (`Linked`).  The rest says it
of the commands: one that was let on to an application finds it at its commit
(`Located`), one that has locked its case finds its version (`Declares`).  The
step that could go wrong is in `VersionStays`: a version names its edges, and a
later row under one of these names would be read as one of its own; the unique
index refuses it.  `Whole` says of a version that its edges fit exactly if no
manifest listed a dependency twice (`Sound`, `Repeating`), so the theorem says of
those that do that they are never readable.  One hypothesis, which TLC
finds true of every instance of the run: `RecordsFit` holds of what was committed
before.

`DependenciesStayAcyclic` adds `GraphPart`.  The code searches the graph from one
end of an edge for the other; the proof has cuts instead of searches.  Of two
components the second does not lead to the first (`Apart`) if some set of
components of its application has it, has not the first and is left by no edge.
`ReachFinds` shows that this is what the search decides: it stays inside such a
set, and after as many steps as there are components it finds nothing more
(`SearchEnds`, by counting).  `GraphPart` says that every edge is of one
application and cut off so (`NoWayBack`), and so is an edge still to be written by
a command that holds the lock of its graph (`Clears`).  When an edge is written,
the cut of another edge is met with or joined to that of the new one, according to
the side that edge starts on (`EdgeKeepsApart`); no second command of the
application is past its check then, for the lock is exclusive.  A manifest brings
its own cuts, and its components are new, so that its edges leave no set there
was.  That the search is defined for every number of steps, and what holds of it
by induction, is shown without the induction theorems: from the paths themselves
(`PathsSearch`), and from the least number outside a set (`LeastNumber`), which
exists because finite sets are well founded under strict inclusion.  The
hypotheses are about the start: the graph there was is acyclic, and its edges join
components of one application each, as the foreign keys of
`models/v5_tables.py:287` demand.

### Filing a case

Assumptions: `LocalAssumption` (the catalog's requests are requests, the bounds
are numbers).

`OneLiveCredential` holds because a credential is made for somebody who has none
or in exchange for the only active one.  `IdentityInv` says why the first is so
although a bootstrap and a login ask whether somebody is enrolled, or is in the
environment, rather than for credentials: whoever has one is enrolled, and an
owner with one is in the environment (`HoldersAreKnown`).

`FilingIsRepeatable` rests on `FilingInv`.

* `RunsOK`: what a command knows follows from its step; from the signal on it has
  the case of its version.  `WireOK`: a request says what its step and version
  determine, and a command with the number of a request still has the version it
  sent it for, so that a late answer tells it of its own case.
* `LedgerOK`: what a key was used for follows from the key, and the case it names
  is there.  Hence a later request with the key says the same, which is what
  keeps it from conflict; the mutant with a key that leaves out the version breaks
  just this.
* `DraftsOK`: a draft is of a case whose proposal has used its key, so no second
  one comes.  `CasesDiffer`, `DraftsDiffer`: a version has one case, a case one
  draft.

Cases are never taken back (`CasesGrow`), so that whatever is known of a case
stays true of requests that are still on their way.

### Model-checked only

* The liveness properties `UnknownResolved`, `RepliesSettle`,
  `LostWorkIsTakenOver`, `LandedIsRecorded`, `NeverLeftRunning` and `Answered`:
  their fairness needs ENABLED.
* `RepeatIsAnswered`, which does not hold (section 4).

## 6. Not modelled

* Digests, hash chains, JSON schemas and canonical forms: a refusal where they
  do not fit, and a content that stands for its hash.  `contracts/` holds
  schemas and conformance cases.
* The operator's views (`read_views.py`), the audit log, table definitions and
  settings, the console, deployment, the agents' prompts: no control of their
  own.  An audit write that fails aborts its transaction, and the models have
  that as a failure.
* The commands of the command line other than the two of section 2; the MCP
  servers as transport; the statistics of the harness beyond a relation of
  significance.
* Routing and authentication over HTTP, except for who a bearer is.
* The gate policy `isolated-replay`, a setting for test controllers that accepts
  what Quality's log does not show.

`PROJECT.json` gives each component's status; `hazards` names what each of them
is exposed to, and why where no property covers it.

## 7. Plan

1. Composition of `ReleaseController` with `OutboxDispatcher`, replacing the
   steps by which the latter's releases end, and of `ChangeApproval` with
   `CaseLease` for a case from complaint to reply.
2. A second release of one case in the run of the outbox.
