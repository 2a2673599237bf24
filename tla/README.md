# Verification of the downtime-aware recovery agent

TLA+ models of the agent in `agent/` and of the harness that evaluates it, TLC runs
that check them on small instances, and TLAPS proofs of what holds for every
instance. Paths below are relative to `src/`.

The agent takes failed payments, asks a diagnosis layer whether a retry could
work, lets a deterministic policy decide, dispatches the retry, and writes
everything to a hash-chained audit log. It keeps all state in one SQLite
database; connections are opened in autocommit mode (`agent/db.py:99`,
`isolation_level=None`), and no function opens a transaction. So **each SQL
statement is an atomic step and nothing larger is.** That fact decides the grain
of the models: a call of `process_case()` is about twenty statements, and another
process may run, or this one may die, between any two of them.

## 1. Inventory

| Component | State | Operations | Interacts with | Hard behaviour | What makes it correct |
|---|---|---|---|---|---|
| Case store (`agent/state.py`, `agent/db.py`) | `cases`: state, cohort, attempts, version | `create_case`, `get_case`, `transition`, `verify_counters` | every other part writes rows through `transition` | check and write are two statements; optimistic versioning | rows follow the edges; terminal rows are final; one writer per version |
| Policy engine (`agent/policy/`) | none; `Rules` loaded from YAML | `evaluate` | reads a `CaseView`, a proposal, a `DowntimeContext` | order of the gates, thresholds, clamps | DENY beats REVIEW; downtime changes when, never whether; bounded delay |
| Downtime store (`agent/downtime.py`) | `downtime_windows` | `add`, `active_at`, `context_at` | policy | overlapping, corrected and open-ended windows | a new report hides no other outage |
| Decision pipeline (`agent/pipeline.py`, `agent/ledger.py`) | the locals of a call | `ingest`, `process_case` | all of them | stale reads, partial runs, repeated calls | holdout never charged; spend authorised, counted, capped, once per key |
| Simulated executor (`agent/executors/simulated.py`, `contracts.py`, `port.py`) | `actions`, the provider | `execute` | pipeline; payment provider | timeouts with unknown outcome, replays, refusals | one run per key; a refusal ran nothing |
| Live executor (`agent/executors/live.py`) | none; payment links at the service | `execute` | verdicts; the payment link service | 429 retries, lost answers, links that appear late | one link per key, only for keys that were allowed |
| Reconciliation (`agent/reconciliation.py`) | none | `find_uncertain_cases`, `reconcile` | case store, audit log | a verified outcome that has become old; two statements | the case ends where the money is |
| Audit log (`agent/audit.py`) | `audit_events` | `append`, `verify_chain`, `events_for`, `replay` | everyone appends | SELECT of the last hash and INSERT are two statements | the chain verifies, tampering shows, replay gives the case back |
| Triage (`agent/triage.py`) | none | `triage` | pipeline | precedence of the table | unknown reasons fail closed; the port is asked about ambiguous ones only |
| Diagnosis ladder (`agent/diagnosis/`) | the attempt of a call | `diagnose`, `validate`, fallbacks | model APIs, pipeline | retries, second model, invalid answers | a model that fails or contradicts itself never spends; every call ends |
| Corpus generation (`datagen/`, `scripts/gen.py`) | database, ground-truth file | `generate_scenario` | harness | two files replaced one after the other | a report never judges one corpus by another's truth |
| Evaluation harness (`evalharness/`) | scoring log file, the corpus database | `run`, `record_scoring_run`, metrics | drives the pipeline | recorded before it is scored; reruns after a death | a sealed corpus is scored once; numbers reproduce |
| Dashboard and demo scenarios (`agent/dashboard.py`, `agent/demo_scenarios.py`, `scripts/serve_dashboard.py`) | the page being built | pages, five scenarios | reads all tables, calls pipeline and executor | a page is several SELECTs among other writers; scenarios go past the pipeline | a page explains itself; a scenario ends where its trace says |
| Other scripts | none | sample data, benchmarks, documents | pipeline | none | none |

No scheduler and no reconciliation worker exist in the repository
(`docs/00_project_state.md:97-100`, `ARCHITECTURE.md:51`). The callers of
`process_case()` and `reconcile()` are therefore the environment of the models:
who calls, when, how often and from how many processes is left open, and each
run says which callers it admits. The hazards these parts are exposed to, each
at its line, are in `PROJECT.json`.

## 2. Modules

| Module | What it is |
|---|---|
| `CaseStore` | `cases` and `transition()` by any number of connections: the abstract specification of what moves a case |
| `Policy` | `evaluate()`, `active_at()`, `context_at()` and `add()` as operators |
| `DowntimeGate` | the gate in its surroundings: a window table that grows, a clock, requests |
| `RecoveryPipeline` | `ingest()`, `process_case()`, the simulated executor, `find_uncertain_cases()` and `reconcile()`, one statement per action; extends `CaseStore` and `Policy` |
| `AuditLog` | `append()`, `verify_chain()`, `events_for()`, `replay()` |
| `ExecutorContract` | what an executor promises: the abstract specification of both executors |
| `PipelineContract` | the refinement mapping from `RecoveryPipeline` to the contract |
| `Diagnosis` | `triage()`, `validate()`, the fallbacks and the fixtures as operators; extends `Policy` |
| `DiagnosisLadder` | a diagnosis under way: triage, a fixture or a model client, one attempt after the other |
| `LiveExecutor` | `LiveRazorpayExecutor.execute()` and the payment link service; maps itself to the contract |
| `LiveRecovery` | a case in live mode: ladder, gate, live executor and `reconcile()` together |
| `ScoringRun` | `generate_scenario()` and `run()`: database, ground truth, scoring log, reports |
| `Dashboard` | the dashboard server and the demo scenarios over `RecoveryPipeline`, beside other writers |
| `*_proofs` | theorems and proofs |
| `MC*` | values of the constants, and the bounds, for TLC |

Composition: `RecoveryPipeline` does not repeat the case store; its `Select`,
`Update` and `Conflict` contain `SelectRow`, `UpdateRow` and `LoseRace`, and its
`Decide` is `DecisionOf` of `Policy`. That the pipeline with its executor,
reconciliation and crashes implements `StoreSpec` is checked (`StoreSpec` as a
PROPERTY) and proved (`PipelineImplementsStore`); the refinement mapping is the
identity on `rows` and `pending`.

`ExecutorContract` is the second abstract specification. It knows the actions that
ran (one per idempotency key), the calls under way and the keys whose action may
still run although nobody waits for it; an answer may be given only if what it
says has happened. Its constants say which answers prove that the action ran and
which that the call ran nothing: SUCCEEDED and FAILED, and both refusals, for the
simulated executor (`PipelineContract`); SUCCEEDED, and the terminal refusal, for
the live one (`LiveExecutor`). The difference is a finding of section 5.
`LiveRecovery` conjoins steps of `DiagnosisLadder` and `LiveExecutor` with the rows
of the cases, and `Dashboard` runs `RecoveryPipeline` with the server's connection as
one of its writers.

### CaseStore

`rows` is the table (a row in state "ABSENT" does not exist); `pending` holds the
calls of `transition()` between their SELECT (`state.py:149`) and UPDATE
(`state.py:169`). `SelectRow` checks the edge, `UpdateRow` writes when the
version is still the one read, `LoseRace` raises "concurrent modification",
`DropCall` is a death in between.

### Policy and DowntimeGate

`GateOrder` is the order of the returns of `evaluate()`. An executed idempotency
key is represented by its attempt number, since a key is a function of the case,
the action and the attempt, and only RETRY is ever executed. Times are minutes,
confidence is in percent, the expected value test is in integers
(`3 * amount <= 10 * cost`). A window's scope is the set of instruments it
covers. `VerdictOn(p)` is the verdict on any proposal, so an invariant over
`VerdictOn` quantifies over all proposals at each state of windows and clock.

### RecoveryPipeline

A writer is a process with one connection. `pc[w]` names its next statement and
`job[w]` holds the locals of its call that are used later:

| pc | code | actions |
|---|---|---|
| idle | no call | `Ingest`, `Start` (process_case), `Find` (find_uncertain_cases, query, reconcile) |
| announce | `pipeline.py:67-82` | `Announce` |
| guard | `pipeline.py:243` | `Guard` |
| select, update, log | `transition()` and the event after it | `Select`, `Illegal`, `Update`, `Conflict`, `LogTransition` |
| view, decide | `pipeline.py:255-328` | `ReadCase`, `Authorize` |
| execute, lookup, insert | `simulated.py:74-180` | `ExecutorReads`, `Replay`, `Refuse`, `RefuseForNow`, `TimeOut`, `Perform`, `Record` |
| report | `pipeline.py:346-445` | `ReportOutcome` |
| find, verify, resolve | `reconciliation.py:103-175` | `CheckQuarantined`, `CheckUncertain`, `Resolve` |

The phase of the job says which `transition()` the call is at (diagnose,
schedule, launch, close, settle, reconcile). `actions` is the table of executed
keys. `log[c]` keeps of the audit log what its readers take from it: cohort,
state and attempts of `replay()`, and the attempt of the unresolved
ACTION_UNCERTAIN event, if any. `charges` is external: the calls that reached the
payment provider. It is the ground truth against which the tables are judged.

Abstractions: the cohort draw is a free choice; triage and diagnosis are a free
choice of proposal (`LiveRecovery` has them); events that no reader looks at (SIGNAL_RECEIVED,
TRIAGE_RESULT, DIAGNOSIS_RETURNED, POLICY_VERDICT, ACTION_DISPATCHED,
DECISION_RECORDED) are left out, so a step may stand for a statement and an
append that follows it; `execute_at` is computed in `DowntimeGate` and, as in the
code, nobody waits for it. `actual_outcome` is what the provider says at the time
of `Find`, and may be old when `reconcile()` uses it. A retryable refusal
(`RefuseForNow`) cannot come from the simulated executor alone, since it never
leaves a row with a NULL `executed_at`; `PortMayRefuse` turns it on for an
executor behind the same port that raises PROVIDER_ERROR.

### AuditLog

`events` is the table, `drafts` the appends between SELECT (`audit.py:69`) and
INSERT (`audit.py:83`). SHA-256 is taken to be free of collisions: the hash of a
row stands for the sequence of bodies hashed to reach it. Under that assumption
equal hashes mean equal prefixes, which is all the chain relies on. An event keeps what
`replay()` reads of its payload: the value (a cohort, a target state, an outcome) and a
detail (the reason of a transition, or the key `succeeded` of a result), "none" where the
payload has no such key. `ResultStep` is the result that `process_case()` writes,
`ForgedStep` the one that a demo scenario makes up. `Draft` refuses an unknown event type.

### Diagnosis, DiagnosisLadder, LiveExecutor, LiveRecovery

A proposal keeps what the gates and `validate()` look at: class, confidence,
whether the cited evidence is empty, of the prompt, or of neither, action, delay,
missing information, and the tier, which a model can set like any other field.
`stage` is where the diagnosis is: asked, at Groq's second model
(`groq_diagnosis.py:61-80`), with an answer to validate, or answered; `tries`
counts the failed attempts of the loop. `Hear` lets the model answer anything of
`ModelAnswers`, `Miss` is everything that is no answer. `exec` is the call of
`execute()`, `posts` its POSTs. `Serve` is the link service: it refuses a reference
it knows; a 5xx or a lost answer may have created the link, may create it later
(`inflight`, `Land`) or never. `Redeliver` hands the executor any issued verdict again,
or one that allows nothing; `Probe` asks a port without triage; both are external.
`StartRound` admits a case in any state that has an edge to DIAGNOSED, QUARANTINED included.
In the others (a case stranded in SCHEDULED, a closed one) `process_case()` appends a
diagnosis and raises at its first `transition()`: all that such a call does is ask the
port, which is what `Probe` does. `uncertain` of a row is the attempt of its unresolved
ACTION_UNCERTAIN; a verdict that closes the case leaves it standing, as the code does.
`Reconcile` follows the truth at that moment, as its caller is supposed to.
Between two exchanges with the outside the statements of a call are one step
here, because one process runs one call; `RecoveryPipeline` takes them apart.

### ScoringRun

A failure is a number in the order of `created_at`. `CorpusOf` gives the failures that
a seed generates, `RetryDraw` the stream of `random.Random(seed)`, `OrganicDraw` the
hash draws of `_organic_recovered`; `Generable` is what `generate()` can produce, and an
assumption on `CorpusOf`. One command runs at a time, and dies where it likes. A row
is played in one step by the same `Evaluate` that the gates are checked with, and
by the outcome that the hidden probability gives; `HalfPlayed` is what a death leaves
of it. `players` and `whole` are ghosts for `ReportsReproduce`. The records of S1 are
written twice, the second time under the name of its alias (`ResetAlias`). A model answers
an ambiguous case with any of `ModelAnswers`, and its key may be missing; a database that a
model played is not `whole`, since its answers are not reproducible. A ground truth that a
death tore in the middle of a line (`torn`) raises before anything is recorded. The scoring
log is beside the ground truth (`run.py:114`), so a corpus is one in a directory: a copy of
it elsewhere has a log, and a seal, of its own.

### Dashboard

`page` holds what the SELECTs of a request have read so far, in the order of the code.
The detail and the trace page read all events of a case (`told`). The list page reads
three things of a case beside its row: whether it has a diagnosis, its last verdict,
and an executed action. It shows no result and nothing of `reconcile()`, so a case
that was recovered by reconciliation stands there without an action; `ListExplains` claims
no more than the page has. `trail` is what the log can tell of a case; it takes the place
of the events that `RecoveryPipeline` leaves out.

`demo` is the scenario: its case, its step, and the trace that `process_case()` returned to
it. Its calls are steps of the server's writer in `RecoveryPipeline`; what it does past the
pipeline (`Forge`, `Redeliver`) are actions of their own. The four made-up results and the
UPDATE after them are one action. A call that raises ends the scenario without an answer.
Server and scenario share one thread, so a page and a scenario exclude each other. Other
writers exclude neither: `OtherStart` begins a call on any case in the table, the
scenario's too, as `run.py:172` of another process would, and `reconcile()` likewise.

## 3. What the runs check

| Run | Instance | Shows |
|---|---|---|
| `downtime_gate` | 5 window reports (two of one id), 3 times, 8 views, 72 proposals, 3 rows | `ConfidenceOnlyAsksAHuman`, `DowntimeOnlyPostpones`, `ScheduleIsBounded`, `OutageHiddenOnlyByCorrection` |
| `pipeline_sequential` | 1 writer, 1 case, cap 2, 2 timeouts, 2 deaths, refusals | `PipelineTypeOK`, `NothingAfterSuccess`, `KeyChargedOnce`, `SpendWithinCap`, `SpendIsCounted`, `ReplayAgrees`, `CountsAreBacked`, `PipelineKeepsContract` |
| `pipeline_concurrent` | 2 writers, 1 case, cap 2, 1 timeout, 1 death, refusals | `HoldoutNeverCharged`, `RecoveredMeansCollected`, `SpendIsAuthorized`, `StoreSpec`, `TerminalRowsFrozen`, `OneWinnerPerVersion` |
| `pipeline_liveness` | 1 writer, 1 case, cap 2, 2 timeouts | `EveryCallSettles`, `EveryCaseSettles` |
| `audit_one_appender` | 1 appender, 2 cases, 7 kinds of step (one of an unknown type), 4 rows | `AuditTypeOK`, `TamperingShows`, `ReplayReadsTheLog` |
| `live_recovery` | 1 case, cap 2, 4 inputs, 5 model answers, 6 ports | `LiveTypeOK`, `GivingUpSpendsNothing`, `LinksWithinCap`, `LinksWereAuthorized`, `RecoveredHasLink`, `VerdictIsVouchedFor`, `KeepsContract`, `RoundEnds` |
| `scoring` | S1 of the sealed corpus with its alias, and S2; 3 failures, 3 providers, 2 generator and 2 run seeds, 2 scorings, 2 generations, 1 death | `ScoringTypeOK`, `SealedScoredOnce`, `TimesScoredIsHonest`, `ReportsReproduce`, `CounterfactualIsFixed` |
| `dashboard` | the server and one other writer on one case, cap 1, 1 timeout, 1 death, refusals, 7 writes of the row | `PagesAreCoherent`, `UncertainIsShown`, `ScenariosEndAsTraced`, `ScenariosSpendOnce` |

Four more runs expect a violation; each is a finding (section 5).

Why the bounds are enough. One case suffices because no statement of one case
reads or writes rows of another, except the shared hash chain, which `AuditLog`
models with two. With cap 2 a case goes round the loop of
attempts, meets the cap after it, and Cap + 1 would be one too many; two timeouts
let a reconciled case time out again; two deaths let a call that follows a death
die itself. `MaxVersion` bounds the writes to a row below which a call still
starts; it is 99, never reached, in the runs with one writer, where the cap, the
timeouts and the deaths bound the behaviours by themselves. In the concurrent run
it is 6, which takes a case through one whole attempt, and a second writer into
any part of it; without it two writers that alternate REVIEW and diagnosis move a
case between DIAGNOSED and QUARANTINED forever. `MCProposals` holds one proposal
for each way out of the gates a case can take; the gates themselves are covered
by `downtime_gate`, whose views and proposals stand on both sides of each
threshold. In `live_recovery` the inputs take each way through triage (ambiguous,
clean, terminal, unseen), the answers stand on both sides of each check of
`validate()` and of the confidence floor, and three attempt numbers are one more
than the cap. In `scoring` one failure is attempted by one provider only, one by all
and one by none, so that the draws of two reports shift against each other, and
the shorter corpus of the second seed makes a ground truth that does not fit
its database; the third provider, `groq`, stands for both models, which differ only in
the name of the key. In `dashboard` the cap is below the four attempts a
scenario forges, as every cap of `rules.yaml` is at most four. One case lets the other
writer into the scenario's: its call may begin, lose or win a race, time out or be
reconciled between any two statements of the scenario's call, and a page meets one whole
attempt of either between its SELECTs. `MaxVersion` ends a behaviour there after seven
writes of the row, which take a case through an attempt, a reconciliation and into the next
round. `CHECK_DEADLOCK FALSE` is set everywhere because each system may stop:
a settled case has nothing left to do, and the bounds stop the rest.

Callers. `StartStates` are the states of a case that a caller passes to
`process_case()`. The passing runs use DETECTED, DIAGNOSED and FAILED_ATTEMPT and
leave a quarantined case to `reconcile()`; `uncertain_reprocessed` passes every
open case. `pipeline_sequential` admits one call at a time: the properties in it
that are not in `pipeline_concurrent` do not hold for two writers, which
`double_dispatch` shows of a key. `CountsAreBacked` fails with two as well: a writer with a
verdict from before takes a case from FAILED_ATTEMPT through SCHEDULED to EXECUTING, is
answered by the idempotent replay, and counts the attempt a second time.

Fairness, of three kinds. `WF(Step(w))`: a call is straight-line synchronous Python whose next
statement is always enabled, so it goes on unless the process dies;
`pipeline_liveness` has no deaths. `SF(Process(c))` and `SF(Find)` are
assumptions about callers, which the repository does not contain: that they
return to open cases and to those `find_uncertain_cases()` lists. They are strong
because between two calls on a case the writer is busy. `EveryCallSettles` does
not need them. The bound on timeouts is a real assumption of `EveryCaseSettles`:
an attempt that times out and turns out never to have run is not counted, so
nothing in the code ends a sequence of those. `WF(RoundStep)` in `LiveRecovery` is of
the first kind: the requests of model clients and of the live executor have
timeouts (`claude.py:28`, `groq_diagnosis.py:24`, `live.py:33`), so each exchange ends, with
an answer or without; nothing is assumed about what the models or the service
answer.

Each property of each passing run has a mutant in `PROJECT.json`: a changed
definition, beside the one it replaces in the module, under which TLC finds the
property violated.

## 4. What is proved

For every value of the constants that satisfies the named assumptions of the modules
(`PolicyAssumption`, `PipelineAssumption`, `DiagnosisAssumption`, `ExecAssumption`,
`LiveAssumption`, `ScoringAssumption`, `GateAssumption`, `DashboardAssumption`; TLC
evaluates each), checked by TLAPS:

* `CaseStore_proofs`: `StoreTypeCorrect`, `SnapshotsStayHonest`, `RowsFollowEdges`,
  `TerminalIsFinal`, `OneWriteWins`. The inductive invariant is the type invariant
  with `SnapshotsHonest`. Without the second, a pending call says nothing about the
  row it will write; with it, a call whose version is still the row's checked its
  edge against the state the row is in, so `UpdateRow` follows an edge, and
  cannot write a terminal row, from which no edge leaves.
* `RecoveryPipeline_proofs`, any number of concurrent writers, deaths and timeouts:
  `PipelineTypeCorrect` (with `OneCallPerWriter`), `PipelineImplementsStore` and,
  from it, `PipelineRespectsStates`; `HoldoutIsControl` and
  `EverySpendIsAuthorized`. The inductive invariant of the last two is
  `AuthorityInv`: a
  running call's case exists; at "decide" the cohort the call saw is the row's;
  from ALLOW to the provider call, the writer holds an authorisation (cohort,
  proposal, switch, cap) for the attempt it will spend. It is inductive because
  the cohort of a row never changes, and because everything else the
  authorisation speaks of is local to the call. What a stale view does *not*
  guarantee, that the attempt is still unspent, is not in it, and is not true.
  `RecoveredIsCollected` rests on `CollectedInv`: wherever a success is told, in a
  row, an open call, a recorded action or the locals of a writer, something was
  collected of that case; charges are never undone, so an outcome learnt long ago
  may be written late.
* `RecoveryPipeline_proofs`, one writer at a time whose callers pass open cases only
  (`Writers = {w}`, `StartStates \subseteq OpenStates`; both are needed:
  `double_dispatch` shows the first theorem false for two writers, and
  `uncertain_reprocessed` is where callers that pass QUARANTINED lead):
  `OneWriterChargesOnce`, `OneWriterStopsAtSuccess`, `OneWriterWithinCap`,
  `OneWriterCounts`, `OneWriterCountsBacked`, `OneWriterReplays`, and
  `OneWriterKeepsContract`, that pipeline and simulated executor implement
  `ExecutorContract`. The invariant (`OneWriterInvariant`) has
  three parts. `Balanced` relates the charges of a case to its row, actions, uncertain
  attempt and cap: attempt numbers increase up to one that the row does not count yet,
  and success comes last. That is not inductive alone, since every write could
  unbalance it; so `KnowsAt` says for each statement what the running call knows of its
  row, up to the fact that an attempt about to be charged has not been; and
  `CallMatches` ties the open `transition()` to the call. For `OneWriterReplays` it is
  joined by `RecordInv`, which says at each statement which event is still to
  come. A death leaves `Balanced` alone, which is why these theorems but `OneWriterReplays`
  admit any number of deaths.
* `AuditLog_proofs`: `AuditTypesHold` for any appenders; `TamperingIsEvident`, that the
  chain verifies and that tampering shows, with a single appender as hypothesis. The invariant says that the hash of row i is the
  sequence of the first i bodies and that the draft, if there is one, extends the
  last hash. Its tampering half compares those sequences. `ReplayIsFaithful` holds for
  any number of appenders, also where they fork the chain, and a table of any length:
  `PrefixInduction`, an induction over a set of positions, shows of every prefix that
  the fold has the last cohort, state and reason, the number of results, and whether one
  of them is flagged.
* `Policy_proofs`: lemmas about the gates that the others use. `DowntimeGate_proofs`:
  `ConfidenceIsNoLicence`, and `AnyDowntimeOnlyPostpones`: for any downtime context,
  any clock and case, the decision is that without downtime, and the time only moves
  later, to one within the bounds or after the outage. From it and `TableInvariant` (ids
  are a key of the window table, and every window in it was reported, so ends at a time
  or not at all) follow `DowntimePostpones` and `BoundedSchedule`, about the contexts that
  the table really yields. `OutagesStayVisible` is the action property: `AddedKeepsKeys`
  says that `add()` drops at most the one row with the id of the report, and
  `ActiveAtCovers` that what `active_at()` picks is there whenever any window covers the
  instrument.
* `LiveRecovery_proofs`: `LiveTypesHold`, `NoSpendAfterGivingUp`,
  `OnlyAuthorizedLinks`, `NoRecoveryWithoutLink`, `CapBoundsLinks`,
  `OnlyVouchedVerdicts`, `LiveRecoveryKeepsContract`, all from `LiveInv`, which conjoins
  the ladder's invariant (what a proposal on the table may rest on), the executor's, what the
  round under way is about, and that every link and every request in flight has an
  issued verdict, for a treated case and an attempt within the cap. Its first part is
  about the executor alone: `LiveExecutorKeepsContract`. `ExecInv` says that the
  reference of a link, also of one that may still appear, is a function of its key, and
  that a call which was told of a link, or says SUCCEEDED, is about a key that has one;
  so a service that takes a reference once runs a key once.
* `ScoringRun_proofs`: `SealedOnce`, `HonestTimes`, `FixedCounterfactual`. `HarnessInv`
  says that the run under way wrote the last line of its log, that a report bears the
  number of its line, and that what it scores organically is a function of its seed,
  dataset and failure. `ScoringTypes` and `RunsReproduce` need a second invariant,
  `PlayInv`, because a report is a function of its seeds only by way of how the database
  came about. On a database that no command died on, either nobody played, and every row
  is DETECTED; or one run played it out, and row i is what the verdict on failure i and
  the draw of its place among the attempted failures make of it (`RowOf`); or the run
  under way is in between (`Midway`): what is left to play is an upper part of the
  failures, and as many draws are taken as failures below it were attempted. The last
  clause makes it inductive: without it a row could take another run's draw. A rerun finds
  no DETECTED row and changes nothing, so the second case is stable. The argument is for
  corpora of any length.
* `Dashboard_proofs`: `PagesExplainThemselves` and `UncertainCasesShow`, for any cases,
  any start states and any number of other writers, whose calls may overlap on a case, be
  it a scenario's, and die. `DashGround` adds to the types that a call works on a case that
  exists, that nothing is known of one that does not, and that an open `transition()` is
  that of its writer's call. `TrailInv` ties the events of a case to its row: a call appends
  its event before it writes the row that the event explains, so at each statement a
  running call has told the reason of the state it is about to write (`CallKnows`). Events are
  never taken back, so this survives whatever other calls append and write, and a call
  that loses its race or dies has only told too much. The verdict that `duplicate_event`
  hands over again is set apart, for it writes no row and no event. `LastsStep` is what no
  step takes back (terminal states, recorded actions, cohorts). So `PageInv` can say
  of a page that is half read that the reason of the state it shows is in the
  events by now, and that what has been read of them still stands; and what the metrics
  count is finite and only grows, the recoveries being counted off against actions by an
  injection.
  `ScenariosEndAsTheirTrace` and `ScenariosNeverSpendTwice` hold with any number of other
  writers on the scenario's case, if no cap is above the four attempts that
  `trigger_unsafe_ai_blocked` makes up (`CapsWithinForged`; those of `rules.yaml` are three
  and four). `SceneInv` follows the scenario's call statement by statement (`Underway`), the
  locals and the trace from which it knows what it writes next, and says what stands when
  it is over (`Ended`). Other writers take none of that back: the states it speaks of are
  terminal, recorded keys and events stay, and between its SELECT and its UPDATE a writer
  that was faster makes the call raise, which leaves the scenario without an answer. The
  hypothesis is what denies a blocked scenario when others have written the row
  meanwhile: attempts only grow, so the cap still fires on the row that is read then.
Not proved: liveness (`EveryCallSettles`, `EveryCaseSettles`, `RoundEnds`), which with
fairness and ENABLED is out of the prover's reach. It is model-checked on the instances
above. Every other property of a passing run is stated by a theorem.

## 5. Where the code and its documents differ

Shown by a run:

1. `uncertain_reprocessed`: `process_case()` takes a case quarantined for an
   uncertain action to DIAGNOSED (`pipeline.py:244-245`, edge `state.py:68`);
   `reconciliation.py:11-12` says no code path may.
2. `reconciled_counters`: `reconcile()` counts an attempt that `replay()` does not
   (`reconciliation.py:160`, `audit.py:137`); `state.py:178-179` says the two
   "must always agree".
3. `double_dispatch`: two concurrent `process_case()` calls charge one key twice;
   `README.md:108-109` says duplicates never do and that version checks prevent
   double processing.
4. `audit_two_appenders`: two appenders fork the chain, and `verify_chain()` calls
   an untouched log altered; `audit.py:92`, `README.md:29`.

Seen while reading or modelling, without a run of their own:

* The caps of `README.md` section 5 for UPI and netbanking (2 and 2) are 3 and 4 in
  `agent/policy/rules.yaml:73-77`. The models take the caps as a constant.
* Deferral is not waiting: `process_case()` dispatches at once whatever
  `execute_at` says (`ARCHITECTURE.md:51`), where the README says that retries are
  deferred. Also `active_at()` returns one window, so the time chosen may lie in
  another window that is already known; no property claims otherwise.
* README section 7 says re-ingesting an order returns the existing record;
  `create_case()` raises IntegrityError.
* README section 7 says that the kill switch immediately blocks all dispatches
  (`README.md:148`). A batch reads it once, when it loads its rules
  (`policy/engine.py:65`), so that a switch set in `rules.yaml` later stops neither the
  call under way nor those that follow in the batch. `ARCHITECTURE.md:165` and
  `rules.yaml:18-19` leave the check before dispatch to a later phase.
  `SpendIsAuthorized` is about the value the call was given.
* `replay()` takes `recovered` from the key `succeeded` of a result (`audit.py:139`).
  `process_case()` dumps an `ActionResult` (`pipeline.py:443`), which has `succeeded` as a
  property, not a field (`models.py:359-361`). So no case is ever recovered in a replay,
  though `audit.py:6-8` says that it rebuilds the case's state; only the results that a
  scenario makes up have the key.
* A holdout case that is processed with the switch on is denied by KILL_SWITCH
  first, and ends in ABANDONED, not in HOLDOUT_CLOSED.
* A writer that reviews or denies from a stale view can take a case from EXECUTING
  to QUARANTINED or ABANDONED while the other's charge is on its way. So
  "collected implies RECOVERED" fails with two writers, whereas
  `RecoveredMeansCollected` holds.
* A death between the UPDATE of `reconcile()` and its RECONCILIATION_RESOLVED
  leaves the uncertain event unresolved on a case that has moved on. When the case is
  quarantined again it is listed under the old key, and the old outcome is counted a
  second time: `CountsAreBacked` allows one such count for each death, and `ReplayAgrees`
  speaks of runs without deaths.
* A death in EXECUTING, or a retryable refusal, which lands in SCHEDULED, strands
  the case: `process_case()` has no edge from either to DIAGNOSED. A test
  (`tests/test_adversarial_scenarios.py:329`) names a watchdog that is to find such
  cases; there is none yet. `EveryCallSettles` names the exception.
* A call that dies between the UPDATE of the row and the event that says so leaves a
  log that replays to the state before; `pipeline.py:105-106` says that a partial
  run is always replayable. `ReplayAgrees` speaks of runs without deaths for this
  reason too.

The live executor and the diagnosis ports:

* A 5xx, or a third 429, is reported as ActionRefused(PROVIDER_ERROR)
  (`live.py:139-145`), although the link may exist; `contracts.py:93-95` says that a
  refused action never ran. That is why the constants of `ExecutorContract` differ
  for the two executors. A case refused this way waits in SCHEDULED, where nothing
  reconciles it.
* A 400 is FAILED, which counts an attempt though nothing ran; PROVIDER_REJECTED,
  which the contract has for it (`contracts.py:52`), is never raised.
* ExecutionUncertain is raised without the idempotency key (`live.py:149,159`), so
  the quarantine event names none; `Reconcile` takes the key of the attempt that
  became uncertain. The
  executor asks neither `build_retry_input()` nor `check_executable_state()`, which
  `port.py:10-12` says no implementation can skip; it sends the default amount of
  `live.py:53`, whatever the case is about; and it writes no row of `actions`.
* SUCCEEDED means that a link was created, not that it was paid; the pipeline makes
  the case RECOVERED. `RecoveredHasLink` claims no more than that.
* Nothing but tests wires the live executor up. `LiveRecovery` is what the parts
  would do together.
* Tier 2 is for ambiguous failures that a model cannot answer (`claude.py:4`), but
  needs a clean reason, and the pipeline asks a port about ambiguous ones only: of
  the callers in the model only `Probe` reaches it. The tier is a field of the
  schema, so an accepted answer may claim any.
* A clean INSTRUMENT_INVALID is retried by the pipeline (`pipeline.py:192`), and
  stopped by the stub. The evidence that the stub cites would not pass `validate()`.

The harness:

* Two scoring commands at once race the sealed check (`run.py:114`, `run.py:124`). All
  scenarios of a corpus share one log, so scoring S1 of `test` refuses S2 and S3
  without `--rescore`; a missing key uses the sealed corpus up.
* A rerun with another seed or provider on a played database reports the actions of
  the first run; `run.py:3-8` promises the same numbers of the same seed, which
  `ReportsReproduce` shows for databases that one seed and provider played. A rerun
  after a death starts the draws anew.
* A case that reconcile() closed has no row in `actions` and is scored as if it had
  been left alone (`metrics.py:42-50`). The sweep passes `chain_ok=True` as a literal
  (`run.py:259`). The comment at `run.py:138` names another start date than
  `generate.py:242`.

The dashboard:

* The answer of `successful_recovery` says "successfully recovered"
  (`demo_scenarios.py:123`, also line 69) whatever `process_case()` returned; with the
  kill switch on, the case is ABANDONED.
* The list page takes the last POLICY_VERDICT and the last action for what became of a
  case. A call that then lost its race has left a verdict that decided nothing; and a case
  that `reconcile()` recovered has no action there, so its page says RECOVERED beside
  "not executed". `PagesAreCoherent` demands the reason of a state of the timelines only.
* `total_cases` is read before `recovered_count`, so beside other writers the failure
  rate can be negative; `FiguresAreBacked` says what the order does guarantee.
* A case once uncertain, resolved, and quarantined again for a review, is shown as
  UNCERTAIN (`dashboard.py:534`), with the detail of the old event (`dashboard.py:548`).
* Case ids of scenarios are milliseconds modulo 1 000 000: two started about 17
  minutes apart may collide, and the second fails with IntegrityError.

## 6. Not modelled, and why

* Statistics and wording: the bootstrap, macro-F1, veto and waste rates of
  `evalharness/metrics.py`, the report and the comparison over scenarios; the
  weights with which `datagen` draws; prompts; the browser code. They compute numbers
  or text from states that are modelled, and change none.
* Logging and configuration parsing, sample data and its statistics
  (`scripts/generate_data.py`, `scripts/validate_data.py`), benchmarks, golden files,
  document checks, smoke tests: command-line wrappers without a state of their own.
* The pauses of the rate limiters (`groq_diagnosis.py:28-45`, `live.py:91`) only take
  time. The health page and static files of the server read nothing that is modelled.
* The input validation of `executors/contracts.py` that no verdict of `evaluate()`
  can fail. The triggers of `db.py:76-94`: the models have no action that updates
  a cohort or an event, as the code has none.

## 7. Plan

1. *(done)* Case store, policy and downtime, pipeline with executor and
   reconciliation, audit log; their type invariants, the safety of the store, the
   holdout and authorisation theorems, the chain.
2. *(done)* Triage, the diagnosis ladder and the live executor, composed in
   `LiveRecovery`; the executor contract, and both executors as refinements of it.
3. *(done)* Corpus generation and scoring; the dashboard and its scenarios.
4. *(done)* Proofs about the new components (section 4).
5. *(done)* The single-writer invariant and what follows from it; `RECOVERED` means
   collected for any number of writers; the gate theorems.
6. *(done)* Scenarios and other writers on the same case; what `replay()` makes of
   reasons and recoveries.
7. Left: two scoring commands at once (`run.py:114`, a race section 5 describes); a
   scheduler and a watchdog, once the code has them.

## 8. Running

    tlc -workers 2 -config PipelineSequential.cfg MCRecoveryPipeline
    tlapm RecoveryPipeline_proofs.tla

The runs and their configurations are listed in `PROJECT.json`; each finishes
within three minutes on two workers, `dashboard` being the largest.
