# Verification of the Dark Factory core

TLA+ models of `agent/lib/dark-factory/` and of the runner and scripts around it: what
runs, who may run it, what it may cost, what it leaves on the ticket, in the ledger and
on a branch. TLC checks them on small instances, TLAPS proves most of their safety
properties for every value of the constants. All source paths below are relative to
`src/agent/lib/dark-factory/` unless they start elsewhere.

## 1. The system

The Dark Factory turns a labelled GitHub issue into a pull request without a
person in the loop. A webhook delivery (`entry.ts`) creates a *run* in the run
ledger and hands it to an agent session; or a runner process
(`scripts/dark-factory-runner.ts`) claims the issue itself, has the Architect plan it,
parks for a human's approval, and when it is resumed codes the plan in a sandbox,
tests it, pushes it and takes it through the Definition of Done. A CI-driven dispatcher
(`dispatch.ts`) runs the stages developer, tester, PR. Operators pause, resume, stop,
abort and retire through the control plane; every model call is admitted against a
budget; customers read their runs through the query API.

| Component | State it keeps | Operations | What makes it hard |
| --- | --- | --- | --- |
| Run ledger: `run-history-store.ts`, `run-history-postgres.ts`, projection in `run-history.ts` | summary row per run, event log per run, delivery bindings, control receipts | acceptDelivery, claimControlDelivery, advanceControlDelivery, appendEvent, retireRunClaim, recordRunSummary | redelivery, two deliveries at once, events after the end, statements that interleave |
| Webhook entry: `entry.ts`, `trigger.ts` | none of its own; labels and sessions elsewhere | trigger, abort, resume | a chain of remote calls, any of which may be the last; stale look-ups |
| Runner, finalizer: `scripts/dark-factory-runner.ts`, `run-finalizer.ts`, `plan-approval.ts`, `plan-comment.ts` | the claim of a process, the ticket (labels, plan comment, machine block), recorded plans | launch, resume, plan, park, revise, code, finalise, retire | overlapping resumes, a crash or a failed write between any two |
| Architect: `architect-agent.ts`, `plan-validator.ts`, `governed-agent-call.ts` | the loop of attempts, the bounded reader, reservations of calls in flight | planStory, amendPlan | a deadline that abandons a call that goes on |
| Coding loop and breaker: `developer-agent.ts`, `circuit-breaker.ts` | workspace, branch, per-PBI counters and trips | author, test, charge, commit, push | half-written files, eviction, the budget of a restarted process |
| Definition of Done: `definition-of-done.ts` | pull request, comments, events, label | open, verify, check, fix, accept, finish | replays of a call that died, partial failure of an acceptance |
| Leases and sandboxes: `credentials.ts`, `worker-env.ts`, `opensandbox-driver.ts`, `sandbox-reaper.ts` | leases, sandboxes, labels | issue, revoke, prune, provision, dispose, reap | teardown on every path, a server that answers late |
| Provisioning: `sandbox-provisioning.ts`, `sandbox-state.ts` | state file, cluster, port-forward | five stages, teardown | a stage skipped for a record that is no longer true |
| Notifier, reporter: `notifying-run-history.ts`, `slack-notification.ts`, `worker-reporter.ts` | announced transitions, ids of comments | announce, report, edit | lost answers, several processes, a bounded memory |
| Gateway: `llm-gateway.ts`, `gateway-recorder.ts` | the lease, the run's events | request, forward, settle, record | a run that ends while it is served |
| Dispatcher: `dispatch.ts`, `dispatch-handler.ts`, `control-checkpoint.ts` | dispatch record per CI run | dispatch, attempts, park, pause, stop | deadlines that abandon a handler, overlapping calls, restarts |
| Operator control: `control-service.ts`, `control.ts`, `control-postgres.ts` | factory row, run rows, audit log | pause, resume, stop, abort | compare-and-set across operators, lost acknowledgements |
| Cost governor and stores: `cost-governor.ts`, `cost-gate.ts`, `governed-model.ts`, `cost-budget-store*.ts` | budget rows, reservations, the time of the last reap per process | ensureBudget, setBudgetCap, reserve, settle, reap | crash between reserve and settle, late settlement, row locks |
| Plan ledger: `plan-ledger.ts`, `plan-estimate-recorder.ts`, `run-cost-recorder.ts` | plans, estimates, the measured cost | record, price, measure, calibrate | lost answers, several processes of one run |
| Self-improvement: `self-improve.ts`, `skill-set-surface.ts` | live value, version, watermark, ledger | observe, propose, apply, measure, keep or revert | overlapping cycles, a write that fails in the middle, measurements that cannot be trusted |
| Operator's gate: `operator-cli.ts`, `self-improve-state.ts`, `state.ts`, `state-provider.ts` | one array of decisions under one key | allow, deny, clear, approve | read, change and save of the whole array by several processes; a store that cannot be read |
| Tenants: `tenant-store*.ts`, `run-attribution.ts`, `scripts/seed-tenant-assignments.ts` | tenants, repositories, attributions | seed, rename, suspend, assign | read, then write, of a row others write |
| Readers: `run-query.ts` | cursors | list runs, follow events | pages read one at a time while rows come and end |
| Migrations: `scripts/db-migrate.ts` | schema_migrations, the schema, the advisory lock | status, apply | differing checkouts, a lost session or answer |
| Webhook route: `app/api/github/webhook/route.ts` | none: the deployment's configuration, the payload | authenticate, classify, dispatch, answer | labels as they were when the delivery was sent; a dispatch that began and is reported failed |
| Opening of the run history: `handle`, `ensureSchema` of the stores | the unique index that is the claim, columns, duplicates of older code | repair, index, ALTERs | statements without a transaction, two processes that open, a process killed half-way |
| Usage and metrics: `usage-store.ts`, `metrics.ts`, `getRunMetrics` | the events, the batch a process retains; the summary rows | record, flush, report | failed inserts, several SELECTs over moving rows |
| Prices and forecasts: `model-price-floor.ts`, `cost-budget.ts`, `plan-cost-estimate.ts`, `scripts/df-calibration-report.ts` | the floor file, the override, the forecasts and the measured spend | price, observe, forecast, report | a stale or unreadable observation, a report made while runs end |
| Policy texts, UI, sprint tools | mostly stateless | | prompts, rendering |

How they interact. `entry.ts` calls the ledger, GitHub's label API and the
session API, one after the other. The session, the runner, the gateway, the Definition of
Done and the reporter append to the ledger; the notifier decorates it. A runner process
calls the Architect, the coding loop (under the breaker, inside a sandbox with its
lease) and the Definition of Done. The dispatcher reads control state at its gate and at
every checkpoint, its handler writes diffs to the ledger. The operator writes control
state and retires claims. The governor shares nothing with the others but is called
inside every agent step. The shared state is the database, the state store and the
ticket; processes may die between any two calls.

What makes each correct, in one line: the ledger keeps one active run per issue
and never reopens an ended one; the entry hands a trigger off once and lets an
abort or resume touch only its own run; a runner codes only what a human was shown,
advertises only what it earned and lets go of its claim; the coding loop pushes only what
passed; a lease or a sandbox does not outlive its task; an announcement is made
once and a comment tells what the ledger knows; the dispatcher accounts for attempts,
obeys stops and ends; control loses no update and audits all of them; a budget
is never exceeded by what fits, and its account is truthful; a forecast is paired with
the spend of its own plan; a tenant keeps what was assigned to it; a reader misses
nothing and sees nothing of others; a schema is made from one checkout; what comes
in was signed or was not required to be, and GitHub is told what became of it; an
opened store has its claim and its columns; a use of a model is counted once, at what
it was measured to cost, and reserved at no less than the providers ask.

## 2. The modules

| Module | Models | Correspondence |
| --- | --- | --- |
| `ClaimLock` | what the active-run claim promises | `held`, `ended`, `owner`; `Acquire`, `Release` |
| `RunLedger` | the ledger at the grain of its operations | a variable per table: `issueOf` and `status` are `df_run_summaries`, `log` is `df_run_events`, `bound` is `df_run_deliveries`, `receipts` is `df_run_control_receipts`; one action per store operation, since each is one transaction |
| `RunLedgerPg` | the PostgreSQL store statement by statement | `txn[c]` is where the transaction of a process is and what it has read; the variables of `RunLedger` are the committed tables; shown to implement `RunLedger` (`PgImplementsLedger`) |
| `RunLedgerProofs` | theorems about `RunLedger!Spec`, and that `RunLedgerPg` implements it | |
| `Entry` | the webhook handlers over the ledger | `h[p]` is the local state of an invocation; one action per remote call; `GiveUp` is every way an invocation ends early: crash, refused call, closed gate, early return |
| `EntryProofs` | theorems about `Entry!EntrySpec` | |
| `RunDiff` | diff capture beside the ledger | `snapshot[r]` is the row read before `git diff` |
| `Runner` | runner processes of one issue over the ledger | `proc[p]` is a process with its claim, plan and result; `ticket` the labels, the plan comment and the machine block; `plans` the recorded plans; `faults` counts crashes and failed writes |
| `Planning` | the Architect's loop in one process | `planner` is `runPlanLoop` with its log of attempts, `reader` the bounded reader, `asks[a]` the governed call of attempt `a`, `held` the reservations |
| `Breaker` | the circuit breaker | `pbiState`, `tripEvents`; one action per method |
| `Coding` | the coding phase over `Breaker` | `workspace`, `tested`, `branch` give each file the iteration that wrote it |
| `DoneLoop` | the Definition of Done over the ledger | `review[v]` is an invocation; comments and the label are variables of their own |
| `WorkerLease` | broker and `withWorker` | `leases` is the broker's table, `task` the place of each `withWorker`, `sandbox` what the provider holds |
| `Sandbox` | driver, reaper, `runCodingPhase` | `handle` is the driver's `pending`, `server` what the OpenSandbox server has |
| `Provisioning` | `df:sandbox-up` | `saved` is the state file, `up` the run in progress, `cluster` what is deployed |
| `Notifier` | the decorated store and the Slack driver | `remembered[w]` is what a process has announced, `pending` the announcements under way, `channel` what arrived |
| `Reporter` | reports from ledger to comment | the comments, the one record of their ids, and each report's place |
| `Gateway` | a request through the model gateway | the run's log and each request's place |
| `CostBudget` | governor, gate, SQLite and in-memory stores | `row` is `df_cost_budgets`, `res` is `df_cost_reservations`, `sinceReap` is `lastReapMs` of a process, `pc` the place of a call |
| `CostBudgetPg` | the PostgreSQL store under the same governor | transactions at the grain of the row locks they take |
| `PlanLedger` | plans, estimates and cost of one run | the rows of the three tables and the processes that write them |
| `Dispatch` | dispatcher, handler, checkpoints | `rec` is the dispatch record, `s` the calls of `dispatch`, `work` the handlers still running, awaited or abandoned |
| `Control` | operator control | `row`, `audit` are the tables, `call` an invocation of `performControlAction` |
| `SelfImprove` | cycles over both surfaces | the live value, the stored one, versions, the watermark and the ledger of verdicts with its measurements; a cycle meets the gate as an arbitrary answer |
| `OperatorGate` | the operator's decisions and the gate that consults them | `decisions` is the array, `order[o]` an invocation of the CLI between its read and its save, `consult[k]` what an `approve` answered |
| `Tenants` | registry, seed, attribution | the two tables, each seed's place and what it read |
| `Usage` | usage events and task metrics | `rowsOf` the inserted events, `buffer` the batch a process retains |
| `Pricing` | what a call is reserved at | the table of ceilings, the floor file, the override, one action per change and per `openrouter:check-prices` |
| `Calibration` | forecasts and the report over them | forecasts, measured usage, and how far a report has read |
| `RunMetrics` | `getRunMetrics` | the three SELECTs, one action each |
| `Webhook` | the webhook route | `payloadOf` what a delivery carries, `answerTo` what GitHub was told, `cameTo` what the handling came to: begun, held, or nothing |
| `StoreStart` | opening the run-history store | `opener[p]` a process between two statements of the opening |
| `RunReads` | pages of runs and of events | the board of rows, each viewer's walk, the sequence events are numbered from |
| `Migrate` | `db:migrate` | `table` is `schema_migrations`, `ran` what the schema went through, `holders` the advisory lock |
| `DispatchProofs`, `LedgerPartsProofs`, `ServicesProofs`, `FiguresProofs`, `OperatorProofs`, `ServicesTypeProofs` | theorems about the modules they are named for; `LedgerPartsProofs` (with `Runner`) and `ServicesProofs` lift the parts into the sums, `FiguresProofs` has the parts of `Services` that add up money and rows, `OperatorProofs` those that put rows in order, forecast and stop, `ServicesTypeProofs` the types of all of them | |
| `LedgerParts` | `RunDiff`, `Runner`, `DoneLoop`, `Notifier`, `Gateway`, `Reporter`, `RunLedgerPg` side by side | `part` names the one that moves in a behaviour |
| `Services` | the parts with state of their own, side by side | the same; `store` says which of the two budget stores, SQLite or PostgreSQL, a deployment has |

`Entry`, `RunDiff`, `Runner`, `DoneLoop`, `Notifier`, `Gateway` and `Reporter` EXTEND
`RunLedger` and call its operations inside their own actions, so what the ledger refuses,
they find refused. `RunLedgerPg` refines it. `CostBudgetPg` EXTENDS `CostBudget` and
replaces the grain of reap and settle, `Coding` EXTENDS `Breaker` and charges it.
`RunLedger` carries the refinement to `ClaimLock`: a run holds the lock while it is
active, has given it back once it is terminal. `LedgerParts` and `Services` are sums: the
parts of a sum share no behaviour at the grain of their models, so a behaviour moves one
of them and one run checks all, each as fully as a run of its own would.

What is abstracted: times, stages, counters, texts, URLs and prices of a run; the
text of labels; the diff and the contents of files (a file is the iteration that wrote
it); prompts and answers of models (an answer is the kind of verdict it leads to);
reasons and timestamps of control rows, which are one opaque stamp that may repeat;
back-off delays. An event is its id, type and status. A call the store refuses is a step
that changes nothing. A process that dies where nothing of it stays behind is a behaviour
that stops, which the specifications allow, and has an action only where somebody goes on.

Definitions whose comment starts with "Mutant:" are not part of the model. Each is
a plausible bug, swapped in for the definition it precedes to confirm that the
property named for it in `PROJECT.json` does notice.

## 3. The runs

| Run | Bounds | Shows |
| --- | --- | --- |
| `entry` | one issue, 2 runs, 3 deliveries of any kind, 5 requests, 2 handlers at a time, 1 question; 609,286 states | all ledger properties, `TriggerIsHandedOffOnce`, `CompletedAbortEndedItsRun`, `ResumeAnswersAPark`, `ControlMovesOnlyItsRun`, `BindingsAreWriteOnce`, and the refinement of `ClaimLock` |
| `ledger_parts` | 2 runs of one issue and per part the bounds of `MCLedgerParts.cfg` | the parts' own: `ClaimIsReleased`, `CodedPlanWasReviewed`, `RunnerOutcomeIsEarned` (Runner), `DoneIsEarned` (DoneLoop), `AnnouncedOnce` (Notifier), `RefusalIsOnTheRun` (Gateway), `CommentsTellTheRecord` (Reporter), and that the PostgreSQL statements implement the ledger (`PgImplementsLedger`) |
| `services` | per part the bounds of `MCServices.cfg` | the properties of section 3.2 |
| `dispatch` | 2 deliveries and 1 answer, 1 retry, 2 stages; 473,000 states | attempts, stops, final states, parks, termination |
| `diff_revives_run`, `budget_pg_reap`, `dispatch_twice`, `dispatch_park`, `control_abort`, `runner_revision`, `coding_push`, `gateway_cost` | the smallest that shows it | a disagreement of section 5 |

### 3.1 Bounds

A hazard of `entry` needs a run, its successor, the
delivery that made the first, a control delivery and its redelivery, and one
interloper: 2 runs, 3 deliveries, 5 requests and 2 handlers at a time give all of
them; issues do not interact but through the predicate of one index. Two stages of the
dispatcher tell a first, a later and the last apart.

In `ledger_parts`: 3 attempts of a runner (plan, revise, code, in any order and two of
them alive at once), 1 revision and 1 fault; 2 writers that remember 1 transition and
2 announcements under way, so one is forgotten while another is sent; 2 gateway requests
and 1 outage; 2 reporting processes with 3 reports and 1 lapse, the least for a replay
that overlaps a later report; 2 clients and 2 deliveries at the PostgreSQL store, so that
two acceptances and an append or a retirement of what they find interleave; 2 invocations
of the Definition of Done with 2 findings, 1 of them grave, and 2 rounds.

In `services`: 3 calls in 2 processes on a global and a tenant budget (two reapers and a
third call whose reserve they might give away), an overrun of 1; 2 PBIs in a table of 1,
so each tracked issue evicts the other, and limits of 2 or 3 with minutes 1 and 4 so that
one charge stays below and one is over; 3 iterations over 3 files, one a target, one that
exists; 2 tasks with leases of 2 ticks; 3 coders, 2 of one run; 2 provisioning runs with
2 digests and 2 contexts; 3 operator calls with 1 conflict retried on one run and the
factory; 2 seeds, 2 tenants and 2 repositories; 2 self-improvement cycles,
two measurers (one that does not look at the live value) and two histories of the task; 2
orders to the gate, 1 consultation and 2 hours; 4 rows in
pages of 2 with the fill loop's 2 pages, for a viewer that sees not all of them; 2
appenders and 4 sequence numbers; 2 authors with 2 drafts; 2 migrators with 2
files in 2 texts; 5 uses of 2 tenants, two of them of an earlier process, and 2 callers of
flush; 1 delivery begun at most twice; 3 old runs and 2 processes that open a store at most
twice; 2 runs on 2 days; 2 models with none, one or ten providers and 3 turns of the market; 2
forecast runs, 2 usage events and 1 change of price; 2 planning attempts over 3 files, one empty, one longer than
the bound.

The bounds in guards are named in the modules: `MaxReceived` and `Questions` in `Entry`,
`MaxAlive`, `MaxFaults`, `MaxPending`, `MaxTold`, `MaxOutages`, `MaxServed`, `MaxReports`,
`MaxLapses`, `MaxReported`, `MaxDelivered` in the parts of the ledger, `Overrun`,
`MaxClock`, `MaxUps`, `MaxTurns`, `MaxNow`, `MaxMoves`, `MaxSerial` in the services, the
saturation of `age` and `sinceReap` at the limits they are compared with, and in
`Dispatch` that no delivery is received once two calls have overlapped: what two
overlapping calls do is explored to the end, and properties that only hold for
calls that do not overlap say so with `~overlap`.

`CHECK_DEADLOCK FALSE`: in all of these the system may stop, when every delivery,
call or operator action of the instance has been used up.

### 3.2 What the services keep

| Property | Part | Says |
| --- | --- | --- |
| `MoneyIsAccounted` | budget stores, usage, prices | what is reserved is what open calls hold, so the cap is never exceeded; each call is charged once; a measured use is neither lost nor reported twice; the price behind a reservation covers what the providers ask |
| `SqliteShrinksByReleaseOnly` | budget stores | commitment shrinks by releases alone |
| `BreakerStops` | breaker, coding | a loop over its limit is stopped, whatever is evicted, expires or is reset in between |
| `GreenIsPushed` | coding | what is pushed as green was green when tested, and is not a half-written file |
| `NothingOutlivesItsTask` | leases, sandboxes | a lease and a sandbox end with their task on every path the code can see |
| `SetupIsReal` | provisioning, migrations, opening of the run history | what a record says was done, was done to what is there now: the sandbox reported up is deployed and proven, a schema is made of one checkout, an opened store has its index, its columns and an event for each run it ended |
| `EntranceIsTrue` | webhook route, operator's gate | nothing begins that was not signed where it must be and asked for; a success says that it was begun or, of the factory's kinds, held, and a failure that GitHub is to try again; a pause never holds an abort; a widening is let through only on an allow that an operator ordered, by name, and that has not expired, and the array holds what was last ordered unless two orders met |
| `AuditIsTrue`, `StopIsPermanent` | control | the audit replayed gives the rows, each answer agrees with it, and a stop is never undone |
| `AttributionStands` | tenants | an assignment, a suspension and the attribution of a run survive what seeds do beside them, but for the two races the model names |
| `KeptIsAccepted` | self-improvement | what is live at rest is what was accepted, unless a cycle threw or two overlapped; an accepted bound is not undone by a superseded handle; each accepted change bought its gain within the guardrails' tolerance; after an accepted cycle the trend is that of the live value |
| `HistoryReadsTrue` | readers, metrics | a walk over unchanging rows gives each once and nothing out of scope; a follower of a run's events misses only what was committed behind its cursor; the figures of `/metrics` differ from those of one moment by no more than what changed between the SELECTs |
| `ForecastsAreTrue` | plan ledger, calibration | the calibration pairs each plan with its own estimate and the measured cost, once; a report counts forecasts that were made and spend that was measured |
| `PlanningIsAccounted` | planning | reading stays in its bounds, a reservation outlives its call only if its settlement failed, and an outcome is made of its own attempts' answers, never of a late one |

### 3.3 Fairness

Only `Dispatch` claims liveness, and assumes weak fairness of the steps
of a call: its store calls are answered and its deadline fires (`setTimeout` in
`withDeadline`; an answer here may be an error). Handlers may hang, operators and
GitHub owe nothing, and a process may crash, which ends its call. The end of an
attempt is deliberately left unfair, so that `DispatchTerminates` rests on the
deadline. The claim depends on the deadline being set: `withDeadline` waits
without limit when `handlerTimeoutMs` is not positive. The other parts promise no
progress: a runner that dies leaves its work to a human, a sandbox to the next reaper,
a report or an announcement to nobody.

## 4. The proofs

`RunLedgerProofs` proves, for every set of runs, issues, deliveries and event ids
(assuming only `LedgerAssumption`: the null value is none of the others and the
accepted and retire ids are event ids):

| Theorem | States |
| --- | --- |
| `LedgerTypeCorrect` | `Spec => []TypeOK` |
| `AtMostOneActiveRun` | `Spec => []OneActiveRun` |
| `LogExplainsTerminal` | `Spec => []TerminalIsExplained` |
| `BindingsStaySound` | `Spec => []BindingsAreSound` |
| `TerminalRunsStayEnded` | `Spec => TerminalIsFinal` |
| `LedgerImplementsClaimLock` | `Spec => ImplementsClaimLock` |

The argument. `TypeOK` is inductive. None of the other invariants is, alone: an
append is only known to leave an ended run alone, and to move an active one to a
status of the kind its type names, when the row and the event have their types
(`AppendMoves`, from `ProjectionStep`); so each is shown inductive together with
`TypeOK`. Four lemmas carry the proofs: `AcceptEffect` and `AppendEffect` say what
the two operations that move a run change, `RetireAppends` that a retirement is an
append, and `StepCases` that a step is one of four transactions or a stutter; each
proof then has a step per transaction. The refinement maps an acceptance to
`Acquire`, an append of `run.terminal` to `Release` and every other step to a
stutter. `recordRunSummary` is not part of `Spec`: it is the one operation that
breaks `TerminalIsFinal`, and `RunDiff` models it with its one caller.

`EntryProofs` carries this to the webhook handlers, for any number of requests and
handlers at once. `EntryAssumption` adds that each delivery is about an issue, that
the ids handlers and agents use are event ids, and that the null value is no kind
and no receipt.

| Theorem | States |
| --- | --- |
| `HandlersTypeCorrect` | `EntrySpec => []EntryTypeOK` |
| `EntryImplementsLedger` | `EntrySpec => Spec` |
| `HandlersKeepOneActiveRun`, `HandlersKeepRunsEnded` | `OneActiveRun` and `TerminalIsFinal` with the handlers running |
| `BindingsStayWritten` | `EntrySpec => BindingsAreWriteOnce` |
| `CompletedAbortsEnded` | `EntrySpec => []CompletedAbortEndedItsRun` |
| `ControlsMoveTheirRun` | `EntrySpec => ControlMovesOnlyItsRun` |
| `TriggersHandedOffOnce` | `EntrySpec => []TriggerIsHandedOffOnce` |
| `ResumesAnswerParks` | `EntrySpec => []ResumeAnswersAPark` |

The argument. `HandlersSound` says what a handler knows where it stands: it serves a
known delivery, takes only the steps of its kind, and names a run wherever it is
about to use one. With `TypeOK` it is inductive, and it makes every handler call a
legal call of the ledger: that is `EntryImplementsLedger`. Three more invariants
rest on it. `HandlersHold`: past its claim a handler works on the run its receipt is
bound to (a look-up may be stale, the receipt is not), and an abort about to settle
such a receipt has seen that run ended; `OnlyKnownClaimed`: only a received delivery
has a receipt. Together they give `CompletedAbortsEnded`, with the append that ends
the run or finds, by `TerminalIsExplained`, that an earlier one did.
`TriggersOwned`: at most one handler of a trigger stands before its handoff, it owns
the binding, and nothing was posted for it yet; a second handler would have had to
insert a binding that is write-once. `OnlyOwnSteps` and `OthersStay` are the frame:
a handler is moved by its own steps only. `ResumesAnswerParks` needs two more:
`QuestionsTold`, only an agent's question parks a run and the run stays parked until it
is answered, and `ResumesSound`, a resume whose look-up saw a parked run has a receipt
bound to a run that asked, and settles it only after the answer or the end of that run.

### 4.1 The other modules

`DispatchProofs`, from `MaxRetries` and `Stages` being numbers only.

| Theorem | States |
| --- | --- |
| `DispatchTypeCorrect` | `Spec => []DispatchTypeOK` |
| `EveryAttemptIsAnInvocation` | `[]AttemptsAreInvocations` |
| `NoStageBeginsAfterStop` | `NoStageAfterStop` |
| `OutcomesStand` | `OutcomeStands` |

The argument. Most of what the dispatcher promises holds while calls do not overlap, so
`DispatchInv` says what the place of the one call that moves tells of the record it
loaded and of the handlers invoked so far; a call that finds another one moving sets
`overlap`, after which only the types and the stop remain.

Operator control by itself (in `ServicesProofs`): `AuditStaysTrue` and
`StopsArePermanent`, for any number of overlapping calls. `ControlInv` relates what a call decided on, which may be an old row, to the rows
as they are: a compare-and-set that succeeds met the version it read, and every audited
version is older than the row's.

The PostgreSQL store statement by statement (in `RunLedgerProofs`), for any number of
clients: `PgCommitsItsCalls` and `PgImplementsRunLedger` (`PgSpec => Spec`, so every theorem of
`RunLedgerProofs` holds of the PostgreSQL store; `PgKeepsOneActiveRun` is one spelled
out). `PgInv` says what unique keys and row locks keep apart (two transactions never both
hold an uncommitted insert of one key, nor the lock of one row) and what an open
transaction read that is still so. A `COMMIT` maps to the operation its transaction was
called for, a statement before it to a stutter. `PgAssumption`: the ids of retirements
are not those of other events, as `retireEventId` makes them.

The runner (in `LedgerPartsProofs`): `ClaimsAreReleased`, `CodedPlansWereReviewed`,
`OutcomesAreEarned`. `RunnerInv` has a `Sound(p)` per process, what it knows where it stands of its claim, of
the ticket it read and of the plan it holds, and three global parts: who may hold the
active claim, what the ticket's machine block refers to, and who earned each final state.

`LedgerPartsProofs` lifts these and the PostgreSQL store into the sum the run checks (`PgPartImplementsLedger`,
`RunnersEarnTheirOutcome`) and proves the other parts: `RefusalsAreOnTheirRuns`
(`GatewayInv`), `DoneIsAlwaysEarned` (`DoneInv`), `TransitionsAreToldOnce`
(`NotifierInv`), `CommentsStayTrue` (`ReporterInv`). Each invariant is the same shape:
what a request, an invocation, a writer or a report carries is in the log already, or
will be appended by its next step under an id of its own; the ids are assumed different
as the code derives them from the call, the comment and the run.

`LedgerPartsInv` puts them side by side: the part that moves keeps its invariant, what
the others own is as it began. `LedgerPartsKeepTheirPromises` says so of the six promises
of the parts at once, and `LedgerPartsTypeCorrect` is `[]LedgerPartsTypeOK`. The types
needed two invariants more: `PlansAreKept` (a runner about to show, record or code its
plan has one, and what a ledger or a ticket shows is a plan of a run) and
`MemoriesAreSound` (what a notifier remembers is within its bound and holds a transition
once). `DiffIdsAssumption`: the ids of a diff's events are ids of events.

`ServicesProofs` proves of the sum `Services` the conjunction `PartsInv`, kept whichever
part moves (`PartsKeepTheirInvariants`), and from it the properties of the run:
`NothingIsLeftBehind`, `CustomersKeepTheirRuns`, `StopsArePermanentBeside`,
`GreenIsPushedAlways`, `SetupStaysReal`, `EntranceStaysTrue`, `LoopKeepsWhatHelped`.

| Invariant | Says |
| --- | --- |
| `LeaseInv` | a lease that authorizes belongs to a task that has not left `withWorker` |
| `SandboxInv` | a sandbox that runs is in its driver's handle, in a reaper's reach, or a call was lost |
| `TenantInv` | a seed about to write knows what the row was when it read it, or was overtaken by another |
| `WebhookInv` | what was begun was signed where a secret is configured and asked for by somebody who may; each answer is one the handling's outcome can have |
| `CodingInv` | a tested tree is the workspace, a file in it was written whole, a counter pays for its iterations |
| `ProvisionInv` | the state file tells the truth about the cluster and the proof, unless another context was used |
| `MigrateInv` | the plan of the lock's holder still stands, and what ran is recorded |
| `ImproveInv` | while nothing disturbs the loop, the live value and what each cycle holds have the accepted changes and at most those of the running cycle; a handle is older or newer than another as it was staged; a measurement is of the value that was live |
| `GateInv` | a decision in the array, or read by an order about to write, was ordered by an order that passed its refusals; while no two orders met, the array read is the array that stands |
| `StartInv` | what the repair ended is on the ledger, about to be, or an opening was cut off |

It assumes of the constants that the null values (`Absent`, `NoTable`) are no data, and
that the days of old runs are numbers with a greatest one.

`FiguresProofs` proves of the same sum what it says of money and figures
(`FiguresKeepTheirInvariants`): `MoneyStaysAccounted` (`[]MoneyIsAccounted`),
`OnlyReleasesGiveBack` (`SqliteShrinksByReleaseOnly`) and `FiguresAgree`
(`[]MetricsAgree`, the part of `HistoryReadsTrue` about metrics).

| Invariant | Says |
| --- | --- |
| `StoresInv` | a budget has spent what its calls were charged and counts them; over SQLite it has reserved the sum of its open reservations, and both together are within its highest cap and what calls cost over their estimates (over PostgreSQL neither is so) |
| `PricingInv` | the floor of a model is the rate of a reading somebody took, no higher than the ceiling it was written under; a check in progress holds a reading and its rate for each model it asked about |
| `UsageInv` | while no two flushes crossed, one flush runs at a time, an event is at one place in the buffer, behind the place that flush has reached, and one that was taken and is in neither the buffer nor the flush is in the ledger once |
| `MetricsInv` | the answer as far as it is read counts the rows as they were at the first `SELECT`, which are the rows as they are while none changed; an ended run has a day |

The totals are sums over finite sets (`MapThenSumSet` of the community modules), and
induction over them is out of reach as such. The first section of the module has what the
proofs need instead: a set of finite subsets that is not empty has a least one
(`LeastSubset`, from the library's well-founded orderings), so a subset of least size on
which a fact about a sum fails is taken and contradicted. That gives the sum of a set with
one element more or less (`SumInsert`, `SumRemove`), of a changed function (`SumChange`),
of a union (`SumUnion`), and of a set grouped by a key (`SumGroups`, by which a report by
tenant or by day adds up to its total). The constants assumed finite are those the code
holds in one table or one process: `Calls`, `Uses`, `MetricRuns`, `MetricDays`; null values
(`Unpriced`, `Malformed`, `NoSpend`) are no data.

`OperatorProofs` proves `HistoryIsReadWhole` (`[]HistoryReadsTrue`), with `FiguresAgree`
for its metrics.

| Invariant | Says |
| --- | --- |
| `ListInv` | a walk stands at a position of its order, the cursor: what it has shown is behind it, what was there from the first page on is shown, cut, moved, or ahead (`WalkIsAt`), once for the last answer and once for the store pages read towards the next one |
| `FollowInv` | one append is under way at a time, holds the greatest number and is not logged; what was read is the log up to an event of it |

A page is `InOrder(S, R)`, the rows of a `WHERE` in the order of its `ORDER BY`. Such an
order exists for any finite `S` that `R` orders (`OrderExists`, again by a least subset on
which it fails, whose last element `LastOne` is taken away), holds each of `S` once
(`InOrderIs`) and is the only one (`OneOrder`), so a page of a set is the beginning of
the order and the next one goes on where it ends (`StorePage`, `PageOfEvents`). Rows that
come or end between two pages are handled per walk (`SoundBesideNew`, `SoundBesideEnd`):
the cursor is a key and an id and not a row, so a row that is gone from its place leaves
it where it was. `CursorAssumption` says only that no cursor is not a cursor.

It also proves `PlansAreAccounted` (`[]PlanningIsAccounted`), from `PlanningInv`:

| Part | Says |
| --- | --- |
| `ReaderIsSound` | what is kept of the files is within the bounds and what was charged is the sum of what was kept |
| `LoopIsSound` | the log has an entry for every attempt that ended, made from the answer of that attempt's own call; no call belongs to an attempt that is still to come |
| `CallsAreSound` | a reservation is held by a call under way, or by one whose settlement failed |

A reading is the fold of `ReadBounded` over the files: that it has a result
(`ReadsTotal`) and one only (`ReadsUnique`) is shown for the beginnings of the sequence,
by a least set of lengths at which it fails; each file then keeps `ReaderIsSound`
(`OneMoreRead`). `Contents` is assumed to be a sequence of texts, each a length and the
places where its lines end.

`ForecastsKeepTheirInvariants` gives `ForecastsAreOfWhatWasSpent`
(`[]ForecastsAreTrue`), from `PlanLedgerInv` and `CalibrationInv`:

| Part | Says |
| --- | --- |
| `AuthorIsSound`, `OneForecasts` | a process about to forecast has recorded its plan, under a revision nobody has forecast yet, and no two are about to forecast the same one; a cost about to be written was measured |
| `ForecastIsSound` | a forecast is at least what its files and tasks cost under the price book it was made with, and just that while there were no samples |
| `PairIsSound` | a pair of the report is of a run with a forecast, and of stages whose spend was measured and still stands |
| `SurveyIsSound` | the runs listed are those paired, those without a forecast, those skipped and those still to read |

The totals and the groups of the report add up by `SumGroups`. There are assumed to be
finitely many `ForecastRuns`; `Unit` is positive and divides by the number of samples, so
that the mean of the model is exact; price books are of naturals.

`BreakerKeepsItsInvariant` and the same split of `BreakerNext` give `BreakerStopsForGood`
(`BreakerStops`). `BreakerInv` is the type invariant with the sequence of trips and
`EntryIsSound`: an entry that is not tripped never was. Without it a PBI could be at its
own limit of trips and not be stopped, since `trip` drops what is over that limit. What
is left of a sequence is written with the ascending sequence of the places that stay, so
the proof shows that there is one (`AscendingExists`, again by `OrderExists`) and that
the rest keeps each PBI once (`RemainingIs`, `TouchedIs`, `KeptIs`).

`ServicesTypeProofs` gives `ServicesTypeCorrect` (`[]ServicesTypeOK`). Most of the types
are in the invariants above; `TypesInv` is what they leave. What was tested and pushed is
a tree of files, holders of the migration lock are processes, days and turns of the
models stay within their bounds. One part is not about sets: the version of the tuned
surface is at most one more than the cycles that have staged (`VersionsAreCounted`),
because a cycle never goes back to before its staging and a restart, which begins at one
again, ends the cycles it interrupts. `CyclesAssumption`: the cycles are finitely many.

Model-checked only: `DispatchTerminates`, which is liveness and out of the prover's
reach, and the properties that the runs of section 5 refute. Every other property of the
passing runs is stated by a theorem.

## 5. Where the code and its documents disagree

Each of these is a run that TLC ends with a counterexample; `PROJECT.json` quotes the
lines.

* `diff_revives_run`: `recordRunDiff` (`diff-capture.ts:89`) writes a row read before
  `git diff` back whole. A run that ended meanwhile is active again.
* `budget_pg_reap`: the PostgreSQL reaper selects without a lock and deducts
  unconditionally; ADR 0054 and ADR 0057 promise a ceiling that is never looser.
* `dispatch_twice`: the record is read and saved in two calls without a
  compare-and-set; `docs/pages/invariants.md` says the handler never runs twice.
  A run ledger, when attached, usually refuses the second call's first event.
* `dispatch_park`: a parked attempt counts against the retries, which
  `dispatch.ts:39` and `README.md:525` exclude.
* `control_abort`: `toControlEvent` refuses the action `abort` that
  `control-service.ts` goes on to handle, so an operator's abort is always invalid.
* `runner_revision`: a plan is numbered `revisionRound ?? 1`, so the first amendment
  collides with the plan it amends and the run fails; ADR 0042 says it parks again.
* `coding_push`: only the last author's files and the plan's targets are committed; a
  file an earlier, failed iteration wrote was tested but is not on the branch.
* `gateway_cost`: the spend of a forwarded call is appended with a terminal status, which
  the ledger refuses, and the refusal is swallowed; ADR 0033 says it is on the run.

What the models also show, without a run of its own (the model does it, and the
properties are stated so that they hold):

* Breaker: a success does not reset the counter (`docs/pages/dark-factory.md:117` says it
  does); a tripped issue that is evicted may come back; the breaker lives in a process,
  so a retry or a resume starts the budget over.
* Runner: a resumed run codes while the ledger shows `blocked`, so retiring its claim may
  end it and a second resume adopts it; a plan parked as a question about its target
  can never be answered by a new plan; a completed run's cost is not recorded, since
  `activeRun` is cleared before `recordRunCostForRun`
  (`scripts/dark-factory-runner.ts:1392`, the comment at 1895 says it is carried); a
  label that cannot be set after a success turns a later abort into `df:failed`.
* Architect: a stop, or a refusal that has just ended the run, is thrown into the loop of
  attempts and retried as a generate error; after the refusal a later attempt may be
  accepted for an ended run. An abandoned attempt's call goes on spending, since the
  runner's `generateText` ignores the signal. An amendment has no gate on its targets.
* Coding: a write that throws midway leaves the files before it.
* Sandbox: seeding the vault fails after the sandbox was created, and nobody disposes of
  it until a reaper of the same run; a provider that throws leaves its lease to its expiry
  (`worker-env.ts:301`).
* Provisioning: `kubectl` works on its current context, whatever context Helm was told; a
  killed run leaves a state file and a forward behind. Two things are outside the model,
  where a context is one cluster and a port one port: `cluster.kubeconfig` is not among the
  recorded inputs (`sandbox-provisioning.ts:263`), so two kubeconfigs that name different
  clusters alike make a stale skip; and `startForward` (`scripts/sandbox-up.ts:116`) ignores
  `--forward-port`, so with that flag the stages after it ask a port nothing forwards.
* Notifier: a crash between a write and its announcement loses it, retiring a claim is
  never announced, a request that failed in any way (timed out, dropped, answered 5xx) may
  have been shown and is posted twice.
* Reporter: a replayed older progress report overwrites a newer one; a second question of
  a run edits the first one's comment.
* Self-improvement: a revert that fails leaves the trial value; nothing outside the tests
  calls the loop. `BenchmarkMeasurer` does not look at the live value, so the controller
  built on it can never accept a change. A guardrail that was not measured on one side is
  not compared, and its tolerance may be used up again in every cycle. `objectiveTrend`
  counts the objective of a trial that was reverted, though its comment
  (`self-improve.ts:964`) calls it the measured state.
* Operator's gate: two orders that meet save whole arrays over one another, so a revoked
  `allow` may come back; an array that cannot be read is taken for empty and the next
  order saved over it erases the other decisions (which refuses, never grants); an
  approval is not looked at again before the change is applied.
* Tenants: two seeds at once may move a repository, though the seed's header calls itself
  safe against it; a seed that renames may write an old status back.
* Plan ledger: an insert reported failed leaves a plan without its estimate; processes
  that overlap may record an older measurement last.
* Readers: a customer's page that overflows while it is filled loses the rows beyond it,
  since the cursor handed out is past the whole store page (`run-query.ts:327`).
* Opening of the store: statements run without a transaction. A process killed between
  the ALTERs for `tenant_id` and `git_diff` leaves the second column missing for ever;
  two processes that open one SQLite file at once make the second's ALTER fail, and its
  `openError` stays; a run that ends between the repair's SELECT and its UPDATE is
  overwritten as aborted; a crash between UPDATE and event leaves an aborted run without
  its terminal event.
* Usage: an event of the model carries one measurement, of the code perhaps several, and it
  is unmeasured when it has none of any kind (`usage-store.ts:184`); `flush()` has no
  caller; two flushes that overlap can drop a retained event; a flush of metrics that throws
  midway sends what it had sent again.
* Webhook: 202 is the answer to every `ok: true` (`route.ts:187`), so also to what was held
  and began nothing: the factory or the run is paused, the run ended or runs already,
  another run of the issue is active, a reply asks for a revision, or the delivery was
  handled before. Nobody keeps what was held, and GitHub has no reason to deliver it again
  (a run paused right after its acceptance stays queued, and a redelivery is "already
  bound"). `AnswersAreHonest` therefore lets 202 mean begun or held. An abort that finds no
  run answers 202 too. A throw (a control store misconfigured, a pool that does not close)
  is a 500 though the dispatch may have begun; a redelivered or late payload with its old
  labels passes the deduplication of stories again; an answer of Eve that cannot be read is
  told GitHub as 502 though the session began; a question label that is removed with a
  mention falls through to a story.
* Metrics: a run's cost is the last event's, not the sum; `recordRunCost(null)` makes a
  measured run unmeasured again.
* Prices: the 90th percentile by nearest rank is the dearest of up to nine providers, so
  ADR 0079's guard of three times that percentile excludes nobody there.
* Calibration: `scripts/df-calibration-report.ts:87` and `:104` count a usage event without
  a cost as 0 and call the stage measured, which ADR 0074 excludes; a run of another
  period is reported as one without an estimate; `calibrationFactor` has no caller. In the
  model a run has one forecast; the code records one per revision of the plan and pairs the
  last, which today takes a lost revision write, since a second revision's number collides
  (`runner_revision`). `PairRun` stands for the two reads at `:76` and `:81`, which is exact
  for a forecast that is written once.
* Migrations: a lower-numbered file that is merged late is applied after higher ones.
* Definition of Done: the factory's runner passes neither `runHistory` nor a label writer
  (`scripts/dark-factory-runner.ts:1329`), so there the steps are not on the ledger and the
  label is the runner's own; `DoneLoop` is the caller that injects them.
* Dispatcher: a stop set while a checkpoint's read of the run is answered is seen at the
  next checkpoint only. One that dies, or whose ledger refuses the event of a resumed attempt,
  leaves a `pending` or `retrying` record, and every later delivery is taken for a
  duplicate. Governor: a call that settles after it was reaped spends money no budget shows.

## 6. Not modelled, and what is left

Not modelled: the text of prompts, comments and labels and its parsing, rendering, argument
parsing, the choices of the model policy (pure choices of data), sprint and story tools
(stateless calls independent of the factory).

Left: the proofs named at the end of section 4.1; liveness of a runner under a supervisor
that relaunches it, which the repository does not have.
