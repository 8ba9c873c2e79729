# MockLane: a verification development

This directory holds TLA+ models of the MockLane backend (`src/backend/app`) and of the
dashboard that is its first client (`src/frontend/src`), the TLC configurations that check
them on small instances, and TLAPS proofs of the theorems that matter most. Every definition is
translated from the source; `PROJECT.json` names, for each one, the lines it stands for.

## 1. The system

MockLane is one FastAPI process (a single uvicorn worker) over Postgres and an optional
Redis. It serves mock HTTP endpoints, captures webhooks and emails, and runs *scenarios*:
stored lists of steps (requests, waits for a webhook or an email, delays) whose result is a
test verdict for CI. A Next.js dashboard talks to the same HTTP API, from
as many tabs as people have open.

| Component | State it keeps | Operations | Talks to | What makes it correct |
|---|---|---|---|---|
| Scenario run queue (`scenario_run_service.py`, `scenario_worker.py`, `api/v1/scenarios.py`) | rows of `scenario_runs` and their status | trigger, claim, cancel, delete, purge, sweep, finish, rescue | Postgres row locks; four worker loops, each with its own session | one executor per run; runs of a workspace serialised; a verdict stays; nothing is stuck |
| Run execution (`execute_run`, `run_once`) | locals of one coroutine, `scenario_step_results` | check, skip, step, finish, rescue | step executors; the status other sessions write | the verdict agrees with the step results; every step is reported; it ends |
| Step executors and waits (`scenario_steps.py`, `scenario_waits.py`) | none; they poll captures and inbox | request, delay, wait | Postgres, customers' servers | waits expire truthfully; a run reads only what it provoked |
| Quotas (`usage_service.py`) | Redis counters, one per user, kind and month | count a unit, seed from the rows | every ingest path | a plan's limit holds, also past an eviction |
| Rate limits (`rate_limit.py`, `main.py`) | Redis counters with a TTL, an in-process fallback | hit | middleware of the public paths | at most `limit` per window, and nobody is locked out for ever |
| Mock serving (`api/mock_serve.py`, `mock_service.py`) | Redis sequence positions, request log | match, serve, advance | quota, log, pub/sub | the right endpoint answers; a sequence advances |
| Webhook capture (`api/v1/captures.py`) | `webhook_captures` | capture | quota, waits | one row per accepted request |
| SMTP inbox (`smtp_server.py`) | session and connection maps, emails | AUTH, RCPT, DATA | its own thread and sync session | mail reaches the addressed inbox only |
| Outbound HTTP (`http_client.py`, `ssrf_guard.py`) | none | request with redirects and budgets | customers' servers | ends within its budget |
| Retention (`retention_service.py`) | none; deletes rows | nightly sweep | everything above | deletes what is old, breaks nothing that runs |
| Billing (`api/v1/billing.py`) | `users.plan` | three Stripe events | Stripe | the plan follows the subscription |
| Scenario definitions and slugs (`scenario_service.py`) | rows of `scenarios` | create, rename, switch, delete | runs, the pages | one slug leads to one scenario |
| Scenario pages (`scenarios/page.tsx`, `[slug]/page.tsx`, `runs/[runId]/page.tsx`) | React state of the page on screen, a poll timer, requests in flight | fetch, poll, create, save, trigger, cancel, delete, navigate | the API, the workers through it | a form is not taken away, a page addresses what exists, a verdict shown is one |
| Mail and sandbox pages (`inbox/page.tsx`, `dashboard/sandboxes/**`) | the same | poll, open, remove, clear, test, toggle, check a prefix, create | the API, SMTP through it | each page shows its own box; addresses are unique |
| Mock pages (`mocks/**`, `components/mock/*`) | the same | list, switch, create, import YAML, edit a response, rules, sequences, logs | the API | each editor shows its own endpoint; one method and path, one endpoint |
| Workspaces, members | rows | invite, change role, remove | all of the API | an owner stays |
| Auth, admin, OpenAPI import, template engine, contract validator, the other pages, infrastructure | rows or none | - | - | pure, sequential, or out of reach (section 8) |

The hard part is where several asyncio tasks act on one row through Postgres at READ
COMMITTED: four worker loops, request handlers, and the retention sweep, each of which reads
a status, awaits, and writes because of what it read. `PROJECT.json` "hazards" lists, line by
line, what can go wrong there and elsewhere, and which property would catch it.

The pages have a concurrency of their own. `lib/api.ts` sends a request and returns a promise;
nothing orders two of them, nothing cancels one when its page is left, and the code after an
`await` runs against whatever the user, the poll timer and other people have done since.

## 2. The modules

| Module | Models | Role |
|---|---|---|
| `RunLifecycle` | what one row of `scenario_runs` promises its readers | abstract specification |
| `RunQueue` | the queue: table, locks, workers, requests, crashes | detailed specification |
| `MCRunQueue` | instances of `RunQueue` for TLC | model checking |
| `RunExecution` | one claimed run: step loop, outcome, last write, rescue | detailed specification |
| `RunQueue_proofs`, `RunExecution_proofs` | theorems about `RunQueue` and `RunExecution` | proofs |
| `Waits`, `MCWaits`, `Waits_proofs` | the wait steps of the runs of one workspace | detailed specification, instances, proofs |
| `Quota`, `Quota_proofs` | one user's counter and rows of one kind within a month | detailed specification, proofs |
| `RateLimit` | one key of the rate limiter and its fallback | detailed specification |
| `MockPath_proofs` | theorems about `RateLimit` and `MockSequence`, which a request to a mock meets one after the other | proofs |
| `SmtpSession`, `MCSmtpSession`, `SmtpSession_proofs` | SMTP connections and the boxes their mail is stored in | detailed specification, instances, proofs |
| `MockSequence` | the response sequence of one mock endpoint | detailed specification |
| `Tab` | a browser tab: the page on screen and its requests in flight | shared by the pages |
| `ScenarioTab`, `ScenarioServer`, `ScenarioList`, `ScenarioEditor`, `RunPage` | the routes of the scenario pages, what answers them, and one module per page | parts of `ScenarioPages` |
| `ScenarioPages`, `MCScenarioPages`, `ScenarioPages_proofs` | the scenario pages and their server together | composition, instance, proofs |
| `DashboardTab`, `MailServer`, `Mailbox`, `SandboxPages` | the mail section: routes, what answers, the two inboxes, the list and the form | parts of `DashboardPages` |
| `MockServer`, `MockList`, `MockEditor` | the mock section: what answers, the list with its dialogs, the editor | parts of `DashboardPages` |
| `DashboardPages`, `MCDashboardPages`, `DashboardPages_proofs` | both sections in one tab | composition, instance, proofs |

`RunQueue` and `RunExecution` are two views of the same code. `RunQueue` has every actor and
abstracts a run's steps to "inside the steps"; `RunExecution` has one worker and every step,
and the other actors become an environment that may finish or delete the row at any time.
Their common border is the pc of `execute_run` (`check`, `step`, `finish`, `write`, `rescue`,
`rewrite` in both) and the status of the row.

Definitions commented `Deviation:` are plausible wrong versions of the one that follows them. No
specification uses them; they show that each property can fail (PROJECT.json "mutants").

### RunQueue

State and code:

| Variable | Code |
|---|---|
| `status` | committed `scenario_runs.status`, with `none` (not created), `inserting` (INSERT not committed), `gone` (deleted or rolled back) |
| `live` | rows of `scenarios` |
| `expired` | `now - started_at > timeout_seconds`, one bit per run |
| `cancelling` | cancel requests between their SELECT and their UPDATE |
| `pc`, `run` | where a `_loop` is, and `run_once`'s `run` |
| `todo`, `swept` | the sweep's result list, and the rows it has UPDATEd and not committed |
| `cand` | the rows that a claim's snapshot selected and that it has not tried to lock |
| `faults` | bound on restarts and lost connections |

A transaction that writes one row is one action at its UPDATE, commit included, since nothing
is read between the two and other sessions see only the commit. A transaction that writes
several rows or holds a lock across awaits (sweep, claim, `mark_running`, commit) is spelled
out: `SweepRead`, `SweepWrite` per row, `ClaimSnapshot`, `ClaimSkip`, `ClaimTake`,
`ClaimCommit`. Every `await` between a read and the write that rests on it is a step boundary:
`FinishRead` | `FinishWrite`, `RescueRead` | `RescueWrite`, `CancelRead` | `CancelWrite`,
`SweepRead` | `SweepWrite`.

Postgres is external and modelled by what it does at READ COMMITTED: a statement sees the
rows committed when it starts and its own transaction's; an UPDATE or DELETE waits for a row
lock; `FOR UPDATE SKIP LOCKED` skips a row (or a row whose workspace) another transaction has
locked; after locking a row that changed since the snapshot it re-evaluates the conditions on
that row, not the `NOT EXISTS` over other rows; the INSERT of a run holds its workspace
`FOR KEY SHARE` until its commit; a cycle of waiting sweeps is broken by aborting one.

Abstractions, each of which keeps every interleaving the properties tell apart:
- steps: a step that leads to another step does not change this state (`MiddleStep` may
  stutter); `RunExecution` has them one by one;
- the row lock that a skipped candidate may keep until its claim's transaction ends is not
  kept: dropping it only allows more interleavings;
- a cascade of deletions is one action;
- a recorded failure message, timestamps and durations are left out.

### RunExecution

`plan` is the step list, reduced to `stop_on_failure` per step; a step's result is the status
`execute_step` returns, chosen freely. The deadline is one bit, `spent`. The actions `Check`,
`Skip`, `Step`, `LeaveCancelled`, `EndLoop`, `FinishRead`, `FinishWrite` are the statements of
`execute_run` in order; `RescueRead`, `RescueWrite`, `RescueFails` are the `except` branch of
`run_once`; `Intervene`, `DeleteRun`, `DeadlinePasses` are the environment. `finish_run` only flushes
(`FinishWrite`): the verdict becomes durable when `_loop` commits (`Commit`), after `run_once` and its
rescue have ended, so a failure there (`CommitFails`) rolls it back and leaves the row `running`. In
between the UPDATE holds the row's lock, and nobody else writes it (`Unlocked`).

### Waits

What `RunQueue` calls "inside the steps", for steps that wait. `ClaimLook` | `ClaimTake` |
`ClaimSkip`, `Cancel` and `status` are the border with the queue: the claim judges `NOT EXISTS` at
its snapshot and takes the run later, so that runs of one workspace overlap here as they may in the
code (finding 1), and a worker notices a cancel only between steps. The histories `unstarted` and
`cancelled` record the two causes of an overlap. `StartWait` is
the head of `execute_wait_step` with the deadline check before it; `Fetch` | `Match`, `Sleep`,
`GiveUp` | `Wake` are the loop of `poll_until` cut at its awaits; `Stop` and `GiveUp` end the
run, whose verdict is `RunExecution`'s business. `Send` | `Store` are the transaction that
stores a message: `received_at` and `captured_at` default to Postgres's `now()`, the time the
transaction began, while the row is seen from its commit on. Time is a number of ticks; a
timer may be late, and time may pass during a query (`slow`). `Wanted` abstracts the filter
(recipient, endpoint, `match`). Deleting a message while a run waits for it is left out.

### Quota

`counter` is the Redis key (0 when absent), `own` the rows of the user's own resources, `foreign`
those that `get_usage` counts besides. `Incr` | `Count` | `Set` are `consume_quota` cut at its
awaits, `Record`, `Miss`, `Refuse` the rest of the handler, whose row is committed at its end.
`Unavailable` is its `except Exception`, `Die` a handler that raises or is killed, `Evict` and
`Purge` the environment. Five history variables count requests, the sixth (`serial`) says that
none has overlapped. A month is one instance:
its end, where the key's name changes, is not modelled.

### RateLimit

`count` and `ttl` are the Redis key, `local` and `localTtl` the entry of `_local`; a `Tick` ages
both. `Incr` | `SendExpire` | `Reject` are `check_rate_limit_detailed` cut at its awaits, `LocalHit`
is `_local_hit`. Counts past `Saturation` are not told apart: nothing reads more than whether a
count exceeds the limit. The TTL read for the advisory headers changes nothing and is left out.
`recent` is a history: the hits admitted in the last `t` ticks, for every `t` up to `Window`. The
names `RateInit`, `RateNext`, `RateSpec` and `RateTypeOK` keep it apart from `MockSequence` where
`MockPath_proofs` extends both.

### SmtpSession

AUTH, RCPT and DATA handlers use a synchronous session in the controller's one thread and never
await, so each is one action; the API runs in another thread and changes the boxes in between.
`workspace` and `sandbox` are the attributes the handlers set on aiosmtpd's session, which
lives as long as the connection; the envelope lives as long as a message. aiosmtpd is external
and modelled by its interface: one successful AUTH per connection, a fresh session per
connection, DATA only after some RCPT. The `_auth_map` fallback is not modelled: it hangs off
the per-connection server object, and its entry is written together with the session attribute
that is read first, so no call reaches it. A sandbox stands for its address. The quota is
counted from rows, so there is no counter; the month is one instance.

### MockSequence

`position` is the Redis key; `Lookup` | `ReadSteps` | `Get` | `Advance` are step 5 of `_serve` cut
at its awaits. `Edit` is any call of `mock_rules.py` that changes the sequence, `Expire` the
hour's TTL. A request has read the sequence before its steps, so an edit in between gives it
it either list.

### Tab, and the pages

`page` is the route on screen, `net` the requests in flight. A request (`Sent`) is a record with
what it asks for, how far it is (`sent`, `picked` for a transaction that has read and not yet
written, `ok`, `failed`), its answer, and `home`: whether the component that sent it is still
mounted. So an `await` is two steps of a page with the server's step, and anything else, in
between: the action of the click sends, an action named for what came back (`Saved`, `Opened`,
`Toggled`) runs the code after the `await`. `Carry` and `Fail` are the two ways a request goes
wrong: after or before the server acted. A move to another route (`Goto`) unmounts the page:
timers are cleared and state is dropped, but mutations already sent are carried out, and a
`router.push` after their `await` still takes effect, wherever the tab is by then.

React is external and modelled by what it does here: a handler runs to its `await` in one go and
sees the state of the render it was made in, so what a closure captured travels in the request
(`arg`); a state update of an unmounted component is none. Timers fire at any moment while they
are set. `mishaps` bounds failed requests and changes made by somebody else, together.

`ScenarioPages`: `row` and `status` are the two tables, `list`, `editor` and `detail` the state of
the three pages (`useState` by `useState`, under the names of the source). `ScenarioServer` is
`scenarios.py` as the pages meet it: a create and a save pick a slug and write it in two steps
(`CreatePick` | `CreateInsert`, `SavePick` | `SaveWrite`), the rest is one transaction each, and so is
what other people do. The flush of a save writes the columns it changed and no others (`Merged`); the
loser of a race for a slug, or a save whose row is gone by then, is an error (409 of a create, 500 of a
save). A save is answered with the row as it was committed. The workers are seen through the table and
move a run as `RunLifecycle` allows (it is INSTANCEd here), which `RunQueue` implements. A slug is
a name and a suffix; what is typed into steps and variables is one of a few texts that tell
whether they parse.

`DashboardPages`: `box`, `at` and `read` are sandboxes and mails, `endpoint` and `child` mock
endpoints with their rules and sequences, `ui` the state of the page on screen, a record whose
fields depend on the page (`UiInit`). A mail is only where it is stored and whether it is read; a
mock endpoint is a method-and-path pair and a switch. `MailServer` and `MockServer` are
`inbox.py`, `sandboxes.py`, `ui.py`, `mocks.py` and the YAML import as the pages meet them. An import
that overwrites deletes what is on the path, whatever its method (`OnPath`, `PathOf`), and inserts in the
same transaction; a PATCH may move an endpoint to another method or path without looking
(`OtherMockRename`). Each
behaviour stays in one of the two sections, as no state leads from one to the other.

## 3. The properties

RunQueue:
- `SingleExecutor`: no run has two workers, whatever happens between snapshot and commit.
- `NoOrphanWithoutFault`: while nothing fails, a `running` row has a worker.
- `QuiescentVerdictIsFinal`: the exact extent of the lost updates. A terminal status only
  changes while a writer that read the row earlier is still in flight, and no new one appears.
- `VerdictNotFlipped`: a worker's verdict is replaced by a late cancel or sweep at most.
- `ImplementsLifecycle`: refinement of `RunLifecycle`: at most one start, no way back into the
  queue, no resurrection.
- `OneRunningPerWorkspace`: fails with two loops (a finding); the code starts four.
- `EventuallyFinished`: every queued run ends, also behind an orphan.

RunExecution:
- `VerdictHasItsCause`: the verdict agrees with the results, in both directions that matter: a
  green run is green in every step, a red one shows why. It says nothing of `timeout`, which the code
  also gives to runs that had failed (section 6).
- `ReportIsComplete`: every step is reported, and nothing runs after a halt.
- `NoStepAfterIntervention`: after a cancel, at most the step in flight executes, and nothing
  is added to the report but that step and the skips.
- `ExecutionEnds`: the coroutine ends, and leaves a row `running` only if the commit of its verdict
  failed, or its rescue failed after the engine had.

Waits:
- `MatchesAdvance`: rows are stamped at the start of a transaction and appear at its end, out of
  order; still no wait of a run goes back, or takes a message a second time.
- `NoFalseTimeout`: a wait that expires, clamped or not, saw everything stamped and committed
  in its time, unless its last query was still running then.
- `SharingHasItsCause`: a message that satisfied waits of two runs has a cause in the queue: each
  of the two was cancelled or swept while it executed, or had not started when the claim of the other
  looked. It does not say that a run reads only what it provoked (section 6).

Quota:
- `AdmissionsAccountedFor`: what is admitted beyond the limit is no more than what a SET
  overwrote, an eviction dropped and a failing call let through.
- `NobodyIsRefusedEarly`: no interleaving refuses before the limit was asked for.
- `OneOverAtMost`: requests that never overlap exceed the limit by one row at most.

RateLimit:
- `SlidingBound`: any stretch of a window's length admits at most two windows' worth per store.
- `WindowEnds`: a client that goes on trying while it is refused is let in again.

SmtpSession:
- `LoginMailStaysHome`, `AnonymousMailWasAsked`: mail is stored in the box of this connection's
  login, or without one in a sandbox this connection named while it was active.
- `PauseStopsNewConnections`: a paused sandbox gets nothing from connections opened later.
- `QuotaHolds`: the rows kept never exceed the plan.

MockSequence:
- `NoStepSkipped`: however requests overlap and whenever the key expires, a step is only given
  after the steps before it.
- `SuccessiveCallsInOrder`: requests that do not overlap get exactly the steps in order.

ScenarioPages:
- `SlugsDistinct`: two scenarios never share a slug, through creates that overlap and renames.
- `ShownVerdictStands`: answers come back in any order and a list may be old, but nothing is shown
  as finished that the server has not finished.
- `FormAddressesARow`: once all answers are in, a form on screen belongs to a slug that exists,
  although a save moves the slug under requests already sent.
- `FormSurvives`: no answer, late or failed, blanks the page of someone who is editing, and only
  the answer to their own save changes what they typed.

DashboardPages:
- `AddressesDistinct`: check, then insert, is not enough to keep prefixes and method-and-path pairs
  unique; the constraints behind it are.
- `PageShowsItsOwn`: answers that cross a move between two boxes or two endpoints do not show under
  the wrong one.
- `NothingHangs`: what is busy on screen (a spinner, a disabled button or switch) waits for a request
  that is still under way, whatever failed, was filtered away, closed or left in the meantime.

Each specification has one `TypeOK` (`RateTypeOK` in `RateLimit`), which also holds what its state may
never be (a negative budget, rows of a deleted box, a position outside the sequence). That of
`ScenarioPages` includes what every request in flight asks for and what every answer brings
(`TypedRequest`): the fields the code after each `await` reads.

## 4. The runs

| Run | Instance | Shows |
|---|---|---|
| `queue_safety` | 3 runs of 2 scenarios, 1 workspace, 2 workers, 1 fault, run 1 cancellable | all of `RunQueue`'s but the next and the refuted one |
| `queue_liveness` | 2 runs, 1 workspace, 2 workers, 1 fault, fairness | `EventuallyFinished` |
| `execution` | up to 3 steps, 2 faults | all of `RunExecution`'s |
| `waits` | 2 runs of 2 waits, 2 messages, 1 cancel, 4 ticks, waits of 2 ticks in runs of 2, poll interval of 2 | all of `Waits`' |
| `quota` | 3 handlers, limit 2, 5 requests, 2 evictions, 1 failure, 1 foreign row | all of `Quota`'s |
| `rate_limit` | 2 hits in flight, limit 2, window of 2 ticks, 1 outage, 1 loss, fairness | all of `RateLimit`'s but the refuted one |
| `smtp` | 2 connections, a workspace and a sandbox of one owner, a stranger's address, limit 1 | all of `SmtpSession`'s |
| `sequence` | 2 requests in flight, up to 3 steps, 5 answers, 1 expiry, 1 edit, 1 failure | all of `MockSequence`'s |
| `scenario_pages` | 2 scenarios, 2 names, 1 run, 3 requests in flight, 1 of them a mutation, 1 edit, 1 mishap | all of `ScenarioPages`' |
| `dashboard_pages` | 2 mails, 2 sandboxes, 2 prefixes, 2 mock endpoints, 2 keys on one path, 1 sequence, 2 requests in flight, 1 of them a mutation, 1 mishap | all of `DashboardPages`' |
| `queue_two_running`, `rate_limit_outage` | small | the findings of section 6 |

Bounds. Two workers: a race is between two transactions; a third would repeat one of the
roles, and the proofs hold for any number. Three runs of
one workspace, of two scenarios, give a claim a row to skip and a row behind it, and a sweep
two rows to lock in either order (the deadlock needs both). `Cancellable` and `MaxFaults` keep
the number of interleavings finite. Where there are two faults
they are a crash and a failure during the recovery from it; in `RunExecution` they are the
failure of an execution and of its rescue. Three steps
are one before, one at and one after a halt.

Two runs and two messages are enough for a message to be taken twice, by one run or by two, and for
claims to overlap or to follow each other; a
run's deadline equal to a wait's timeout clamps every wait that does not begin at once, and a
poll interval as long makes the last sleep a cut one. Three handlers of `Quota` are the one that
reconciles, the one whose increment it overwrites, and one that is refused. Five requests, limit 2 and
two evictions let the counter be lost, seeded and lost again, with and without requests that
overlap (`serial`). Two SMTP connections share the quota of two boxes; a session is a
connection's own, and the proofs cover any number of boxes. Sequences of three steps have a first, a middle and a last one, and two requests in
flight are a stale writer and the one it overwrites.

Of the pages, two scenarios, boxes and endpoints are the one the tab is on and the one it moves
to, or the winner and the loser of a race for two names; three requests are a poll that is late,
the one after it, and a mutation. One mutation at a time is one at the server: a user who has
several under way is in the model only as "somebody else", who may act between any two steps of
the first (`OtherStep`). One mishap is one lost answer, or one change by somebody else. A
behaviour that starts at the list of sandboxes has one message to come (`MailStart`), one that
starts at the inbox two: a list needs two to be answered out of order, and the boxes need one to
be shown under the wrong one. The one sequence stands for the rules too: the model treats both
alike.

`LiveView` drops the age of rows that are not `running` (nothing reads it). Workers are
symmetric in `queue_safety`, connections in `smtp`, runs and messages in `waits`, prefixes and keys
in `dashboard_pages`; no run with a
liveness property uses a symmetry or a view.

## 5. Fairness

`RunQueue!Fairness` is what the code's scheduling justifies:
- `WF(Work(w))`: asyncio keeps scheduling each of the loops, and `_loop` swallows every
  exception and goes on; a run's step list is finite and every executor clamps itself to the
  run's budget, so a run leaves its steps (a step that leads to another step is a stutter);
- `SF(SweepWrite(w, r))`: Postgres grants a row lock in the order of the queue behind it, so
  an UPDATE that waits is not overtaken for ever;
- `WF(Expire(r))`: clocks advance; `WF(CommitRun(r))`: a request in flight commits.
`RateLimit!FairRateSpec` is `WF(Tick)` (time passes) and `WF(SendExpire(h))` (the event loop resumes a
hit whose INCR has returned); clients need not be fair. No fairness is assumed of cancels, deletions, purges and faults. `RunExecution!FairSpec` is
`WF(Execute)` for the one coroutine. The page modules assume none and claim no liveness: a user
may walk away, a poll ends with its tab, and a request may fail for as long as it likes. Deadlock is not checked where an
instance really may come to rest: in `RunExecution`, whose execution ends, and in `Quota`,
`SmtpSession`, `MockSequence` and `Waits` once their bounded requests, boxes or ticks are used up.

## 6. Findings

1. **Two runs of one workspace can be `running` at once** (`queue_two_running`). The claim
   evaluates `NOT EXISTS` on its snapshot, then locks. Worker A commits its claim between B's
   snapshot and B's lock of *another* run's row: B finds the row and the workspace unlocked
   and claims. The docstring of `claim_next_run` says the workspace lock "closes that".
2. **An outage between INCR and EXPIRE locks a client out for ever** (`rate_limit_outage`): the
   key keeps counting without a clock (`rate_limit.py:72-75`), against the module's docstring,
   "a Redis outage must not take sign-in down with it".

Other places where code and text disagree, read while modelling. The models allow each of these
behaviours; no property states the text, so no run refutes it:

- a committed cancel can be overwritten by the verdict: between the refresh and the UPDATE, which
  has no status condition (`scenario_worker.py:171-179`), although `finish_run` guards the other
  writers; `QuiescentVerdictIsFinal` says when;
- a cancel that read the run before its verdict was committed replaces the verdict and answers
  200 (`scenarios.py:457-472`); `QuiescentVerdictIsFinal` says when this can happen;
- a cancelled run's worker is still inside a step when the next run of the workspace starts, and
  both may take the same email (`scenario_waits.py:112-118` says that two runs "never overlap and
  cannot race for the same message", and so does `scenario_worker.py:40-44`); with finding 1 it is
  one of the two causes `SharingHasItsCause` leaves;
- a message that comes late, on behalf of a run that is over, is stamped after the next run's wait
  began and satisfies it (`scenario_waits.py:11-14` and `Docs/SCENARIOS_DESIGN.md:397` call the
  repeated runs of a scenario deterministic). `Waits` allows it, since a message there belongs to no
  run, and no property forbids it;
- a failed commit of a verdict leaves the run `running` with no worker until a sweep makes it
  `timeout` (`scenario_worker.py:247` is outside the rescue of `run_once`); `ExecutionEnds` has the
  exception, and `EventuallyFinished` says that the sweep comes;
- the check before a step turns a failed outcome into `timeout` (`scenario_worker.py:91-93`,
  against the comments at 137 and 157);
- the quota: the SET of the seed overwrites concurrent increments and an eviction gives a unit away
  (`usage_service.py:180-182`), both measured by `AdmissionsAccountedFor`; a 404 costs a unit
  (`mock_serve.py:165`), and the seed charges members for other owners' traffic
  (`mock_serve.py:162`), hence the `arrivals + foreign` of `NobodyIsRefusedEarly`; deleting mail
  returns its quota (`smtp_server.py:219`);
- `handle_RCPT` looks up the first recipient of an anonymous connection only
  (`smtp_server.py:244`); the mail still goes to the sandbox that was looked up
  (`AnonymousMailWasAsked`);
- a sequence without loop goes back when two requests overlap, and starts again after an hour
  (`mock_serve.py:309-327`), while the documentation says its last step repeats indefinitely; a
  Redis outage fails every request of an endpoint with a sequence; so do two active sequences
  (`mock_service.py:164`).

The scenario pages:
- a history that can no longer be fetched keeps the list that is polled for: the interval is never
  cleared (`scenarios/[slug]/page.tsx:89` against 116-118);
- a poll answered late makes a finished run live again, although the page of a run promises to
  "stop for good" (`runs/[runId]/page.tsx:46`); its `error` is never cleared;
- Retry on the list clears the error and not the list, so "No scenarios yet" shows while it loads
  (`scenarios/page.tsx:33-35`); a failed fetch of the mock endpoints shows "No mock endpoints yet";
- Enter in the create dialog is not guarded, so two creates may be under way (`SlugsDistinct` holds
  all the same); the answer of a create, save or delete navigates a tab that has moved on; what is
  typed while a save is under way is overwritten by its answer;
- a slug freed by a rename or a delete may be taken by another scenario, on which a save from an old
  tab then lands; renaming a scenario whose slug has a suffix to a name that slugifies to the same
  stem moves it; two PATCHes lose each other's fields.

The mail pages: the total of the inbox may reach -1 when a deletion is answered after a poll that
knows of it (`inbox/page.tsx:377`; the sandbox page has a floor); two messages opened in turn and
answered the other way round show the first under the selection of the second; `toggling` holds one
sandbox, so switching two in turn can leave a wrong badge; a tag filter that leaves nothing hides
the pills it is taken off with.

The mock pages:
- a YAML import that succeeds crashes its dialog: the answer has `endpoints_created`
  (`schemas/config_import.py`) and the dialog reads `result.endpoints.length`
  (`YamlConfigImport.tsx:247`); there is no error boundary;
- the editor asks for rules, sequences and logs under `/workspaces/{id}/mocks/{id}/...`
  (`MockEditor.tsx:67`, 155, 188) and the API has them under `/mocks/{id}/...` (`mock_rules.py:54`,
  `mock_logs.py:79`): none can be saved from there, and nothing is said (`Unrouted`);
- one endpoint is fetched with its sequences' `steps` empty (`mocks.py:229-242`), so the editor would
  start from none;
- the switch of a card maps the list of the render that was clicked (`mocks/page.tsx:81`); the
  message about static data that are no JSON array shows on another tab than the data.

## 7. Proofs

`RunQueue_proofs` proves, for every set of runs, scenarios, workspaces and workers and under
the named ASSUMEs of `RunQueue` only (runs are a finite set of numbers, the functions have
their types, outcomes are worker verdicts, `NoRun` is not a run):

- `TypeCorrect`: `Spec => []TypeOK`, with one lemma per group of actions;
- `RunsHaveOneExecutor`: `[]SingleExecutor`; `ClaimsExclude`: two claims of a workspace are
  never uncommitted at once, `[]ClaimMutex`;
- `QueueImplementsLifecycle`: the refinement, step by step;
- `VerdictsStand`: the action property `VerdictNotFlipped`;
- `VerdictsSettle`: the action property `QuiescentVerdictIsFinal`;
- `NothingIsDropped`: `[]NoOrphanWithoutFault`;

`SingleExecutor` is not inductive. The argument: two workers can only have the same run if one
claims it while the other has it. A claim re-checks `pending` on the locked row, so the other
would have to have a run that is still `pending`; that is only so between `ClaimTake` and
`ClaimCommit`, where it holds the row's lock. `IInv` adds exactly these facts:
`StaleReadsAreBounded` (what a status read earlier may have become: an uncommitted claim's row
is still `pending`, an executed row never returns to it, a swept row neither) and
`RowLockIsExclusive`. `IInv` was checked with TLC before it was proved. The refinement and the
action properties follow from `IInv` at the state before a step. `NoOrphanWithoutFault` is
inductive relative to `IInv`: the only steps that take a run from a worker write its verdict
first (`ReleaseAfterVerdict`), and only a claim makes a row `running` (`NoNewRunning`).

`Waits_proofs` proves all of `Waits`' properties for any runs, messages, timeouts and poll
interval. The invariant `Times` orders the clocks: what a run has matched is stamped before its
present wait began (`WaitTimes`), and a query that found nothing and took no time has missed
nothing but what commits at this very tick (`Missed`); with `Expired` this is `NoFalseTimeout`.
`SharersOverlapped` proves `SharingHasItsCause` from `Separate`: a worker inside a run has a `running`
row unless the run was cancelled under it (`WorkersAreRunning`), so a claim whose snapshot passes finds
every run that has started finished, its worker gone (`LookSeesTheFinished`), and what such a run has
matched is older than any wait the claimed run will begin (`Ordered`). Nothing is assumed of the claim
but what its snapshot shows.

`Quota_proofs` proves its four properties for any handlers, limit and bounds: the accounting
inequality is inductive once `TypeOK` says that a reconciling handler holds a unit; refusals rest
on `CountsWhatWasAskedFor` (the counter and every handler's `used` are bounded by what was asked
for); the bound for requests that never overlap on there being one handler in flight
(`OneInFlight`) and on the key trailing the rows by one (`TrailsByOne`).

`SmtpSession_proofs` proves `TypeOK`, `LoginMailStaysHome`, `AnonymousMailWasAsked` and
`PauseStopsNewConnections` for any connections and boxes, from `SessionInv`: which box a session
can hold, given its login and the recipients it was seen to name. `QuotaIsKept` proves `QuotaHolds`
for any finite set of boxes (`BoxesAreFinite`) and whatever foreign boxes a user's count takes in
besides their own (`Counted`). `QuotaHolds` is inductive; what takes the work is that the sum it
speaks of is a fold of the community modules. The fold has a value on every finite set (`SumExists`:
at the least size where it had none, the value at the size before would give it one; the library's
theorem on least elements takes a set, not an operator), the value is that of any larger set's
fold (`SumIsUnique`), so a row more adds one, and fewer boxes add up to no more.

`MockPath_proofs` follows a request to a mock through the rate limit and the sequence. Of
`MockSequence` it proves `TypeOK` and `NoStepSkipped` for any number of requests in flight: the
steps before the key's position, and before every position a request still holds, have
been given (`InOrder`). `OneStepPerRequest` proves `SuccessiveCallsInOrder` from `Counting`: while
requests do not overlap and nothing else happens, the key holds what the reference gives the next
request, and the one under way saw the sequence as it is; the step that stores the next position is
the reference's own arithmetic, modulo the length when the sequence loops.

Of `RateLimit` it proves `RateTypeOK` and `SlidingBound`, for any limit, window and number of hits in
flight. A bound on the last `Window` ticks is not inductive, since a `Tick` turns what was admitted in
the last `t - 1` ticks into that of the last `t`. `RateInv` therefore bounds every shorter stretch
too, one store at a time (`RedisShare`, `LocalShare`): what a store admitted in the last `t` ticks is at
most the hits its present count let in, and a full limit more unless its window is at least `t`
ticks old. A window that ends is the tick at which the first part becomes the second. Two things
disturb this. A hit whose INCR has returned 1 is counted and admitted only after EXPIRE, so the
invariant counts it as admitted already (`Pending`); there can be one for the key that has no clock,
and one for each time a store lost its counts. A loss makes room for one limit more (`Slack`).
`RateInv` was checked with TLC for windows of one to three ticks, limits of one and two and up to two
losses before it was proved. `SlidingBound` is `RateInv` at `t = Window`, and that the dictionary's
share is nothing before the first outage.

`RunExecution_proofs` proves the four safety properties of `RunExecution` for step lists of any
length and any number of faults. `IInv`, checked with TLC first, says between two statements of
`execute_run` what the loop has established so far: one result per step left behind
(`OneResultPerStep`), nothing recorded that halts unless the run has halted (`NothingHasHalted`),
only skips after a halt (`OnlySkipsFollow`), and an `outcome` that agrees with what has been
recorded (`OutcomeHasItsCause`), which the last write turns into `VerdictHasItsCause`.
`NoStepAfterIntervention` is an action property, and follows from the guards of `Check` and the
invariant.

`ScenarioPages_proofs` proves all properties of `ScenarioPages` for any scenarios, names, runs and requests in
flight. `SlugsStayDistinct`: allocation always finds a free suffix, because there are fewer rows
than suffixes (`ScenarioAssumption`: the suffixes have no limit in the code, and the rows are
finitely many), and an insert or a save compares the slug it picked with the rows once more.
`ShownVerdictsStand`: `ShownVerdictStands` speaks of the screen only and is not inductive;
`VerdictInv` says the same of every answer on its way (`Sound`: what it will show as a verdict is
one already), and that only the page of a run has asked for a run or waits for its cancel to be
answered, so that the answer is about the run on screen. A verdict, once in the table, stays one or
the row goes (`StatusKept`), so an answer may be late without becoming wrong. `TypeCorrect` needs it
too: what the answer to a poll of a run may be is read off the page.

`FormInv` carries the rest. `Typed` gives every request in flight, every pick and every answer the
shape it is read with, by what it asks for (`TypedRequest`, a part of `TypeOK`). `Loads` relates the editor
to the request that loads it: there is at most one such request, and only while the page it was sent
by still waits for it, so that no answer finds a form on screen that it would replace; hence
`FormIsKept`, an action property that follows from `FormInv` at the state before the step.
`Addressed` is what makes `FormAddressesARow` inductive: while nobody else interferes, a form whose
slug has no row has an answer on its way that leads the
tab elsewhere (`Leads`: a save that moved the slug, or a delete), and no step but its arrival takes
such an answer away. Assumed of the constants, beyond
`ScenarioAssumption`: a null is no content (`NullIsNoRow`).

`DashboardPages_proofs` proves all properties of `DashboardPages`. For `AddressesStayDistinct`
nothing about the requests in flight is needed: the insert compares again, and the switch of a sandbox
or an endpoint leaves its address alone, and an endpoint is only moved to a method and path no other
has. The other three are parts of `DashInv`. `TypeOK` needs the
shape of every request (`TypedRequest`) and that the id a request gets is free and says what it asks
for (`HasIds`). `PageShowsItsOwn` needs `Own`: a request somebody still listens to was sent by the page
on screen and asks about its box or endpoint, and an answer carries nothing else, as what it carries
stays where it is or goes (`Kept`); a move to another page stops the listening and starts from
nothing (`UiSound`). `NothingHangs` is inductive beside `DashInv`: a step takes out of flight at most
the request it handles (`Keeps`); if something on screen waited for that one, the same step ends the
wait, for a failure as for an answer, and a step that starts a wait sends its request (`Asks`). So what
is busy is set free by the request it waits for, and by nothing less than its end. Assumed of the constants: the nulls are no rows (`MailAssumption`, `MockAssumption`,
`NullsAreNoRows`) and there are finitely many messages, whose unread ones are counted. That there are
finitely many rows to hand out is a bound: a create or an import needs a row that has not been used
(`FreeRows`, `FreeMocks`), as the database never runs out of them.

Every safety property a run checks is proved, save those that fail. Only model-checked are
`EventuallyFinished`, `ExecutionEnds` and `WindowEnds`: liveness, fairness and ENABLED are out of the
prover's reach.

## 8. Plan

Done: the queue, the execution of a run, its waits, quotas, rate limits, the SMTP inbox, mock
sequences; slugs, the scenario pages, the pages for mail and sandboxes and those for mock
endpoints. Next, in order, with the properties that make each worth its module:

1. `BillingPlan`: subscription events delivered late, twice or out of order, and two checkouts
   that each create a customer; the plan is `pro` only after some event said so.
2. `Membership`: invitations, roles, removal; the owner stays, nobody raises their own role, an
   invitation is redeemed once.
3. `MockMatch`: the matching order of endpoints and rules as operators, against a reference.
4. `SafeRequest`: the redirect and read loop of `http_client.py` with its budgets.
5. An abstract quota (a bounded counter with a loss budget) that `Quota` implements, with a proof of
   the refinement.

Not to be modelled: template engine, contract validator, assertions, interpolation, the OpenAPI
import (pure functions on text and JSON, whose data is all they are about); authentication and
email sending (stateless tokens, single rows); admin reports; the mock tester, the contract
validator and the import wizard of the mock pages, and the pages for settings, members, billing,
webhooks and admin (one fetch and one form each, whose requests have nothing to do with each
other, and the marketing pages, which have none); `useWebSocket`, which no page uses;
infrastructure and migrations.
