# VALENCE, specified

TLA+ specifications of the VALENCE GRC platform (`src/src/grc_dashboard`), the TLC
configurations that check them on small instances and TLAPS proofs for every
instance. Paths below are relative to `src/src/grc_dashboard/`.

- [What the system is](#what-the-system-is)
- [Inventory](#inventory)
- [Plan](#plan)
- [Modules](#modules)
- [Runs](#runs)
- [Fairness](#fairness)
- [Proofs](#proofs)
- [Disagreements between code and docs](#disagreements-between-code-and-docs)
- [What is not modelled](#what-is-not-modelled)

To check: `tlc -config MCEvidenceVault.cfg MCEvidenceVault` (and so on for every `.cfg`; its module is the one whose name it starts with), and `tlapm` on each
`*Proofs.tla`.

## What the system is

A multi-tenant FastAPI application. Everything runs as coroutines of one asyncio
event loop per process: HTTP requests, a pipeline task at start-up, a scheduler
that starts a pipeline run every five minutes, a report scheduler, a token
refresher, WebSocket feeds. There may be several server processes. (A Celery task for
reports, `worker.py`, has no caller but its test.) The coroutines share

- a SQL database through one `AsyncSession` per request or stage. A session opens
  a transaction with its first query; nothing locks a row (no `FOR UPDATE`), there
  are few unique keys, and the isolation is READ COMMITTED;
- module-level dictionaries (latest results, WebSocket clients, rate limits);
- files under the output directory (threshold state, metric history, reports).

So the unit of atomicity is not the handler. Between any two `await`s every other
coroutine may run; what was read before is stale after; and some helpers *commit
the session of their caller*, which cuts a handler into two transactions. That is
where the hard behaviour is, and what the specifications are about.

## Inventory

| component | state | operations | interacts with |
|---|---|---|---|
| **Evidence vault** (`db/persistence.py`, `api/routers/evidence.py`) | `evidence_records`: per tenant, rows linked by `previous_hash` | `append_evidence_record`, `list_evidence` with `ensure_demo_evidence`, the chain check of `GET /evidence` | called by every handler that files evidence, by the pipeline, the collectors and the remediation agent |
| **Evidence-filing handlers** (`api/routers/evidence_requests.py`, `findings.py`, `pentest.py`, `policies.py`, `training.py`, `intelligence/remediation_agent.py`) | status and `evidence_id` of requests, findings, pen tests; attestation and completion rows | create, fulfil, upload, update, complete, reopen, sign off, auto-remediate | append to the vault in the middle of their own transaction |
| **Pipeline, CERBERUS, alerting** (`api/pipeline_runner.py`, `pipeline/tenant_runner.py`, `cerberus/pipeline.py`, `alerting/alert_engine.py`) | tasks, `risk_register`, `alerts`, notifications sent | discover tenants, compute, open risks, page and record alerts | started by the lifespan and the timer; overlaps with itself |
| **Latest results and live feed** (`api/tenant_context.py`, `api/routers/ws.py`, `connectors.py`) | `latest_results_by_tenant`, connected sockets | publish, upload, trigger, broadcast, connect, disconnect | written by runs, uploads and manual runs, read by all dashboards |
| **Reports** (`api/routers/reports.py`, `rendering/report_scheduler.py`, `worker.py`, `rendering/pdf_repair.py`) | `reports`, `report_schedules`, files | request, generate, list (which promotes), download (which repairs), verify, schedule, mail | background task, listing and schedules write the same row |
| **Threshold state and history** (`state/threshold_version_manager.py`, `main.py`) | `threshold_state.json`, `metrics_history.json`, lock file | load, save, activate, rollback | each pipeline run and the CLI |
| **Billing, seats, integrations** (`api/routers/billing.py`, `billing/entitlements.py`, `users.py`, `scim.py`, `oauth_integrations.py`, `integrations/token_refresh.py`) | plan, subscription status, seen events, user rows, connection JSON, tokens | webhooks, checkout, create and patch users, connect, refresh | Stripe, SCIM clients and OAuth providers call in any order |
| **Sessions and login limits** (`api/routers/auth.py`, `auth/*`, `cache/session_store.py`, `tenancy/service.py`) | revoked tokens, one-time codes, attempt counters, tenants and users | login, refresh, logout, lockout, register | Redis or, as a fall-back, process memory |
| **Governance workflows** (`api/routers/workflows.py`, `risk_treatment.py`, `remediation.py`, `itsm.py`, `audit_log.py`, `vendors.py`, `personnel/sync.py`) | change requests, treatment plans, tickets, audit ledger, personnel events | submit, approve, implement, sync, verify | ITSM and HRIS systems, audit ledger |
| **Metrics and SIEM clients** (`metrics/*`, `siem/*`, `orchestration/itsm_client.py`, `main.py`) | the values and tickets of a run | build a query, query, page, poll, fall back on invented events, compute, classify, open tickets | pipeline, Jira |
| **Collectors** (`collectors/*`, `integrations/token_refresh.py`) | rows of the vault, stored tokens | collect, file, refresh, probe | pipeline, vault, OAuth providers |
| **Schema** (`db/session.py`, `db/migrations.py`, `alembic/versions`) | tables, columns, `alembic_version` | upgrade, create, add columns, seed | every server that starts |
| Dashboards, narratives, questionnaires, board decks | none | formatting | read the tables |
| Application shell | none | routing, middleware | all |

What is hard, and what makes each component correct:

- **Vault.** The latest hash is read in one await and used in a later one; the
  demo vault is purged and reseeded in two transactions; a listing is a window of
  500 rows. Correct when: a record's link is never dangling, production evidence is
  never removed, an untouched vault does not look tampered with.
- **Handlers.** Two commits per handler, the first one hidden in a helper; checks
  against rows that other requests change. Correct when: a row never names evidence
  that does not exist or was filed for something else, no evidence is left behind
  without a row, one-time operations happen once, a row that says "completed" has
  its report.
- **Pipeline.** Runs overlap with each other (the scheduler does not wait for the
  start-up run) and with restarts; each stage catches its own failures; the alert
  engine pages before it commits. Correct when: a CVE has one open risk, each
  breach is paged and recorded, one tenant's failure does not cost another its
  run, a run ends.
- **Live results.** Last writer wins over newer data, and uploads send nothing to
  the sockets. Correct when: once nothing changes, what is shown and what every
  socket has got is what the database says.
- **Reports.** Listing and generator write one row; a schedule is advanced
  by one commit for all; the write of an outcome may fail, and then fails again. Correct
  when: a completed report has the file the pipeline wrote for it; a due schedule is
  produced once per period; what is generating ends. That an untouched report verifies
  is what the endpoint claims, and is false (`reports_verify`).
- **Threshold state and classification.** Rewrite in place under an advisory lock.
  Correct when: the state is torn only by a crash, a rollback changes something, and the
  stamp of a result determines its classification. That the classifier
  applies the bands of the configuration is false of closed intervals, and the property
  says what it does instead.
- **Billing.** Correct when: seats in use never exceed the plan, a duplicate event
  is applied once, the last state of the subscription wins.
- **Sessions.** Without Redis, revocations and one-time keys are in the memory of one
  process, which evicts and restarts. Correct when: what was revoked, logged out or
  deactivated lets nobody in, but for the doors the property names.
- **Metrics.** A failing query is answered with invented events. Correct when: a
  value is what the SIEM has, and an invented one can be explained.
- **Collectors.** All items of a pass share a session. Correct when: what is filed
  was said by the integration, and all of it is filed.
- **Schema.** Several ways of starting, several servers at a time. Correct when: a
  server that serves has all its columns, and one that does not start has a reason.
- **Governance.** Correct when: nothing is implemented without approval, a treatment
  goes through its states, an external ticket exists once per task, an untouched
  ledger verifies.

Where the code does less than this, the properties state exactly how far it goes: who
may break what, and after which overlap, failure or lost answer. The hazards are
listed one by one, each with its line, in `PROJECT.json`, with the properties that
catch them.

## Plan

The order follows what the product promises most loudly: tamper-evident evidence
first, then the rows that depend on it, then the unattended pipeline.

| # | module | composes | abstract specification | status |
|---|---|---|---|---|
| 1 | `EvidenceVault` | | is the abstract specification of 2 | checked, proved |
| 2 | `EvidenceWorkflow` | `EvidenceVault` | implements `EvidenceVault` | checked, proved |
| 3 | `PipelineRun` | | | checked, proved |
| 4 | `Reports` | | | checked, proved |
| 5 | `MetricPipeline` (threshold state, history) | | | checked, proved |
| 6 | `Accounts` (users, seats, billing) | | | checked in `MCPlatform`, proved |
| 7 | `LiveResults` | | | checked in `MCPlatform`, proved |
| 8 | `Integrations`, `Sessions`, `Tokens`, `Tickets`, `Approvals`, `Roster`, `Seeds` | `Governance` composes 8 and 9 | | checked in `MCGovernance`, proved |
| 9 | `MetricRun`, `Collectors`, `Startup` | | | checked in `MCGovernance`, proved |
| 10 | `Ledger` | `Platform` composes 6, 7 and 10 | | checked in `MCPlatform`, proved |

The plan is carried out: every invariant and action property that a run checks is the
statement of a theorem. What stays with TLC is liveness (see [Proofs](#proofs)). No
module has a RECURSIVE operator.

## Modules

### EvidenceVault

One action per stretch of code between two awaits.

| state | code |
|---|---|
| `vault[t]` | committed `evidence_records` of tenant `t`; a record keeps its stamp (which stands for its hash too), `prev` (`previous_hash`) and `linked` (does `data` carry a `control_id`?) |
| `clock` | `datetime.now(UTC)`, the number of stamps handed out |
| `writer[w]` | a coroutine in `append_evidence_record`: idle, has the latest hash (`stamp`), has added its row (`commit`) |
| `lister[l]` | a coroutine in `list_evidence`, between the queries of `ensure_demo_evidence` |
| `overlapped` | history variable, no counterpart in the code |

| actions | code |
|---|---|
| `ReadTip`, `Stamp`, `Commit` | `append_evidence_record`: SELECT of the latest hash; stamp, hash and `session.add`; `commit` |
| `ListCheck` | the sample of 20 rows and what `ensure_demo_evidence` decides on it; nothing for production tenants |
| `ListDelete`, `ListPurge`, `ListSeed`, `ListInsert` | DELETE, its commit, the seed loop, its commit |
| `ListRead` | the SELECT of `list_evidence` and `get_evidence_vault`'s comparison of neighbours |
| `AppendFails`, `ListFails` | an exception, a disconnect or a restart: the open transaction is rolled back |

`SELECT ... LIMIT 20` has no order, so any 20 rows may come. The stamp is taken
before the commit, so records become visible out of order; that is in the model.

### EvidenceWorkflow

The handlers of one production tenant, on top of an instance of `EvidenceVault`
with one appending coroutine per handler. Every handler is: load and check its row
(`Begin...`), `append_evidence_record` (`ReadTip`, `Stamp`, `CommitEvidence`), write
its row (`Record...`). `CommitEvidence` commits what the handler's session already
holds: the new status of a pen test, and the agent's request. `StatusColumn` is
SQLAlchemy's unit of work: an assignment of the value that was loaded is not sent.
The histories `filed`, `contended` and `lost` say what a record was filed for,
which rows two handlers worked on at a time, and which handlers failed between
their two commits.

### PipelineRun

`runner[r]` is a task of `PipelineRunner`: the start-up task (one run) or the
scheduler (a run every five minutes). `StartRun` and `DiscoveryFails` are the
beginning of `run_once`; `PipelineOk` and `PipelineFails` the pipeline of one tenant;
`FetchCatalog`, `CheckCve`, `CommitRisks`, `CerberusFails`, `SkipCerberus` are
`run_cerberus_pipeline`; `Page`, `SkipAlert`, `CommitAlerts`, `AlertingFails` are
`process_metrics`; `EndRun`; `Restart` loses all tasks and keeps the tables.
`CheckCve` is enabled only with at most one open row: with two, `scalar_one_or_none`
raises and only `CerberusFails` remains, for ever, as no code closes a risk.

### Reports

`report[r]` is the row of `reports` whose `run_id` is `r` (a unique key over all
tenants), `pdf[r]` its file, `task[r]` the background task that fills it,
`reader[h]` a request that lists or downloads, `schedule[s]` and `scheduler` the rows of
`report_schedules` and the hourly pass. `LoadList`/`CommitList` are `list_reports` with
its promotion of rows that are still generating; `LoadDownload`/`RepairPdf` the
download, which repairs a missing file; `WakeUp`, `Export`, `EndExport`, `Deliver`,
`CommitPass`, `AbortPass` one pass over the due schedules in one session; `Restart`
loses tasks and pass and keeps rows and files.

`RecordOutcome` is `update_report_status` with the outcome, or with "failed" from the
`except` branch. `LoseOutcome` is what happens when that write raises too, as it does in
a session whose transaction has failed: the row stays generating, the task is gone
(`orphaned`), and a pass of the scheduler that awaited it ends. `Verified` compares what
`verify_report` compares: the row's hash, which is made of the run id, and the file's,
which is of the metrics if the pipeline wrote the file and of the row if
`download_report` made it up.

### MetricPipeline and MetricRun

`MetricPipeline` has the files: `config` (the threshold file on disk), `state`
(`threshold_state.json`) with `lock`, `saved` (`metrics_history.json`), and for each
process the place in `run_pipeline_core`, `activate` or `rollback`. A file is truncated
in one step and written in a later one. `BoundarySemantics` is
`_apply_boundary_semantics`, over integers, with its three intervals: `[min, max)`,
`(min, max]`, and `[min, max]`, which the code does not know and always rates amber.
`Values` is not bounded by the bands: `KPI-PHI-001` is a count that is compared with a
percentage (`Beyond`).

`MetricRun` has what lies between: each metric is queried (`SearchElastic`,
`FailElastic`, `QuerySentinel`, `FailSentinel`, `CreateJob`, `PollJob`, `ReadPage`, ...),
computed from the last batch (`Compute`), and may get a ticket (`Dispatch`,
`DispatchNowhere`, `LoseDispatch`). The number of matching events (`truth`) is chosen
first, so that a value can be compared with it. The thresholds are one bound
(`RedMin`), and a forecast is free to ask for a ticket from three values on.

### Accounts, LiveResults and Ledger

`Accounts`: a request reads (`Begin...`) and commits later (`Finish`); other requests
commit in between, and a commit writes the columns that differ from those loaded.
Events of the payment provider are repeated until a delivery is answered; `Fail` ends a
request at any point before its commit, or loses the answer after it.

`LiveResults`: `shown` is `latest_results_by_tenant` of one organisation, `job[j]` the run
at start-up, the scheduler, or a request that triggers a run or uploads; `socket[s]`
what a client of `/ws/live` has got last. `FailRequest`, a failing discovery and
`RestartServer` are the faults.

`Ledger`: `log` is `audit_activity_log` of all organisations, whose identifiers are global.
The middleware starts a task per changing request (`StartTask`), which inserts its entry
(`Insert`) and commits it or fails (`EndInsert`); `Remove` is somebody with access to the
database, and `Verified(t)` what `GET /audit-log/verify` answers to an organisation. The
two databases give out identifiers differently (`Assigned`): Postgres the next value of a
sequence, also when the commit fails; SQLite, one transaction at a time, the one after
the largest in the table, and so the same one again when the largest is gone.

`Platform` is the composition of the three, which share no row that two of them write:
`focus` picks users, events, live results or the log, as in `Governance` below.
`MCPlatform` only gives the constants their values, so that the theorems are about the
very composition that is checked.

### The parts of Governance

Each is one aggregate of the database or the session store that several requests (or
servers) work on: `Integrations` (one row of `integration_settings`), `Sessions`
(counter and lock of one account, Redis calls one by one), `Tokens` (sign-in keys,
refresh and revocation, auditor links; Redis or memory), `Tickets` (tasks, the ticket
system's tickets, the records of them), `Approvals` (a change, a treatment plan or the
questionnaire profile), `Roster` (people, devices, or breaches of vendors), `Seeds` (one
of the tables that a first look fills), `Collectors` (a pass and the probe of
connections), `MetricRun` and `Startup` (`init_db` of several servers).

The parts share no row that they write and no key, so their behaviours interleave
without effect on one another: `focus` picks one part, and the others stay in a fixed
initial state. That checks every behaviour of every part and avoids the product of
their states. What does connect them is modelled inside: a pass of `Collectors` takes
the connections as they were read once, as the code does, and its appends to the vault
are those of `EvidenceVault`.

What makes some of them differ from what their names suggest:

- `Tokens`: `OpenSocket` is `/ws/live`, which decodes the token and never reads
  `is_active`; every other use reads it. Without Redis, `EvictRevoked` is
  `_purge_revoked` (50000 revocations are kept, of all accounts together), `ForgetKey`
  `_purge_memory`, and `Restart` loses the whole memory; `forgotten` says that a live
  refresh token's revocation was lost. With Redis a restart loses requests only.
- `Approvals`: `SeedTreatment` is `_ensure_demo_treatments`, whose plans are approved, in
  progress or completed and name no approver (`seeded`).
- `Roster`: `CreateVendor` is `create_vendor` and `_ensure_demo_vendors`, with an incident
  count of the caller's (`given`); names of vendors are taken to be distinct. `BeginPass`
  fetches one page of people (`PeoplePage`, 50 in the code; which page is up to the
  provider) and all devices or vendors. An exception between two people or devices is
  caught and what was added before is committed (`FailPass`, `LeaveRest`); one in the
  scan of vendors, in a commit, or the end of the server rolls back (`AbortPass`).
  `missed` keeps why passes left something out.
- `Tickets`: `CommitPull` writes what the pull was told, so a slower pull may reopen a
  record that a faster one has closed.

`Governance` is the composition: it declares the constants and variables of all parts
and instantiates each of them, renaming what two parts call by the same name (the
`request` of `Integrations` is `connecting`, that of `Tickets` is `ticketing`).
`MCGovernance` only gives the constants their values.

## Runs

| run | question | bounds | expected |
|---|---|---|---|
| `vault` (`MCEvidenceVault.cfg`) | do links resolve, does the chain fork only on overlap, is a "broken" verdict explained, is production append-only? | 1 production and 1 demo tenant, 2 writers, 2 listers, 4 stamps, windows of 2, a seed of 2 | passes |
| `vault_fork` (`MCEvidenceVaultFork.cfg`) | does the chain never fork, as the docs have it? | the same | violated |
| `workflow` (`MCEvidenceWorkflow.cfg`) | do rows and vault agree; is the vault used as specified? | 2 handlers, one row of each kind, 2 stamps | passes |
| `workflow_upload` (`MCEvidenceWorkflowUpload.cfg`) | does an upload leave its finding closed? | the same | violated |
| `pipeline` (`MCPipelineRun.cfg`) | where do duplicate risks and missing alerts come from, do pages and alert rows agree, does a run end? | 2 tenants, 1 metric, 2 CVEs, 2 runs, fairness | passes |
| `pipeline_alert` (`MCPipelineRunAlert.cfg`) | is every breach alerted? | the same with 2 metrics | violated |
| `reports` (`MCReports.cfg`) | who invents a report's outcome, is a completed one final, is a schedule exported once and in the end, does generating end? | 1 tenant, 2 schedules, 2 run ids, 1 reader, 1 restart, fairness | passes |
| `reports_verify` (`MCReportsVerify.cfg`) | does a report that was generated and left alone verify, as `verify_report` has it? | the same | violated |
| `metrics` (`MCMetricPipeline.cfg`) | is the threshold state torn only by a crash, does a rollback change something, is the history kept, does the stamp determine the classification? | 2 processes, 3 configurations (ascending, descending, closed), 3 values, history of 2, 3 runs, 1 edit, 1 crash | passes |
| `platform` (`MCPlatform.cfg`) | how far are seats exceeded, what do events do, is what sockets and the verification of the log show true, and does everything settle? | 3 people for 1 seat (2 on the larger plan), 2 events, 2 requests; 1 SIEM, 1 socket, 2 uploads, 1 change of source; 1 failure each; 4 log entries of 2 organisations, 2 of them lost; fairness | passes |
| `governance` (`MCGovernance.cfg`) | the properties of the ten parts above | 2 requests (3 logins), 3 integrations for a limit of 2, a lock after 3 guesses and at most 7 in all, 1 death, 2 tokens, 2 tasks and 2 tickets, 2 users and 2 versions of the answers, 2 items with 2 words, pages of 1 person, 1 incident given, 3 copies of a seed; 2 servers and 3 starts; 2 runs of 3 catalogues (one is empty), pages of 2 events and 2 polls; 2 probes | passes |
| `ledger_gap` (`LedgerGap.cfg`) | does a gap in the identifiers mean a deletion? | 2 organisations, 4 entries, 1 lost | violated |

Why these bounds are enough to show the interesting cases. A fork needs two
writers and two stamps; four stamps leave room for a window of two that starts
after the fork, and for a seed (two stamps) with two more appends before and after
it. `CheckLimit` and `ListLimit` are 20 and 500 in the code; 2 makes a vault
larger than the sample and than the window reachable. A demo listing that purges
needs a sample without a control link, which the seed of one linked and one
unlinked record gives; two listers let a purge overtake a reseeding. In the
workflow two stamps are two filings: two of one row, or one of each of two; every
pair of operations meets on the one row of their kind. In the pipeline two runs
are the two tasks at once, and two tenants are one that fails and one after it; what a
third run does, once duplicates exist, is left to the theorems, which bound neither runs
nor tenants.

In `reports` two schedules share the tenant's latest run id, which is what makes the
second export of a pass fail; the restart drops one task. In `metrics` two processes
overlap at every step, three runs push a value out of a history of two, and the three
configurations have an upper bound for red, a lower one, and a closed interval, with
values in each band and beyond the green one. In `platform` one seat and two
requests are one too many by one, and two events can come in both orders, twice; four
entries of the log are two of each organisation, and two lost ones let SQLite give the
largest identifier out again while a gap is open below it. The largest instances are
`metrics` with 11.6 million and `governance` with 1.7 million distinct states. In
`governance` two requests are enough for every lost update and double insert, as each
handler reads once and writes once; the third login is the one that gets past the lock
while two others are between their check and their count. Two access tokens are
one of the sign-in and one refreshed. A page of one person leaves another one out. A lock
after 3 instead of 5 guesses, pages of 2 instead of 10000 events and 2 polls instead of 30 make the
limits reachable. Three starts of two servers are two at a time and one after. Where a
count could grow for ever (guesses, tokens, versions, words of a roster), its bound
stops only further calls of the same kind.

Deadlock is checked in all runs but `reports`, `governance` and `ledger_gap`: there the
bounded counters run out (of run ids, guesses, starts, entries), and a request that
never comes is no error. Elsewhere the system cannot stop even when the clock has
reached its bound: in `vault` production tenants can always be listed, in `workflow`
a finding can always be updated, in `PipelineRun` the process can always restart.

Symmetry (of requests, tasks, processes) is used where only invariants and action
properties are checked; `pipeline`, `reports` and `platform`, which check liveness
properties, have none.

## Fairness

- `PipelineRun`: weak fairness of `Advance(r)` for each task, the steps of a run that
  has started. The event loop resumes each coroutine whose awaited call is done, and
  the calls of a run all have timeouts (SIEM queries 30 or 60 seconds or
  `query_timeout_seconds`, the KEV feed 30, the notifiers 10), after which the stage
  fails and the run goes on. There is no fairness on `StartRun`: when
  `discover_production_tenant_ids` raises, nothing catches it, the scheduler task ends
  and no run starts until the process does; so "a next run starts" is not claimed.
- `Reports`: weak fairness of the scheduler and of each generation task, for the same
  reason; none for readers, schedules, or a restart.
- `MCPlatform`: weak fairness for a request that has begun, of the scheduler's timer and
  of the steps of runs and uploads, none for failures or for new requests. Strong
  fairness of a delivery for each event: the payment provider repeats an event until it
  is answered, and the server, however busy, is free for it again and again.

The vault, the handlers and the parts of `Governance` have no liveness property: a
request may always fail.

## Proofs

`EvidenceVaultProofs` holds for any set of tenants, any number of coroutines and any
limits; it uses the assumptions `TenantsAssumption` and `LimitsAssumption` of the
module (non-empty sets, limits that are positive numbers, a non-empty seed).

- `TypeCorrect`: `Spec => []TypeOK`.
- `LinksAlwaysResolve`: `Spec => []LinksResolve`. Not inductive as it stands: a
  commit could add a record whose predecessor is missing. `LinkInv` adds that stamps
  are not ahead of the clock (`StampsPast`), that only demo tenants are ever in the
  purging part of a listing (`OnlyDemoReseeded`), and that the hash a coroutine has
  read, and not yet used, belongs to a committed record older than its own
  (`PendingResolves`). A commit then keeps `LinksResolve`, and `PendingResolves`
  survives other commits because production records are never removed.
- `ProductionIsAppendOnly`: `Spec => [][...]_vars`, from `OnlyDemoReseeded`.
- `SerialChainIsLinear`: `Spec => []SerialChainLinear`. `ChainInv` adds
  `SerialPending`: where appends never overlapped at most one is in progress, and
  the hash it has read is the latest, that is no committed stamp exceeds it.
- `BrokenShowsOverlap`: `Spec => []BrokenMeansOverlap`. A verdict is about a window of
  the newest rows, so `ListingInv` adds that a vault is finite (`VaultsCounted`); then
  a window holds everything as new as its oldest row, and of a vault that is one chain
  (`SerialChainLinear`) with its links resolved it is a chain too. No window, failure or
  late commit alone makes an untouched vault look tampered with.

`EvidenceWorkflowProofs` holds for any handlers and rows, from `SubjectsAssumption`.

- `WorkflowTypeCorrect`: `WorkInv` adds to the types that a handler has an append in
  progress only while it waits for its evidence (`WriterOK`), and that the status an
  operation will write is one of its row's (`OpOK`).
- `WorkflowImplementsVault`: `Spec => Vault!Spec`. The refinement mapping is the
  identity on the vault's variables. `Begin`, `Record` and `CreateRequest` stutter;
  `ReadTip`, `Stamp` and `CommitEvidence` are the vault's append; `Fail` is
  `AppendFails`, or stutters when no append was in progress, which needs `WriterOK`.
- `RowsAlwaysEvidenced`: `RowsAreEvidenced` is not inductive since a handler carries
  its `evidence_id` in a local variable between its two commits; `Carried` says that
  it was filed for that handler's row.

The next four rest on `Exclusive`: two handlers that work on one row have put it into
`contended`.

- `FulfilledRequestIsFinal` (`FulfilledIsFinal`, an action property): `RequestInv` says
  what a handler may still assume of the request it loaded as long as nobody contends.
- `NeverSignedTwice` (`SignedOnce`): `SignInv`, a handler that is signing has found no
  row and, uncontended, there still is none.
- `CompletedTestsHaveReports` (`CompletedHasReport`): the status is committed in the
  first transaction and the report's id in the second; `ReportInv` names, for each
  completed test without a report, the handler that will store it or lost it
  (`ReportAwaited`).
- `EvidenceIsNotLeftBehind` (`NoOrphanEvidence`): `StampInv`, a stamp belongs to one
  filing only; `OrphanInv`, each filed record is on its way in one handler, `Kept` in
  its row, or lost.
- `HandlersKeepTheChain` (`ChainKept`): links resolve and an append that did not overlap
  does not fork, whatever the handlers do. Nothing is proved anew: these are the theorems
  of `EvidenceVaultProofs`, instantiated with the handlers as writers and carried over by
  the refinement. The run `vault` checks both parts; they have none of their own here.

`PipelineRunProofs` holds for any tenants, metrics, CVEs, tasks and answers of the KEV
feed, from `RunnersAssumption` and `DataAssumption`.

- `TypeCorrect`.
- `RiskIsOpenedOnce`: `RiskInv` adds that where passes never overlapped at most one
  is in progress, and that what it has added to its session is no open risk yet.
- `MissedAlertsAreExplained`: `AlertInv` says for a breach in an engine at work
  exactly where it is, in the queue or among the drafts; that is what the commit
  needs to make it an alert, and the skip to find the alert that silenced it.
- `PagesAreRecorded`: `PagedInv`, the same for pages and drafts.

`ReportsProofs` holds for any organisations, schedules, run ids and readers, from
`ReportsAssumption`.

- `ReportsTypeCorrect`.
- `OnlyListsInvent` (`InventedOnlyByList`): `OutcomeInv` says of every report that no
  list has promoted that its outcome is `Earned`: as long as its task
  runs it is generating, and if it is completed, the pipeline wrote its file. That this
  file then verifies is no part of it, and false (`reports_verify`).
- `CompletedReportIsFinal` (`CompletedIsFinal`, an action property), from the same
  invariant: no step touches a completed report, as its task has ended and only a
  promoted one is a list's or a download's business.
- `ScheduleExportedOnce` (`ExportedOnce`): `ExportInv`, what a pass has exported is not
  exported again by this pass, and counts as aborted if the pass does not commit.

`PlatformProofs` holds for any people, requests, plans, seats and events, any sockets,
SIEMs and uploads, and any organisations and entries of the log, from
`AccountsAssumption` (finitely many people and requests, at least one request, a seat in
each plan) and `PlatformAssumption` (a request is neither of the two scheduled jobs;
bounds are natural numbers). Every step of the composition is one of `Accounts`, of
`LiveResults` or of `Ledger` (`PartsMove`), so each has its own invariants.

- `PlatformTypeCorrect` (`PlatformTypeOK`): `AccountInv` adds to the types of `Accounts`
  what a request was begun with, `LiveInv` to those of `LiveResults` that a run queries
  one of the SIEMs and an upload that writes rows is stamped (`Sound`).
- `SeatsAreBounded` (`SeatsBounded`): `SeatInv` adds that the present plan is within
  what was ever granted. The property itself counts requests that have passed the seat
  limit along with the users, and is inductive with that: the lemmas about cardinality
  say what one more user or one request less does to the sum.
- `EventsTakeEffectOnce` (`EventsTakeEffect`): `AppliedInv`, an event that is not
  processed is in the hands of at most one request that can commit it; `OrderInv`,
  as long as events came alone and in order, that request has the present row.
- `WhatIsShownIsTrue` (`ShownTrue`), from the next two.
- `FeedIsCurrent`: what no socket has got must be on its way. `FeedInv` says where: in a
  run that has alerted and not begun to send, or in one that is sending and has the
  socket still on its list. A socket that connects in the middle is given the results,
  so it needs no place on that list.
- `TamperingIsShown`: `LedgerInv` says that every identifier that was given out follows
  one that was (`Chained`) and, on Postgres, that none is given out twice (`Sequenced`).
  The property is stated for committed entries only, and is not inductive: an entry
  being written may become one. That a removal shows needs `HoleShows`: of the
  identifiers above the hole there is a least, and it follows none of the
  organisation's, whatever else is missing.

`MetricPipelineProofs` holds for any processes, configurations, values and history
limit, from `PipelineAssumption`.

- `PipelineTypeCorrect`: `PipelineInv` adds that only a writer of the state holds the
  lock.
- `StateFileStaysIntact` (`StateFileIntact`): inductive with the types.
- `RollbackAlwaysChanges` (`RollbackChanges`): `RollbackInv`, while one process is at
  work (`Alone`), what it read of the state is what the file says.
- `HistoryIsKept` (`HistoryKept`): `HistoryInv` says of a run that nobody disturbed that
  it is in the file, or in the hands of the process that is rewriting the file, or that
  later runs have pushed it out (`Kept`).
- `StampNamesThresholds`: a result is what the configuration its stamp names makes of
  its value; `StampInv` follows a run from the hash to the thresholds (`StampedBy`).
- `StampsAreComparable` (`StampDeterminesRag`), from the former, for any values and any
  of the three intervals. Its hypothesis `BandsInOrder` is about the bounds of half-open
  intervals alone: amber lies between green and red. No validator of `RAGThreshold`
  checks that; `rules/threshold_config.yaml` satisfies it, as does the instance TLC
  checks. With other bands, a value nearer to green may be rated worse. Beyond the green
  band a value is amber, and with a closed interval it always is: the theorem says so,
  and claims an order only of values that are not `Beyond`.

`GovernanceProofs` and `OperationsProofs`, which extends it, are about the composition
`Governance`, from `GovernanceAssumption`: bounds are natural numbers; requests and
logins are finite sets; `"none"` is no name of a user or SIEM; a collector's turn comes
once, as `connected_integrations` is a dictionary; the columns that `init_db` knows are columns of the schema. Every step of the
composition is, for each part, a step of it or none (the lemmas ending in `Move` or
`Moves`), so each part has an inductive invariant of its own:

- `WhatIsSignedOffStays` (`SignOffKept`): `ApprovalInv` has one invariant for each kind of
  document. `ChangeInv`: an approved or implemented change bears a name, and so does
  every copy a request has loaded; `TreatmentInv`: a plan that is approved without a name has
  `skipped` the approval or was `seeded`, and so has every copy a request loaded; `AnswersInv`: only signing approves, and it signs what it loaded.
- `SigningInIsSafe` (`SignInKept`): `LoginInv` counts the logins that have passed the
  lock. While the account is open, as many guesses as exceed the threshold belong to
  logins about to lock it, or to servers that died; once it is locked only those that
  had passed the check before may still count. `SessionInv` says that a request was let
  in by nothing that had been ended when it began (`RequestInv`), that at most one
  holds the code of a sign-in unless they overlap (`Apart`), and that a session that
  was logged out has a revoked refresh token, unless the memory has forgotten it
  (`StateInv`). Sockets are the one door that a deactivated account passes.
- `ConnectionsAreKept` (`ConnectionKept`): `ConnectionInv`, the map a request is going to
  write still has all connections known, except the one it removes; `ProbeInv`, a
  refresh token that is spent was spent by a probe, the provider, or a probe whose answer was lost.
- `ListsAreKept` (`ListsKept`): `ListInv`, whatever is known of an item was said by the
  other side, and an item that only one pass is about to insert has no row (`RowInv`);
  `VendorInv`, incidents are those given and one for each row, in the table and in what a
  pass has counted; `WholeInv`, until a pass is broken off each has `Covered` what lies
  behind it, and broken off it is by a fault or at an item that is there twice;
  `SeedInv`, until two requests have found the table empty it is empty when the rows
  come; `ServerInv`, for each place in `init_db` what a server has made sure of before
  it got there (`PlaceInv`), which other servers cannot undo (`SchemaGrows`).
- `TicketsAreAccounted` (`TicketsAccounted`): `TicketInv` says where each key of the
  ticket system is (`KeyInv`), which request has which task in hand (`HandInv`), and
  what became of each opened ticket (`OpenInv`). `NameInv`: the name of a metric's
  ticket says in which run it was opened.
- `SourcesAreTrue` (`SourcesTrue`): `EvidenceInv`, what a pass still has to file is the
  rest of what was returned (`RestInv`), and row n is the n-th item (`FiledInv`), counted
  with `Cardinality`, so that it can be proved without recursion; `ValueInv` with
  `PageInv`, the pages read so far were full, so the last one has what remains.
- `GovernanceTypeCorrect` (`GovernanceTypeOK`): the types of all ten parts with the bounds
  of their counters, which the other proofs do without. Each part adds to its invariant
  what its bounds need, and a lemma ending in `Typed` derives its types from both:
  - sign-ins: what was handed out and what requests hold to hand out are together no
    more than the requests (`TokenCounts`); only unexpired tokens are revoked
    (`TokenSets`);
  - tickets: all keys met, also in an answer under way, were given out (`TicketBounds`);
  - lists: a pass copies only words of its list and counts within the bound
    (`RosterWords`, `RosterCounts`), and stops behind the last item;
  - defaults: copies and requested rows share one bound (`SeedCounts`);
  - passes: the turn is at most one behind the last integration, as an integration
    whose items are being filed is one of them (`PassBounds`);
  - metric runs: while metrics are computed there are more metrics than values, and when
    tickets come there are as many (`RunBounds`), so names never get ahead of values;
    it takes `PageInv` to see that;
  - starts: at most as many as the bound (`StartBound`).

  It takes `MaxTokens`, `MaxRows` and `MaxPolls` not to be 0: a session may begin with a
  token, an event of a person entered by hand is not held back by the bound of the
  model, and the search client polls at least once (30 times, in the code).

Only model-checked is liveness: `RunEnds` (`PipelineRun`), `DueIsServed` and
`GeneratingEnds` (`Reports`) and `Settles` (`Platform`), which like anything about ENABLED
is out of the prover's reach.

## Disagreements between code and docs

- `vault_fork`: `api/routers/evidence.py:1-5` and `db/persistence.py:337` promise a
  tamper-evident chain that auditors can verify; two overlapping appends fork it, and
  `GET /evidence` calls the vault broken. `SerialChainLinear` and
  `BrokenMeansOverlap` say that nothing else does.
- `workflow_upload`: `findings.py:179` "Upload evidence to transition a finding to
  CLOSED status"; when the finding was closed on loading and an update reopened it
  meanwhile, it stays open.
- `ledger_gap`: `api/routers/audit_log.py:142` takes a gap between the identifiers of an
  organisation's entries for "log tamper/deletion"; they are given out over all
  organisations, so two organisations at work make untouched ledgers fail.
- `reports_verify`: `verify_report` says "Signature verified — report integrity confirmed",
  or else "Hash mismatch — report may have been tampered" (`reports.py:239`). The row has
  a hash of the run id (`reports.py:272`), the file one of the metrics
  (`main.py:255-280`), so it says the latter of every report that nobody touched; the only
  file it confirms is one that `download_report` made up.
- `pipeline_alert`: `alert_engine.py:29` and `:66`; the duplicate check ignores the
  tenant, and the second tenant of a run that breaches a metric hears nothing.
  `MissedAlertExplained` says which alerts can be missing at all.

Met while modelling, in the models, but without a run of their own since the
properties say how far the code goes instead:

- `api/pipeline_runner.py:32`: a failed discovery of the organisations ends the
  five-minute scheduler for good; `RUNBOOK.md:118` counts on it (`FeedConverges` excepts it).
- `reports.run_id` is unique over all organisations and a scheduled export reuses the
  latest run id: the second export of the same results fails, the pass rolls back, and
  the schedules before it are exported again an hour later (`ExportedOnce`).
- `list_reports` completes what is still generating with an invented path and hash; a
  download then makes up the file, which verifies (`InventedOnlyByList`).
- When `update_report_status` raises, the `except` branch of `_generate_pdf_task` calls it
  again with the same session: the report stays generating until it is listed
  (`GeneratingEnds` excepts it), and a scheduler that awaits it loses its pass.
- `KPI-PHI-001` counts, and is compared with a percentage: 95 is green and 150 amber
  (`StampDeterminesRag`).
- `/ws/live` decodes the token and never reads `is_active`: a deactivated account opens
  sockets as long as its access token lives. Without Redis, a restart or more than 50000
  revocations make revoked tokens valid again, and a refresh token that was logged out
  gives new access tokens (`SignInKept`).
- Plans of a demonstration come approved without an approver (`SignOffKept`), vendors with
  incidents that no alert accounts for, of the caller's count or the demonstration's
  (`ListsKept`).
- The list of people is Okta's first 50 (`personnel/sync.py:42`), and a pass over people or
  devices that raises commits what it added before (`ListsKept`).
- ADR 0003 chooses "frozen YAML config with rigorous inclusive/exclusive semantics"; both
  metrics of false positives have the interval `[min, max]` in
  `rules/threshold_config.yaml` (lines 36 and 46), which `classification_engine.py:77-94`
  does not know: they are amber whatever their value, also in the green band
  (`StampDeterminesRag` says that every value is, and the run reaches it).
- The next run of the pipeline activates the thresholds on disk again and so undoes a
  rollback (`RollbackChanges`).
- Every exception of Elastic, a refused key included, is answered with invented events,
  so the retries never retry; a live query without aggregations always counts 0; of
  several pages only the last counts; MTTD and MTTR are constants; full confidence is
  given to invented values only (`ValuesTrue`). Tickets of different metrics may bear
  the same invented key (`KeysTrue`).
- A failed flush leaves the session of a collectors' pass unusable, and everything after
  it is lost (`EvidenceTrue`). The probe of connections exchanges the refresh token and
  stores neither of the new tokens (`DeadMeansExchanged`).
- On SQLite the largest identifier is given out again after its entry is removed or rolled
  back, so the next entries fill the gap that a removal of the latest has left, and the
  verification passes again (`TamperingShows` excepts that).
- On SQLite, tables made by `create_all` and `VALENCE_USE_ALEMBIC` exclude each other: the
  first revision fails for ever. On Postgres the columns of `_ensure_vendor_columns` and
  its kin are never added to an older database (`SchemaKept`, `FailureExplained`).
- A counter of failed logins whose server dies between INCR and EXPIRE stays for ever
  (`GuessesBounded`).
- A profile that is changed after its approval stays approved; a treatment plan may
  leave draft without one (`SignOffKept`). A person who was entered as a joiner is never
  entered as a leaver; an item that is there twice makes every later pass fail
  (`RosterKept`).

## What is not modelled

Abstractions made by the modules above, and why they are sound for the properties:

- hashes are injective and stamps distinct (the code has microseconds): equal stamps
  would make "latest" ambiguous, which the model leaves out;
- payloads, names and texts; only what decides control flow is kept: `control_id`,
  breached or not, the status of an item, the kind of a metric;
- numbers are integers; the statistics over them (Holt's forecast, the FAIR simulation,
  significance, the scores of maturity and vendors) are floating-point and left out, as
  a forecast that may or may not come;
- `backfill_evidence_hashes` has no caller; `/verify` and the evidence export only read;
- of the pipeline, the timeline and evidence stages, which swallow their failures;
- of the tokens, signatures and expiry times: an access token is live or expired;
- vendors of an organisation have different names, as `scan_vendor_breaches` goes by the
  name and two of one name would share their alerts;
- in the log, a removal is of a whole entry: edits of an entry's content change nothing
  that the verification compares. A Postgres sequence leaves gaps at a failed commit only;
  the numbers it may skip when the database server crashes are left out.

Hazards that the properties allow for rather than exclude, since the code has them: a late
`subscription.updated` may revive a deleted subscription (`EventsTakeEffect` is about events
in order), a slow run may publish older results over newer ones until things settle
(`Settles`), a failed discovery ends the scheduler (there too), someone entered as a
joiner never becomes a leaver (`ListsKept`), and with a duplicate risk CERBERUS fails from
then on (`RiskOpenedOnce` only says where duplicates come from).

Left out for good: renderers, narratives, board decks, the what-if and breach
simulations and the answers of the language model (formatting and text), the MITRE
catalogue, gap analysis and cross-framework mapping (pure look-ups), control monitoring
(computes from the latest results), routing, middleware and the check of the
environment (no state beyond a per-address counter), the scripts and the front end.
