# NovaSight: a TLA+ verification project

NovaSight is a multi-tenant analytics platform: a FastAPI control plane over
PostgreSQL, dramatiq workers on a Redis broker, an Iceberg lake behind a REST
catalog, ClickHouse as the serving tier, dbt run by Dagster, language-model
features, and a React frontend. This directory holds TLA+ modules of its
stateful protocols, the TLC runs that check them on small instances, and proofs,
checked by TLAPS, of what they satisfy on every instance. `src/` below is the
repository's root.

## 1. Inventory

### Where the state is, and who changes it

| Part | State | Operations | Interacts through | Module |
|---|---|---|---|---|
| ETL pipelines (`services/pipelines.py`) | rows of `pipelines`, `pipeline_runs` | create, PATCH, DELETE, run-now | inserts a queued run and sends its id to the `etl` queue, both inside the request | `PipelineRuns` |
| ETL worker (`ingestion/`) | the run's row, the cursor, landing tables | extract, load, register, record the outcome | source database, Iceberg catalog, ClickHouse, one database transaction per job | `PipelineRuns` |
| ETL schedules (`services/schedules.py`, `ingestion/scheduler.py`) | `schedules`, `schedule_pipelines` | CRUD, heartbeat | one transaction per heartbeat: a run and a message for each due pipeline | `Schedules`, `PipelineRuns` |
| Tenant provisioning (`tenancy/provisioning.py`) | `tenants`, the physical homes | provision, deprovision | Iceberg catalog, ClickHouse, PostgreSQL; no transaction spans them | `Provisioning` |
| KPI alerts (`reporting/alerts/`) | `kpi_thresholds.is_breaching` | heartbeat, evaluate | `alerts` queue with retries, ClickHouse query, mail or webhook | `KpiAlerts`, `AlertEpisodes` |
| Cron matcher and builder (`reporting/cron.py`, `CronBuilder.tsx`) | the form's inputs and expression | compose, type, save; match a minute | validation of every cron, every heartbeat | `Cron` |
| Dashboards and charts (`services/dashboards.py`, `charts.py`) | rows, tile positions, filters | CRUD, layout | PostgreSQL | `Boards`, `Tables`, `Workspace` |
| dbt and semantic models (`services/dbt_models.py`, `semantic_models.py`, `codegen/`) | rows, and the files generated from them | CRUD, regenerate | files written between flush and commit | `ModelCode`, `Workspace` |
| Transform launches (`services/transforms.py`) | `transform_jobs` | find or create, launch | Dagster's GraphQL API, called before the commit | `ModelCode`, `Workspace` |
| Users, tokens, tenant resolution (`core/security.py`, `tenancy/context.py`, `services/auth.py`, `users.py`) | `users`, tokens | login, refresh, gates, user CRUD | every request | `Access`, `Workspace` |
| Datasets (`services/datasets.py`, `api/v1/datasets.py`) | `datasets`, raw object, Iceberg and ClickHouse tables | upload, query, list | object store, lake, ClickHouse, then the commit | `Datasets`, `DatasetQueries` |
| Scheduled reports (`reporting/`) | report definitions, stored workbooks | heartbeat, run | `reports` queue with retries, object store, mail | `Reports` |
| Dagster code location (`data-platform/orchestration`) | raw and mart tables, serving tables | ingest, build, test, promote, schedules | registry rows, dbt, ClickHouse | `CodeLocation` |
| Data catalog (`catalog.py`, `catalog_lineage.py`) | OpenMetadata's entities and lineage | metadata, lineage | subprocesses, registry rows, OpenMetadata | `Catalog` |
| AI chat and assistant, MCP server (`ai/chat`, `ai/agent`, `mcp_server`) | the transcript of one request | a bounded tool loop | gateway to an external model, the query services | `Assistant`, `LlmGateway` |
| AI SQL, charts, insights, suggestions (`ai/nl_sql`, `nl_chart`, `insights`, `semantic`) | none | one-shot endpoints | model, Cube, ClickHouse | `Assistant` with `SqlValidator`, `ChartSpecs`, `InsightGuardrail`, `SemanticLayer` |
| Alert channels, configuration, crypto, clients, frontend, migrations | none of the protocol's | settings and I/O | | not modelled |

### What is hard in it

* **Ordering against a commit.** `core/db.py` commits after the handler returns,
  but messages are sent, Dagster is launched and files are written inside it.
* **No locks but the database's own.** Cursor, breach state and resource maps are
  read, used over seconds or minutes, and written back or acted upon.
* **Several systems, no distributed transaction.** Lake, ClickHouse, object
  store and registry are brought together by order of steps and compensations.
* **At-least-once delivery**, with retries for alerts and reports, none for ETL.
* **Crashes** between any two of those steps, and lost replies.
* **Answers of a model** that must pass a chain of gates, each with its own
  notion of when two names are the same.

`PROJECT.json` lists each hazard at its line with the property that covers it,
or with the reason why none does.

### What makes each part correct

* ETL: no committed run disappears unnoticed, a run executes once at a time, the
  cursor never runs ahead of the landed rows, a read run is settled.
* Schedules: what the last PATCH asked for is attached, and nothing is undone
  that it did not mention. Cron: an accepted expression fires when its fields
  say, and never fails later; form and summary tell the same as the matcher.
* Provisioning: a registered tenant owns its homes; a compensation destroys only
  what its own call made; nothing is left behind.
* Alerts: a breach is alerted no more often than evaluations raced to record it;
  the recorded state follows the metric.
* Workspace: a board request does what it says whatever races with it, files are
  repaired by the next request that runs alone, a launched run finds its job, and
  nobody inside a tenant makes a platform admin.
* Datasets: an `ingested` dataset answers queries. Reports: every mail is
  explained by a due minute or a fault. Promotion: what a gated run served passed
  its tests. Catalog: lineage is complete after a run that ended well.
* Assistant: the transcript stays one the provider accepts, a reply contains what
  the tools made, and what it shows is governed, capped and grounded.

## 2. How the modules fit together

    PipelineRuns   Schedules   Provisioning   KpiAlerts --implements--> AlertEpisodes   Cron
    Workspace  = Tables + Boards + ModelCode + Access
    DataPlane  = Datasets (on DatasetQueries) + Reports (EXTENDS Datasets) + CodeLocation + Catalog
    Assistant  = Outcomes + LlmGateway + SemanticLayer + SqlValidator + ChartSpecs + InsightGuardrail

Each of the first six is a component with its own state machine, an MC module and
a proof module (that of `KpiAlerts` holds the refinement of `AlertEpisodes` too).
The other three compose components, and each composition has its proof module.
`Workspace` runs the requests of several services against one set of tables;
the service modules say, for each request, when it is accepted and what it
writes. `Reports` extends `Datasets`, because a report queries an uploaded
dataset; `DataPlane` puts the parts of the tenant's data into one specification.
`Assistant` calls its validators as operators on sets of outcomes.
No module declares a `RECURSIVE` operator.

## 3. The modules

### PipelineRuns

One variable group per owner: the registry's columns (`stage`, `enabled`, `disp`,
`cursor`, and `deleting` for the lock of an open DELETE), `phase` of each run,
the broker (`queue`, `dead`), the dispatcher's open transaction (`ticking`,
`todo`, `made`), sources and landing tables, and the workers.

| Code | Actions |
|---|---|
| `PipelineService.create/update/delete` | `Create`, `Update`, `DeleteBegin`, `DeleteCommit`, `DeleteRollback` |
| `run_now`, then `get_db` | `RunNow`, `RequestCommits`, `RequestRollsBack` |
| `create_due_runs`, then `session_scope` | `Heartbeat`, `DispatchOne`, `DispatchSkip`, `DispatchCommits`, `DispatchRollsBack` |
| `PipelineExecutor.execute` | `Read`, `ReadNothing`, `RunVanished`, `FlushRunning`, `Extract`, `FinishSuccess`, `FinishError`, `StepFails` |
| `write_arrow_table` | `OpenTable`, `CreateTable`, `WriteTable` |
| dramatiq, PostgreSQL, the source | `Receive`, `Acknowledge`, `Crash`, `Redeliver`, `JobIsVictim`, `DeleteIsVictim`, `RowArrives` |

Decisions a reader should know:

* A request or a job is one transaction. The row lock a job takes when it flushes
  `status = "running"` is held until it ends, and is what serialises two
  deliveries of a run; the flushed value itself is never seen by anyone, so that
  `phase` has no `"running"` (the monitoring feed of docs/ETL.md cannot show it).
* The DELETE holds the pipeline's row and its cascade waits for locked runs. A
  job that then wants the pipeline's row for the cursor closes a cycle, which the
  database breaks by aborting one of the two.
* A redelivered message executes the run again even if it already ended:
  `execute` does not look at the status. The model does the same.
* A heartbeat makes a run for each due schedule and attached pipeline, so that a
  pipeline of several due schedules is dispatched more than once (`DispatchOne`).
* The catalog accepts a snapshot only on top of the one a writer loaded
  (`fresh`). ClickHouse registration is idempotent DDL and part of
  `FinishSuccess`. The run and its pipeline are read in one step.
* Rows are numbered in CDC order, and a source hands out strictly increasing
  values: rows that tie with the mark, or arrive late below it, are a hazard
  listed in `PROJECT.json`. The pipeline has a CDC column and includes it. PATCH
  changes the disposition and the enabled flag; `grows` remembers whether any
  configuration ever said `overwrite`, which replaces the table by design.

### Provisioning

One slug, since distinct slugs have distinct physical names. `home[h]` names the
call that created the namespace or the database, `row` the call that registered
the tenant, so that a home dropped and made again is told from the first one.
`resources_for_slug` always gives the dbt schema the database's name, so step 3
of the saga is a no-op here, although the docs mention a configuration that
would tell them apart. `made[c]` is the compensation stack. `CreateReplyLost`,
`CompensationFails` and `Crash` share the bound `MaxFaults`; steps that fail
without effect are free. Request cancellation is a `Crash`: `CancelledError` is
not an `Exception`, so no compensation runs. ETL jobs that resolved the tenant
earlier create the namespace (`write_arrow_table`) and land tables at any time.
A commit that succeeds but whose acknowledgement is lost is not modelled.

Nothing in the code serialises calls, so nothing in the model does. A teardown
drops by name: the second of two teardowns of one tenant may run on after the
first has freed the slug, and drop the homes of a provision that came after it.
Three history variables keep account of what the properties speak of: `strayed`
(a job wrote for a tenant already being torn down), `beside` (deprovisions that
began beside another call) and `trampled` (a teardown has dropped a home in use by
a tenant it was not called for, `InUse`). `TenantIsWhole`, `UndoesOnlyItsOwn` and
`FreeSlugIsClean` hold until a teardown tramples, and `TramplingTakesTwo` says
what that takes: a tenant torn down by two calls, one of which began beside
another call. A single teardown never tramples, whatever it races with. After a
trampling docs/PROVISIONING.md's "only resources this call created are ever
dropped" fails too: the compensation of a call whose namespace was trampled, and
made again by a third one, drops that of the third.

### KpiAlerts and AlertEpisodes

`AlertEpisodes` is the promise of docs/ALERTS.md about one KPI: a breach opens an
episode, at most one alert goes out, after the breach was recorded, and only a
recovery closes it. `KpiAlerts` is the code: the heartbeat (`Dispatch`), the
actor with its retries (`Receive`, `Raise`), `Load`, `Measure`, and the branches
of `_apply_state` (`NothingToDo`, `RecordBreach`, `Deliver`, `RecordRecovery`).
The row is loaded once and the copy (`seen`) decides; the metric may change at
any time, the operator may disable or delete the KPI at any time, and the actor
does not look at `enabled`. A message delivered twice is one more message, which
`Dispatch` can send anyway.

Evaluations overlap as they do in the code, where nothing keeps a heartbeat from
finding the KPI due while the message of the last one is at work. `rivals` is a
history variable: how many evaluations had read the row unbreached, or still had
an alert to send (`Owing`), when the breach was recorded; `sent` counts the alerts
since then. An episode is alerted at most `rivals` times (`OneAlertPerRival`), once
when its evaluation had no rival, and `AlertEpisodes` promises the same.

### Cron

An expression is modelled after the split: a sequence of fields, each a sequence
of terms with a base, bounds and at most one step. `Parses` and `Matches` follow
`cron.py` value by value (a field is the set its terms list; Sunday is 0 or 7;
two restricted day fields combine with "or"). `IsDue` is what the module's
docstring says, by arithmetic on the clock, and shares no operator with the
matcher except the expression's shape. The state machine around it is the form:
`SetFrequency` ... `SetDom`, `SwitchMode`, `TypeExpression`, `Save` (validation
asks the matcher at the minute of the request and looks only for an error), and
`Open`. `Fraction` stands for what a number input may deliver and no integer
field can hold: the form emits it and the backend refuses it. "Restricted" is
textual, as in the code: `*/1` is a restriction and `*` is none.

### Schedules

The requests on one schedule are transactions under READ COMMITTED, cut where
another one can come between: `Load`, the DELETE of the attachments (`Clear`, or
`ClearBlocks` and `ClearResumes`), the flush (`Update`, `Insert`), `Commit`,
or an end without effect (`Fails`, `Rollback`, `Victim`). `WaitsFor` names whom
each statement waits for: the holders of the schedule's row, of attachments, and
of pipelines, the last two through foreign keys.

* `Load` reads the row and checks the targets in one step, although the code does
  it in two statements: pipelines are only deleted, so that a check that comes later
  sees fewer of them, and a target that is gone ends the request as `Rollback` does.
* The session does not autoflush (`core/db.py`), so that the UPDATE comes after
  the DELETE and names only the columns whose value differs from the loaded one
  (`Changes`); if none does there is no UPDATE and no lock on the row.
* A DELETE statement fixes what it removes when it starts. If it waits, it
  continues with the rows of that set that still exist, and does not see those
  inserted meanwhile: attachments are told apart by the request that inserted
  them. That is why overlapping PATCHes may leave the union of their lists, and
  why `LonePatchReplaces` speaks of a request that met no other.
* The DELETE of a schedule cascades into attachments inserted after its own
  DELETE of them, so that `Update` removes those too.
* Deleting a pipeline removes its attachments by cascade (`DropCommits`) and
  leaves `target_id` alone. Two requests and the deletes may wait in a circle,
  which the database breaks.

### Workspace: Tables, Boards, ModelCode, Access

`Tables` is the control-plane database of one tenant: rows by id, foreign keys
with cascade, a request's writes as one flush (`Insert`, `Delete`, and `Assign`,
which like the ORM sends only columns that differ from the loaded row), what
PostgreSQL accepts, and which uncommitted writes another flush waits for.
`Workspace` is a request's life: it is authorised and loads (`ChartRequest`,
`BoardRequest`, `DbtRequest`, `SemanticRequest`, `RunRequest`, `UserRequest`),
flushes (`Flush`), has effects that no rollback undoes (`ListModels`,
`WriteFiles`, `WriteFails`, `Launch`), and ends (`Commit`, `Abort`; the latter
stands for an error, a client that is gone and a crash). Dagster runs
(`RunTransform`), logins, refreshes, expiring tokens and the operator's
suspension of the tenant go on beside the requests. A behaviour belongs to one
workload (`Workloads`), which says what kinds of requests there are: services
that share no table do not interact.

* A request acts with the roles in its token (`RolesOf`), as `get_principal`
  does. The kind of a token is looked at by the refresh endpoint only, so that any
  valid token opens a route, as in `core/security.py`.
* A model's text, a chart's spec, names and patches are values; rendering and
  name patterns are abstracted. `DbtFiles` chooses the text that stays when two
  models have one name, since the files are written in no fixed order.
* `lone` remembers that a request met no other one, `raced` that two requests
  claimed one name at once. Both are history variables of the properties only.

What the model makes visible and the properties therefore do not promise: two
overlapping `set_layout`s may leave a mixture of both; a rolled-back delete
leaves an enabled model without its file until the next model request that runs
alone; two launches that overlap may create two jobs for a model, and every
later launch of it raises `MultipleResultsFound` (a 500); a demoted user keeps
the old roles until the access token expires; deleting a semantic model leaves
the joins of others dangling.

### DataPlane: DatasetQueries, Datasets, Reports, CodeLocation, Catalog

`Datasets` follows an upload through the four stores (`PutObject`, `FlushRow`,
`CreateTable`, `Overwrite`, `RegisterDataset`, `CommitIngested`), with a failure
after any step (`CommitFailed`, the 502 that keeps the row) and a death at any
step (`UploadDies`). The status `uploaded` is only flushed: no other session
ever sees it, so that the committed `status` has no such value. `TagColumns` is
the operator's: no code path sets `sensitive_columns` before the ingest, so an
upload is never encrypted at ingest. `DatasetQueries` is the structured query:
validity, aliases, cap, what ClickHouse can answer (unknown columns, sums of text
columns, an alias that hides a column), and masking, which goes by the name a
column has in the result.

`Reports` is one report: the heartbeat (`Dispatch`, and `DispatchAgain`, since it
is a message itself), and a job's steps (`Receive`, `Resolve`, `Render`, `Store`,
`Mail`, `Acknowledge`), each of which may raise (`JobFails`, or the specific
`Unresolved`, `NotRenderable`, `NoRecipients`) or lose its worker (`WorkerDies`).
`Raised` counts the three retries. `run_report` does not look at the dataset's
status, only at its table. A workbook's key holds the second, so that two of one
second overwrite each other.

`CodeLocation` executes the plan of a Dagster run step by step on tables that
other runs use too. Batches are `good`, have a region `twice`, or a `negative`
amount, which is what the dbt tests can tell apart: `not_null` cannot fail on
the raw table's columns. Quality events are emitted by asset runs only; a run of
a schedule's op just fails. The statement "an unvalidated mart is never
materialized or served" (docs/TRANSFORMATION.md, `serving.py:188`) holds only of
a run that goes through the gate, alone: the mart of a failed test stays in
place, so that a serving-only run, or one that overlaps, publishes it; and the
check of the serving table runs after the table was replaced.
`ServedWentThroughTheGate` says exactly that much. `LoadLocation` reads the
schedules once; runs start from that copy. A catalog schedule is built for every
tenant with a resource map, whatever its status.

`Catalog` is the metadata and lineage job, stage by stage, each stage a process
that may fail (`StageFails`), with edges posted one at a time beside edits of
the registry. `missed` is the history of what changed after a run had read it.
Edges are never removed. `Reaches` says that there is a path as a graph has it:
every set of entities that holds the first and is closed under the edges holds
the last. The branch of `build_pipeline_edges` for a tenant without namespace cannot be reached from
the job. OpenMetadata is external; its
soft deletion of tables that a scan does not see is left out.

The parts work on different tables, so their steps commute: a behaviour of
`DataPlane` is about one part (`part`), and the reports find some datasets
uploaded and others not.

### Assistant: Outcomes, LlmGateway, SemanticLayer, SqlValidator, ChartSpecs, InsightGuardrail

A call whose answer depends on the model, Cube or ClickHouse is the set of
outcomes it may have, a value or an exception (`Outcomes`); `Then` chains calls
as the code chains awaits, `OrElse` is a try. The one-shot endpoints answer in
one step (`Serve`, `ServeMcp`) with one of the statuses their handlers map
exceptions to. Chat and assistant take a step per model turn and per tool call
(`Ask`, `ModelAnswers`, `ModelCalls`, `ProviderFails`, `RunTool`, `Deliver`),
with the transcript as it is sent to the provider. What a reply must carry is
read off that transcript: the calls that have a result, in the order they were
made (`Answered`, `Called`, `Made`, `Lists`), and the last chart (`Latest`).

* The model may write any text of the instance's sets: SQL as parsed (form,
  tables, limit, trailing clause), chart specs and suggestions as records,
  summaries as sets of number tokens. What the SQL parser makes of a text is
  external; text its tokenizer already rejects raises an exception that no handler
  names, and is a 500.
* A `LIMIT` is the number the validator reads in it and the rows it lets through
  (`reads`, `lets`). They differ for an expression, which the validator reads as its
  left operand, and for `LIMIT n BY c`. A limit read as within the cap is left as
  written, and nothing after the validator caps the rows. `AnswersAreGoverned`
  therefore promises the cap of the number that is read, and of the rows when the
  limit is that number alone. "Hard cap on rows" (`validator.py:121`) is more than
  the code keeps: `LIMIT 5 + 100000` is read as 5 and left as it is.
* `summarize_insight` summarises the rows of a semantic query of its own, whose
  failures are the tool's.
* A name is a word and a form: two names with one word differ only in case. The
  validators compare words (`Lower`), Cube and the resolver compare names.
* `InsightGuardrail` works on tenths as integers, and `Near` in the properties is
  an independent bound for its arithmetic.
* `/ai/insights` and suggestions turn every unnamed exception into 503; the other
  endpoints leave it a 500. The chat docs say that provider and semantic-layer
  outages answer 503; a Cube error inside a tool is told to the model instead and
  becomes part of a 200, as the model has it.
* A suggestion's metric without alias is validated as `function_0`
  (`suggestion_validator.py:190`) and selected as `function_index`: a suggestion
  that plots a second, unnamed metric under the name it will have is dropped.

## 4. Runs

| Run | Bounds | What it shows |
|---|---|---|
| `pipelines_safety` | 1 pipeline, 2 runs, 2 workers, 2 rows, 1 fault | `CursorCovered`, `QueuedRunAccountedFor` |
| `pipelines_liveness` | 1 run, 2 workers, 1 fault, `FairSpec` | a run that was read is settled |
| `pipelines_lost_run` | 1 run, 1 worker, `FairSpec` | violation: a run stays queued for ever |
| `provisioning_saga` | 4 calls, 2 faults | `TenantIsWhole`, `FreeSlugIsClean`, `UndoesOnlyItsOwn`, `TramplingTakesTwo` |
| `alerts_episodes` | 2 messages, 3 retries, 2 faults, `FairSpec`, overlapping | one alert per rival; refinement of `AlertEpisodes`; the recorded state settles on the metric |
| `alerts_overlap` | 2 messages | violation: two evaluations alert one breach |
| `cron_matching` | 32 expressions, 3 typed numbers, 3 weekdays, 20 instants | matcher, form, summary and validation agree |
| `schedules_safety` | 2 requests, 2 pipelines, 5 bodies and DELETE, `FairSpec` | `LastPatchIsAttached`, `LonePatchReplaces`, `NoLostUpdate`, `RequestsEnd` |
| `workspace_requests` | 7 workloads, 2 requests at a time, up to 6 rows, 2 Dagster runs | `BoardsStayWhole`, `BoardChangesAreWhole`, `FilesAreRepaired`, `ClaimsAreKept`, `NoAdminFromWithin` |
| `dataplane_parts` | 2 uploads of 6 files; 2 messages, 2 minutes, 3 retries, 2 faults; 2 Dagster runs, 3 batches; 2 catalog runs | `IngestedIsWhole`, `MailsAreExplained`, `ServedWentThroughTheGate`, `LineageIsWhole` |
| `assistant_answers` | 3 turns, up to 2 calls a turn, 4 vendor faults, 3 Cube faults | `TranscriptIsAnswered`, `ReplyIsBacked`, `AnswersAreGoverned`, `SummariesAreNear` |
| `assistant_empty_series` | the same | violation: a chart with a column of nulls |

Why the bounds are enough. Two deliveries, or two runs, of one pipeline are what
it takes to compete for a row, a snapshot or a cursor, and a third competes for
the same; two rows tell a gap from a duplicate. Four lifecycle calls, beside a
tenant that may be there at first, give two racing teardowns of a tenant and two
provisions after them, or a failing provision racing a good one, a teardown and
another generation after it. The expressions have one member for each rule of the
syntax and each way to
break it, at values on and next to a boundary, and the instants lie on both
sides of each; the theorem on the matcher covers all others. Two requests and two
pipelines, with lists in either order, give every lock cycle of two parties and
those that pass through a cascade. Two messages, each used again and again, give an
evaluation or its retry and a tick in between, in every order of their steps.

In `workspace_requests` two requests give every overlap of two, and the ids that
are left after the first rows let a request run alone after an overlap; the
filter lists have each way to be invalid (a repeated id, a self-parent, an absent
parent, a parent of the wrong kind, cycles of two and one below a tail) and valid
ones. In `dataplane_parts` the files cover each refusal and a parse error; the
queries cover validity, an unknown column, a sum over text, a hidden column and
limits on both sides of the cap; two faults are a failure and a death of the same
job, and three retries with dead letters are reached by the reports that never
succeed; two Dagster runs overlap in every order of their steps; one catalog run
may fail while the other succeeds. In `assistant_answers` the texts have, for
each gate, members that fail it alone, and three turns with two calls give calls
of one kind in a turn and in different turns; numbers lie on both sides of each
rule of the guardrail.

Requests, calls, messages and runs that are interchangeable are symmetry sets in
the safety runs; the liveness runs, and the schedules, whose bodies name
pipelines, use none. Deadlock checking is off where the modelled world may stop
for good because a bound is used up (run ids, calls, requests, row ids, messages,
Dagster and catalog runs); the alerting, cron and assistant runs leave it on.

Fairness. A worker thread keeps taking its next step, transactions end, the
database resolves lock cycles, and the heartbeat goes on: weak fairness each.
Finishing a job is strongly fair because a waiting UPDATE queues for its row
lock and is served before later DELETEs, and so are the statements of a schedule
request and a pipeline's cascade. Nothing is assumed of users, crashes,
metrics or rows. The last three state machines have safety properties only and
state no fairness: their requests end by themselves within a bounded number of
steps, and nothing in them waits for another but for row locks.

### Premises, and what happens without them

* Rows of a source are numbered in CDC order and become visible in that order:
  rows that tie with the mark, or commit late below it, are never loaded.
* Incremental loads promise that no row is skipped, not that none is loaded
  twice: overlapping runs of a pipeline, and a retry after a failure past the
  load, append the same rows again.
* Mails of a heartbeat that comes late: periodiq's default `skip_delay` drops a
  periodic message that is more than half a minute late, so that a heartbeat runs in
  its own minute or not at all, and `Dispatch` serves the minute it is.
* `schedules.target_id` may name a pipeline that is not attached any more, after
  a PATCH that had loaded a stale row, or after the pipeline was deleted.

## 5. Proofs

All theorems hold for any constants that satisfy the named assumptions. Most say
what kind of thing a constant is, or that a name is not another one
(`RunOwnership`, `KnownDispositions`, `BoundsAreNaturals`, `NoRunIsNoRun`,
`DistinctNames`, `ExpressionsAreExpressions`, `FilesAreFiles`, `NoneIsNoId`,
`NoneIsNoException`, `NoneIsItself`, `FatesAreNoRequests`, ...). Those that say more:

* `MessagesAreFinite`, `RowsAreFinite`, `FiltersAreFinite`, `PipelinesAreFinite`:
  a table, a queue or a body is finite.
* `WorkloadsFitTheTables`: a workload begins with tables as a database keeps them
  (foreign keys, unique emails, filters that passed `_validate_filters`) and that no
  two requests have raced for; a PATCH body has the columns its schema
  has, so that it changes no email, and a model's body has no roles.
  `PositionsAreNaturals`: the same of positions.
* `AssetsAreSelections`, `RegistriesAreRegistries`, `ReadyAreDatasets`: what the
  composition starts from is a state its parts can be in.
* `LimitsAreNumbers`, `TextsAreParsed`, `FiguresAreNumbers`: row caps are
  natural numbers, and what the model writes has the shape of a parsed text, with
  any content.

Every safety property of every passing run is a theorem.

* `PipelineRuns_proofs`: `TypeCorrect`; `RunsAreSafe` and
  `QueuedRunsAreAccountedFor` from `RunInv`, which adds who may hold which run and
  where its message is; `CursorIsCovered` from `CursorInv`. `CursorCovered` is
  not inductive: a worker about to commit its mark must have landed its batch, a
  worker with a fresh snapshot must see the table it will replace, and a mark
  once read must stay covered. `CursorInv` says that for every step of the
  executor; `Unborn`, that a pipeline not yet created has no runs at work.
* `Provisioning_proofs`: `TypeCorrect`; `WholeTenants`, `UndoIsLocal`,
  `TramplingNeedsTwo` and `NothingIsLeftBehind`, for calls that overlap in any way.
  The first two follow from `SagaInv`: until a teardown tramples, a registered
  tenant stays whole because whoever can drop a home is either the call that made it
  and has it on its stack (`WorkersOwnTheirHomes`), which is then not registered, or
  a teardown, which may only drop what is its own tenant's or nobody's.
  `TramplingNeedsTwo` needs `TrampleInv`: the only teardown of its tenant finds the
  row and the homes it has still to drop as they were registered (`FirstTeardown`),
  since nothing else removes them and the row keeps every provision away; a later
  one that began in a quiet slug is the only call at work (`LaterTeardown`). For
  `NothingIsLeftBehind`, `CleanInv` adds that every home of a slug without a row is
  on some call's stack, and that the stack works: a call that has the namespace on
  its stack never finds tables in it, since a job that writes there has outlived its
  tenant (`WriterHasStrayed`).
* `KpiAlerts_proofs`: `TypeCorrect`; `AlertingRefines` and `NoAlertTooMany`, for
  evaluations that overlap in any way, from `EpisodeInv`: the alerts sent and the
  evaluations about to send one (`Recorded`) are at most the rivals, and so are the
  alerts sent and all that may still send one (`Owing`) while the KPI breaches,
  since nobody joins them then: who loads the row sees the breach.
* `Cron_proofs`: `TypeCorrect`; `MatcherCorrect`, from `TermMeaning` (a stepped
  range lists the values that satisfy the congruence), `FieldMeaning` and
  `DayMeaning`; `StoredIsSafe`, because parsing does not depend on the clock.
  `PresetsFire` holds for any numbers typed into the form: what it emits has the
  number within the field's range that is nearest to the one typed
  (`ClampIsNearest`), it parses, and the matcher's meaning of it is the preset's
  (`PresetMeaning`). `SummariesAreTrue` compares each pattern the summary looks for
  with what the matcher makes of that pattern (`SummaryMeaning`); it needs that a
  field of digits says its one number (`DigitsSay`).
* `Schedules_proofs`: `TypeCorrect`, `LastPatchWins`, `LonePatchIsExact`, all from
  `ScheduleInv`, and `NothingIsOverwritten`. What a request has removed is removed
  by no other (`Disjoint`), the keys it inserts are free or its own to reuse
  (`KeysAreFree`, `OneInserter`), and a request that met no other is alone, has
  the row as it is and removes all there is (`Alone`, `Swept`).
* `Workspace_proofs` has two invariants. `NobodyMakesAnAdmin` follows from `Inv`: if
  there is no platform admin at first, no row and no token has the role
  (`OrdinaryRows`, `OrdinaryTokens`), and no request in progress is about to write
  it (`HarmlessRequests`, which is what makes it inductive: a request is
  authorised at its start and commits later, when its token may be gone).
  `WorkspaceTypeCorrect`, `BoardsAreWhole`, `ClaimsAreKeptAlways`,
  `BoardRequestsAreWhole` and `LoneRequestsRepairFiles` follow from `WorkspaceInv`:
  - `TablesHold`: every row is a row of its table, its parents are there, and the
    walk up the filters of a board ends.
  - `RequestsHold`: each write of a request in progress is whole. An id it refers
    to is of the right table, and of the right dashboard for a tile, or its row is
    gone since; a name it gives a row was claimed by it, and no other row has that
    name unless two requests raced for it.
  - `PairsHold`, without which the first is not inductive: two open requests
    insert different ids and claim one name only if `raced` remembers it, and what
    the database accepted from one stays acceptable when the other commits, because
    a flush that touches the same rows, their parents or their email waits.
  - `RunsHold`, `LoneHolds`: a run's job stays; a request that met no other has
    computed its writes and its files from the rows as they are.

  The walk of `_validate_filters` over parents is proved for lists of any length.
  `Least` and `Greatest` (a nonempty set of naturals has a least element, a finite
  one a greatest) serve where an induction would: filters on a loop never leave the
  walk, so that a walk that is empty after as many steps as there are filters has
  met no loop (`WalkFindsLoops`).
* `DataPlane_proofs` has one invariant per part. `DataPlaneInv` is their
  conjunction, and `OthersHold` composes them: a step of one part leaves the
  variables of the others.
  - `UploadInv`, for `IngestedDatasetIsWhole`: the shape of the variables
    (`UploadShapes`), what a request at a step has written (`UploadWrote`), and
    what holds of the stores and the row whatever the request does (`Behind`).
    Uploads touch disjoint entries of every store (`OthersStay`), so that one step
    is argued for one upload (`OwnStep`).
  - `ReportInv`, for `EveryMailIsExplained`: a `Ledger` in which the mails sent and
    the jobs that may still send one are at most the minutes served and the faults
    that excuse a repetition; and that a mail's workbook is in the store.
  - `GateInv`, for `WhatIsServedWasGated`: a run's remaining steps are in the order
    of the plan (`PlanHasItsSteps`, for any selection), a run that met no other
    finds in raw table, mart and serving table what its own steps left there
    (`LeftBehind`, `Alone`; `CountServingStep`), and a blocked run has reported
    (`GateReports`).
  - `LineageInv`, for `EmittedLineageIsWhole`: each hop a run read and did not miss
    is in the lineage or still among the edges it will post (`Covers`); a path is
    then put together from its hops (`HopReaches`).
* `Assistant_proofs`: what the services return is proved without a state machine,
  by the layers of the code: `SqlIsGoverned`, `ChartIsGoverned`,
  `SemanticIsGoverned`, `SuggestionsAreGoverned`, `SummaryIsNear` (where
  `RoundingIsNear` is the arithmetic of the guardrail). They give `ReplyHolds`, and
  with it `AnswersStayGoverned` and `SummariesStayNear`, for any texts the model
  writes. For the loop, `TurnsHold` says that user and assistant take turns and
  that the results of a turn are, in order, those of its first calls, all of
  them unless the turn is the last; `LoopHolds` relates that to the step of the
  loop. From the two come `AssistantTypeCorrect` and `TranscriptsAreAnswered`.
  `RepliesAreBacked` also needs `SinksHold`: the sinks list what the calls with a
  result have made, in order. One more result, of a call after all answered ones,
  appends one value (`SinksGrow`, by `ListsAppended`), and the latest chart of the
  transcript is the last one appended (`LatestListed`).

Each invariant was checked by TLC on the instance of its component before it was
proved. Only model-checked is liveness, which is beyond the prover:
`ReadRunIsSettled`, `SustainedBreachIsRecorded`, `SustainedRecoveryRearms` and
`RequestsEnd`; and the three runs that end in a violation show what the code does
on an instance, which is all a counterexample needs.

## 6. Not modelled

* Alert delivery channels: pure I/O; `KpiAlerts` has only that a delivery works or
  raises. Configuration, cryptography, observability and clients of external
  services: no protocol state of their own.
* The frontend, apart from its `CronBuilder`: a client of the API on whose state
  the server does not rely. Schema migrations: linear DDL, read for the
  constraints the modules rely on.
* In `PipelineRuns`: the read shape (columns, filters), and a PATCH of the target
  table, the object or the CDC column, which keeps the old cursor; two hazards in
  `PROJECT.json` without a property are about this and about rows that tie.
* In `Access`: signatures, password hashing and OIDC; one tenant, so that another
  tenant's data cannot even be named there.
* In `Assistant`: prompt wording, the parser of SQL texts, and the model itself,
  which may answer anything the instance has.
* Values of rows, formatting of workbooks and mails, names' syntax, logging.
