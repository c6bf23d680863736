# Specifications of IoT Hub Alpha

TLA+ models of the IoT Hub backend, the TLC runs that check them, and proofs
about them that TLAPS checks. The modules are translated from the source at one
commit; `PROJECT.json` maps each definition to the lines it models.

## 1. The system

IoT Hub Alpha is a Django project with a PostgreSQL/TimescaleDB store, a Celery
worker, a Prometheus endpoint, management commands, and a command-line device
simulator. At this commit the code stops at the store: there is no ingestion
endpoint, no rule engine and no delivery worker. Telemetry, events and
deliveries are written by the ORM (in tests, fixtures, the shell) and edited in
the admin site.

### Inventory

| Component | State | Operations | Talks to |
|---|---|---|---|
| Relational core (`apps/*/models.py`) | seven tables, foreign keys with CASCADE or PROTECT, unique names and serial numbers | create, change, delete, `loaddata` | PostgreSQL |
| Admin sites (`apps/*/admin.py`) | pages held by browsers: rows read earlier, selections | change form, delete view, eleven bulk actions, CSV export | the tables, by UPDATE and DELETE |
| `setup_roles` | groups, their permissions, users, memberships | superuser, groups, users; three `--skip` options | the auth tables, one commit per statement |
| `setup_timescaledb` | telemetry as table or hypertable, its policies | five DDL statements | TimescaleDB, whose retention job deletes telemetry |
| Request context (`config/middleware.py`, `config/logging.py`) | context variables of each thread, two HTTP metrics | around each request | the log filter, the registry |
| Task metrics (`config/celery.py`, `config/logging.py`) | an attribute of each task object, counters, a histogram, task context | three signal handlers | Celery, the registry of the worker process |
| Metrics endpoint (`core/views.py`) | the registry of the web process | scrape | Prometheus |
| Validators (`apps/*/models.py`) | none; the rows they let in | predicates on JSON columns, `DeviceType.clean()` | the change forms |
| Migrations (`apps/*/migrations/`) | the schema, the table `django_migrations` | eleven migrations in one plan | PostgreSQL |
| Settings, log routing | read once | - | all |
| Simulator (`simulator/`) | counters of a run | send loop, report | an HTTP endpoint |
| Start-up (`entrypoint.sh`, compose, `scripts/reset-db.sh`) | containers, their stopwatches, the database server and its health | wait, migrate, serve, reset | PostgreSQL, each other through the database |

### Where it is hard, and what makes it correct

* **Relational core and admin.** Requests overlap; a page is old when it is
  submitted. A form saved after its row was deleted inserts it again; Django
  evaluates CASCADE and PROTECT on rows it collected, before the DELETE. Correct
  means: no row without the rows it names, unique keys, and protected rows not
  taken along by others' deletions, also when a form or a fixture puts deleted
  rows back.
* **Bulk actions.** Two UPDATE statements meet on the same rows in any order:
  they block, re-evaluate their filter, or deadlock. Where a search joined another
  table the filter sits in a subquery and is not re-evaluated. Correct means: an
  acknowledgement takes back a resolution in that case only, no action touches
  another's column, no update is computed from a stale row, and requests end.
* **setup_roles / setup_timescaledb.** Each statement commits alone, so a kill
  leaves the work half done, and a repetition or a second execution meets it.
  Correct means: whatever happened before, an execution that passes leaves its
  part whole.
* **Tasks.** Handlers of different executions share the task object; failures,
  retries and crashes take other paths through the signals. Correct means: the
  counters and durations are those of the executions, and log records name the
  execution that wrote them.
* **Simulator.** An answer may be lost after the payload was stored, an operator
  interrupts, several executions write to one log. Correct means: payloads take
  turns, counters, log and endpoint agree, an execution with a count ends.
* **Start-up, migrate, reset.** The database server may crash under anything; a
  migration that creates tables commits before its record does; migrates overlap
  (`up`, by hand, the reset's), and the reset drops the database beside running
  services. Correct means: the record keeps up with the schema, a migrate that
  succeeds leaves the schema of the models, a reset that completes leaves a new
  database if it knew the name of the old one, and an outage shorter than the deadline stops no start.
* **Validators.** They run in change forms only, each form loads a row before it
  saves, and every other writer passes them by. Correct means: what a form was
  the last to store is as documented, whatever was there before or came between.
* **Requests.** Threads serve many requests and keep their context. Correct
  means: log records name their own request from its binding on, and none but the
  warning of a missing generator comes earlier; the header leads to them, and each
  request is counted once.

The full list of hazards, with their lines and the properties for them, is
`hazards` in `PROJECT.json`.

## 2. Modules

| Module | Models | State and actions |
|---|---|---|
| `ReferentialStore` | what the relational core promises | `rows`, `ref`; `Put`, `Remove` |
| `AdminStore` | tables, foreign keys, admin requests, deletion by collector, `loaddata`, retention job | `rows`, `ref`, `key`, `used` are the database; `session` is a request: an open form, or a delete view that has collected. `Create`, `ChangeView`/`Save`, `DeleteView`/`Delete`, `Load`, `Rollback`, `RetentionJob` |
| `BulkUpdate` | the eleven bulk actions and form saves as READ COMMITTED statements | committed and pending versions, row locks, and what a subquery found (`found`); `Begin`, `UpdateRow`, `Commit`, `DeadlockVictim`, `Abort` |
| `TaskMetrics` | signal handlers, task context, registries, worker crash, scrape | `start_time` is `task._start_time`, per task name; a handler is one step: `Prerun`, `Finish` (with the failure handler), `Postrun` |
| `RequestContext` | middleware, context variables, HTTP metrics | `context` per thread; `LoadFails` (the warning before the binding), `Bind`, `Log`, `Answer`, `ObserveLatency`, `Count` follow one call of the middleware |
| `RoleSetup` | `setup_roles` statement by statement | one action per statement; `status`, `pc`, `at`, `left` are the process |
| `TimescaleSetup` | `setup_timescaledb` statement by statement | one action per statement, named after the method |
| `Migrations` | the eleven migrations as operations on schemas, the plan, the schema of the models | no state: `Migrated(schema, m)` is what a migration makes of a schema, or that PostgreSQL refuses it |
| `Deployment` | database server, entry point, migrate, service connections, reset script and the name it works on | `stage` and `watch` of each container; `schema`, `recorded`, `exists` are the database; `todo`, `owes` a migrate's plan and the record it has yet to write; `script` is the reset |
| `Documents` | validators behind concurrent change forms | `row` in the table; `instance` and `cleaned` are what a request loaded and validated; `Post`, `save`, and `Store` for writers that pass no form |
| `Simulator` | `main_sim`, `run_loop`, the HTTP sender, the reporter; several executions, one endpoint, one log file | `config`, `stats`, `i` as in the code; `posted`, `received` and `log` are what the endpoint and a reader of the log file see. `Start`, `Post`, `Answer`, `Continue`, `End`, `Interrupt` |
| `*Proofs` | theorems about `AdminStore`, `BulkUpdate` with `Documents`, `TaskMetrics`, `TimescaleSetup`, `Simulator`, `RoleSetup`, `Deployment`, `RequestContext` | |
| `MC*` | instances for TLC | |

`AdminStore` implements `ReferentialStore` (`ImplementsStore`, an `INSTANCE`
whose variables have the same names): an abstract store in which rows come with
the rows they name and go with the rows that name them, so what the collector
and the sessions do is invisible from outside. `Deployment` is built on
`Migrations`: its migrates apply those migrations, in that plan, to its database.
The other modules stand alone: the commands, the handlers, the simulator and the
admin share no state in the code but the rows, which `AdminStore` keeps.

Conventions: a definition has the name of the function, field or constant it
models where there is one. Definitions marked "Mutated" are deliberately wrong
variants of the one after them; substituting one must violate a property, which
shows that the property can fail. Variables marked "history" are read by
properties only.

Choices that shape the models:

* The atomic step of `AdminStore` is a transaction that commits (a form save, a
  deletion after its confirmation page and collection), with foreign keys
  checked then, as Django's deferred constraints are. Collecting is a step of
  its own: rows may change between it and the DELETE. `BulkUpdate` goes below
  that: there a step updates one row of one statement, and a statement that
  waits sees the version another request committed.
* `AdminStore!Load` is one transaction too. Rows are written in the order of the
  file, so a unique value must be free at the row's turn and not only in the end;
  references are checked at the end and may name rows of the file. `loaddata` then
  sets the sequences back to the highest id, so ids of deleted telemetry, events,
  templates and deliveries can be given out again; those of the other tables are
  UUIDs. The fixtures are what `dumpdata` writes (`docs/readme-database.md:303`).
* An action of `BulkUpdate` on a list that was searched by a column of another
  table (`joined`) updates `WHERE id IN (SELECT ...)`: what the subquery found is
  read when the statement begins, and a row that was waited for is not asked again.
* `BulkUpdate` abstracts a row to its one column with meaning: the status or flag the
  action sets, and the error attempt count where an action resets it.
* In `TaskMetrics` the repository defines no task, so executions and outcomes
  are whatever Celery reports (SUCCESS, FAILURE, RETRY). Messages are
  acknowledged when taken, Celery's default, which the settings keep; so a crash loses them.
  A handler is atomic: true for the solo, prefork and gevent pools, not for a
  pool of threads, which nothing in the repository uses. The pool is chosen in
  `Init` and kept: `solo`, what the compose file starts, admits one execution at
  a time (a child of the prefork pool does too), `gevent` one in each slot.
  The clock does not go back.
* In `RequestContext` log records and responses are abstracted to whom they
  belong. A request with the redirect on is always redirected, since the server
  speaks plain HTTP and no proxy header is configured. A thread keeps its context
  between requests; a record has a field that says whether it was written before
  or after the binding.
* In `Simulator` a log file is what can be counted in it: records carry no name of
  the execution, so a reader can only compare sums. The endpoint is external;
  it sends the expected code only for a payload that reached it. Nothing catches
  an interrupt, so it may come between any two steps.
* In `RoleSetup` the permissions are those of the code, not a sample.
* In `Migrations` a schema is tables, fields and index names with the fields they
  are on; types, defaults and validators are left out, and `AlterField` with them.
  PostgreSQL's refusals are kept (`RemoveIndex` has none: Django drops an index
  with `IF EXISTS`), and so is Django's habit of recording a
  migration that leaves SQL to the end of its transaction in a second one.
* In `Deployment` time is a stopwatch for each waiting container, in quarters of
  a second, so that a wait need not be interleaved with a global clock. While the
  server initialises a new volume it takes no connection over TCP, although its
  health check, which runs beside it, may pass.
* In `Documents` a JSON document is what the validators tell apart: whether it is
  a list and, of each item, its keys, its type and the kind of its cooldown.
  Rows that pass no form may hold anything. The two validators of `Event` run
  nowhere: `EventAdmin` shows their columns as read-only
  (`events/admin.py:42`), which takes them out of the form, and nothing calls
  `full_clean()`; they are left out.

## 3. Runs

| Run | Shows | Bounds | States |
|---|---|---|---|
| `admin` | inductive invariant, relational integrity, unique keys, PROTECT, refinement | 2 requests on one row of each table and a second device, two keys, retention, 10 fixtures | 153 969 |
| `bulk` | acknowledge against resolve, stale rows, each action keeps other columns, termination | 2 requests, 2 events, 1 delivery, searched or not | 500 814 |
| `tasks` | counts, exact durations (solo), durations never too long (gevent), context, inductive invariant | 3 executions, 2 names, 2 slots, both pools, 4 clock values | 594 537 |
| `requests_local` | log attribution, header, counts, inductive invariant | 3 requests, 2 threads, redirect on and off, the generator found or not | 60 679 |
| `roles` | whole groups, users in one group, superuser, documented grants, inductive invariant | 2 executions, any options and kills, three accounts or one name for all, a migration missing | 320 472 |
| `deployment` | record and schema, tolerated outages, refusals, success means the models, fresh reset | 1 service, 2 migrates, the reset script; deadline 28, sleeps 8 to 10, attempts of 4 (quarters of a second), 2 attempts of the reset, a database that does not have the default name | 1 467 730 |
| `documents` | what a form stored last is as documented | 2 requests; 12 action documents, 8 recipient lists with 4 counters, 9 pairs of bounds | 97 199 |
| `simulator` | turns, counters, log balance, termination | 2 executions, 7 configurations (1 or 2 payloads, none; counts -1, 0, 1, 2; no log; mqtt), 3 sends without a positive count | 292 680 |
| `timescale_runs` | a finished execution is complete | 3 executions, 2 intervals | 4 170 |

Runs that expect a violation, each a disagreement between a document and the code:

| Run | The code | The document |
|---|---|---|
| `tasks_success` | `task_postrun` counts every outcome as success | success and failure are alternatives |
| `tasks_scrape` | counters of the worker are in a process nobody scrapes | task metrics come out at `/metrics/` |
| `timescale_retention` | a changed interval is announced and not applied | change `.env` and re-run |

Disagreements met while modelling that have no run of their own:

* Under the gevent pool that a comment of `docker-compose.yml` proposes,
  overlapping executions of a task overwrite each other's start, so
  `MeasuredExactly` is stated for the solo pool, and `NeverOverestimates` says
  what remains otherwise.
* `setup_timescaledb` succeeds without a compression policy, although
  `docs/database_schema.md` says that it enables compression.
* With the staging redirect, `SecurityMiddleware` answers before the request
  reaches `RequestContextMiddleware` (`staging.py:17`, `base.py:35-45`), so these
  requests are neither counted nor given an id; `docs/observability/metrics.md:9`
  and `:180` count every request. `MetricsAgree` says what is counted.
* `validate_action_config` demands that "cooldown_minutes must be an integer"
  (`rules/models.py:25`) and lets JSON `true` pass, a bool being an int in Python.
  `execution_results` must be a list for its validator (`events/models.py:11`),
  but as a column that may be blank `{}` and `""` skip validation.
* `docs/readme-database.md:112-128` passes arguments to `docker compose run --rm
  migrate`, where they replace the command of the service instead of extending it.
* `worker` in `docker-compose.yml` names `redis` twice under `depends_on`.
* The guard of `scripts/reset-db.sh` reads `DEBUG` of `.env`, which
  `config/settings/staging.py` overrides by a constant. The reset runs neither
  `init-db.sh` (extensions) nor `setup_timescaledb` again.
* `local.py` gives loggers handlers of their own and lets records propagate, so
  one record can be written more than once; `docs/logging.md:10` promises one
  JSON line for each.

* With a search for a rule's name on the event list (`events/admin.py:41`),
  `acknowledge_events` can acknowledge an event that was resolved while its
  statement waited for the row, although it selects new events only
  (`events/admin.py:9`). `AcknowledgeKeepsResolved` says that this is the only way.
* When the generator of request ids cannot be loaded, the warning
  (`middleware.py:31`) is written before `bind_request_context`, so it carries the
  id of the thread's previous request, or none. `clear_request_context`
  (`logging.py:53`) is called nowhere. `LogsNameTheirRequest` and
  `HeaderFindsTheLog` say so of that record and exclude it from what they promise
  of the others.
* `scripts/reset-db.sh:67` takes the default name when `printenv` fails, so with
  another `DB_NAME` a server that crashes there has its old database migrated, not
  "dropped and recreated" (`README.md:157`), and the script reports completion.
* `backend/fixtures/initial_data.json` names `telemetry_id` and `metadata` of
  events, which `events/0002` and the model no longer have, so the `loaddata` of
  `docs/readme-database.md:300` fails and loads nothing.
* The help of the simulator's `--count` says "Amount of requests"
  (`simulator/run.py:56`); the loop sends that many rounds of all payloads
  (`runner.py:32`), and with a negative count one payload. `TakeTurns` says both.

Why the bounds are enough: what can go wrong takes two actors on one row, and
a third to intervene between them. In `admin` the retention job and PROTECT meet
two requests; there are two devices so that a key can be handed from one to the
other, and the proofs of the same properties hold for any number of requests and
rows. Two events are needed for requests to lock in opposite orders; two
executions of a name to overlap and a third of another name to show that names
do not interfere. Two executions of a command cover overlap and kill-then-repeat
(`timescale_runs` has three for both at once). In `bulk` two events and a delivery
stand for all tables: the other actions set one flag or status the same way, and
the proofs cover every table and row. In `simulator` two payloads sent three
times in turn pass the end of the list, and two executions fill one log. In
`deployment` the three migrates that can meet are there (`up`'s, one by hand, and
the reset's, which is run with either), and one service is enough to hold a
connection; the waiting times are shortened from 240, 8 and 40 quarters of a
second so that two refusals pass the deadline, and the theorem `ToleratesOutages`
holds for all values. In `documents` there is a document for each way to pass and
to fail, and two forms that each move one bound suffice to cross them.
Identities are bounded by `Row` and
`Request`; the fixtures of `admin` are dumps of the devices in either order of
their serial numbers, of a template with a delivery whose event is not in the
file, and of all tables but telemetry; the clock of `TaskMetrics` is bounded by
`MaxTime`. `CHECK_DEADLOCK FALSE` appears where the system really stops: in the
two commands when every execution has ended, in other modules when the bounded
work is done.

Symmetry is declared over executions, requests, keys and migrates, in runs
without liveness properties.

### Fairness

Fairness is assumed in three places. `BulkUpdate!FairSpec`, for `RequestsEnd`:
weak fairness of `Commit` (a request that has done its rows ends), strong
fairness of `UpdateRow` (a row lock is handed to a waiting statement in the
end; PostgreSQL queues the waiters of a row), weak fairness of `DeadlockVictim`
(PostgreSQL's deadlock detector runs after `deadlock_timeout`). Nothing is
assumed of new requests. `TaskMetrics!FairSpec`, for the violation
`tasks_scrape`: weak fairness of `Scrape`, since Prometheus scrapes every ten
seconds. `Simulator!FairSpec`, for `FiniteRunsEnd`: weak fairness of each
execution's own steps; the loop waits for nothing but the endpoint, and a send
gives up after the configured timeout. An endpoint that keeps an answer trickling
within the timeout is outside the model.

## 4. Proofs

All theorems hold for any values of the constants under the named assumptions. Of
the properties the passing runs check, all but two have a theorem (end of this section).

* `AdminStoreProofs`. The inductive invariant `IInv` is the type invariant,
  `NoOrphans`, `UniqueKeys` and two more facts: every row, and every row a form is
  about to save, names one parent in each foreign key column (`WellFormed`), and
  what a delete view has collected lies within the guarded tables (device types
  and templates) or outside of them (`CollectedOneKind`). `NoOrphans` alone is not inductive: that
  a save puts back a well-formed row is a fact about the session, not the
  store. A load needs the assumption that a fixture holds no row twice and fills
  every foreign key column (`FixtureAssumption`): of two rows with one unique value
  the later would have clashed (`LoadKeepsKeysUnique`). Theorems:
  `InductiveInvariant`, `Integrity`, `KeysStayUnique`, `Protection`, and
  `Refinement`, that `AdminStore` implements `ReferentialStore`: a save, a create
  or a load is a `Put`, a deletion or the retention job a `Remove`, all else a
  stutter.
* `BulkUpdateProofs`. A row with a pending version is locked by one request, and
  the pending version is the assignment applied to the *committed* version
  (`WritesAreCurrent`, proved as `LocksProtectWrites`). From it
  `AcknowledgeIsSafe`: an acknowledge that commits over "resolved" would have
  matched a row that was resolved, or one that its subquery had found unresolved. `ColumnsAreIndependent` likewise. The same
  module extends `Documents`: what a request has cleaned, and a row a
  form saved, is what `is_valid` accepts *as a whole*, because `save` writes every
  column (`FormsInv`); what the validators accept is what the help texts promise
  (`ValidIsDocumented`), hence `FormsHold`. `RowShape` is the assumption of
  `Documents`: the columns of each table, items in a list, integer counters.
* `TaskMetricsProofs`. `StartIsLatest`: the start on a task object is never
  before that of an active execution of the name. Executions replace it by
  later ones only, so an observation is at most the real duration
  (`Underestimates`) for any number of slots. Under the solo pool no other
  execution is active at `Prerun` (`SoloIsAlone`), so the start is the
  execution's own (`StartIsOwn`) and durations are exact (`SoloIsExact`).
  `SlotsHoldActive` ties executions to slots, without which
  neither is inductive. `ContextCorrect`: the logging context equals the slots.
  `CountersExact`: the counters of a worker are the cardinalities of the sets of
  executions that raised and that ended (`CountersCorrect`); each handler adds
  one element to one set, and a crash empties both sides.
* `TimescaleSetupProofs`. `PassedIsInPlace`: the effect of each statement an
  execution has passed is in place, whoever put it there; nothing takes it back.
  `CompletedRunsAreComplete` follows.
* `RequestContextProofs`. A request is on one connection (`OneConnection`), so a
  binding gives a thread the context of its own request and no other thread's
  step touches it (`ContextIsOwn`); `StageSettles` says what id, status and header
  each stage has fixed; a record repeats the context of its request once that is
  bound (`LogsAreOwn`, `RecordIsOwn`), and before it the one the thread kept
  (`ContextOutlives`).
  `RecordsNameTheirRequest`, `HeaderIsTheLogs` and, with the finite-set theorems,
  `CountersAreExact` follow.
* `RoleSetupProofs`. A group that lacks a permission of its role is pending: some
  execution emptied it and has the permission left to assign, or was killed
  (`GroupsFill`). Inductive only together with what an execution has left being
  permissions of its role (`LeftIsConfigured`), group contents being configured
  (`GrantsAreConfigured`), an execution joining only the user it created to the
  role's own group (`JoinsOwnUser`, `UsersAreConfigured`). Also `UsersJoin`,
  `SuperuserExists`, `OneRole`, `GrantsDocumented`.
* `DeploymentProofs`, in three parts.
  1. *The plan.* The eleven migrations are evaluated symbolically, operation by
     operation. `After(n)` names the schema after the first `n`; the chain of
     lemmas from `ToDeviceTypes` to `ToTelemetry` says that PostgreSQL allows each
     operation there and what it makes of it. Result: `PlanLeadsToModels`, from the
     empty schema to exactly the tables, fields and indexes of the models, and
     `AppliedToPlan`: applied again on *any* later schema of the plan, a migration is
     refused or (`events_0003`, which only changes help texts) changes nothing. The
     least obvious one is `notifications_0002`: the index it drops exists again
     later, under the same name; the column it drops next does not (`Repeat8`).
     A migration has at most five operations, so its recursion is unfolded.
  2. *The invariant* `IInv`: the record is a beginning of the plan, and a migrate
     at work has a live database to itself and the services; hence
     `RecordStaysClosed`. The stopwatch of a wait is at most one sleep and one
     attempt past the last refusal, hence `ToleratesOutages`.
  3. *The books* (`Kept`). `RecordKeepsUp` is not inductive: it does not say that
     what a migrate owes the record of has been applied, nor that a dropped
     database leaves nothing to the next one. `Accounts(n, c)` does: `n` migrations
     are recorded, `c` are applied, `c` is `n` or `n + 1`, nothing above `c` is owed,
     and if `c` is `n + 1` it is owed or lost. A migrate's next migration has rank at
     most `n + 1` (`NextRank`, from `IInv`), so by part 1 applying it moves `c` by one
     or changes nothing. Theorems `RecordHolds`, `RefusedHolds` (a refused migration
     has rank at most `c`, for rank `c + 1` would have succeeded), `MigratedHolds`
     and `FinishedIsRecorded` (an empty plan means `n = c = 11`) and, with what the
     script has established at each of its places (`Fresh`), `ResetHolds`.
* `SimulatorProofs`. `AccountsHold`: an execution waits for one answer at a time,
  so what the endpoint has taken exceeds what is counted by one at most, and
  only after an interrupt. `PayloadsTakeTurns`: the payloads were sent in `q` whole
  rounds and the first `m` of the next (`Rounds`), the loop's counter and the number
  sent are `q * tasks + m` up to the step between them (`Position`), and a total is
  met before it is passed (`Remaining`), so an execution that ends has `m = 0` and
  `q = count`; a negative total is passed by the first payload, so `q * tasks + m`
  is one. `TypeCorrect` includes that the index of the next payload is in range.
  `LogHolds` needs a ledger (`Ledger`): some finite set of open executions has as
  many members as starts exceed end records, and for each counter the results on
  record are the totals of the end records plus what the open executions have
  counted and not yet reported. That sum is stated as a total for every subset
  that grows with each member (`SumsOver`, `Owed`) rather than as a fold, so no
  induction over data is needed; an idle execution has counted nothing
  (`IdleIsFresh`). When every start has its end the set is empty and the totals
  balance (`LogBalances`).

Only model-checked: `RequestsEnd` and `FiniteRunsEnd`, which are liveness under
fairness and out of this prover's reach, and the three disagreements of section 3,
which are counterexamples.

## 5. Not modelled

* CSV export, telemetry inline, index, health: they only read.
* Settings and log routing: evaluated once, without state; what was found in
  them is listed above. URL routing, ASGI and WSGI entry points: static wiring.
* The validators of `Event`: no code runs them (section 2).
* The migrations of `django.contrib` and `init-db.sh`: each is one
  transaction or one command whose failure stops what follows, as in `Deployment`.
* Liveness of `Deployment`: that a start succeeds in the end needs an assumption
  on outages against the deadline; `OutageTolerated` states it as safety.
* `docker compose stop`, the development server's own restarts, CI and the
  Docker-in-Docker demo.
* Passwords, e-mail, wording, layout, ordering of lists.
* Payloads and the non-key columns of `AdminStore`: no operation at this commit
  depends on them.
* Prefork workers as several processes: each is one instance of `TaskMetrics`
  with one execution at a time, and no code in `src/` merges their registries.

## 6. Plan

What is left, in order:

1. A composition of `AdminStore` with `TimescaleSetup`'s retention policy, so
   that the job deletes by the interval of the policy in force.
2. A pure model of the propagation of log records through the logger tree.
3. Rules, ingestion and delivery, once code for them exists.
