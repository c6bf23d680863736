----------------------------- MODULE Deployment -----------------------------
(***************************************************************************)
(* Start-up of the containers and the life of their database: the database *)
(* service with its health check, the entry point that makes each backend  *)
(* container wait for it, "migrate" (run by "up", by hand and by the reset *)
(* script, possibly at once), the connections of the web and worker        *)
(* services, and scripts/reset-db.sh.  The database server may crash and   *)
(* is restarted; a migrate or the reset script may be killed at any step.  *)
(*                                                                         *)
(* Time is counted in quarters of a second, per waiting container.         *)
(***************************************************************************)
EXTENDS Migrations

CONSTANTS Service,      \* the long-lived backend containers
          Migrator,     \* the containers that run "migrate"
          Deadline, FirstSleep, MaxSleep,  \* of the entry point's wait
          Latency,      \* how long a refused attempt to connect may take
          MaxAttempts,  \* of the reset script's wait
          DbName        \* DB_NAME: the name of the application's database

ASSUME WaitConstants ==
  /\ Deadline \in Nat \ {0} /\ FirstSleep \in Nat \ {0} /\ MaxSleep \in Nat
  /\ FirstSleep <= MaxSleep
  /\ Latency \subseteq Nat /\ Latency # {} /\ IsFiniteSet(Latency)
ASSUME Containers == Service \cap Migrator = {}
ASSUME NamedDatabase == DbName # ""    \* docker-compose.yml replaces an empty one

Process == Service \cup Migrator

VARIABLES
  server,    \* the database server: "initialising" its volume, "up" or "down"
  healthy,   \* what Docker last reported of it
  exists, schema, recorded,  \* the application's database, its schema and the
             \* migrations its table django_migrations names
  lost,      \* a migrate ended between a migration and its record
  old,       \* the database is the one that was there when the reset began
  stage,     \* of each container
  watch,     \* the entry point's stopwatch of each container
  todo,      \* the plan of each migrate: what it has yet to apply
  owes,      \* what it has applied and not yet recorded (at most one)
  connected, \* the services that hold a connection
  script     \* the reset script: where it is, its attempts, the database
             \* it works on, its migrate

database  == <<exists, schema, recorded, lost, old>>
processes == <<stage, watch, todo, owes, connected>>
vars == <<server, healthy, database, processes, script>>

Stopped == [elapsed |-> 0, sleep |-> FirstSleep, refusedAt |-> 0]
NotRunning == [at |-> "idle", attempts |-> 0, name |-> "", job |-> {}]

Init ==
  /\ server = "initialising" /\ healthy = FALSE
  /\ exists = TRUE /\ schema = NoSchema /\ recorded = {} /\ lost = FALSE /\ old = FALSE
  /\ stage = [p \in Process |-> "idle"] /\ watch = [p \in Process |-> Stopped]
  /\ todo = [p \in Migrator |-> {}] /\ owes = [p \in Migrator |-> {}]
  /\ connected = {} /\ script = NotRunning

Active(p) == stage[p] \in {"waiting", "running", "migrating"}

\* A container reaches the server over TCP, which the temporary server that
\* initialises a new volume refuses; pg_isready and psql run beside it.
Connects == server = "up" /\ exists

\* A migrate that ends before it has recorded its last migration leaves it out.
End(p, how) ==
  /\ stage' = [stage EXCEPT ![p] = how]
  /\ todo' = [todo EXCEPT ![p] = {}]
  /\ owes' = [owes EXCEPT ![p] = {}]
  /\ lost' = (lost \/ owes[p] # {})

(***************************************************************************)
(* The database service.                                                   *)
(***************************************************************************)
Initialised ==
  /\ server = "initialising" /\ server' = "up"
  /\ UNCHANGED <<healthy, database, processes, script>>

\* Every connection is lost; a migrate fails with it.
Crash ==
  /\ server = "up" /\ server' = "down"
  /\ stage' = [p \in Process |-> IF stage[p] = "migrating" THEN "failed" ELSE stage[p]]
  /\ todo' = [p \in Migrator |-> {}] /\ owes' = [p \in Migrator |-> {}]
  /\ lost' = (lost \/ \E p \in Migrator : owes[p] # {})
  /\ connected' = {}
  /\ UNCHANGED <<healthy, exists, schema, recorded, old, watch, script>>

Restart ==
  /\ server = "down" /\ server' = "up"
  /\ UNCHANGED <<healthy, database, processes, script>>

HealthCheck ==
  /\ healthy # (server # "down") /\ healthy' = ~healthy
  /\ UNCHANGED <<server, database, processes, script>>

(***************************************************************************)
(* The entry point.                                                        *)
(***************************************************************************)
Launch(p) ==
  /\ stage' = [stage EXCEPT ![p] = "waiting"]
  /\ watch' = [watch EXCEPT ![p] = Stopped]

\* "up" and "run" start a container once the database is reported healthy.
Start(p) ==
  /\ ~Active(p) /\ healthy /\ p \notin script.job
  /\ Launch(p)
  /\ UNCHANGED <<server, healthy, database, todo, owes, connected, script>>

\* Mutated: the sleep keeps growing.
NextSleepUncapped(sleep) == (sleep * 3) \div 2

\* How long the next refusal is slept off: half as long again, up to the limit.
NextSleep(sleep) ==
  LET longer == (sleep * 3) \div 2 IN IF longer < MaxSleep THEN longer ELSE MaxSleep

Ready(p) ==
  /\ stage[p] = "waiting" /\ watch[p].elapsed < Deadline /\ Connects
  /\ stage' = [stage EXCEPT ![p] = "running"]
  /\ watch' = [watch EXCEPT ![p] = Stopped]
  /\ UNCHANGED <<server, healthy, database, todo, owes, connected, script>>

Retry(p) ==
  /\ stage[p] = "waiting" /\ watch[p].elapsed < Deadline /\ ~Connects
  /\ \E l \in Latency :
       watch' = [watch EXCEPT ![p] = [elapsed |-> @.elapsed + l + @.sleep,
                                      sleep |-> NextSleep(@.sleep),
                                      refusedAt |-> @.elapsed]]
  /\ UNCHANGED <<server, healthy, database, stage, todo, owes, connected, script>>

GiveUp(p) ==
  /\ stage[p] = "waiting" /\ watch[p].elapsed >= Deadline
  /\ stage' = [stage EXCEPT ![p] = "gave up"]
  /\ UNCHANGED <<server, healthy, database, watch, todo, owes, connected, script>>

(***************************************************************************)
(* A service's connections come and go with its requests and tasks.        *)
(***************************************************************************)
Open(s) ==
  /\ stage[s] = "running" /\ s \notin connected /\ Connects
  /\ connected' = connected \cup {s}
  /\ UNCHANGED <<server, healthy, database, stage, watch, todo, owes, script>>

Close(s) ==
  /\ s \in connected /\ connected' = connected \ {s}
  /\ UNCHANGED <<server, healthy, database, stage, watch, todo, owes, script>>

(***************************************************************************)
(* manage.py migrate.                                                      *)
(***************************************************************************)
Load(p) ==
  /\ stage[p] = "running"
  /\ IF Connects
       THEN /\ stage' = [stage EXCEPT ![p] = "migrating"]
            /\ todo' = [todo EXCEPT ![p] = Migration \ recorded]
       ELSE /\ stage' = [stage EXCEPT ![p] = "failed"] /\ UNCHANGED todo
  /\ UNCHANGED <<server, healthy, database, watch, owes, connected, script>>

First(m, plan) == m \in plan /\ \A k \in plan : Rank[m] <= Rank[k]

\* A migration commits with its record, or its record follows.
Apply(p, m) ==
  /\ stage[p] = "migrating" /\ owes[p] = {} /\ First(m, todo[p])
  /\ Migrated(schema, m).ok /\ schema' = Migrated(schema, m).schema
  /\ todo' = [todo EXCEPT ![p] = @ \ {m}]
  /\ IF m \in RecordedApart
       THEN owes' = [owes EXCEPT ![p] = {m}] /\ UNCHANGED recorded
       ELSE recorded' = recorded \cup {m} /\ UNCHANGED owes
  /\ UNCHANGED <<server, healthy, exists, lost, old, stage, watch, connected, script>>

Record(p) ==
  /\ owes[p] # {}
  /\ recorded' = recorded \cup owes[p]
  /\ owes' = [owes EXCEPT ![p] = {}]
  /\ UNCHANGED <<server, healthy, exists, schema, lost, old, stage, watch, todo, connected, script>>

Refused(p, m) ==
  /\ stage[p] = "migrating" /\ owes[p] = {} /\ First(m, todo[p])
  /\ ~Migrated(schema, m).ok
  /\ End(p, "failed")
  /\ UNCHANGED <<server, healthy, exists, schema, recorded, old, watch, connected, script>>

Finish(p) ==
  /\ stage[p] = "migrating" /\ todo[p] = {} /\ owes[p] = {}
  /\ stage' = [stage EXCEPT ![p] = "done"]
  /\ UNCHANGED <<server, healthy, database, watch, todo, owes, connected, script>>

Kill(p) ==
  /\ Active(p) /\ End(p, "failed")
  /\ UNCHANGED <<server, healthy, exists, schema, recorded, old, watch, connected, script>>

(***************************************************************************)
(* scripts/reset-db.sh, past its guard on DEBUG; "set -e" ends it with the *)
(* first command that fails.                                               *)
(***************************************************************************)
GoTo(place) == script' = [script EXCEPT !.at = place]

\* Mutated: the script has no "set -e".
OnErrorGoOn(next) == GoTo(next)
OnError(next) == GoTo("failed")

\* docker compose up -d db: a server that is down is started.
Reset ==
  /\ script.at \in {"idle", "complete", "failed"}
  /\ script' = [at |-> "ready?", attempts |-> 1, name |-> "", job |-> {}]
  /\ old' = exists
  /\ server' = IF server = "down" THEN "up" ELSE server
  /\ UNCHANGED <<healthy, exists, schema, recorded, lost, processes>>

ResetWait ==
  /\ script.at = "ready?"
  /\ \/ server # "down" /\ GoTo("name?")
     \/ server = "down" /\ script.attempts < MaxAttempts
        /\ script' = [script EXCEPT !.attempts = @ + 1]
     \/ server = "down" /\ script.attempts >= MaxAttempts /\ GoTo("failed")
  /\ UNCHANGED <<server, healthy, database, processes>>

DefaultName == "iot_hub_alpha_db"

\* The script asks the container for the name ("|| true"); where that fails,
\* which takes a container that is down, it goes on with the default.  (The name
\* of the user falls back likewise; psql without that role stops the script as
\* ResetKilled does.)
ResetName ==
  /\ script.at = "name?"
  /\ \/ script' = [script EXCEPT !.at = "drop", !.name = DbName]
     \/ server = "down" /\ script' = [script EXCEPT !.at = "drop", !.name = DefaultName]
  /\ UNCHANGED <<server, healthy, database, processes>>

\* Mutated: DROP DATABASE ... WITH (FORCE).
InUseIgnored == FALSE

\* PostgreSQL refuses to drop a database others are connected to.
InUse == connected # {} \/ \E p \in Migrator : stage[p] = "migrating"

\* Mutated: the tables of the models are dropped, django_migrations stays.
DropTablesOnly ==
  exists' = FALSE /\ schema' = NoSchema /\ lost' = FALSE /\ old' = FALSE /\ UNCHANGED recorded
DropDatabase ==
  exists' = FALSE /\ schema' = NoSchema /\ recorded' = {} /\ lost' = FALSE /\ old' = FALSE

\* DROP DATABASE IF EXISTS and CREATE DATABASE; nobody uses the database that
\* has the default name when the application's has another.
ResetDrop ==
  /\ script.at = "drop"
  /\ \/ server # "down" /\ script.name = DbName /\ ~InUse /\ DropDatabase /\ GoTo("create")
     \/ server # "down" /\ script.name # DbName /\ UNCHANGED database /\ GoTo("create")
     \/ (server = "down" \/ (script.name = DbName /\ InUse))
        /\ UNCHANGED database /\ OnError("create")
  /\ UNCHANGED <<server, healthy, processes>>

ResetCreate ==
  /\ script.at = "create"
  /\ \/ server # "down" /\ script.name = DbName /\ ~exists /\ exists' = TRUE /\ GoTo("run")
     \/ server # "down" /\ script.name # DbName /\ UNCHANGED exists /\ GoTo("run")
     \/ (server = "down" \/ (script.name = DbName /\ exists))
        /\ UNCHANGED exists /\ OnError("run")
  /\ UNCHANGED <<server, healthy, schema, recorded, lost, old, processes>>

\* docker compose run --rm migrate: a container of its own, which it waits for.
ResetRun(p) ==
  /\ script.at = "run" /\ healthy /\ ~Active(p)
  /\ Launch(p) /\ script' = [script EXCEPT !.at = "migrate", !.job = {p}]
  /\ UNCHANGED <<server, healthy, database, todo, owes, connected>>

ResetEnd ==
  /\ script.at = "migrate" /\ \A p \in script.job : ~Active(p)
  /\ script' = [script EXCEPT
                  !.at = IF \A p \in script.job : stage[p] = "done" THEN "complete" ELSE "failed",
                  !.job = {}]
  /\ UNCHANGED <<server, healthy, database, processes>>

ResetKilled ==
  /\ script.at \in {"ready?", "name?", "drop", "create", "run", "migrate"}
  /\ script' = [script EXCEPT !.at = "failed", !.job = {}]
  /\ UNCHANGED <<server, healthy, database, processes>>

(***************************************************************************)
Migrates(p) ==
  \/ Load(p) \/ Record(p) \/ Finish(p)
  \/ \E m \in Migration : Apply(p, m) \/ Refused(p, m)

ResetGoesOn == ResetWait \/ ResetName \/ ResetDrop \/ ResetCreate \/ ResetEnd

Next ==
  \/ Initialised \/ Crash \/ Restart \/ HealthCheck
  \/ \E p \in Process : Start(p) \/ Ready(p) \/ Retry(p) \/ GiveUp(p)
  \/ \E s \in Service : Open(s) \/ Close(s)
  \/ \E p \in Migrator : Migrates(p) \/ Kill(p)
  \/ Reset \/ ResetGoesOn \/ ResetKilled \/ \E p \in Migrator : ResetRun(p)

Spec == Init /\ [][Next]_vars

(***************************************************************************)
(* Properties.                                                             *)
(***************************************************************************)
Place == {"idle", "ready?", "name?", "drop", "create", "run", "migrate", "complete", "failed"}

\* The shape of the state.
TypeOK ==
  /\ server \in {"initialising", "up", "down"} /\ healthy \in BOOLEAN
  /\ exists \in BOOLEAN /\ recorded \subseteq Migration /\ lost \in BOOLEAN /\ old \in BOOLEAN
  /\ stage \in [Process -> {"idle", "waiting", "gave up", "running", "migrating", "done", "failed"}]
  /\ watch \in [Process -> [elapsed : Nat, sleep : Nat, refusedAt : Nat]]
  /\ todo \in [Migrator -> SUBSET Migration] /\ owes \in [Migrator -> SUBSET Migration]
  /\ connected \subseteq Service
  /\ script \in [at : Place, attempts : Nat, name : {"", DbName, DefaultName},
                 job : SUBSET Migrator]

\* A wait that lasts: the stopwatch is at most one sleep and one attempt past the
\* last refusal, which came before the deadline.
WatchSound(p) ==
  /\ watch[p].sleep <= MaxSleep
  /\ \/ watch[p].elapsed = 0
     \/ /\ watch[p].refusedAt < Deadline
        /\ \E l \in Latency : watch[p].elapsed <= watch[p].refusedAt + l + MaxSleep

\* What a migrate does not plan to apply is recorded, or it owes the record.
PlanSound(p) ==
  /\ stage[p] = "migrating" => server = "up" /\ exists
  /\ stage[p] # "migrating" => todo[p] = {} /\ owes[p] = {}
  /\ stage[p] = "migrating" => Migration \ todo[p] \subseteq recorded \cup owes[p]
  /\ \A m \in owes[p] : \A k \in Migration : Rank[k] < Rank[m] => k \in recorded

\* No migration is recorded before one that comes earlier in the plan, although
\* migrates overlap, fail and are killed; a migrate at work has its database to
\* itself and to the services, for it cannot be dropped under it.
IInv ==
  /\ TypeOK
  /\ \A p \in Process : WatchSound(p) /\ (stage[p] = "gave up" => watch[p].elapsed >= Deadline)
  /\ \A p \in Migrator : PlanSound(p)
  /\ \A m \in recorded : \A k \in Migration : Rank[k] < Rank[m] => k \in recorded
  /\ connected # {} => server = "up" /\ exists

\* No migration is recorded without those it depends on (the dependencies of the
\* migrations, and django_migrations).
RecordIsClosed == \A m \in recorded : Requires[m] \subseteq recorded

\* A container gives up only if the database refused it as late as one sleep and
\* one attempt before the deadline: no outage that ends earlier stops a start
\* (entrypoint.sh, which promises to wait 60 s and sleeps up to 10 s of them).
OutageTolerated ==
  \A p \in Process : stage[p] = "gave up" =>
    /\ watch[p].refusedAt < Deadline
    /\ \E l \in Latency : watch[p].refusedAt + l + MaxSleep >= Deadline

\* The schema the plan has led to after its first n migrations.
Planned ==
  LET after[n \in 0 .. Cardinality(Migration)] ==
        IF n = 0 THEN NoSchema
                 ELSE Migrated(after[n - 1], CHOOSE m \in Migration : Rank[m] = n).schema
  IN  after

\* The record of the migrations keeps up with the schema: they are the first n of
\* the plan, and the schema is theirs or is one migration ahead, and then some
\* migrate owes the record or one ended between the two transactions.
RecordKeepsUp ==
  exists => \E n \in DOMAIN Planned :
    /\ recorded = {m \in Migration : Rank[m] <= n}
    /\ \/ schema = Planned[n]
       \/ /\ n + 1 \in DOMAIN Planned /\ schema = Planned[n + 1]
          /\ lost \/ \E p \in Migrator : \E m \in owes[p] : Rank[m] = n + 1

\* A migrate is refused a migration only because it has been applied already, by
\* another migrate or by one that was lost before its record; alone, and started
\* from a sound record, it is never refused.
RefusedIfApplied ==
  [][\A p \in Migrator, m \in Migration :
       Refused(p, m) => lost \/ m \in recorded \/ \E q \in Migrator \ {p} : m \in owes[q]]_vars

\* A migrate that succeeds leaves the schema of the models and every migration
\* recorded, whatever ran beside it.
MigratedMeansModels ==
  [][\A p \in Migrator :
       stage[p] = "migrating" /\ stage'[p] = "done" => schema' = Models /\ recorded' = Migration]_vars

\* When the reset script reports completion the database has the schema of the
\* models and every migration recorded, and it is a new one ("Drops and recreates
\* the DB, then runs migrations"), unless the script took the default name for it
\* when the application's database has another.
ResetIsFresh ==
  [][script.at = "migrate" /\ script'.at = "complete" =>
       /\ exists /\ schema = Models /\ recorded = Migration
       /\ old => script.name = DefaultName /\ DefaultName # DbName]_vars
=============================================================================
