----------------------------- MODULE TimescaleSetup -----------------------------
(***************************************************************************)
(* The management command setup_timescaledb: it turns the telemetry table  *)
(* that the migrations created into a hypertable with a retention and a    *)
(* compression policy.                                                     *)
(*                                                                         *)
(* Its five statements commit one by one. Executions may overlap, may be   *)
(* killed or refused by the database at any statement, and are repeated,   *)
(* with another TELEMETRY_RETENTION_DAYS when an operator changed .env.    *)
(***************************************************************************)
EXTENDS Integers

CONSTANTS Run,         \* executions of the command
          Days,        \* values TELEMETRY_RETENTION_DAYS takes
          Columnstore, \* compression has been enabled on telemetry by hand
          Null

ASSUME TimescaleAssumption == /\ Null \notin Days
                              /\ Columnstore \in BOOLEAN

VARIABLES env,         \* TELEMETRY_RETENTION_DAYS in .env
          table,       \* telemetry: absent, keyed, plain or hypertable
          gin_index,   \* idx_telemetry_payload_gin exists
          retention,   \* interval of the retention policy, or Null
          compression, \* there is a compression policy
          announced,   \* interval of the last "Added retention policy"
          pc,          \* run -> its next statement, or how it ended
          days         \* run -> settings.TELEMETRY_RETENTION_DAYS it loaded

vars == <<env, table, gin_index, retention, compression, announced, pc, days>>
schema == <<table, gin_index, retention, compression, announced>>

Statement == {"drop", "hypertable", "index", "retention", "compression"}
Outcome   == {"idle", "done", "failed", "killed"}
Table     == {"absent", "keyed", "plain", "hypertable"}

Init ==
    /\ env \in Days
    /\ table = "absent"
    /\ gin_index = FALSE
    /\ retention = Null
    /\ compression = FALSE
    /\ announced = Null
    /\ pc = [r \in Run |-> "idle"]
    /\ days = [r \in Run |-> Null]

-----------------------------------------------------------------------------
(* The initial migration: a table with a primary key and both indexes.     *)
Migrate ==
    /\ table = "absent"
    /\ table' = "keyed"
    /\ gin_index' = TRUE
    /\ UNCHANGED <<env, retention, compression, announced, pc, days>>

ChangeEnv(d) ==
    /\ d # env
    /\ env' = d
    /\ UNCHANGED <<schema, pc, days>>

Start(r) ==
    /\ pc[r] = "idle"
    /\ pc' = [pc EXCEPT ![r] = "drop"]
    /\ days' = [days EXCEPT ![r] = env]
    /\ UNCHANGED <<env, schema>>

To(r, next) == pc' = [pc EXCEPT ![r] = next]

(* A statement the database refuses raises; handle does not catch it.      *)
Fail(r) ==
    /\ pc[r] \in Statement \ {"compression"}
    /\ To(r, "failed")
    /\ UNCHANGED <<env, schema, days>>

(* Mutated: the key is only dropped from a table under a policy already.   *)
drop_unless_configured(r) ==
    /\ pc[r] = "drop"
    /\ table # "absent"
    /\ table' = IF table = "keyed" /\ retention # Null THEN "plain" ELSE table
    /\ To(r, "hypertable")
    /\ UNCHANGED <<env, gin_index, retention, compression, announced, days>>

(* ALTER TABLE telemetry DROP CONSTRAINT IF EXISTS telemetry_pkey.         *)
_drop_constraints(r) ==
    /\ pc[r] = "drop"
    /\ table # "absent"
    /\ table' = IF table = "keyed" THEN "plain" ELSE table
    /\ To(r, "hypertable")
    /\ UNCHANGED <<env, gin_index, retention, compression, announced, days>>

(* Mutated: a table that is a hypertable already is taken for an error     *)
(* that can be passed over together with what follows.                     *)
create_hypertable_or_stop(r) ==
    /\ pc[r] = "hypertable"
    /\ \/ table = "plain" /\ table' = "hypertable" /\ To(r, "index")
       \/ table = "hypertable" /\ UNCHANGED table /\ To(r, "done")
    /\ UNCHANGED <<env, gin_index, retention, compression, announced, days>>

(* create_hypertable(if_not_exists, migrate_data): refused while the key   *)
(* is there, since a unique key of a hypertable must hold the time column. *)
_create_hypertable(r) ==
    /\ pc[r] = "hypertable"
    /\ table \in {"plain", "hypertable"}
    /\ table' = "hypertable"
    /\ To(r, "index")
    /\ UNCHANGED <<env, gin_index, retention, compression, announced, days>>

_create_indexes(r) ==
    /\ pc[r] = "index"
    /\ gin_index' = TRUE
    /\ To(r, "retention")
    /\ UNCHANGED <<env, table, retention, compression, announced, days>>

(* add_retention_policy(if_not_exists): a policy that exists stays as it   *)
(* is, with a warning the command does not see.                            *)
_configure_retention(r) ==
    /\ pc[r] = "retention"
    /\ retention' = IF retention = Null THEN days[r] ELSE retention
    /\ announced' = days[r]
    /\ To(r, "compression")
    /\ UNCHANGED <<env, table, gin_index, compression, days>>

(* add_compression_policy fails unless compression was enabled on the      *)
(* table; that and any other error is reported, and the command succeeds.  *)
_configure_compression(r) ==
    /\ pc[r] = "compression"
    /\ \/ Columnstore /\ compression' = TRUE
       \/ UNCHANGED compression
    /\ To(r, "done")
    /\ UNCHANGED <<env, table, gin_index, retention, announced, days>>

Kill(r) ==
    /\ pc[r] \in Statement
    /\ To(r, "killed")
    /\ UNCHANGED <<env, schema, days>>

Next ==
    \/ Migrate
    \/ \E d \in Days : ChangeEnv(d)
    \/ \E r \in Run :
        \/ Start(r)
        \/ _drop_constraints(r)
        \/ _create_hypertable(r)
        \/ _create_indexes(r)
        \/ _configure_retention(r)
        \/ _configure_compression(r)
        \/ Fail(r)
        \/ Kill(r)

Spec == Init /\ [][Next]_vars

-----------------------------------------------------------------------------
(* The shape of the recorded state.                                        *)
TypeOK ==
    /\ env \in Days
    /\ table \in Table
    /\ gin_index \in BOOLEAN
    /\ retention \in Days \cup {Null}
    /\ compression \in BOOLEAN
    /\ announced \in Days \cup {Null}
    /\ pc \in [Run -> Statement \cup Outcome]
    /\ days \in [Run -> Days \cup {Null}]

(* However often the command was killed or refused before, and whatever    *)
(* overlaps it, an execution that ends has left the table partitioned,     *)
(* indexed and under a retention policy.                                   *)
CompletedIsComplete ==
    (\E r \in Run : pc[r] = "done")
    => /\ table = "hypertable"
       /\ gin_index
       /\ retention # Null

(* No execution finds the primary key back after it dropped it: dropping   *)
(* comes first in every execution and no step restores the key.            *)
KeyGoneBeforePartition ==
    \A r \in Run : pc[r] \in Statement \ {"drop"} => table \notin {"absent", "keyed"}

(* What the command prints and docs/readme-database.md tells operators to  *)
(* rely on when they reduce the retention: the interval it announced last  *)
(* is the interval of the policy.                                          *)
AnnouncedHolds == announced # Null => retention = announced

(* For the proofs: what an execution has passed is in place.               *)
PassedIsInPlace ==
    \A r \in Run :
        /\ pc[r] \in Statement => days[r] \in Days
        /\ pc[r] \in {"index", "retention", "compression", "done"} => table = "hypertable"
        /\ pc[r] \in {"retention", "compression", "done"} => gin_index
        /\ pc[r] \in {"compression", "done"} => retention # Null

IInv == TypeOK /\ KeyGoneBeforePartition /\ PassedIsInPlace
=============================================================================
