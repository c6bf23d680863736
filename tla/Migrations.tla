----------------------------- MODULE Migrations -----------------------------
(***************************************************************************)
(* The schema migrations of the five applications and the schema the       *)
(* models declare.                                                         *)
(*                                                                         *)
(* A schema maps each table to its fields and its indexes; an index is its *)
(* name and the set of fields it is on.  Field types, defaults and the     *)
(* constraints on values are left out, and with them AlterField, which in  *)
(* these migrations changes help texts, validators, defaults and choices   *)
(* and no column, and AlterModelOptions.  What PostgreSQL refuses is kept: *)
(* a table, a field or an index name that exists already, a table or a     *)
(* field that does not exist.  An index that does not exist is not missed: *)
(* Django drops it with IF EXISTS.  The migrations of django.contrib are   *)
(* not part of it.                                                         *)
(***************************************************************************)
EXTENDS Naturals, Sequences, FiniteSets

Index(name, on) == [name |-> name, on |-> on]

CreateModel(table, fields, refers, indexes) ==
  [kind |-> "CreateModel", table |-> table, fields |-> fields,
   refers |-> refers, indexes |-> indexes]
AddField(table, field)        == [kind |-> "AddField", table |-> table, field |-> field]
RemoveField(table, field)     == [kind |-> "RemoveField", table |-> table, field |-> field]
RenameField(table, old, new)  == [kind |-> "RenameField", table |-> table, old |-> old, new |-> new]
AddIndex(table, index)        == [kind |-> "AddIndex", table |-> table, index |-> index]
RemoveIndex(table, name)      == [kind |-> "RemoveIndex", table |-> table, name |-> name]

(***************************************************************************)
(* The migrations.                                                         *)
(***************************************************************************)
devices_0001 == <<
  CreateModel("device_types",
    {"id", "name", "description", "metric_name", "metric_unit", "metric_min", "metric_max",
     "created_at"},
    {},
    {Index("idx_device_type_name", {"name"}), Index("idx_device_type_metric", {"metric_name"})}),
  CreateModel("devices",
    {"id", "name", "serial_number", "location", "status", "last_seen", "created_at",
     "updated_at", "device_type"},
    {"device_types"},
    {Index("idx_device_serial", {"serial_number"}), Index("idx_device_type", {"device_type"}),
     Index("idx_device_status_last_seen", {"status", "last_seen"})}) >>

telemetry_0001 == <<
  CreateModel("telemetry", {"id", "timestamp", "payload", "device"}, {"devices"},
    {Index("idx_telemetry_device_time", {"device", "timestamp"}),
     Index("idx_telemetry_payload_gin", {"payload"})}) >>

rules_0001 == <<
  CreateModel("rules",
    {"id", "name", "description", "operator", "threshold", "action_config",
     "cooldown_minutes", "last_triggered_at", "is_enabled", "created_at", "updated_at", "device"},
    {"devices"},
    {Index("idx_rule_device_enabled", {"device", "is_enabled"}),
     Index("idx_rule_is_enabled", {"is_enabled"}),
     Index("idx_rule_last_triggered", {"last_triggered_at"}),
     Index("idx_rule_action_config_gin", {"action_config"})}) >>
rules_0002 == << RenameField("rules", "operator", "comparison_operator") >>
rules_0003 == << RemoveField("rules", "cooldown_minutes") >>

events_0001 == <<
  CreateModel("events",
    {"id", "telemetry_id", "timestamp", "severity", "message", "execution_results",
     "metadata", "status", "rule"},
    {"rules"},
    {Index("idx_event_rule", {"rule"}), Index("idx_event_telemetry", {"telemetry_id"}),
     Index("idx_event_status_time", {"status", "timestamp"}),
     Index("idx_event_time_sev_status", {"timestamp", "severity", "status"}),
     Index("idx_event_exec_results_gin", {"execution_results"})}) >>
events_0002 == <<
  RemoveIndex("events", "idx_event_telemetry"),
  RemoveField("events", "metadata"),
  RemoveField("events", "telemetry_id"),
  AddField("events", "telemetry_snapshot"),
  AddIndex("events", Index("idx_event_telemetry_snap_gin", {"telemetry_snapshot"})) >>
events_0003 == << >>

notifications_0001 == <<
  CreateModel("notification_templates",
    {"id", "name", "message_template", "recipients", "priority", "retry_count",
     "retry_delay_minutes", "is_active", "created_at", "updated_at"},
    {},
    {Index("idx_notif_templ_name", {"name"}), Index("idx_notif_templ_active", {"is_active"}),
     Index("idx_notif_templ_priority", {"priority"}),
     Index("idx_notif_templ_recip_gin", {"recipients"})}),
  CreateModel("notification_deliveries",
    {"id", "recipient_type", "recipient_address", "recipient_name", "rendered_message",
     "status", "priority", "attempt_count", "last_attempt_at", "error_message", "sent_at",
     "created_at", "event", "template"},
    {"events", "notification_templates"},
    {Index("idx_notif_deliv_event", {"event"}),
     Index("idx_notif_deliv_queue", {"status", "priority", "created_at"}),
     Index("idx_notif_deliv_retry", {"status", "attempt_count", "last_attempt_at"})}) >>
\* Mutated: the new index comes first, while its name is still taken.
notifications_0002_AddFirst == <<
  AddIndex("notification_deliveries",
           Index("idx_notif_deliv_queue", {"status", "created_at"})),
  RemoveIndex("notification_deliveries", "idx_notif_deliv_queue"),
  RemoveField("notification_deliveries", "priority") >>
notifications_0002 == <<
  RemoveIndex("notification_deliveries", "idx_notif_deliv_queue"),
  RemoveField("notification_deliveries", "priority"),
  AddIndex("notification_deliveries",
           Index("idx_notif_deliv_queue", {"status", "created_at"})) >>
\* Mutated: the field of the model is renamed without a migration.
notifications_0003_SameName == << >>
notifications_0003 ==
  << RenameField("notification_deliveries", "recipient_type", "notification_type") >>

Operations ==
  [devices_0001 |-> devices_0001, telemetry_0001 |-> telemetry_0001,
   rules_0001 |-> rules_0001, rules_0002 |-> rules_0002, rules_0003 |-> rules_0003,
   events_0001 |-> events_0001, events_0002 |-> events_0002, events_0003 |-> events_0003,
   notifications_0001 |-> notifications_0001, notifications_0002 |-> notifications_0002,
   notifications_0003 |-> notifications_0003]

Migration == DOMAIN Operations

\* The dependencies each migration declares.
Requires ==
  [devices_0001 |-> {}, telemetry_0001 |-> {"devices_0001"},
   rules_0001 |-> {"devices_0001"}, rules_0002 |-> {"rules_0001"}, rules_0003 |-> {"rules_0002"},
   events_0001 |-> {"rules_0001"}, events_0002 |-> {"events_0001", "rules_0002"},
   events_0003 |-> {"events_0002"},
   notifications_0001 |-> {"events_0001"},
   notifications_0002 |-> {"events_0002", "notifications_0001"},
   notifications_0003 |-> {"notifications_0002"}]

\* The place of each migration in the plan Django makes of that graph: depth
\* first from the last migration of each application, in the order of their
\* names, the greatest requirement first.
Rank ==
  [devices_0001 |-> 1, rules_0001 |-> 2, rules_0002 |-> 3, events_0001 |-> 4,
   events_0002 |-> 5, events_0003 |-> 6, notifications_0001 |-> 7, notifications_0002 |-> 8,
   notifications_0003 |-> 9, rules_0003 |-> 10, telemetry_0001 |-> 11]

\* The migrations whose CREATE TABLE leaves indexes and constraints to the end
\* of the transaction: Django records these in a transaction of their own, after
\* the one that made the change; it records the others together with the change.
RecordedApart ==
  {m \in Migration : \E i \in DOMAIN Operations[m] : Operations[m][i].kind = "CreateModel"}

(***************************************************************************)
(* What an operation asks of a schema and does to it.  Dropping a column   *)
(* drops the indexes on it, renaming one renames it in them.               *)
(***************************************************************************)
IndexNames(s) == UNION {{i.name : i \in s[t].indexes} : t \in DOMAIN s}

Allowed(s, o) ==
  \/ /\ o.kind = "CreateModel"
     /\ o.table \notin DOMAIN s /\ o.refers \subseteq DOMAIN s
     /\ IndexNames(s) \cap {i.name : i \in o.indexes} = {}
  \/ o.kind = "RemoveIndex"
  \/ /\ o.table \in DOMAIN s
     /\ \/ o.kind = "AddField"    /\ o.field \notin s[o.table].fields
        \/ o.kind = "RemoveField" /\ o.field \in s[o.table].fields
        \/ o.kind = "RenameField" /\ o.old \in s[o.table].fields /\ o.new \notin s[o.table].fields
        \/ o.kind = "AddIndex"    /\ o.index.name \notin IndexNames(s)
                                  /\ o.index.on \subseteq s[o.table].fields

Renamed(f, o) == IF f = o.old THEN o.new ELSE f

Table(fields, indexes) == [fields |-> fields, indexes |-> indexes]

Altered(t, o) ==
  CASE o.kind = "AddField"    -> Table(t.fields \cup {o.field}, t.indexes)
    [] o.kind = "RemoveField" -> Table(t.fields \ {o.field},
                                       {i \in t.indexes : o.field \notin i.on})
    [] o.kind = "RenameField" -> Table({Renamed(f, o) : f \in t.fields},
                                       {Index(i.name, {Renamed(f, o) : f \in i.on}) :
                                           i \in t.indexes})
    [] o.kind = "AddIndex"    -> Table(t.fields, t.indexes \cup {o.index})
    [] o.kind = "RemoveIndex" -> Table(t.fields, {i \in t.indexes : i.name # o.name})

Effect(s, o) ==
  [t \in DOMAIN s \cup (IF o.kind = "CreateModel" THEN {o.table} ELSE {}) |->
     IF t # o.table THEN s[t]
     ELSE IF o.kind = "CreateModel" THEN Table(o.fields, o.indexes) ELSE Altered(s[t], o)]

\* One migration: its operations in turn, or no schema at all as soon as one of
\* them is refused, for the transaction is rolled back.
NoSchema == [x \in {} |-> x]
Step(r, o) ==
  IF r.ok /\ Allowed(r.schema, o) THEN [r EXCEPT !.schema = Effect(@, o)]
                                  ELSE [r EXCEPT !.ok = FALSE]
Migrated(s, m) ==
  LET run[n \in 0 .. Len(Operations[m])] ==
        IF n = 0 THEN [ok |-> TRUE, schema |-> s]
                 ELSE Step(run[n - 1], Operations[m][n])
  IN  run[Len(Operations[m])]

(***************************************************************************)
(* The schema of the models.                                               *)
(***************************************************************************)
DeviceType ==
  [fields |-> {"id", "name", "description", "metric_name", "metric_unit", "metric_min",
               "metric_max", "created_at"},
   indexes |-> {Index("idx_device_type_name", {"name"}),
                Index("idx_device_type_metric", {"metric_name"})}]
Device ==
  [fields |-> {"id", "device_type", "name", "serial_number", "location", "status",
               "last_seen", "created_at", "updated_at"},
   indexes |-> {Index("idx_device_serial", {"serial_number"}),
                Index("idx_device_type", {"device_type"}),
                Index("idx_device_status_last_seen", {"status", "last_seen"})}]
Telemetry ==
  [fields |-> {"id", "device", "timestamp", "payload"},
   indexes |-> {Index("idx_telemetry_device_time", {"device", "timestamp"}),
                Index("idx_telemetry_payload_gin", {"payload"})}]
Rule ==
  [fields |-> {"id", "device", "name", "description", "comparison_operator", "threshold",
               "action_config", "last_triggered_at", "is_enabled", "created_at", "updated_at"},
   indexes |-> {Index("idx_rule_device_enabled", {"device", "is_enabled"}),
                Index("idx_rule_is_enabled", {"is_enabled"}),
                Index("idx_rule_last_triggered", {"last_triggered_at"}),
                Index("idx_rule_action_config_gin", {"action_config"})}]
Event ==
  [fields |-> {"id", "rule", "timestamp", "severity", "message", "execution_results",
               "telemetry_snapshot", "status"},
   indexes |-> {Index("idx_event_rule", {"rule"}),
                Index("idx_event_status_time", {"status", "timestamp"}),
                Index("idx_event_time_sev_status", {"timestamp", "severity", "status"}),
                Index("idx_event_exec_results_gin", {"execution_results"}),
                Index("idx_event_telemetry_snap_gin", {"telemetry_snapshot"})}]
NotificationTemplate ==
  [fields |-> {"id", "name", "message_template", "recipients", "priority", "retry_count",
               "retry_delay_minutes", "is_active", "created_at", "updated_at"},
   indexes |-> {Index("idx_notif_templ_name", {"name"}),
                Index("idx_notif_templ_active", {"is_active"}),
                Index("idx_notif_templ_priority", {"priority"}),
                Index("idx_notif_templ_recip_gin", {"recipients"})}]
NotificationDelivery ==
  [fields |-> {"id", "event", "template", "notification_type", "recipient_address",
               "recipient_name", "rendered_message", "status", "attempt_count",
               "last_attempt_at", "error_message", "sent_at", "created_at"},
   indexes |-> {Index("idx_notif_deliv_event", {"event"}),
                Index("idx_notif_deliv_queue", {"status", "created_at"}),
                Index("idx_notif_deliv_retry", {"status", "attempt_count", "last_attempt_at"})}]

Models ==
  [device_types |-> DeviceType, devices |-> Device, telemetry |-> Telemetry, rules |-> Rule,
   events |-> Event, notification_templates |-> NotificationTemplate,
   notification_deliveries |-> NotificationDelivery]

\* The plan respects the graph.
ASSUME PlanRespectsRequires ==
  \A m \in Migration : Requires[m] \subseteq Migration /\ \A k \in Requires[m] : Rank[k] < Rank[m]
=============================================================================
