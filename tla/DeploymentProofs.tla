-------------------------- MODULE DeploymentProofs --------------------------
(***************************************************************************)
(* Proofs about Deployment, for any number of services and migrates and    *)
(* any deadline, sleeps and latency of the entry point.                    *)
(*                                                                         *)
(* 1. The plan: each of the eleven migrations succeeds on the schema the   *)
(*    ones before it lead to and leads to the next, the last one to the    *)
(*    schema of the models, and each is refused, or changes nothing, on    *)
(*    every later schema of the plan.                                      *)
(* 2. The inductive invariant: plans, stopwatches and connections.         *)
(* 3. The record and the schema keep step, and what follows of a migrate   *)
(*    that is refused, of one that succeeds and of the reset script.       *)
(***************************************************************************)
EXTENDS Deployment, FiniteSetTheorems, TLAPS

(***************************************************************************)
(* 1. The plan.                                                            *)
(*                                                                         *)
(* A migration as the sequence of what its operations make of a schema.    *)
(***************************************************************************)
\* The outcome of a migration that has met no refusal.
Begun(s) == [ok |-> TRUE, schema |-> s]

(* What the recursion in Migrated defines.                                 *)
IsRun(run, s, ops) ==
  run = [n \in 0 .. Len(ops) |->
           IF n = 0 THEN [ok |-> TRUE, schema |-> s] ELSE Step(run[n - 1], ops[n])]

(* Migrated is the end of a run, if there is a run.                        *)
LEMMA MigratedIsRun ==
  ASSUME NEW s, NEW m \in Migration, \E run : IsRun(run, s, Operations[m])
  PROVE  \E run : IsRun(run, s, Operations[m])
           /\ Migrated(s, m) = run[Len(Operations[m])]
<1> DEFINE R == CHOOSE run : IsRun(run, s, Operations[m])
<1>1. IsRun(R, s, Operations[m])
  OBVIOUS
<1>2. Migrated(s, m) = R[Len(Operations[m])]
  BY DEF Migrated, IsRun
<1> QED
  BY <1>1, <1>2

(* A run starts with s and takes the operations in turn.                   *)
LEMMA RunUnfolds ==
  ASSUME NEW s, NEW ops, NEW run, IsRun(run, s, ops), Len(ops) \in Nat
  PROVE  /\ run[0] = Begun(s)
         /\ \A n \in 1 .. Len(ops) : run[n] = Step(run[n - 1], ops[n])
<1>1. run[0] = Begun(s)
  BY DEF IsRun, Begun
<1>2. ASSUME NEW n \in 1 .. Len(ops) PROVE run[n] = Step(run[n - 1], ops[n])
  <2>1. n \in 0 .. Len(ops) /\ n # 0
    OBVIOUS
  <2> QED
    BY <2>1 DEF IsRun
<1> QED
  BY <1>1, <1>2

(* run[n] is what the first n of the l operations of m make of s.          *)
Traces(run, s, m, l) ==
  /\ Migrated(s, m) = run[l]
  /\ run[0] = Begun(s)
  /\ \A n \in 1 .. l : run[n] = Step(run[n - 1], Operations[m][n])

(* No migration has more than five operations.                             *)
LEMMA FiveOperations ==
  ASSUME NEW s, NEW m \in Migration, NEW l \in 0 .. 5, Len(Operations[m]) = l
  PROVE  \E run : Traces(run, s, m, l)
<1> DEFINE ops == Operations[m]
           a1 == Step(Begun(s), ops[1])
           a2 == Step(a1, ops[2])
           a3 == Step(a2, ops[3])
           a4 == Step(a3, ops[4])
           a5 == Step(a4, ops[5])
           run == [n \in 0 .. l |->
                     IF n = 0 THEN Begun(s)
                     ELSE IF n = 1 THEN a1
                     ELSE IF n = 2 THEN a2
                     ELSE IF n = 3 THEN a3
                     ELSE IF n = 4 THEN a4 ELSE a5]
<1>1. ASSUME NEW n \in 0 .. l
      PROVE  run[n] = IF n = 0 THEN Begun(s) ELSE Step(run[n - 1], ops[n])
  <2>1. n \in 0 .. 5 /\ (n # 0 => n - 1 \in 0 .. l)
    OBVIOUS
  <2> HIDE DEF a1, a2, a3, a4, a5
  <2>2. CASE n = 0
    BY <2>2
  <2>3. CASE n = 1
    BY <2>1, <2>3 DEF a1
  <2>4. CASE n = 2
    BY <2>1, <2>4 DEF a2
  <2>5. CASE n = 3
    BY <2>1, <2>5 DEF a3
  <2>6. CASE n = 4
    BY <2>1, <2>6 DEF a4
  <2>7. CASE n = 5
    BY <2>1, <2>7 DEF a5
  <2> QED
    BY <2>1, <2>2, <2>3, <2>4, <2>5, <2>6, <2>7
<1>2. IsRun(run, s, ops)
  <2>1. run = [n \in 0 .. l |-> run[n]]
    OBVIOUS
  <2> HIDE DEF run
  <2> QED
    BY <1>1, <2>1 DEF IsRun, Begun
<1> HIDE DEF run
<1>3. PICK r : IsRun(r, s, ops) /\ Migrated(s, m) = r[l]
  BY <1>2, MigratedIsRun
<1>4. Len(ops) \in Nat
  OBVIOUS
<1>5. r[0] = Begun(s) /\ \A n \in 1 .. l : r[n] = Step(r[n - 1], ops[n])
  BY <1>3, <1>4, RunUnfolds
<1> QED
  BY <1>3, <1>5 DEF Traces

(* What one operation makes of an outcome.                                 *)
IsOutcome(r) == r = [ok |-> r.ok, schema |-> r.schema] /\ r.ok \in BOOLEAN

LEMMA StepStops ==
  ASSUME NEW r, IsOutcome(r), NEW o
  PROVE  IsOutcome(Step(r, o)) /\ (~r.ok => ~Step(r, o).ok)
  BY DEF Step, IsOutcome

LEMMA StepGoes ==
  ASSUME NEW s, NEW o
  PROVE  /\ Allowed(s, o) => Step(Begun(s), o) = Begun(Effect(s, o))
         /\ ~Allowed(s, o) => ~Step(Begun(s), o).ok
         /\ IsOutcome(Step(Begun(s), o))
<1>1. IsOutcome(Begun(s))
  BY DEF IsOutcome, Begun
<1>2. IsOutcome(Step(Begun(s), o))
  BY <1>1, StepStops
<1>3. Allowed(s, o) => Step(Begun(s), o) = Begun(Effect(s, o))
  BY DEF Step, Begun
<1>4. ~Allowed(s, o) => ~Step(Begun(s), o).ok
  BY DEF Step, Begun
<1> QED
  BY <1>2, <1>3, <1>4

(* Once an operation is refused the migration is.                          *)
LEMMA StaysRefused ==
  ASSUME NEW s, NEW m \in Migration, NEW l \in 0 .. 5, NEW run, Traces(run, s, m, l),
         NEW k \in 1 .. l, IsOutcome(run[k]), ~run[k].ok
  PROVE  ~Migrated(s, m).ok
<1>1. ASSUME NEW n \in k .. 4, IsOutcome(run[n]) /\ ~run[n].ok
      PROVE  n + 1 <= l => IsOutcome(run[n + 1]) /\ ~run[n + 1].ok
  <2>1. n + 1 <= l => run[n + 1] = Step(run[n], Operations[m][n + 1])
    BY DEF Traces
  <2> QED
    BY <1>1, <2>1, StepStops
<1> DEFINE Out(n) == IsOutcome(run[n]) /\ ~run[n].ok
<1> HIDE DEF Out
<1>2. Out(k)
  BY DEF Out
<1>3. \A n \in k .. 4 : n + 1 <= l /\ Out(n) => Out(n + 1)
  BY <1>1 DEF Out
<1>4. Out(l)
  BY <1>2, <1>3
<1> QED
  BY <1>4 DEF Out, Traces

(* A migration is refused if its first operation is,                       *)
LEMMA RefusedFirst ==
  ASSUME NEW s, NEW m \in Migration, NEW l \in 1 .. 5, Len(Operations[m]) = l,
         ~Allowed(s, Operations[m][1])
  PROVE  ~Migrated(s, m).ok
<1>1. l \in 0 .. 5 /\ 1 \in 1 .. l
  OBVIOUS
<1>2. PICK run : Traces(run, s, m, l)
  BY <1>1, FiveOperations
<1>3. run[1] = Step(Begun(s), Operations[m][1])
  BY <1>1, <1>2 DEF Traces
<1>4. IsOutcome(run[1]) /\ ~run[1].ok
  BY <1>3, StepGoes
<1> QED
  BY <1>1, <1>2, <1>4, StaysRefused

(* or if its second is once the first has been done.                       *)
LEMMA RefusedSecond ==
  ASSUME NEW s, NEW m \in Migration, NEW l \in 2 .. 5, Len(Operations[m]) = l,
         ~Allowed(Effect(s, Operations[m][1]), Operations[m][2])
  PROVE  ~Migrated(s, m).ok
<1>1. l \in 0 .. 5 /\ 1 \in 1 .. l /\ 2 \in 1 .. l
  OBVIOUS
<1>2. PICK run : Traces(run, s, m, l)
  BY <1>1, FiveOperations
<1>3. /\ run[1] = Step(Begun(s), Operations[m][1])
      /\ run[2] = Step(run[1], Operations[m][2])
  BY <1>1, <1>2 DEF Traces
<1>4. IsOutcome(run[1]) /\ (run[1].ok => run[1] = Begun(Effect(s, Operations[m][1])))
  BY <1>3, StepGoes DEF Begun
<1>5. IsOutcome(run[2]) /\ ~run[2].ok
  BY <1>3, <1>4, StepGoes, StepStops
<1> QED
  BY <1>1, <1>2, <1>5, StaysRefused

(* A migration succeeds when each operation is allowed by what the ones    *)
(* before it have made of the schema.                                      *)
LEMMA Succeeds ==
  ASSUME NEW m \in Migration, NEW l \in 0 .. 5, Len(Operations[m]) = l, NEW c,
         \A n \in 1 .. l : /\ Allowed(c[n], Operations[m][n])
                           /\ c[n + 1] = Effect(c[n], Operations[m][n])
  PROVE  Migrated(c[1], m) = Begun(c[l + 1])
<1>1. PICK run : Traces(run, c[1], m, l)
  BY FiveOperations
<1>2. ASSUME NEW n \in 1 .. l, run[n - 1] = Begun(c[n]) PROVE run[n] = Begun(c[n + 1])
  BY <1>1, <1>2, StepGoes DEF Traces
<1>3. run[0] = Begun(c[0 + 1])
  BY <1>1 DEF Traces
<1>4. l >= 1 => run[1] = Begun(c[1 + 1])
  BY <1>2, <1>3
<1>5. l >= 2 => run[2] = Begun(c[2 + 1])
  BY <1>2, <1>4
<1>6. l >= 3 => run[3] = Begun(c[3 + 1])
  BY <1>2, <1>5
<1>7. l >= 4 => run[4] = Begun(c[4 + 1])
  BY <1>2, <1>6
<1>8. l >= 5 => run[5] = Begun(c[5 + 1])
  BY <1>2, <1>7
<1> QED
  BY <1>1, <1>3, <1>4, <1>5, <1>6, <1>7, <1>8 DEF Traces

(***************************************************************************)
(* The tables as they were before the models were what they are.           *)
(***************************************************************************)
Rule2 == Table(Rule.fields \cup {"cooldown_minutes"}, Rule.indexes)
Rule1 == Table((Rule2.fields \ {"comparison_operator"}) \cup {"operator"}, Rule.indexes)

(* The indexes on events that no migration touches.                        *)
EventIndexes ==
  {Index("idx_event_rule", {"rule"}), Index("idx_event_status_time", {"status", "timestamp"}),
   Index("idx_event_time_sev_status", {"timestamp", "severity", "status"}),
   Index("idx_event_exec_results_gin", {"execution_results"})}
Event5 == Table(Event.fields, EventIndexes)
Event4 == Table(Event.fields \ {"telemetry_snapshot"}, EventIndexes)
Event3 == Table(Event4.fields \cup {"telemetry_id"}, EventIndexes)
Event2 == Table(Event3.fields \cup {"metadata"}, EventIndexes)
Event1 == Table(Event2.fields, EventIndexes \cup {Index("idx_event_telemetry", {"telemetry_id"})})

(* The indexes on deliveries that no migration touches.                    *)
DeliveryIndexes ==
  {Index("idx_notif_deliv_event", {"event"}),
   Index("idx_notif_deliv_retry", {"status", "attempt_count", "last_attempt_at"})}
Delivery4 == Table((NotificationDelivery.fields \ {"notification_type"}) \cup {"recipient_type"},
                   NotificationDelivery.indexes)
Delivery3 == Table(Delivery4.fields, DeliveryIndexes)
Delivery2 == Table(Delivery3.fields \cup {"priority"}, DeliveryIndexes)
Delivery1 == Table(Delivery2.fields, DeliveryIndexes \cup
               {Index("idx_notif_deliv_queue", {"status", "priority", "created_at"})})

(* A table is its fields and its indexes, an index its name and fields.    *)
LEMMA TableParts ==
  \A f, x : Table(f, x).fields = f /\ Table(f, x).indexes = x
  BY DEF Table

LEMMA IndexParts ==
  \A n, on : Index(n, on).name = n /\ Index(n, on).on = on
  BY DEF Index

(* None of the indexes that stay is on a field that goes or has its name.  *)
LEMMA RuleIndexesStay ==
  \A i \in Rule.indexes : /\ i = Index(i.name, i.on)
                          /\ "cooldown_minutes" \notin i.on /\ "operator" \notin i.on
  BY IndexParts DEF Rule

LEMMA EventIndexesStay ==
  \A i \in EventIndexes : /\ i.name # "idx_event_telemetry"
                          /\ "metadata" \notin i.on /\ "telemetry_id" \notin i.on
  BY IndexParts DEF EventIndexes

LEMMA DeliveryIndexesStay ==
  \A i \in NotificationDelivery.indexes : i = Index(i.name, i.on) /\ "recipient_type" \notin i.on
  BY IndexParts DEF NotificationDelivery

LEMMA DeliveryIndexesKept ==
  \A i \in DeliveryIndexes : i.name # "idx_notif_deliv_queue" /\ "priority" \notin i.on
  BY IndexParts DEF DeliveryIndexes

LEMMA EventParts ==
  Event.indexes = EventIndexes \cup {Index("idx_event_telemetry_snap_gin", {"telemetry_snapshot"})}
  BY DEF Event, EventIndexes

LEMMA DeliveryParts ==
  NotificationDelivery.indexes =
    DeliveryIndexes \cup {Index("idx_notif_deliv_queue", {"status", "created_at"})}
  BY DEF NotificationDelivery, DeliveryIndexes

(* A table a migration creates is the first of its versions.               *)
Created(o) == Table(o.fields, o.indexes)

LEMMA CreatedDeviceType == Created(devices_0001[1]) = DeviceType
  BY DEF Created, Table, devices_0001, CreateModel, DeviceType
LEMMA CreatedDevice == Created(devices_0001[2]) = Device
  BY DEF Created, Table, devices_0001, CreateModel, Device
LEMMA CreatedRule == Created(rules_0001[1]) = Rule1
  BY DEF Created, Table, rules_0001, CreateModel, Rule1, Rule2, Rule
LEMMA CreatedEvent == Created(events_0001[1]) = Event1
<1>1. events_0001[1].fields = Event2.fields
  <2>1. Event2.fields =
          ((Event.fields \ {"telemetry_snapshot"}) \cup {"telemetry_id"}) \cup {"metadata"}
    BY TableParts DEF Event2, Event3, Event4
  <2>2. events_0001[1].fields =
          {"id", "telemetry_id", "timestamp", "severity", "message", "execution_results",
           "metadata", "status", "rule"}
    BY DEF events_0001, CreateModel
  <2>3. Event.fields =
          {"id", "rule", "timestamp", "severity", "message", "execution_results",
           "telemetry_snapshot", "status"}
    BY DEF Event
  <2> QED
    BY <2>1, <2>2, <2>3
<1>2. events_0001[1].indexes = EventIndexes \cup {Index("idx_event_telemetry", {"telemetry_id"})}
  BY DEF events_0001, CreateModel, EventIndexes
<1> QED
  BY <1>1, <1>2 DEF Created, Event1
LEMMA CreatedTemplate == Created(notifications_0001[1]) = NotificationTemplate
  BY DEF Created, Table, notifications_0001, CreateModel, NotificationTemplate
LEMMA CreatedDelivery == Created(notifications_0001[2]) = Delivery1
<1>1. notifications_0001[2].fields = Delivery2.fields
  <2>1. Delivery2.fields =
          ((NotificationDelivery.fields \ {"notification_type"}) \cup {"recipient_type"})
             \cup {"priority"}
    BY TableParts DEF Delivery2, Delivery3, Delivery4
  <2>2. notifications_0001[2].fields =
          {"id", "recipient_type", "recipient_address", "recipient_name", "rendered_message",
           "status", "priority", "attempt_count", "last_attempt_at", "error_message", "sent_at",
           "created_at", "event", "template"}
    BY DEF notifications_0001, CreateModel
  <2>3. NotificationDelivery.fields =
          {"id", "event", "template", "notification_type", "recipient_address",
           "recipient_name", "rendered_message", "status", "attempt_count",
           "last_attempt_at", "error_message", "sent_at", "created_at"}
    BY DEF NotificationDelivery
  <2> QED
    BY <2>1, <2>2, <2>3
<1>2. notifications_0001[2].indexes = DeliveryIndexes \cup
         {Index("idx_notif_deliv_queue", {"status", "priority", "created_at"})}
  BY DEF notifications_0001, CreateModel, DeliveryIndexes
<1> QED
  BY <1>1, <1>2 DEF Created, Delivery1
LEMMA CreatedTelemetry == Created(telemetry_0001[1]) = Telemetry
  BY DEF Created, Table, telemetry_0001, CreateModel, Telemetry

(* Each of the other operations makes the next version of its table.       *)
Reindexed(X, o) == {Index(i.name, {Renamed(f, o) : f \in i.on}) : i \in X}

LEMMA RenamesNothing ==
  ASSUME NEW o, NEW X, \A i \in X : i = Index(i.name, i.on) /\ o.old \notin i.on
  PROVE  Reindexed(X, o) = X
<1>1. ASSUME NEW i \in X PROVE {Renamed(f, o) : f \in i.on} = i.on
  BY DEF Renamed
<1> QED
  BY <1>1 DEF Reindexed

LEMMA Rules2 == Altered(Rule1, rules_0002[1]) = Rule2
<1> DEFINE o == rules_0002[1]
<1>1. o.kind = "RenameField" /\ o.old = "operator" /\ o.new = "comparison_operator"
  BY DEF rules_0002, RenameField
<1> HIDE DEF o
<1>2. {Renamed(f, o) : f \in Rule1.fields} = Rule2.fields
  BY <1>1, TableParts DEF Renamed, Rule1, Rule2, Rule
<1>3. Reindexed(Rule.indexes, o) = Rule.indexes
  BY <1>1, RenamesNothing, RuleIndexesStay
<1>4. Rule1.indexes = Rule.indexes /\ Rule2 = Table(Rule2.fields, Rule.indexes)
  BY TableParts DEF Rule1, Rule2
<1> QED
  BY <1>1, <1>2, <1>3, <1>4 DEF Altered, Reindexed, o

LEMMA Rules3 == Altered(Rule2, rules_0003[1]) = Rule
<1>1. {i \in Rule.indexes : "cooldown_minutes" \notin i.on} = Rule.indexes
  BY RuleIndexesStay
<1>2. Rule2.fields \ {"cooldown_minutes"} = Rule.fields /\ Rule2.indexes = Rule.indexes
  BY TableParts DEF Rule2, Rule
<1>3. Rule = Table(Rule.fields, Rule.indexes)
  BY DEF Rule, Table
<1> QED
  BY <1>1, <1>2, <1>3 DEF Altered, rules_0003, RemoveField

LEMMA Events2 == Altered(Event1, events_0002[1]) = Event2
<1>1. {i \in Event1.indexes : i.name # "idx_event_telemetry"} = EventIndexes
  BY EventIndexesStay, TableParts, IndexParts DEF Event1
<1>2. Event2 = Table(Event1.fields, EventIndexes)
  BY TableParts DEF Event1, Event2
<1> QED
  BY <1>1, <1>2 DEF Altered, events_0002, RemoveIndex

LEMMA Events3 == Altered(Event2, events_0002[2]) = Event3
<1>1. {i \in EventIndexes : "metadata" \notin i.on} = EventIndexes
  BY EventIndexesStay
<1>2. Event2.fields \ {"metadata"} = Event3.fields /\ Event2.indexes = EventIndexes
  BY TableParts DEF Event2, Event3, Event4, Event
<1>3. Event3 = Table(Event3.fields, EventIndexes)
  BY TableParts DEF Event3
<1> QED
  BY <1>1, <1>2, <1>3 DEF Altered, events_0002, RemoveField

LEMMA Events4 == Altered(Event3, events_0002[3]) = Event4
<1>1. {i \in EventIndexes : "telemetry_id" \notin i.on} = EventIndexes
  BY EventIndexesStay
<1>2. Event3.fields \ {"telemetry_id"} = Event4.fields /\ Event3.indexes = EventIndexes
  BY TableParts DEF Event3, Event4, Event
<1>3. Event4 = Table(Event4.fields, EventIndexes)
  BY TableParts DEF Event4
<1> QED
  BY <1>1, <1>2, <1>3 DEF Altered, events_0002, RemoveField

LEMMA Events5 == Altered(Event4, events_0002[4]) = Event5
<1>1. Event4.fields \cup {"telemetry_snapshot"} = Event.fields /\ Event4.indexes = EventIndexes
  BY TableParts DEF Event4, Event
<1> QED
  BY <1>1 DEF Altered, events_0002, AddField, Event5

LEMMA Events6 == Altered(Event5, events_0002[5]) = Event
<1>1. Event = Table(Event5.fields, Event.indexes) /\ Event5.indexes = EventIndexes
  BY TableParts DEF Event5, Event, Table
<1> QED
  BY <1>1, EventParts DEF Altered, events_0002, AddIndex

LEMMA Deliveries2 == Altered(Delivery1, notifications_0002[1]) = Delivery2
<1>1. {i \in Delivery1.indexes : i.name # "idx_notif_deliv_queue"} = DeliveryIndexes
  BY DeliveryIndexesKept, TableParts, IndexParts DEF Delivery1
<1>2. Delivery2 = Table(Delivery1.fields, DeliveryIndexes)
  BY TableParts DEF Delivery1, Delivery2
<1> QED
  BY <1>1, <1>2 DEF Altered, notifications_0002, RemoveIndex

LEMMA Deliveries3 == Altered(Delivery2, notifications_0002[2]) = Delivery3
<1>1. {i \in DeliveryIndexes : "priority" \notin i.on} = DeliveryIndexes
  BY DeliveryIndexesKept
<1>2. Delivery2.fields \ {"priority"} = Delivery3.fields /\ Delivery2.indexes = DeliveryIndexes
  BY TableParts DEF Delivery2, Delivery3, Delivery4, NotificationDelivery
<1>3. Delivery3 = Table(Delivery3.fields, DeliveryIndexes)
  BY TableParts DEF Delivery3
<1> QED
  BY <1>1, <1>2, <1>3 DEF Altered, notifications_0002, RemoveField

LEMMA Deliveries4 == Altered(Delivery3, notifications_0002[3]) = Delivery4
<1>1. Delivery3.fields = Delivery4.fields /\ Delivery3.indexes = DeliveryIndexes
  BY TableParts DEF Delivery3
<1>2. Delivery4 = Table(Delivery4.fields, NotificationDelivery.indexes)
  BY TableParts DEF Delivery4
<1> QED
  BY <1>1, <1>2, DeliveryParts DEF Altered, notifications_0002, AddIndex

LEMMA Deliveries5 == Altered(Delivery4, notifications_0003[1]) = NotificationDelivery
<1> DEFINE o == notifications_0003[1]
<1>1. o.kind = "RenameField" /\ o.old = "recipient_type" /\ o.new = "notification_type"
  BY DEF notifications_0003, RenameField
<1> HIDE DEF o
<1>2. {Renamed(f, o) : f \in Delivery4.fields} = NotificationDelivery.fields
  BY <1>1, TableParts DEF Renamed, Delivery4, NotificationDelivery
<1>3. Reindexed(NotificationDelivery.indexes, o) = NotificationDelivery.indexes
  BY <1>1, RenamesNothing, DeliveryIndexesStay
<1>4. /\ Delivery4.indexes = NotificationDelivery.indexes
      /\ NotificationDelivery = Table(NotificationDelivery.fields, NotificationDelivery.indexes)
  BY TableParts DEF Delivery4, NotificationDelivery, Table
<1> QED
  BY <1>1, <1>2, <1>3, <1>4 DEF Altered, Reindexed, o

(***************************************************************************)
(* The schemas the plan goes through.                                      *)
(***************************************************************************)
WithRules(rule) ==
  [device_types |-> DeviceType, devices |-> Device, rules |-> rule]
WithEvents(event) ==
  [device_types |-> DeviceType, devices |-> Device, rules |-> Rule2, events |-> event]
WithTemplates ==
  [device_types |-> DeviceType, devices |-> Device, rules |-> Rule2, events |-> Event,
   notification_templates |-> NotificationTemplate]
WithDeliveries(rule, delivery) ==
  [device_types |-> DeviceType, devices |-> Device, rules |-> rule, events |-> Event,
   notification_templates |-> NotificationTemplate, notification_deliveries |-> delivery]

(* The names of the indexes of one table.                                  *)
NamesOf(table) == {i.name : i \in table.indexes}

LEMMA NamesOfTables ==
  /\ NamesOf(DeviceType) = {"idx_device_type_name", "idx_device_type_metric"}
  /\ NamesOf(Device) = {"idx_device_serial", "idx_device_type", "idx_device_status_last_seen"}
  /\ NamesOf(Telemetry) = {"idx_telemetry_device_time", "idx_telemetry_payload_gin"}
  /\ NamesOf(NotificationTemplate) =
       {"idx_notif_templ_name", "idx_notif_templ_active", "idx_notif_templ_priority",
        "idx_notif_templ_recip_gin"}
  BY IndexParts DEF NamesOf, DeviceType, Device, Telemetry, NotificationTemplate

LEMMA NamesOfRules ==
  /\ NamesOf(Rule) = {"idx_rule_device_enabled", "idx_rule_is_enabled", "idx_rule_last_triggered",
                      "idx_rule_action_config_gin"}
  /\ NamesOf(Rule1) = NamesOf(Rule) /\ NamesOf(Rule2) = NamesOf(Rule)
<1>1. NamesOf(Rule) = {"idx_rule_device_enabled", "idx_rule_is_enabled",
                       "idx_rule_last_triggered", "idx_rule_action_config_gin"}
  BY IndexParts DEF NamesOf, Rule
<1>2. Rule1.indexes = Rule.indexes /\ Rule2.indexes = Rule.indexes
  BY TableParts DEF Rule1, Rule2
<1> QED
  BY <1>1, <1>2 DEF NamesOf

LEMMA NamesOfEvents ==
  LET kept == {"idx_event_rule", "idx_event_status_time", "idx_event_time_sev_status",
               "idx_event_exec_results_gin"}
  IN  /\ NamesOf(Event1) = kept \cup {"idx_event_telemetry"}
      /\ NamesOf(Event5) = kept
      /\ NamesOf(Event) = kept \cup {"idx_event_telemetry_snap_gin"}
  BY IndexParts, TableParts, EventParts DEF NamesOf, Event1, Event5, EventIndexes

LEMMA NamesOfDeliveries ==
  LET kept == {"idx_notif_deliv_event", "idx_notif_deliv_retry"}
  IN  /\ NamesOf(Delivery1) = kept \cup {"idx_notif_deliv_queue"}
      /\ NamesOf(Delivery3) = kept
      /\ NamesOf(NotificationDelivery) = kept \cup {"idx_notif_deliv_queue"}
  BY IndexParts, TableParts, DeliveryParts DEF NamesOf, Delivery1, Delivery3, DeliveryIndexes

(* What it takes to create a table or to add an index.                     *)
LEMMA CreateAllowed ==
  ASSUME NEW s, NEW o, o.kind = "CreateModel", o.table \notin DOMAIN s, o.refers \subseteq DOMAIN s,
         \A t \in DOMAIN s : NamesOf(s[t]) \cap NamesOf(Created(o)) = {}
  PROVE  Allowed(s, o)
<1>1. NamesOf(Created(o)) = {i.name : i \in o.indexes}
  BY TableParts DEF NamesOf, Created
<1>2. IndexNames(s) \cap NamesOf(Created(o)) = {}
  BY DEF IndexNames, NamesOf
<1> QED
  BY <1>1, <1>2 DEF Allowed

LEMMA AddIndexAllowed ==
  ASSUME NEW s, NEW o, o.kind = "AddIndex", o.table \in DOMAIN s,
         o.index.on \subseteq s[o.table].fields,
         \A t \in DOMAIN s : o.index.name \notin NamesOf(s[t])
  PROVE  Allowed(s, o)
<1>1. o.index.name \notin IndexNames(s)
  BY DEF IndexNames, NamesOf
<1> QED
  BY <1>1 DEF Allowed

(* A schema with a table put in it, or in the place of its former version. *)
Put(s, name, table) ==
  [t \in DOMAIN s \cup {name} |-> IF t # name THEN s[t] ELSE table]

LEMMA Creates ==
  ASSUME NEW s, NEW o, o.kind = "CreateModel"
  PROVE  Effect(s, o) = Put(s, o.table, Created(o))
  BY DEF Effect, Created, Put

LEMMA Alters ==
  ASSUME NEW s, NEW o, o.kind # "CreateModel", o.table \in DOMAIN s
  PROVE  Effect(s, o) = Put(s, o.table, Altered(s[o.table], o))
  BY DEF Effect, Put

(* From one schema of the plan to the next, operation by operation.        *)
LEMMA ToDeviceTypes ==
  LET o == devices_0001[1] IN
    Allowed(NoSchema, o) /\ Effect(NoSchema, o) = [device_types |-> DeviceType]
<1> DEFINE o == devices_0001[1]
<1>1. o.kind = "CreateModel" /\ o.table = "device_types" /\ o.refers = {}
  BY DEF devices_0001, CreateModel
<1>2. Created(o) = DeviceType
  BY CreatedDeviceType
<1>3. DOMAIN NoSchema = {}
  BY DEF NoSchema
<1> HIDE DEF o
<1>4. Allowed(NoSchema, o)
  BY <1>1, <1>3, CreateAllowed
<1>5. Effect(NoSchema, o) = [device_types |-> DeviceType]
  <2>1. Effect(NoSchema, o) = Put(NoSchema, "device_types", DeviceType)
    BY <1>1, <1>2, Creates
  <2> QED
    BY <2>1, <1>3 DEF Put
<1> QED
  BY <1>4, <1>5 DEF o

LEMMA ToDevices ==
  LET o == devices_0001[2]
      s == [device_types |-> DeviceType]
  IN  Allowed(s, o) /\ Effect(s, o) = [device_types |-> DeviceType, devices |-> Device]
<1> DEFINE o == devices_0001[2]
           s == [device_types |-> DeviceType]
<1>1. o.kind = "CreateModel" /\ o.table = "devices" /\ o.refers = {"device_types"}
  BY DEF devices_0001, CreateModel
<1>2. Created(o) = Device
  BY CreatedDevice
<1> HIDE DEF o
<1>3. Allowed(s, o)
  BY <1>1, <1>2, CreateAllowed, NamesOfTables
<1>4. Effect(s, o) = [device_types |-> DeviceType, devices |-> Device]
  <2>1. Effect(s, o) = Put(s, "devices", Device)
    BY <1>1, <1>2, Creates
  <2> QED
    BY <2>1 DEF Put
<1> QED
  BY <1>3, <1>4 DEF o

LEMMA ToRules ==
  LET o == rules_0001[1]
      s == [device_types |-> DeviceType, devices |-> Device]
  IN  Allowed(s, o) /\ Effect(s, o) = WithRules(Rule1)
<1> DEFINE o == rules_0001[1]
           s == [device_types |-> DeviceType, devices |-> Device]
<1>1. o.kind = "CreateModel" /\ o.table = "rules" /\ o.refers = {"devices"}
  BY DEF rules_0001, CreateModel
<1>2. Created(o) = Rule1
  BY CreatedRule
<1> HIDE DEF o
<1>3. Allowed(s, o)
  BY <1>1, <1>2, CreateAllowed, NamesOfTables, NamesOfRules
<1>4. Effect(s, o) = WithRules(Rule1)
  <2>1. Effect(s, o) = Put(s, "rules", Rule1)
    BY <1>1, <1>2, Creates
  <2> QED
    BY <2>1 DEF Put, WithRules
<1> QED
  BY <1>3, <1>4 DEF o

LEMMA ToEvents ==
  LET o == events_0001[1] IN
    Allowed(WithRules(Rule2), o) /\ Effect(WithRules(Rule2), o) = WithEvents(Event1)
<1> DEFINE o == events_0001[1]
<1>1. o.kind = "CreateModel" /\ o.table = "events" /\ o.refers = {"rules"}
  BY DEF events_0001, CreateModel
<1>2. Created(o) = Event1
  BY CreatedEvent
<1> HIDE DEF o
<1>3. Allowed(WithRules(Rule2), o)
  BY <1>1, <1>2, CreateAllowed, NamesOfTables, NamesOfRules, NamesOfEvents DEF WithRules
<1>4. Effect(WithRules(Rule2), o) = WithEvents(Event1)
  <2>1. Effect(WithRules(Rule2), o) = Put(WithRules(Rule2), "events", Event1)
    BY <1>1, <1>2, Creates
  <2> QED
    BY <2>1 DEF Put, WithRules, WithEvents
<1> QED
  BY <1>3, <1>4 DEF o

LEMMA ToTemplates ==
  LET o == notifications_0001[1] IN
    Allowed(WithEvents(Event), o) /\ Effect(WithEvents(Event), o) = WithTemplates
<1> DEFINE o == notifications_0001[1]
<1>1. o.kind = "CreateModel" /\ o.table = "notification_templates" /\ o.refers = {}
  BY DEF notifications_0001, CreateModel
<1>2. Created(o) = NotificationTemplate
  BY CreatedTemplate
<1> HIDE DEF o
<1>3. Allowed(WithEvents(Event), o)
  BY <1>1, <1>2, CreateAllowed, NamesOfTables, NamesOfRules, NamesOfEvents DEF WithEvents
<1>4. Effect(WithEvents(Event), o) = WithTemplates
  <2>1. Effect(WithEvents(Event), o) = Put(WithEvents(Event), "notification_templates", NotificationTemplate)
    BY <1>1, <1>2, Creates
  <2> QED
    BY <2>1 DEF Put, WithEvents, WithTemplates
<1> QED
  BY <1>3, <1>4 DEF o

LEMMA ToDeliveries ==
  LET o == notifications_0001[2] IN
    Allowed(WithTemplates, o) /\ Effect(WithTemplates, o) = WithDeliveries(Rule2, Delivery1)
<1> DEFINE o == notifications_0001[2]
<1>1. o.kind = "CreateModel" /\ o.table = "notification_deliveries"
      /\ o.refers = {"events", "notification_templates"}
  BY DEF notifications_0001, CreateModel
<1>2. Created(o) = Delivery1
  BY CreatedDelivery
<1> HIDE DEF o
<1>3. Allowed(WithTemplates, o)
  BY <1>1, <1>2, CreateAllowed, NamesOfTables, NamesOfRules, NamesOfEvents, NamesOfDeliveries
     DEF WithTemplates
<1>4. Effect(WithTemplates, o) = WithDeliveries(Rule2, Delivery1)
  <2>1. Effect(WithTemplates, o) = Put(WithTemplates, "notification_deliveries", Delivery1)
    BY <1>1, <1>2, Creates
  <2> QED
    BY <2>1 DEF Put, WithTemplates, WithDeliveries
<1> QED
  BY <1>3, <1>4 DEF o

LEMMA ToTelemetry ==
  LET o == telemetry_0001[1]
      s == WithDeliveries(Rule, NotificationDelivery)
  IN  Allowed(s, o) /\ Effect(s, o) = Models
<1> DEFINE o == telemetry_0001[1]
           s == WithDeliveries(Rule, NotificationDelivery)
<1>1. o.kind = "CreateModel" /\ o.table = "telemetry" /\ o.refers = {"devices"}
  BY DEF telemetry_0001, CreateModel
<1>2. Created(o) = Telemetry
  BY CreatedTelemetry
<1> HIDE DEF o
<1>3. Allowed(s, o)
  BY <1>1, <1>2, CreateAllowed, NamesOfTables, NamesOfRules, NamesOfEvents, NamesOfDeliveries
     DEF WithDeliveries
<1>4. Effect(s, o) = Models
  <2>1. Effect(s, o) = Put(s, "telemetry", Telemetry)
    BY <1>1, <1>2, Creates
  <2> QED
    BY <2>1 DEF Put, WithDeliveries, Models
<1> QED
  BY <1>3, <1>4 DEF o

(* What it takes to alter a table.                                         *)
LEMMA AlterAllowed ==
  ASSUME NEW s, NEW o, o.table \in DOMAIN s,
         \/ o.kind = "RemoveField" /\ o.field \in s[o.table].fields
         \/ o.kind = "AddField" /\ o.field \notin s[o.table].fields
         \/ o.kind = "RenameField" /\ o.old \in s[o.table].fields
                                   /\ o.new \notin s[o.table].fields
         \/ o.kind = "RemoveIndex"
  PROVE  Allowed(s, o)
  BY DEF Allowed

LEMMA RulesRenamed ==
  LET o == rules_0002[1] IN
    Allowed(WithRules(Rule1), o) /\ Effect(WithRules(Rule1), o) = WithRules(Rule2)
<1> DEFINE o == rules_0002[1]
<1>1. o.kind = "RenameField" /\ o.table = "rules" /\ o.old = "operator"
      /\ o.new = "comparison_operator"
  BY DEF rules_0002, RenameField
<1>2. Altered(Rule1, o) = Rule2
  BY Rules2
<1> HIDE DEF o
<1>3. Allowed(WithRules(Rule1), o)
  <2>1. "rules" \in DOMAIN WithRules(Rule1) /\ WithRules(Rule1)["rules"] = Rule1
    BY DEF WithRules
  <2>2. "operator" \in Rule1.fields /\ "comparison_operator" \notin Rule1.fields
    BY TableParts DEF Rule1
  <2> QED
    BY <1>1, <2>1, <2>2, AlterAllowed
<1>4. Effect(WithRules(Rule1), o) = WithRules(Rule2)
  <2>1. "rules" \in DOMAIN WithRules(Rule1) /\ WithRules(Rule1)["rules"] = Rule1
    BY DEF WithRules
  <2>2. Effect(WithRules(Rule1), o) = Put(WithRules(Rule1), "rules", Rule2)
    BY <1>1, <1>2, <2>1, Alters
  <2> QED
    BY <2>2 DEF Put, WithRules
<1> QED
  BY <1>3, <1>4 DEF o

LEMMA EventIndexGone ==
  LET o == events_0002[1] IN
    Allowed(WithEvents(Event1), o) /\ Effect(WithEvents(Event1), o) = WithEvents(Event2)
<1> DEFINE o == events_0002[1]
<1>1. o.kind = "RemoveIndex" /\ o.table = "events" /\ o.name = "idx_event_telemetry"
  BY DEF events_0002, RemoveIndex
<1>2. Altered(Event1, o) = Event2
  BY Events2
<1> HIDE DEF o
<1>3. Allowed(WithEvents(Event1), o)
  <2>1. "events" \in DOMAIN WithEvents(Event1) /\ WithEvents(Event1)["events"] = Event1
    BY DEF WithEvents
  <2> QED
    BY <1>1, <2>1, AlterAllowed
<1>4. Effect(WithEvents(Event1), o) = WithEvents(Event2)
  <2>1. "events" \in DOMAIN WithEvents(Event1) /\ WithEvents(Event1)["events"] = Event1
    BY DEF WithEvents
  <2>2. Effect(WithEvents(Event1), o) = Put(WithEvents(Event1), "events", Event2)
    BY <1>1, <1>2, <2>1, Alters
  <2> QED
    BY <2>2 DEF Put, WithEvents
<1> QED
  BY <1>3, <1>4 DEF o

LEMMA MetadataGone ==
  LET o == events_0002[2] IN
    Allowed(WithEvents(Event2), o) /\ Effect(WithEvents(Event2), o) = WithEvents(Event3)
<1> DEFINE o == events_0002[2]
<1>1. o.kind = "RemoveField" /\ o.table = "events" /\ o.field = "metadata"
  BY DEF events_0002, RemoveField
<1>2. Altered(Event2, o) = Event3
  BY Events3
<1> HIDE DEF o
<1>3. Allowed(WithEvents(Event2), o)
  <2>1. "events" \in DOMAIN WithEvents(Event2) /\ WithEvents(Event2)["events"] = Event2
    BY DEF WithEvents
  <2>2. "metadata" \in Event2.fields
    BY TableParts DEF Event2
  <2> QED
    BY <1>1, <2>1, <2>2, AlterAllowed
<1>4. Effect(WithEvents(Event2), o) = WithEvents(Event3)
  <2>1. "events" \in DOMAIN WithEvents(Event2) /\ WithEvents(Event2)["events"] = Event2
    BY DEF WithEvents
  <2>2. Effect(WithEvents(Event2), o) = Put(WithEvents(Event2), "events", Event3)
    BY <1>1, <1>2, <2>1, Alters
  <2> QED
    BY <2>2 DEF Put, WithEvents
<1> QED
  BY <1>3, <1>4 DEF o

LEMMA TelemetryIdGone ==
  LET o == events_0002[3] IN
    Allowed(WithEvents(Event3), o) /\ Effect(WithEvents(Event3), o) = WithEvents(Event4)
<1> DEFINE o == events_0002[3]
<1>1. o.kind = "RemoveField" /\ o.table = "events" /\ o.field = "telemetry_id"
  BY DEF events_0002, RemoveField
<1>2. Altered(Event3, o) = Event4
  BY Events4
<1> HIDE DEF o
<1>3. Allowed(WithEvents(Event3), o)
  <2>1. "events" \in DOMAIN WithEvents(Event3) /\ WithEvents(Event3)["events"] = Event3
    BY DEF WithEvents
  <2>2. "telemetry_id" \in Event3.fields
    BY TableParts DEF Event3
  <2> QED
    BY <1>1, <2>1, <2>2, AlterAllowed
<1>4. Effect(WithEvents(Event3), o) = WithEvents(Event4)
  <2>1. "events" \in DOMAIN WithEvents(Event3) /\ WithEvents(Event3)["events"] = Event3
    BY DEF WithEvents
  <2>2. Effect(WithEvents(Event3), o) = Put(WithEvents(Event3), "events", Event4)
    BY <1>1, <1>2, <2>1, Alters
  <2> QED
    BY <2>2 DEF Put, WithEvents
<1> QED
  BY <1>3, <1>4 DEF o

LEMMA SnapshotAdded ==
  LET o == events_0002[4] IN
    Allowed(WithEvents(Event4), o) /\ Effect(WithEvents(Event4), o) = WithEvents(Event5)
<1> DEFINE o == events_0002[4]
<1>1. o.kind = "AddField" /\ o.table = "events" /\ o.field = "telemetry_snapshot"
  BY DEF events_0002, AddField
<1>2. Altered(Event4, o) = Event5
  BY Events5
<1> HIDE DEF o
<1>3. Allowed(WithEvents(Event4), o)
  <2>1. "events" \in DOMAIN WithEvents(Event4) /\ WithEvents(Event4)["events"] = Event4
    BY DEF WithEvents
  <2>2. "telemetry_snapshot" \notin Event4.fields
    BY TableParts DEF Event4
  <2> QED
    BY <1>1, <2>1, <2>2, AlterAllowed
<1>4. Effect(WithEvents(Event4), o) = WithEvents(Event5)
  <2>1. "events" \in DOMAIN WithEvents(Event4) /\ WithEvents(Event4)["events"] = Event4
    BY DEF WithEvents
  <2>2. Effect(WithEvents(Event4), o) = Put(WithEvents(Event4), "events", Event5)
    BY <1>1, <1>2, <2>1, Alters
  <2> QED
    BY <2>2 DEF Put, WithEvents
<1> QED
  BY <1>3, <1>4 DEF o

LEMMA SnapshotIndexed ==
  LET o == events_0002[5] IN
    Allowed(WithEvents(Event5), o) /\ Effect(WithEvents(Event5), o) = WithEvents(Event)
<1> DEFINE o == events_0002[5]
<1>1. o.kind = "AddIndex" /\ o.table = "events"
      /\ o.index = Index("idx_event_telemetry_snap_gin", {"telemetry_snapshot"})
      /\ o.index.name = "idx_event_telemetry_snap_gin" /\ o.index.on = {"telemetry_snapshot"}
  BY IndexParts DEF events_0002, AddIndex
<1>2. Altered(Event5, o) = Event
  BY Events6
<1> HIDE DEF o
<1>3. Allowed(WithEvents(Event5), o)
  <2>1. "events" \in DOMAIN WithEvents(Event5) /\ WithEvents(Event5)["events"] = Event5
    BY DEF WithEvents
  <2>2. {"telemetry_snapshot"} \subseteq Event5.fields
    BY TableParts DEF Event5, Event
  <2>3. \A t \in DOMAIN WithEvents(Event5) : o.index.name \notin NamesOf(WithEvents(Event5)[t])
    BY <1>1, NamesOfTables, NamesOfRules, NamesOfEvents DEF WithEvents
  <2> QED
    BY <1>1, <2>1, <2>2, <2>3, AddIndexAllowed
<1>4. Effect(WithEvents(Event5), o) = WithEvents(Event)
  <2>1. "events" \in DOMAIN WithEvents(Event5) /\ WithEvents(Event5)["events"] = Event5
    BY DEF WithEvents
  <2>2. Effect(WithEvents(Event5), o) = Put(WithEvents(Event5), "events", Event)
    BY <1>1, <1>2, <2>1, Alters
  <2> QED
    BY <2>2 DEF Put, WithEvents
<1> QED
  BY <1>3, <1>4 DEF o

LEMMA QueueIndexGone ==
  LET o == notifications_0002[1] IN
    Allowed(WithDeliveries(Rule2, Delivery1), o) /\ Effect(WithDeliveries(Rule2, Delivery1), o) = WithDeliveries(Rule2, Delivery2)
<1> DEFINE o == notifications_0002[1]
<1>1. o.kind = "RemoveIndex" /\ o.table = "notification_deliveries" /\ o.name = "idx_notif_deliv_queue"
  BY DEF notifications_0002, RemoveIndex
<1>2. Altered(Delivery1, o) = Delivery2
  BY Deliveries2
<1> HIDE DEF o
<1>3. Allowed(WithDeliveries(Rule2, Delivery1), o)
  <2>1. "notification_deliveries" \in DOMAIN WithDeliveries(Rule2, Delivery1) /\ WithDeliveries(Rule2, Delivery1)["notification_deliveries"] = Delivery1
    BY DEF WithDeliveries
  <2> QED
    BY <1>1, <2>1, AlterAllowed
<1>4. Effect(WithDeliveries(Rule2, Delivery1), o) = WithDeliveries(Rule2, Delivery2)
  <2>1. "notification_deliveries" \in DOMAIN WithDeliveries(Rule2, Delivery1) /\ WithDeliveries(Rule2, Delivery1)["notification_deliveries"] = Delivery1
    BY DEF WithDeliveries
  <2>2. Effect(WithDeliveries(Rule2, Delivery1), o) = Put(WithDeliveries(Rule2, Delivery1), "notification_deliveries", Delivery2)
    BY <1>1, <1>2, <2>1, Alters
  <2> QED
    BY <2>2 DEF Put, WithDeliveries
<1> QED
  BY <1>3, <1>4 DEF o

LEMMA PriorityGone ==
  LET o == notifications_0002[2] IN
    Allowed(WithDeliveries(Rule2, Delivery2), o) /\ Effect(WithDeliveries(Rule2, Delivery2), o) = WithDeliveries(Rule2, Delivery3)
<1> DEFINE o == notifications_0002[2]
<1>1. o.kind = "RemoveField" /\ o.table = "notification_deliveries" /\ o.field = "priority"
  BY DEF notifications_0002, RemoveField
<1>2. Altered(Delivery2, o) = Delivery3
  BY Deliveries3
<1> HIDE DEF o
<1>3. Allowed(WithDeliveries(Rule2, Delivery2), o)
  <2>1. "notification_deliveries" \in DOMAIN WithDeliveries(Rule2, Delivery2) /\ WithDeliveries(Rule2, Delivery2)["notification_deliveries"] = Delivery2
    BY DEF WithDeliveries
  <2>2. "priority" \in Delivery2.fields
    BY TableParts DEF Delivery2
  <2> QED
    BY <1>1, <2>1, <2>2, AlterAllowed
<1>4. Effect(WithDeliveries(Rule2, Delivery2), o) = WithDeliveries(Rule2, Delivery3)
  <2>1. "notification_deliveries" \in DOMAIN WithDeliveries(Rule2, Delivery2) /\ WithDeliveries(Rule2, Delivery2)["notification_deliveries"] = Delivery2
    BY DEF WithDeliveries
  <2>2. Effect(WithDeliveries(Rule2, Delivery2), o) = Put(WithDeliveries(Rule2, Delivery2), "notification_deliveries", Delivery3)
    BY <1>1, <1>2, <2>1, Alters
  <2> QED
    BY <2>2 DEF Put, WithDeliveries
<1> QED
  BY <1>3, <1>4 DEF o

LEMMA QueueIndexed ==
  LET o == notifications_0002[3] IN
    Allowed(WithDeliveries(Rule2, Delivery3), o) /\ Effect(WithDeliveries(Rule2, Delivery3), o) = WithDeliveries(Rule2, Delivery4)
<1> DEFINE o == notifications_0002[3]
<1>1. o.kind = "AddIndex" /\ o.table = "notification_deliveries"
      /\ o.index = Index("idx_notif_deliv_queue", {"status", "created_at"})
      /\ o.index.name = "idx_notif_deliv_queue" /\ o.index.on = {"status", "created_at"}
  BY IndexParts DEF notifications_0002, AddIndex
<1>2. Altered(Delivery3, o) = Delivery4
  BY Deliveries4
<1> HIDE DEF o
<1>3. Allowed(WithDeliveries(Rule2, Delivery3), o)
  <2>1. "notification_deliveries" \in DOMAIN WithDeliveries(Rule2, Delivery3) /\ WithDeliveries(Rule2, Delivery3)["notification_deliveries"] = Delivery3
    BY DEF WithDeliveries
  <2>2. {"status", "created_at"} \subseteq Delivery3.fields
    BY TableParts DEF Delivery3, Delivery4, NotificationDelivery
  <2>3. \A t \in DOMAIN WithDeliveries(Rule2, Delivery3) : o.index.name \notin NamesOf(WithDeliveries(Rule2, Delivery3)[t])
    BY <1>1, NamesOfTables, NamesOfRules, NamesOfEvents, NamesOfDeliveries DEF WithDeliveries
  <2> QED
    BY <1>1, <2>1, <2>2, <2>3, AddIndexAllowed
<1>4. Effect(WithDeliveries(Rule2, Delivery3), o) = WithDeliveries(Rule2, Delivery4)
  <2>1. "notification_deliveries" \in DOMAIN WithDeliveries(Rule2, Delivery3) /\ WithDeliveries(Rule2, Delivery3)["notification_deliveries"] = Delivery3
    BY DEF WithDeliveries
  <2>2. Effect(WithDeliveries(Rule2, Delivery3), o) = Put(WithDeliveries(Rule2, Delivery3), "notification_deliveries", Delivery4)
    BY <1>1, <1>2, <2>1, Alters
  <2> QED
    BY <2>2 DEF Put, WithDeliveries
<1> QED
  BY <1>3, <1>4 DEF o

LEMMA RecipientRenamed ==
  LET o == notifications_0003[1] IN
    Allowed(WithDeliveries(Rule2, Delivery4), o) /\ Effect(WithDeliveries(Rule2, Delivery4), o) = WithDeliveries(Rule2, NotificationDelivery)
<1> DEFINE o == notifications_0003[1]
<1>1. o.kind = "RenameField" /\ o.table = "notification_deliveries" /\ o.old = "recipient_type"
      /\ o.new = "notification_type"
  BY DEF notifications_0003, RenameField
<1>2. Altered(Delivery4, o) = NotificationDelivery
  BY Deliveries5
<1> HIDE DEF o
<1>3. Allowed(WithDeliveries(Rule2, Delivery4), o)
  <2>1. "notification_deliveries" \in DOMAIN WithDeliveries(Rule2, Delivery4) /\ WithDeliveries(Rule2, Delivery4)["notification_deliveries"] = Delivery4
    BY DEF WithDeliveries
  <2>2. "recipient_type" \in Delivery4.fields /\ "notification_type" \notin Delivery4.fields
    BY TableParts DEF Delivery4, NotificationDelivery
  <2> QED
    BY <1>1, <2>1, <2>2, AlterAllowed
<1>4. Effect(WithDeliveries(Rule2, Delivery4), o) = WithDeliveries(Rule2, NotificationDelivery)
  <2>1. "notification_deliveries" \in DOMAIN WithDeliveries(Rule2, Delivery4) /\ WithDeliveries(Rule2, Delivery4)["notification_deliveries"] = Delivery4
    BY DEF WithDeliveries
  <2>2. Effect(WithDeliveries(Rule2, Delivery4), o) = Put(WithDeliveries(Rule2, Delivery4), "notification_deliveries", NotificationDelivery)
    BY <1>1, <1>2, <2>1, Alters
  <2> QED
    BY <2>2 DEF Put, WithDeliveries
<1> QED
  BY <1>3, <1>4 DEF o

LEMMA CooldownGone ==
  LET o == rules_0003[1] IN
    Allowed(WithDeliveries(Rule2, NotificationDelivery), o) /\ Effect(WithDeliveries(Rule2, NotificationDelivery), o) = WithDeliveries(Rule, NotificationDelivery)
<1> DEFINE o == rules_0003[1]
<1>1. o.kind = "RemoveField" /\ o.table = "rules" /\ o.field = "cooldown_minutes"
  BY DEF rules_0003, RemoveField
<1>2. Altered(Rule2, o) = Rule
  BY Rules3
<1> HIDE DEF o
<1>3. Allowed(WithDeliveries(Rule2, NotificationDelivery), o)
  <2>1. "rules" \in DOMAIN WithDeliveries(Rule2, NotificationDelivery) /\ WithDeliveries(Rule2, NotificationDelivery)["rules"] = Rule2
    BY DEF WithDeliveries
  <2>2. "cooldown_minutes" \in Rule2.fields
    BY TableParts DEF Rule2
  <2> QED
    BY <1>1, <2>1, <2>2, AlterAllowed
<1>4. Effect(WithDeliveries(Rule2, NotificationDelivery), o) = WithDeliveries(Rule, NotificationDelivery)
  <2>1. "rules" \in DOMAIN WithDeliveries(Rule2, NotificationDelivery) /\ WithDeliveries(Rule2, NotificationDelivery)["rules"] = Rule2
    BY DEF WithDeliveries
  <2>2. Effect(WithDeliveries(Rule2, NotificationDelivery), o) = Put(WithDeliveries(Rule2, NotificationDelivery), "rules", Rule)
    BY <1>1, <1>2, <2>1, Alters
  <2> QED
    BY <2>2 DEF Put, WithDeliveries
<1> QED
  BY <1>3, <1>4 DEF o

(***************************************************************************)
(* The plan in its order, and the schema after its first n migrations.     *)
(***************************************************************************)
Order ==
  <<"devices_0001", "rules_0001", "rules_0002", "events_0001", "events_0002", "events_0003",
    "notifications_0001", "notifications_0002", "notifications_0003", "rules_0003",
    "telemetry_0001">>

After(n) ==
  CASE n = 0  -> NoSchema
    [] n = 1  -> [device_types |-> DeviceType, devices |-> Device]
    [] n = 2  -> WithRules(Rule1)
    [] n = 3  -> WithRules(Rule2)
    [] n = 4  -> WithEvents(Event1)
    [] n = 5  -> WithEvents(Event)
    [] n = 6  -> WithEvents(Event)
    [] n = 7  -> WithDeliveries(Rule2, Delivery1)
    [] n = 8  -> WithDeliveries(Rule2, Delivery4)
    [] n = 9  -> WithDeliveries(Rule2, NotificationDelivery)
    [] n = 10 -> WithDeliveries(Rule, NotificationDelivery)
    [] n = 11 -> Models

LEMMA AfterIs ==
  /\ After(0) = NoSchema
  /\ After(1) = [device_types |-> DeviceType, devices |-> Device]
  /\ After(2) = WithRules(Rule1)
  /\ After(3) = WithRules(Rule2)
  /\ After(4) = WithEvents(Event1)
  /\ After(5) = WithEvents(Event)
  /\ After(6) = WithEvents(Event)
  /\ After(7) = WithDeliveries(Rule2, Delivery1)
  /\ After(8) = WithDeliveries(Rule2, Delivery4)
  /\ After(9) = WithDeliveries(Rule2, NotificationDelivery)
  /\ After(10) = WithDeliveries(Rule, NotificationDelivery)
  /\ After(11) = Models
  BY DEF After

LEMMA OrderIs ==
  /\ Migration = {Order[n] : n \in 1 .. 11}
  /\ \A n \in 1 .. 11 : Order[n] \in Migration /\ Rank[Order[n]] = n
  /\ \A m \in Migration : Rank[m] \in 1 .. 11 /\ Order[Rank[m]] = m
<1>1. Migration = {Order[n] : n \in 1 .. 11}
  BY DEF Migration, Operations, Order
<1>2. \A n \in 1 .. 11 : Rank[Order[n]] = n
  BY DEF Rank, Order
<1> QED
  BY <1>1, <1>2

(* Each migration of the plan succeeds after the ones before it.           *)
LEMMA Plan1 == Migrated(After(0), "devices_0001") = Begun(After(1))
<1> DEFINE c == <<NoSchema, [device_types |-> DeviceType],
                  [device_types |-> DeviceType, devices |-> Device]>>
<1>1. /\ Operations["devices_0001"] = devices_0001 /\ "devices_0001" \in Migration
      /\ Len(devices_0001) = 2
  BY DEF Operations, Migration, devices_0001
<1>2. \A n \in 1 .. 2 : Allowed(c[n], devices_0001[n]) /\ c[n + 1] = Effect(c[n], devices_0001[n])
  BY ToDeviceTypes, ToDevices
<1>3. c[1] = After(0) /\ c[2 + 1] = After(1)
  BY AfterIs
<1> HIDE DEF c
<1>4. Migrated(c[1], "devices_0001") = Begun(c[2 + 1])
  BY <1>1, <1>2, Succeeds
<1> QED
  BY <1>3, <1>4

LEMMA OneStep ==
  ASSUME NEW s, NEW m \in Migration, Len(Operations[m]) = 1, Allowed(s, Operations[m][1])
  PROVE  Migrated(s, m) = Begun(Effect(s, Operations[m][1]))
<1> DEFINE c == <<s, Effect(s, Operations[m][1])>>
<1>1. \A n \in 1 .. 1 : /\ Allowed(c[n], Operations[m][n])
                        /\ c[n + 1] = Effect(c[n], Operations[m][n])
  OBVIOUS
<1>2. c[1] = s /\ c[1 + 1] = Effect(s, Operations[m][1])
  OBVIOUS
<1>3. 1 \in 0 .. 5
  OBVIOUS
<1> HIDE DEF c
<1>4. Migrated(c[1], m) = Begun(c[1 + 1])
  BY <1>1, <1>3, Succeeds
<1> QED
  BY <1>2, <1>4

LEMMA Plan2 == Migrated(After(1), "rules_0001") = Begun(After(2))
<1>1. /\ Operations["rules_0001"] = rules_0001 /\ "rules_0001" \in Migration
      /\ Len(rules_0001) = 1
  BY DEF Operations, Migration, rules_0001
<1> QED
  BY <1>1, OneStep, ToRules, AfterIs

LEMMA Plan3 == Migrated(After(2), "rules_0002") = Begun(After(3))
<1>1. /\ Operations["rules_0002"] = rules_0002 /\ "rules_0002" \in Migration
      /\ Len(rules_0002) = 1
  BY DEF Operations, Migration, rules_0002
<1> QED
  BY <1>1, OneStep, RulesRenamed, AfterIs

LEMMA Plan4 == Migrated(After(3), "events_0001") = Begun(After(4))
<1>1. /\ Operations["events_0001"] = events_0001 /\ "events_0001" \in Migration
      /\ Len(events_0001) = 1
  BY DEF Operations, Migration, events_0001
<1> QED
  BY <1>1, OneStep, ToEvents, AfterIs

LEMMA Plan5 == Migrated(After(4), "events_0002") = Begun(After(5))
<1> DEFINE c == <<WithEvents(Event1), WithEvents(Event2), WithEvents(Event3),
                  WithEvents(Event4), WithEvents(Event5), WithEvents(Event)>>
<1>1. /\ Operations["events_0002"] = events_0002 /\ "events_0002" \in Migration
      /\ Len(events_0002) = 5
  BY DEF Operations, Migration, events_0002
<1>2. \A n \in 1 .. 5 : Allowed(c[n], events_0002[n]) /\ c[n + 1] = Effect(c[n], events_0002[n])
  BY EventIndexGone, MetadataGone, TelemetryIdGone, SnapshotAdded, SnapshotIndexed
<1>3. c[1] = After(4) /\ c[5 + 1] = After(5)
  BY AfterIs
<1> HIDE DEF c
<1>4. Migrated(c[1], "events_0002") = Begun(c[5 + 1])
  BY <1>1, <1>2, Succeeds
<1> QED
  BY <1>3, <1>4

(* The migration of help texts leaves every schema as it is.               *)
LEMMA NoOperations == \A s : Migrated(s, "events_0003") = Begun(s)
<1>1. "events_0003" \in Migration /\ Len(Operations["events_0003"]) = 0
  BY DEF Operations, Migration, events_0003
<1> QED
  BY <1>1, FiveOperations DEF Traces

LEMMA Plan7 == Migrated(After(6), "notifications_0001") = Begun(After(7))
<1> DEFINE c == <<WithEvents(Event), WithTemplates, WithDeliveries(Rule2, Delivery1)>>
<1>1. /\ Operations["notifications_0001"] = notifications_0001
      /\ "notifications_0001" \in Migration /\ Len(notifications_0001) = 2
  BY DEF Operations, Migration, notifications_0001
<1>2. \A n \in 1 .. 2 : /\ Allowed(c[n], notifications_0001[n])
                        /\ c[n + 1] = Effect(c[n], notifications_0001[n])
  BY ToTemplates, ToDeliveries
<1>3. c[1] = After(6) /\ c[2 + 1] = After(7)
  BY AfterIs
<1> HIDE DEF c
<1>4. Migrated(c[1], "notifications_0001") = Begun(c[2 + 1])
  BY <1>1, <1>2, Succeeds
<1> QED
  BY <1>3, <1>4

LEMMA Plan8 == Migrated(After(7), "notifications_0002") = Begun(After(8))
<1> DEFINE c == <<WithDeliveries(Rule2, Delivery1), WithDeliveries(Rule2, Delivery2),
                  WithDeliveries(Rule2, Delivery3), WithDeliveries(Rule2, Delivery4)>>
<1>1. /\ Operations["notifications_0002"] = notifications_0002
      /\ "notifications_0002" \in Migration /\ Len(notifications_0002) = 3
  BY DEF Operations, Migration, notifications_0002
<1>2. \A n \in 1 .. 3 : /\ Allowed(c[n], notifications_0002[n])
                        /\ c[n + 1] = Effect(c[n], notifications_0002[n])
  BY QueueIndexGone, PriorityGone, QueueIndexed
<1>3. c[1] = After(7) /\ c[3 + 1] = After(8)
  BY AfterIs
<1> HIDE DEF c
<1>4. Migrated(c[1], "notifications_0002") = Begun(c[3 + 1])
  BY <1>1, <1>2, Succeeds
<1> QED
  BY <1>3, <1>4

LEMMA Plan9 == Migrated(After(8), "notifications_0003") = Begun(After(9))
<1>1. /\ Operations["notifications_0003"] = notifications_0003
      /\ "notifications_0003" \in Migration /\ Len(notifications_0003) = 1
  BY DEF Operations, Migration, notifications_0003
<1> QED
  BY <1>1, OneStep, RecipientRenamed, AfterIs

LEMMA Plan10 == Migrated(After(9), "rules_0003") = Begun(After(10))
<1>1. /\ Operations["rules_0003"] = rules_0003 /\ "rules_0003" \in Migration
      /\ Len(rules_0003) = 1
  BY DEF Operations, Migration, rules_0003
<1> QED
  BY <1>1, OneStep, CooldownGone, AfterIs

LEMMA Plan11 == Migrated(After(10), "telemetry_0001") = Begun(After(11))
<1>1. /\ Operations["telemetry_0001"] = telemetry_0001 /\ "telemetry_0001" \in Migration
      /\ Len(telemetry_0001) = 1
  BY DEF Operations, Migration, telemetry_0001
<1> QED
  BY <1>1, OneStep, ToTelemetry, AfterIs

LEMMA PlanSucceeds ==
  \A n \in 1 .. 11 : Migrated(After(n - 1), Order[n]) = Begun(After(n))
<1>1. Migrated(After(5), "events_0003") = Begun(After(6))
  BY NoOperations, AfterIs
<1> QED
  BY <1>1, Plan1, Plan2, Plan3, Plan4, Plan5, Plan7, Plan8, Plan9, Plan10, Plan11 DEF Order

(* There are eleven migrations.                                            *)
LEMMA Eleven == Cardinality(Migration) = 11
<1> DEFINE f == [n \in 1 .. 11 |-> Order[n]]
<1>1. f \in [1 .. 11 -> Migration]
  BY OrderIs
<1>2. \A a, b \in 1 .. 11 : f[a] = f[b] => a = b
  BY OrderIs
<1>3. \A m \in Migration : \E n \in 1 .. 11 : f[n] = m
  BY OrderIs
<1> HIDE DEF f
<1>4. f \in Bijection(1 .. 11, Migration)
  BY <1>1, <1>2, <1>3 DEF Bijection, Injection, Surjection, IsInjective
<1> QED
  BY <1>4, FS_CountingElements DEF ExistsBijection

(* The recursion of Planned is that of After.                              *)
LEMMA PlannedIs ==
  /\ DOMAIN Planned = 0 .. 11
  /\ \A n \in 0 .. 11 : Planned[n] = After(n)
<1> DEFINE Body(f) ==
      [n \in 0 .. Cardinality(Migration) |->
         IF n = 0 THEN NoSchema
                  ELSE Migrated(f[n - 1], CHOOSE m \in Migration : Rank[m] = n).schema]
    g == [n \in 0 .. 11 |-> After(n)]
<1>1. \A n \in 1 .. 11 : (CHOOSE m \in Migration : Rank[m] = n) = Order[n]
  BY OrderIs
<1>2. ASSUME NEW n \in 0 .. 11
      PROVE  After(n) = IF n = 0 THEN NoSchema
               ELSE Migrated(g[n - 1], CHOOSE m \in Migration : Rank[m] = n).schema
  <2>1. CASE n = 0
    BY <2>1, AfterIs
  <2>2. CASE n # 0
    <3>1. n \in 1 .. 11 /\ n - 1 \in 0 .. 11
      BY <2>2
    <3>2. g[n - 1] = After(n - 1)
      BY <3>1
    <3>3. Migrated(After(n - 1), Order[n]).schema = After(n)
      BY <3>1, PlanSucceeds DEF Begun
    <3> QED
      BY <1>1, <2>2, <3>1, <3>2, <3>3
  <2> QED
    BY <2>1, <2>2
<1>3. g = Body(g)
  BY <1>2, Eleven
<1>4. Planned = CHOOSE f : f = Body(f)
  BY DEF Planned
<1>5. Planned = Body(Planned)
  <2> HIDE DEF g, Body
  <2> QED
    BY <1>3, <1>4
<1>6. /\ DOMAIN Planned = 0 .. 11 /\ Planned[0] = NoSchema
      /\ \A n \in 1 .. 11 : Planned[n] = Migrated(Planned[n - 1], Order[n]).schema
  <2>1. \A f : DOMAIN Body(f) = 0 .. 11 /\ Body(f)[0] = NoSchema
    BY Eleven
  <2>2. ASSUME NEW f, NEW n \in 1 .. 11
        PROVE  Body(f)[n] = Migrated(f[n - 1], Order[n]).schema
    <3>1. n \in 0 .. Cardinality(Migration) /\ n # 0
      BY Eleven
    <3>2. Body(f)[n] = Migrated(f[n - 1], CHOOSE m \in Migration : Rank[m] = n).schema
      BY <3>1
    <3>3. (CHOOSE m \in Migration : Rank[m] = n) = Order[n]
      BY <1>1
    <3> HIDE DEF Body
    <3> QED
      BY <3>2, <3>3
  <2> HIDE DEF g, Body
  <2> QED
    BY <1>5, <2>1, <2>2
<1>7. ASSUME NEW n \in 1 .. 11, Planned[n - 1] = After(n - 1) PROVE Planned[n] = After(n)
  BY <1>6, <1>7, PlanSucceeds DEF Begun
<1>8. Planned[0] = After(0)
  BY <1>6, AfterIs
<1> HIDE DEF g, Body
<1>9. Planned[1] = After(1)
  BY <1>7, <1>8
<1>10. Planned[2] = After(2)
  BY <1>7, <1>9
<1>11. Planned[3] = After(3)
  BY <1>7, <1>10
<1>12. Planned[4] = After(4)
  BY <1>7, <1>11
<1>13. Planned[5] = After(5)
  BY <1>7, <1>12
<1>14. Planned[6] = After(6)
  BY <1>7, <1>13
<1>15. Planned[7] = After(7)
  BY <1>7, <1>14
<1>16. Planned[8] = After(8)
  BY <1>7, <1>15
<1>17. Planned[9] = After(9)
  BY <1>7, <1>16
<1>18. Planned[10] = After(10)
  BY <1>7, <1>17
<1>19. Planned[11] = After(11)
  BY <1>7, <1>18
<1> QED
  BY <1>6, <1>8, <1>9, <1>10, <1>11, <1>12, <1>13, <1>14, <1>15, <1>16, <1>17, <1>18, <1>19

(* The tables of the plan, migration by migration.                         *)
LEMMA RulesAfter ==
  \A n \in 2 .. 11 :
    /\ "rules" \in DOMAIN After(n)
    /\ n = 2 => After(n)["rules"] = Rule1
    /\ n \in 3 .. 9 => After(n)["rules"] = Rule2
    /\ n \in 10 .. 11 => After(n)["rules"] = Rule
<1>1. \A r : "rules" \in DOMAIN WithRules(r) /\ WithRules(r)["rules"] = r
  BY DEF WithRules
<1>2. \A e : "rules" \in DOMAIN WithEvents(e) /\ WithEvents(e)["rules"] = Rule2
  BY DEF WithEvents
<1>3. \A r, d : "rules" \in DOMAIN WithDeliveries(r, d) /\ WithDeliveries(r, d)["rules"] = r
  BY DEF WithDeliveries
<1>4. "rules" \in DOMAIN Models /\ Models["rules"] = Rule
  BY DEF Models
<1> QED
  BY <1>1, <1>2, <1>3, <1>4, AfterIs

LEMMA EventsAfter ==
  \A n \in 4 .. 11 :
    /\ "events" \in DOMAIN After(n)
    /\ n = 4 => After(n)["events"] = Event1
    /\ n \in 5 .. 11 => After(n)["events"] = Event
<1>1. \A e : "events" \in DOMAIN WithEvents(e) /\ WithEvents(e)["events"] = e
  BY DEF WithEvents
<1>2. \A r, d : "events" \in DOMAIN WithDeliveries(r, d) /\ WithDeliveries(r, d)["events"] = Event
  BY DEF WithDeliveries
<1>3. "events" \in DOMAIN Models /\ Models["events"] = Event
  BY DEF Models
<1> QED
  BY <1>1, <1>2, <1>3, AfterIs

LEMMA DeliveriesAfter ==
  \A n \in 7 .. 11 :
    /\ "notification_templates" \in DOMAIN After(n)
    /\ "notification_deliveries" \in DOMAIN After(n)
    /\ n = 8 => After(n)["notification_deliveries"] = Delivery4
    /\ n \in 9 .. 11 => After(n)["notification_deliveries"] = NotificationDelivery
<1>1. \A r, d : /\ "notification_templates" \in DOMAIN WithDeliveries(r, d)
                /\ "notification_deliveries" \in DOMAIN WithDeliveries(r, d)
                /\ WithDeliveries(r, d)["notification_deliveries"] = d
  BY DEF WithDeliveries
<1>2. /\ "notification_templates" \in DOMAIN Models
      /\ "notification_deliveries" \in DOMAIN Models
      /\ Models["notification_deliveries"] = NotificationDelivery
  BY DEF Models
<1> QED
  BY <1>1, <1>2, AfterIs

LEMMA DeviceTypesAfter ==
  \A n \in 1 .. 11 : "device_types" \in DOMAIN After(n)
<1>1. \A r : "device_types" \in DOMAIN WithRules(r)
  BY DEF WithRules
<1>2. \A e : "device_types" \in DOMAIN WithEvents(e)
  BY DEF WithEvents
<1>3. \A r, d : "device_types" \in DOMAIN WithDeliveries(r, d)
  BY DEF WithDeliveries
<1>4. "device_types" \in DOMAIN Models
  BY DEF Models
<1>5. "device_types" \in DOMAIN After(1)
  BY AfterIs
<1> QED
  BY <1>1, <1>2, <1>3, <1>4, <1>5, AfterIs

(* What a migration takes away is not there any more.                      *)
LEMMA Gone ==
  /\ "operator" \notin Rule2.fields /\ "operator" \notin Rule.fields
  /\ "cooldown_minutes" \notin Rule.fields
  /\ "metadata" \notin Event.fields
  /\ "priority" \notin Delivery4.fields /\ "priority" \notin NotificationDelivery.fields
  /\ "recipient_type" \notin NotificationDelivery.fields
<1>1. "operator" \notin Rule.fields /\ "cooldown_minutes" \notin Rule.fields
  BY DEF Rule
<1>2. "operator" \notin Rule2.fields
  BY <1>1, TableParts DEF Rule2
<1>3. /\ "priority" \notin NotificationDelivery.fields
      /\ "recipient_type" \notin NotificationDelivery.fields
  BY DEF NotificationDelivery
<1>4. "priority" \notin Delivery4.fields
  BY <1>3, TableParts DEF Delivery4
<1>5. "metadata" \notin Event.fields
  BY DEF Event
<1> QED
  BY <1>1, <1>2, <1>3, <1>4, <1>5

(* What PostgreSQL refuses.                                                *)
LEMMA CreateRefused ==
  ASSUME NEW s, NEW o, o.kind = "CreateModel", o.table \in DOMAIN s
  PROVE  ~Allowed(s, o)
  BY DEF Allowed

LEMMA AlterRefused ==
  ASSUME NEW s, NEW o, o.table \in DOMAIN s,
         \/ o.kind = "RemoveField" /\ o.field \notin s[o.table].fields
         \/ o.kind = "RenameField" /\ o.old \notin s[o.table].fields
  PROVE  ~Allowed(s, o)
  BY DEF Allowed

(* Taking an index away does not bring a field back.                       *)
LEMMA StillRefused ==
  ASSUME NEW s, NEW o, NEW p, o.kind = "RemoveIndex", o.table \in DOMAIN s,
         p.kind = "RemoveField", p.table = o.table, p.field \notin s[o.table].fields
  PROVE  ~Allowed(Effect(s, o), p)
<1>1. Effect(s, o) = Put(s, o.table, Altered(s[o.table], o))
  BY Alters
<1>2. Altered(s[o.table], o).fields = s[o.table].fields
  BY TableParts DEF Altered
<1>3. p.table \in DOMAIN Effect(s, o) /\ p.field \notin Effect(s, o)[p.table].fields
  BY <1>1, <1>2 DEF Put
<1> QED
  BY <1>3, AlterRefused

(***************************************************************************)
(* A migration applied again is refused, or it has no operations.          *)
(***************************************************************************)
Repeats(k) ==
  \A n \in k .. 11 :
    ~Migrated(After(n), Order[k]).ok \/ Migrated(After(n), Order[k]) = Begun(After(n))

LEMMA Repeat1 == Repeats(1)
<1>1. /\ Order[1] = "devices_0001" /\ Operations["devices_0001"] = devices_0001
      /\ "devices_0001" \in Migration /\ Len(devices_0001) = 2
  BY DEF Order, Operations, Migration, devices_0001
<1>2. devices_0001[1].kind = "CreateModel" /\ devices_0001[1].table = "device_types"
  BY DEF devices_0001, CreateModel
<1>3. \A n \in 1 .. 11 : ~Allowed(After(n), devices_0001[1])
  BY <1>2, DeviceTypesAfter, CreateRefused
<1> QED
  BY <1>1, <1>3, RefusedFirst DEF Repeats

LEMMA Repeat2 == Repeats(2)
<1>1. /\ Order[2] = "rules_0001" /\ Operations["rules_0001"] = rules_0001
      /\ "rules_0001" \in Migration /\ Len(rules_0001) = 1
  BY DEF Order, Operations, Migration, rules_0001
<1>2. rules_0001[1].kind = "CreateModel" /\ rules_0001[1].table = "rules"
  BY DEF rules_0001, CreateModel
<1>3. \A n \in 2 .. 11 : ~Allowed(After(n), rules_0001[1])
  BY <1>2, RulesAfter, CreateRefused
<1> QED
  BY <1>1, <1>3, RefusedFirst DEF Repeats

LEMMA Repeat3 == Repeats(3)
<1>1. /\ Order[3] = "rules_0002" /\ Operations["rules_0002"] = rules_0002
      /\ "rules_0002" \in Migration /\ Len(rules_0002) = 1
  BY DEF Order, Operations, Migration, rules_0002
<1>2. /\ rules_0002[1].kind = "RenameField" /\ rules_0002[1].table = "rules"
      /\ rules_0002[1].old = "operator"
  BY DEF rules_0002, RenameField
<1>3. \A n \in 3 .. 11 : "rules" \in DOMAIN After(n) /\ "operator" \notin After(n)["rules"].fields
  BY RulesAfter, Gone
<1>4. \A n \in 3 .. 11 : ~Allowed(After(n), rules_0002[1])
  BY <1>2, <1>3, AlterRefused
<1> QED
  BY <1>1, <1>4, RefusedFirst DEF Repeats

LEMMA Repeat4 == Repeats(4)
<1>1. /\ Order[4] = "events_0001" /\ Operations["events_0001"] = events_0001
      /\ "events_0001" \in Migration /\ Len(events_0001) = 1
  BY DEF Order, Operations, Migration, events_0001
<1>2. events_0001[1].kind = "CreateModel" /\ events_0001[1].table = "events"
  BY DEF events_0001, CreateModel
<1>3. \A n \in 4 .. 11 : ~Allowed(After(n), events_0001[1])
  BY <1>2, EventsAfter, CreateRefused
<1> QED
  BY <1>1, <1>3, RefusedFirst DEF Repeats

(* The index it takes away need not be there; the first field must.        *)
LEMMA Repeat5 == Repeats(5)
<1>1. /\ Order[5] = "events_0002" /\ Operations["events_0002"] = events_0002
      /\ "events_0002" \in Migration /\ Len(events_0002) = 5
  BY DEF Order, Operations, Migration, events_0002
<1>2. /\ events_0002[1].kind = "RemoveIndex" /\ events_0002[1].table = "events"
      /\ events_0002[2].kind = "RemoveField" /\ events_0002[2].table = "events"
      /\ events_0002[2].field = "metadata"
  BY DEF events_0002, RemoveIndex, RemoveField
<1>3. \A n \in 5 .. 11 : "events" \in DOMAIN After(n) /\ "metadata" \notin After(n)["events"].fields
  BY EventsAfter, Gone
<1>4. \A n \in 5 .. 11 : ~Allowed(Effect(After(n), events_0002[1]), events_0002[2])
  BY <1>2, <1>3, StillRefused
<1> QED
  BY <1>1, <1>4, RefusedSecond DEF Repeats

LEMMA Repeat6 == Repeats(6)
<1>1. Order[6] = "events_0003"
  BY DEF Order
<1> QED
  BY <1>1, NoOperations DEF Repeats

LEMMA Repeat7 == Repeats(7)
<1>1. /\ Order[7] = "notifications_0001"
      /\ Operations["notifications_0001"] = notifications_0001
      /\ "notifications_0001" \in Migration /\ Len(notifications_0001) = 2
  BY DEF Order, Operations, Migration, notifications_0001
<1>2. /\ notifications_0001[1].kind = "CreateModel"
      /\ notifications_0001[1].table = "notification_templates"
  BY DEF notifications_0001, CreateModel
<1>3. \A n \in 7 .. 11 : ~Allowed(After(n), notifications_0001[1])
  BY <1>2, DeliveriesAfter, CreateRefused
<1> QED
  BY <1>1, <1>3, RefusedFirst DEF Repeats

(* The index it takes away is there again; the field is not.               *)
LEMMA Repeat8 == Repeats(8)
<1>1. /\ Order[8] = "notifications_0002"
      /\ Operations["notifications_0002"] = notifications_0002
      /\ "notifications_0002" \in Migration /\ Len(notifications_0002) = 3
  BY DEF Order, Operations, Migration, notifications_0002
<1> DEFINE o == notifications_0002[1]
           d == "notification_deliveries"
<1>2. o.kind = "RemoveIndex" /\ o.table = d
  BY DEF notifications_0002, RemoveIndex
<1>3. /\ notifications_0002[2].kind = "RemoveField" /\ notifications_0002[2].table = d
      /\ notifications_0002[2].field = "priority"
  BY DEF notifications_0002, RemoveField
<1>4. \A n \in 8 .. 11 : d \in DOMAIN After(n) /\ "priority" \notin After(n)[d].fields
  BY DeliveriesAfter, Gone
<1>5. \A n \in 8 .. 11 : ~Allowed(Effect(After(n), o), notifications_0002[2])
  BY <1>2, <1>3, <1>4, StillRefused
<1> QED
  BY <1>1, <1>5, RefusedSecond DEF Repeats

LEMMA Repeat9 == Repeats(9)
<1>1. /\ Order[9] = "notifications_0003"
      /\ Operations["notifications_0003"] = notifications_0003
      /\ "notifications_0003" \in Migration /\ Len(notifications_0003) = 1
  BY DEF Order, Operations, Migration, notifications_0003
<1>2. /\ notifications_0003[1].kind = "RenameField"
      /\ notifications_0003[1].table = "notification_deliveries"
      /\ notifications_0003[1].old = "recipient_type"
  BY DEF notifications_0003, RenameField
<1>3. \A n \in 9 .. 11 : /\ "notification_deliveries" \in DOMAIN After(n)
                         /\ "recipient_type" \notin After(n)["notification_deliveries"].fields
  BY DeliveriesAfter, Gone
<1>4. \A n \in 9 .. 11 : ~Allowed(After(n), notifications_0003[1])
  BY <1>2, <1>3, AlterRefused
<1> QED
  BY <1>1, <1>4, RefusedFirst DEF Repeats

LEMMA Repeat10 == Repeats(10)
<1>1. /\ Order[10] = "rules_0003" /\ Operations["rules_0003"] = rules_0003
      /\ "rules_0003" \in Migration /\ Len(rules_0003) = 1
  BY DEF Order, Operations, Migration, rules_0003
<1>2. /\ rules_0003[1].kind = "RemoveField" /\ rules_0003[1].table = "rules"
      /\ rules_0003[1].field = "cooldown_minutes"
  BY DEF rules_0003, RemoveField
<1>3. \A n \in 10 .. 11 : /\ "rules" \in DOMAIN After(n)
                          /\ "cooldown_minutes" \notin After(n)["rules"].fields
  BY RulesAfter, Gone
<1>4. \A n \in 10 .. 11 : ~Allowed(After(n), rules_0003[1])
  BY <1>2, <1>3, AlterRefused
<1> QED
  BY <1>1, <1>4, RefusedFirst DEF Repeats

LEMMA Repeat11 == Repeats(11)
<1>1. /\ Order[11] = "telemetry_0001" /\ Operations["telemetry_0001"] = telemetry_0001
      /\ "telemetry_0001" \in Migration /\ Len(telemetry_0001) = 1
  BY DEF Order, Operations, Migration, telemetry_0001
<1>2. telemetry_0001[1].kind = "CreateModel" /\ telemetry_0001[1].table = "telemetry"
  BY DEF telemetry_0001, CreateModel
<1>3. "telemetry" \in DOMAIN After(11)
  BY AfterIs DEF Models
<1>4. \A n \in 11 .. 11 : ~Allowed(After(n), telemetry_0001[1])
  BY <1>2, <1>3, CreateRefused
<1> QED
  BY <1>1, <1>4, RefusedFirst DEF Repeats

LEMMA RepeatIsVain == \A k \in 1 .. 11 : Repeats(k)
  BY Repeat1, Repeat2, Repeat3, Repeat4, Repeat5, Repeat6, Repeat7, Repeat8, Repeat9,
     Repeat10, Repeat11

(***************************************************************************)
(* What a migration makes of the n-th schema of the plan: nothing if it    *)
(* has been applied, the next schema if it is the next one.                *)
(***************************************************************************)
THEOREM AppliedToPlan ==
  ASSUME NEW n \in 0 .. 11, NEW m \in Migration
  PROVE  /\ Rank[m] \in 1 .. 11
         /\ Rank[m] <= n => \/ ~Migrated(Planned[n], m).ok
                            \/ Migrated(Planned[n], m) = Begun(Planned[n])
         /\ Rank[m] = n + 1 => /\ n + 1 \in DOMAIN Planned
                               /\ Migrated(Planned[n], m) = Begun(Planned[n + 1])
<1>1. Rank[m] \in 1 .. 11 /\ Order[Rank[m]] = m /\ Planned[n] = After(n)
  BY OrderIs, PlannedIs
<1>2. CASE Rank[m] <= n
  <2>1. Repeats(Rank[m]) /\ n \in Rank[m] .. 11
    BY <1>1, <1>2, RepeatIsVain
  <2> QED
    BY <1>1, <1>2, <2>1 DEF Repeats
<1>3. CASE Rank[m] = n + 1
  <2>1. n + 1 \in 1 .. 11 /\ (n + 1) - 1 = n
    BY <1>1, <1>3
  <2>2. Migrated(After(n), m) = Begun(After(n + 1))
    BY <1>1, <1>3, <2>1, PlanSucceeds
  <2> QED
    BY <1>1, <1>3, <2>1, <2>2, PlannedIs
<1> QED
  BY <1>1, <1>2, <1>3

(***************************************************************************)
(* The plan leads from the empty schema to the schema of the models, and   *)
(* no migration of it is refused on the way.                               *)
(***************************************************************************)
THEOREM PlanLeadsToModels ==
  /\ Planned[0] = NoSchema /\ Planned[Cardinality(Migration)] = Models
  /\ \A m \in Migration : Migrated(Planned[Rank[m] - 1], m) = Begun(Planned[Rank[m]])
<1>1. Planned[0] = NoSchema /\ Planned[Cardinality(Migration)] = Models
  BY Eleven, PlannedIs, AfterIs
<1>2. ASSUME NEW m \in Migration
      PROVE  Migrated(Planned[Rank[m] - 1], m) = Begun(Planned[Rank[m]])
  <2>1. Rank[m] - 1 \in 0 .. 11 /\ Rank[m] = (Rank[m] - 1) + 1
    BY OrderIs
  <2> QED
    BY <2>1, AppliedToPlan
<1> QED
  BY <1>1, <1>2

(***************************************************************************)
(* 2. The inductive invariant.                                             *)
(***************************************************************************)

(* Numbers add up to numbers.                                              *)
LEMMA SumIsNat == \A a, b, c \in Nat : a + b + c \in Nat /\ a + 1 \in Nat
  OBVIOUS

(* What follows of the stopwatch once the deadline has passed.             *)
LEMMA PastDeadline ==
  \A e, r, l, s, d \in Nat :
    e >= d => (d # 0 => e # 0) /\ (e <= r + l + s => r + l + s >= d)
  OBVIOUS

(* Places in the plan are numbers.                                         *)
LEMMA RankType == \A m \in Migration : Rank[m] \in Nat
  BY DEF Rank, Migration, Operations

(* The next sleep is a number, and not above the cap.                      *)
LEMMA NextSleepType ==
  ASSUME NEW sleep \in Nat
  PROVE  NextSleep(sleep) \in Nat /\ NextSleep(sleep) <= MaxSleep
<1>1. (sleep * 3) \div 2 \in Nat
  OBVIOUS
<1> QED
  BY <1>1, WaitConstants DEF NextSleep

LEMMA InitIInv == Init => IInv
<1> SUFFICES ASSUME Init PROVE IInv
  OBVIOUS
<1>1. Stopped \in [elapsed : Nat, sleep : Nat, refusedAt : Nat] /\ Stopped.sleep <= MaxSleep
  BY WaitConstants DEF Stopped
<1>2. TypeOK
  BY <1>1 DEF Init, TypeOK, NotRunning, Place
<1>3. \A p \in Process : WatchSound(p) /\ stage[p] = "idle"
  BY <1>1 DEF Init, WatchSound, Stopped
<1>4. \A p \in Migrator : PlanSound(p)
  BY DEF Init, PlanSound, Process
<1> QED
  BY <1>2, <1>3, <1>4 DEF Init, IInv

(***************************************************************************)
(* The types are kept.                                                     *)
(***************************************************************************)
LEMMA EndType ==
  ASSUME TypeOK, NEW p \in Migrator, End(p, "failed")
  PROVE  /\ stage' \in [Process -> {"idle", "waiting", "gave up", "running", "migrating",
                                    "done", "failed"}]
         /\ todo' \in [Migrator -> SUBSET Migration]
         /\ owes' \in [Migrator -> SUBSET Migration]
         /\ lost' \in BOOLEAN
<1>1. lost' \in BOOLEAN
  BY DEF End
<1> QED
  BY <1>1 DEF TypeOK, End, Process

LEMMA TypeStep == TypeOK /\ [Next]_vars => TypeOK'
<1> SUFFICES ASSUME TypeOK, [Next]_vars PROVE TypeOK'
  OBVIOUS
<1> USE DEF TypeOK, database, processes, Process
<1>1. CASE Initialised
  BY <1>1 DEF Initialised
<1>2. CASE Crash
  <2>1. lost' \in BOOLEAN
    BY <1>2 DEF Crash
  <2> QED
    BY <1>2, <2>1 DEF Crash
<1>3. CASE Restart
  BY <1>3 DEF Restart
<1>4. CASE HealthCheck
  BY <1>4 DEF HealthCheck
<1>5. Stopped \in [elapsed : Nat, sleep : Nat, refusedAt : Nat]
  BY WaitConstants DEF Stopped
<1>6. ASSUME NEW p \in Process, Start(p) PROVE TypeOK'
  BY <1>5, <1>6 DEF Start, Launch
<1>7. ASSUME NEW p \in Process, Ready(p) PROVE TypeOK'
  BY <1>5, <1>7 DEF Ready
<1>8. ASSUME NEW p \in Process, Retry(p) PROVE TypeOK'
  <2>1. PICK l \in Latency :
          watch' = [watch EXCEPT ![p] = [elapsed |-> @.elapsed + l + @.sleep,
                                         sleep |-> NextSleep(@.sleep),
                                         refusedAt |-> @.elapsed]]
    BY <1>8 DEF Retry
  <2>2. l \in Nat /\ watch[p].elapsed \in Nat /\ watch[p].sleep \in Nat
    BY WaitConstants
  <2>3. [elapsed |-> watch[p].elapsed + l + watch[p].sleep,
         sleep |-> NextSleep(watch[p].sleep),
         refusedAt |-> watch[p].elapsed] \in [elapsed : Nat, sleep : Nat, refusedAt : Nat]
    <3>1. NextSleep(watch[p].sleep) \in Nat
      BY <2>2, NextSleepType
    <3>2. watch[p].elapsed + l + watch[p].sleep \in Nat
      BY <2>2, SumIsNat
    <3> QED
      BY <2>2, <3>1, <3>2
  <2>4. watch' \in [Process -> [elapsed : Nat, sleep : Nat, refusedAt : Nat]]
    BY <2>1, <2>3
  <2> QED
    BY <1>8, <2>4 DEF Retry
<1>9. ASSUME NEW p \in Process, GiveUp(p) PROVE TypeOK'
  BY <1>9 DEF GiveUp
<1>10. ASSUME NEW s \in Service, Open(s) \/ Close(s) PROVE TypeOK'
  BY <1>10 DEF Open, Close
<1>11. ASSUME NEW p \in Migrator, Load(p) PROVE TypeOK'
  <2>1. \/ stage' = [stage EXCEPT ![p] = "migrating"]
        \/ stage' = [stage EXCEPT ![p] = "failed"]
    BY <1>11 DEF Load
  <2>2. \/ todo' = [todo EXCEPT ![p] = Migration \ recorded]
        \/ todo' = todo
    BY <1>11 DEF Load
  <2>3. UNCHANGED <<server, healthy, database, watch, owes, connected, script>>
    BY <1>11 DEF Load
  <2>4. stage' \in [Process -> {"idle", "waiting", "gave up", "running", "migrating", "done",
                                "failed"}]
    BY <2>1
  <2>5. todo' \in [Migrator -> SUBSET Migration]
    BY <2>2
  <2> QED
    BY <2>3, <2>4, <2>5
<1>12. ASSUME NEW p \in Migrator, NEW m \in Migration, Apply(p, m) PROVE TypeOK'
  <2>1. todo' \in [Migrator -> SUBSET Migration]
    BY <1>12 DEF Apply
  <2>2. owes' \in [Migrator -> SUBSET Migration]
    <3>1. owes' = owes \/ owes' = [owes EXCEPT ![p] = {m}]
      BY <1>12 DEF Apply
    <3>2. CASE owes' = owes
      BY <3>2
    <3>3. CASE owes' = [owes EXCEPT ![p] = {m}]
      BY <3>3
    <3> QED
      BY <3>1, <3>2, <3>3
  <2>3. recorded' \subseteq Migration
    BY <1>12 DEF Apply
  <2> QED
    BY <1>12, <2>1, <2>2, <2>3 DEF Apply
<1>13. ASSUME NEW p \in Migrator, Record(p) PROVE TypeOK'
  BY <1>13 DEF Record
<1>14. ASSUME NEW p \in Migrator, NEW m \in Migration, Refused(p, m) PROVE TypeOK'
  BY <1>14, EndType DEF Refused
<1>15. ASSUME NEW p \in Migrator, Finish(p) PROVE TypeOK'
  BY <1>15 DEF Finish
<1>16. ASSUME NEW p \in Migrator, Kill(p) PROVE TypeOK'
  BY <1>16, EndType DEF Kill
<1>17. CASE Reset
  BY <1>17 DEF Reset, Place
<1>18. CASE ResetWait
  <2>1. script.attempts + 1 \in Nat
    BY SumIsNat
  <2>2. script' \in {[script EXCEPT !.at = "name?"], [script EXCEPT !.at = "failed"],
                     [script EXCEPT !.attempts = script.attempts + 1]}
    BY <1>18 DEF ResetWait, GoTo
  <2> QED
    BY <1>18, <2>1, <2>2 DEF ResetWait, Place
<1>25. CASE ResetName
  <2>1. script' \in {[script EXCEPT !.at = "drop", !.name = DbName],
                     [script EXCEPT !.at = "drop", !.name = DefaultName]}
    BY <1>25 DEF ResetName
  <2> QED
    BY <1>25, <2>1 DEF ResetName, Place
<1>19. CASE ResetDrop
  <2>1. CASE script' = [script EXCEPT !.at = "create"] /\ DropDatabase
    BY <1>19, <2>1 DEF ResetDrop, DropDatabase, Place
  <2>2. CASE script' \in {[script EXCEPT !.at = "failed"], [script EXCEPT !.at = "create"]}
             /\ UNCHANGED database
    BY <1>19, <2>2 DEF ResetDrop, Place
  <2>3. \/ GoTo("create") /\ (DropDatabase \/ UNCHANGED database)
        \/ OnError("create") /\ UNCHANGED database
    BY <1>19 DEF ResetDrop
  <2> QED
    BY <2>1, <2>2, <2>3 DEF GoTo, OnError
<1>20. CASE ResetCreate
  <2>1. script' \in {[script EXCEPT !.at = "run"], [script EXCEPT !.at = "failed"]}
    BY <1>20 DEF ResetCreate, GoTo, OnError
  <2>2. exists' \in BOOLEAN
    BY <1>20 DEF ResetCreate
  <2> QED
    BY <1>20, <2>1, <2>2 DEF ResetCreate, Place
<1>21. ASSUME NEW p \in Migrator, ResetRun(p) PROVE TypeOK'
  BY <1>5, <1>21 DEF ResetRun, Launch, Place
<1>22. CASE ResetEnd
  BY <1>22 DEF ResetEnd, Place
<1>23. CASE ResetKilled
  BY <1>23 DEF ResetKilled, Place
<1>24. CASE UNCHANGED vars
  BY <1>24 DEF vars
<1> QED
  BY <1>1, <1>2, <1>3, <1>4, <1>6, <1>7, <1>8, <1>9, <1>10, <1>11, <1>12, <1>13, <1>14, <1>15,
     <1>16, <1>17, <1>18, <1>19, <1>20, <1>21, <1>22, <1>23, <1>24, <1>25
     DEF Next, Migrates, ResetGoesOn

(***************************************************************************)
(* The stopwatches.                                                        *)
(***************************************************************************)
Waits(p) == WatchSound(p) /\ (stage[p] = "gave up" => watch[p].elapsed >= Deadline)

LEMMA FreshWatch ==
  ASSUME NEW p \in Process, watch'[p] = Stopped, stage'[p] # "gave up"
  PROVE  Waits(p)'
<1>1. Stopped.sleep = FirstSleep /\ Stopped.elapsed = 0
  BY DEF Stopped
<1>2. Stopped.sleep <= MaxSleep
  BY <1>1, WaitConstants
<1> QED
  BY <1>1, <1>2 DEF Waits, WatchSound

LEMMA SameWatch ==
  ASSUME NEW p \in Process, Waits(p), watch'[p] = watch[p],
         stage'[p] = "gave up" => stage[p] = "gave up"
  PROVE  Waits(p)'
  BY DEF Waits, WatchSound

LEMMA WaitStep ==
  ASSUME TypeOK, [Next]_vars, NEW p \in Process, Waits(p)
  PROVE  Waits(p)'
<1>0. stage \in [Process -> {"idle", "waiting", "gave up", "running", "migrating", "done", "failed"}]
      /\ watch \in [Process -> [elapsed : Nat, sleep : Nat, refusedAt : Nat]]
      /\ Migrator \subseteq Process /\ Service \subseteq Process
  BY DEF TypeOK, Process
<1>1. CASE UNCHANGED <<stage, watch>>
  BY <1>1, SameWatch
<1>2. CASE Crash
  BY <1>0, <1>2, SameWatch DEF Crash
<1>3. ASSUME NEW q \in Process, Launch(q) PROVE Waits(p)'
  <2>1. CASE q = p
    BY <1>0, <1>3, <2>1, FreshWatch DEF Launch
  <2>2. CASE q # p
    BY <1>0, <1>3, <2>2, SameWatch DEF Launch
  <2> QED
    BY <2>1, <2>2
<1>4. ASSUME NEW q \in Process, Ready(q) PROVE Waits(p)'
  <2>1. CASE q = p
    BY <1>0, <1>4, <2>1, FreshWatch DEF Ready
  <2>2. CASE q # p
    BY <1>0, <1>4, <2>2, SameWatch DEF Ready
  <2> QED
    BY <2>1, <2>2
<1>5. ASSUME NEW q \in Process, Retry(q) PROVE Waits(p)'
  <2>1. CASE q = p
    <3>1. PICK l \in Latency :
            watch' = [watch EXCEPT ![q] = [elapsed |-> @.elapsed + l + @.sleep,
                                           sleep |-> NextSleep(@.sleep),
                                           refusedAt |-> @.elapsed]]
      BY <1>5 DEF Retry
    <3>2. watch'[p] = [elapsed |-> watch[p].elapsed + l + watch[p].sleep,
                       sleep |-> NextSleep(watch[p].sleep),
                       refusedAt |-> watch[p].elapsed]
      BY <1>0, <2>1, <3>1
    <3>3. l \in Nat /\ watch[p].elapsed \in Nat /\ watch[p].sleep \in Nat
      BY <1>0, WaitConstants
    <3>4. watch[p].elapsed < Deadline /\ stage' = stage /\ stage[p] = "waiting"
      BY <1>5, <2>1 DEF Retry
    <3>5. watch[p].sleep <= MaxSleep
      BY DEF Waits, WatchSound
    <3>6. watch'[p].sleep <= MaxSleep
      BY <3>2, <3>3, NextSleepType
    <3>7. watch'[p].refusedAt < Deadline
      BY <3>2, <3>4
    <3>8. watch'[p].elapsed <= watch'[p].refusedAt + l + MaxSleep
      BY <3>2, <3>3, <3>5, WaitConstants
    <3> QED
      BY <3>4, <3>6, <3>7, <3>8 DEF Waits, WatchSound
  <2>2. CASE q # p
    BY <1>0, <1>5, <2>2, SameWatch DEF Retry
  <2> QED
    BY <2>1, <2>2
<1>6. ASSUME NEW q \in Process, GiveUp(q) PROVE Waits(p)'
  <2>1. CASE q = p
    BY <1>0, <1>6, <2>1 DEF GiveUp, Waits, WatchSound
  <2>2. CASE q # p
    BY <1>0, <1>6, <2>2, SameWatch DEF GiveUp
  <2> QED
    BY <2>1, <2>2
<1>7. ASSUME NEW q \in Migrator, NEW m \in Migration,
             Load(q) \/ Finish(q) \/ Refused(q, m) \/ Kill(q)
      PROVE  Waits(p)'
  BY <1>0, <1>7, SameWatch DEF Load, Finish, Refused, Kill, End
<1>8. ASSUME NEW q \in Migrator, NEW m \in Migration, Apply(q, m) \/ Record(q)
      PROVE  UNCHANGED <<stage, watch>>
  BY <1>8 DEF Apply, Record
<1>9. ASSUME NEW s \in Service, Open(s) \/ Close(s) PROVE UNCHANGED <<stage, watch>>
  BY <1>9 DEF Open, Close
<1>10. ASSUME Initialised \/ Restart \/ HealthCheck \/ Reset \/ ResetGoesOn \/ ResetKilled
              \/ UNCHANGED vars
       PROVE  UNCHANGED <<stage, watch>>
  BY <1>10 DEF Initialised, Restart, HealthCheck, Reset, ResetGoesOn, ResetWait, ResetName, ResetDrop,
               ResetCreate, ResetEnd, ResetKilled, vars, database, processes
<1>11. ASSUME NEW q \in Process, Start(q) PROVE Waits(p)'
  BY <1>3, <1>11 DEF Start
<1>12. ASSUME NEW q \in Migrator, ResetRun(q) PROVE Waits(p)'
  BY <1>0, <1>3, <1>12 DEF ResetRun
<1>13. Migration # {}
  BY DEF Migration, Operations
<1> QED
  BY <1>1, <1>2, <1>4, <1>5, <1>6, <1>7, <1>8, <1>9, <1>10, <1>11, <1>12, <1>13
     DEF Next, Migrates

(***************************************************************************)
(* The plans, the record and the connections.                              *)
(***************************************************************************)
Closed(set) == \A m \in set : \A k \in Migration : Rank[k] < Rank[m] => k \in set

Plans ==
  /\ \A p \in Migrator : PlanSound(p)
  /\ Closed(recorded)
  /\ connected # {} => server = "up" /\ exists

\* Plans speaks of these variables only, and of the migrates at work.
LEMMA PlansKept ==
  ASSUME Plans, recorded' = recorded, todo' = todo, owes' = owes, exists' = exists,
         connected' = connected, server = "up" => server' = "up",
         \A p \in Migrator : stage'[p] = "migrating" <=> stage[p] = "migrating"
  PROVE  Plans'
  BY DEF Plans, PlanSound, Closed

\* The migrations ahead of the first of a plan are recorded.
LEMMA FirstIsNext ==
  ASSUME NEW p \in Migrator, NEW m \in Migration, PlanSound(p),
         stage[p] = "migrating", owes[p] = {}, First(m, todo[p])
  PROVE  \A k \in Migration : Rank[k] < Rank[m] => k \in recorded
  BY RankType DEF PlanSound, First

LEMMA PlansStep == TypeOK /\ Plans /\ [Next]_vars => Plans'
<1> SUFFICES ASSUME TypeOK, Plans, [Next]_vars PROVE Plans'
  OBVIOUS
<1>0. /\ DOMAIN stage = Process /\ DOMAIN todo = Migrator /\ DOMAIN owes = Migrator
      /\ Migrator \subseteq Process /\ Service \subseteq Process
      /\ recorded \subseteq Migration
      /\ owes \in [Migrator -> SUBSET Migration] /\ todo \in [Migrator -> SUBSET Migration]
  BY DEF TypeOK, Process
<1>1. \A p \in Migrator : PlanSound(p)
  BY DEF Plans
<1>2. CASE Crash
  BY <1>0, <1>2 DEF Crash, Plans, PlanSound, Closed
<1>3. CASE Initialised \/ Restart \/ HealthCheck \/ Reset \/ ResetWait \/ ResetName \/ ResetEnd \/ ResetKilled
             \/ UNCHANGED vars
  <2>1. /\ UNCHANGED <<recorded, todo, owes, exists, connected, stage>>
        /\ server = "up" => server' = "up"
    BY <1>3 DEF Initialised, Restart, HealthCheck, Reset, ResetWait, ResetName, ResetEnd, ResetKilled,
                vars, database, processes
  <2> QED
    BY <2>1, PlansKept
<1>4. ASSUME NEW p \in Process, Start(p) \/ Ready(p) \/ Retry(p) \/ GiveUp(p) PROVE Plans'
  <2>1. UNCHANGED <<server, recorded, todo, owes, exists, connected>>
    BY <1>4 DEF Start, Ready, Retry, GiveUp, database
  <2>2. \A q \in Migrator : stage'[q] = "migrating" <=> stage[q] = "migrating"
    BY <1>0, <1>4 DEF Start, Launch, Ready, Retry, GiveUp, Active
  <2> QED
    BY <2>1, <2>2, PlansKept
<1>5. ASSUME NEW s \in Service, Open(s) \/ Close(s) PROVE Plans'
  <2>1. UNCHANGED <<server, recorded, todo, owes, exists, stage>>
    BY <1>5 DEF Open, Close, database
  <2>2. connected' # {} => server = "up" /\ exists
    BY <1>5 DEF Open, Close, Connects, Plans
  <2> QED
    BY <2>1, <2>2 DEF Plans, PlanSound, Closed
<1>6. ASSUME NEW p \in Migrator, Load(p) PROVE Plans'
  <2>1. UNCHANGED <<server, recorded, owes, exists, connected>> /\ stage[p] = "running"
    BY <1>6 DEF Load, database
  <2>2. CASE Connects
    <3>1. stage' = [stage EXCEPT ![p] = "migrating"] /\ todo' = [todo EXCEPT ![p] = Migration \ recorded]
      BY <1>6, <2>2 DEF Load
    <3>2. PlanSound(p)'
      BY <1>0, <1>1, <2>1, <2>2, <3>1 DEF Connects, PlanSound
    <3>3. \A q \in Migrator \ {p} : PlanSound(q)'
      BY <1>0, <1>1, <2>1, <3>1 DEF PlanSound
    <3> QED
      BY <2>1, <3>2, <3>3 DEF Plans, Closed
  <2>3. CASE ~Connects
    <3>1. stage' = [stage EXCEPT ![p] = "failed"] /\ todo' = todo
      BY <1>6, <2>3 DEF Load
    <3>2. \A q \in Migrator : stage'[q] = "migrating" <=> stage[q] = "migrating"
      BY <1>0, <2>1, <3>1
    <3> QED
      BY <2>1, <3>1, <3>2, PlansKept
  <2> QED
    BY <2>2, <2>3
<1>7. ASSUME NEW p \in Migrator, NEW m \in Migration, Apply(p, m) PROVE Plans'
  <2>1. /\ UNCHANGED <<server, exists, connected, stage>>
        /\ stage[p] = "migrating" /\ owes[p] = {} /\ First(m, todo[p])
        /\ todo' = [todo EXCEPT ![p] = @ \ {m}]
    BY <1>7 DEF Apply
  <2>2. \A k \in Migration : Rank[k] < Rank[m] => k \in recorded
    BY <1>1, <2>1, FirstIsNext
  <2>3. CASE m \in RecordedApart
    <3>1. owes' = [owes EXCEPT ![p] = {m}] /\ recorded' = recorded
      BY <1>7, <2>3 DEF Apply
    <3>2. PlanSound(p)'
      BY <1>0, <1>1, <2>1, <2>2, <3>1 DEF PlanSound
    <3>3. \A q \in Migrator \ {p} : PlanSound(q)'
      BY <1>0, <1>1, <2>1, <3>1 DEF PlanSound
    <3> QED
      BY <2>1, <3>1, <3>2, <3>3 DEF Plans, Closed
  <2>4. CASE m \notin RecordedApart
    <3>1. recorded' = recorded \cup {m} /\ owes' = owes
      BY <1>7, <2>4 DEF Apply
    <3>2. Closed(recorded')
      BY <2>2, <3>1 DEF Plans, Closed
    <3>3. PlanSound(p)'
      BY <1>0, <1>1, <2>1, <2>2, <3>1 DEF PlanSound
    <3>4. \A q \in Migrator \ {p} : PlanSound(q)'
      BY <1>0, <1>1, <2>1, <3>1 DEF PlanSound
    <3> QED
      BY <2>1, <3>1, <3>2, <3>3, <3>4 DEF Plans, Closed
  <2> QED
    BY <2>3, <2>4
<1>8. ASSUME NEW p \in Migrator, Record(p) PROVE Plans'
  <2>1. /\ UNCHANGED <<server, exists, connected, stage, todo>>
        /\ owes[p] # {} /\ recorded' = recorded \cup owes[p] /\ owes' = [owes EXCEPT ![p] = {}]
    BY <1>8 DEF Record
  <2>2. stage[p] = "migrating" /\ \A m \in owes[p] : \A k \in Migration : Rank[k] < Rank[m] => k \in recorded
    BY <1>1, <2>1 DEF PlanSound
  <2>3. Closed(recorded')
    BY <2>1, <2>2 DEF Plans, Closed
  <2>4. PlanSound(p)'
    BY <1>0, <1>1, <2>1, <2>2 DEF PlanSound
  <2>5. \A q \in Migrator \ {p} : PlanSound(q)'
    BY <1>0, <1>1, <2>1 DEF PlanSound
  <2> QED
    BY <2>1, <2>3, <2>4, <2>5 DEF Plans, Closed
<1>9. ASSUME NEW p \in Migrator, NEW m \in Migration, Refused(p, m) \/ Kill(p) \/ Finish(p)
      PROVE  Plans'
  <2>1. UNCHANGED <<server, recorded, exists, connected>>
    BY <1>9 DEF Refused, Kill, Finish, database
  <2>2. /\ stage'[p] # "migrating" /\ todo'[p] = {} /\ owes'[p] = {}
        /\ \A q \in Migrator \ {p} :
             stage'[q] = stage[q] /\ todo'[q] = todo[q] /\ owes'[q] = owes[q]
    BY <1>0, <1>9 DEF Refused, Kill, Finish, End
  <2>3. PlanSound(p)'
    BY <2>2 DEF PlanSound
  <2>4. \A q \in Migrator \ {p} : PlanSound(q)'
    BY <1>1, <2>1, <2>2 DEF PlanSound
  <2> QED
    BY <2>1, <2>3, <2>4 DEF Plans, Closed
<1>10. CASE ResetDrop
  <2>1. UNCHANGED <<server, stage, todo, owes, connected>>
    BY <1>10 DEF ResetDrop, processes
  <2>2. CASE DropDatabase /\ ~InUse
    <3>1. \A q \in Migrator : PlanSound(q)'
      BY <1>1, <2>1, <2>2 DEF PlanSound, InUse
    <3> QED
      BY <2>1, <2>2, <3>1 DEF Plans, Closed, DropDatabase, InUse
  <2>3. CASE UNCHANGED database
    BY <2>1, <2>3, PlansKept DEF database
  <2> QED
    BY <1>10, <2>2, <2>3 DEF ResetDrop
<1>11. CASE ResetCreate
  <2>1. UNCHANGED <<server, recorded, stage, todo, owes, connected>> /\ (exists => exists')
    BY <1>11 DEF ResetCreate, processes
  <2>2. \A q \in Migrator : PlanSound(q)'
    BY <1>1, <2>1 DEF PlanSound
  <2> QED
    BY <2>1, <2>2 DEF Plans, Closed
<1>12. ASSUME NEW p \in Migrator, ResetRun(p) PROVE Plans'
  <2>1. UNCHANGED <<server, recorded, todo, owes, exists, connected>>
    BY <1>12 DEF ResetRun, database
  <2>2. \A q \in Migrator : stage'[q] = "migrating" <=> stage[q] = "migrating"
    BY <1>0, <1>12 DEF ResetRun, Launch, Active
  <2> QED
    BY <2>1, <2>2, PlansKept
<1>13. Migration # {}
  BY DEF Migration, Operations
<1> QED
  BY <1>2, <1>3, <1>4, <1>5, <1>6, <1>7, <1>8, <1>9, <1>10, <1>11, <1>12, <1>13
     DEF Next, Migrates, ResetGoesOn

(***************************************************************************)
(* Every reachable state satisfies the invariant: no migration is recorded *)
(* ahead of an earlier one of the plan, a migrate at work keeps its        *)
(* database, and a wait is never longer than a sleep past its last refusal.*)
(***************************************************************************)
LEMMA IInvParts == IInv <=> TypeOK /\ Plans /\ \A p \in Process : Waits(p)
  BY DEF IInv, Plans, Closed, Waits

(***************************************************************************)
(* However many migrates overlap, fail and are killed, the record of the   *)
(* migrations follows the plan, and every wait keeps to its limits.        *)
(***************************************************************************)
THEOREM Invariant == Spec => []IInv
<1>1. IInv /\ [Next]_vars => IInv'
  <2> SUFFICES ASSUME IInv, [Next]_vars PROVE IInv'
    OBVIOUS
  <2>1. TypeOK /\ Plans /\ \A p \in Process : Waits(p)
    BY IInvParts
  <2>2. TypeOK' /\ Plans' /\ \A p \in Process : Waits(p)'
    BY <2>1, TypeStep, PlansStep, WaitStep
  <2> QED
    BY <2>2 DEF IInv, Plans, Closed, Waits
<1> QED
  BY <1>1, InitIInv, PTL DEF Spec

(***************************************************************************)
(* A container that gives up was refused as late as one sleep and one      *)
(* attempt before its deadline.                                            *)
(***************************************************************************)
THEOREM ToleratesOutages == Spec => []OutageTolerated
<1>1. IInv => OutageTolerated
  <2> SUFFICES ASSUME IInv, NEW p \in Process, stage[p] = "gave up"
               PROVE  /\ watch[p].refusedAt < Deadline
                      /\ \E l \in Latency : watch[p].refusedAt + l + MaxSleep >= Deadline
    BY DEF OutageTolerated
  <2>1. WatchSound(p) /\ watch[p].elapsed >= Deadline
    BY DEF IInv
  <2>2. watch[p].elapsed \in Nat /\ watch[p].refusedAt \in Nat
    BY DEF IInv, TypeOK
  <2>3. watch[p].elapsed # 0
    BY <2>1, <2>2, PastDeadline, WaitConstants
  <2>4. PICK l \in Latency : watch[p].elapsed <= watch[p].refusedAt + l + MaxSleep
    BY <2>1, <2>3 DEF WatchSound
  <2>5. l \in Nat /\ MaxSleep \in Nat /\ Deadline \in Nat
    BY WaitConstants
  <2>6. watch[p].refusedAt + l + MaxSleep >= Deadline
    BY <2>1, <2>2, <2>4, <2>5, PastDeadline
  <2> QED
    BY <2>1, <2>3, <2>6 DEF WatchSound
<1> QED
  BY <1>1, Invariant, PTL

(***************************************************************************)
(* No migration is ever recorded without those it depends on.              *)
(***************************************************************************)
THEOREM RecordStaysClosed == Spec => []RecordIsClosed
<1>1. IInv => RecordIsClosed
  BY PlanRespectsRequires DEF IInv, TypeOK, RecordIsClosed
<1> QED
  BY <1>1, Invariant, PTL

(***************************************************************************)
(* 3. The record and the schema.                                           *)
(***************************************************************************)
(* The first n migrations of the plan are recorded and the first c have    *)
(* been applied: as many, or one more that some migrate owes the record of *)
(* or that was lost.                                                       *)
Accounts(n, c) ==
  /\ n \in 0 .. 11 /\ c \in 0 .. 11 /\ (c = n \/ c = n + 1)
  /\ recorded = {m \in Migration : Rank[m] <= n}
  /\ schema = Planned[c]
  /\ \A p \in Migrator : \A m \in owes[p] : Rank[m] <= c
  /\ c = n \/ lost \/ \E p \in Migrator : \E m \in owes[p] : Rank[m] = c

(* A database that has been dropped has left nothing behind.               *)
Kept ==
  /\ exists => \E n, c \in 0 .. 11 : Accounts(n, c)
  /\ ~exists => schema = NoSchema /\ recorded = {}

(* A step that leaves the schema and the record and forgets no debt.       *)
LEMMA AccountsKept ==
  ASSUME NEW n, NEW c, Accounts(n, c), schema' = schema, recorded' = recorded, lost => lost',
         \A p \in Migrator : owes'[p] = owes[p] \/ (lost' /\ owes'[p] = {})
  PROVE  Accounts(n, c)'
  BY DEF Accounts

(* A migration whose predecessors are recorded is recorded or the next.    *)
LEMMA NextRank ==
  ASSUME NEW n, NEW c, Accounts(n, c), NEW m \in Migration,
         \A k \in Migration : Rank[k] < Rank[m] => k \in recorded
  PROVE  Rank[m] \in 1 .. n + 1 /\ (Rank[m] <= n <=> m \in recorded)
<1>1. n \in 0 .. 11 /\ recorded = {k \in Migration : Rank[k] <= n}
  BY DEF Accounts
<1>2. Rank[m] \in 1 .. 11
  BY OrderIs
<1>3. ASSUME Rank[m] > n + 1 PROVE FALSE
  <2>1. n + 1 \in 1 .. 11
    BY <1>1, <1>2, <1>3
  <2>2. Order[n + 1] \in Migration /\ Rank[Order[n + 1]] = n + 1
    BY <2>1, OrderIs
  <2>3. Order[n + 1] \in recorded
    BY <1>3, <2>2
  <2> QED
    BY <1>1, <2>2, <2>3
<1> QED
  BY <1>1, <1>2, <1>3

(* With the next migration recorded, one more is recorded.                 *)
LEMMA OneMoreRecorded ==
  ASSUME NEW n \in 0 .. 11, NEW m \in Migration, Rank[m] = n + 1
  PROVE  {k \in Migration : Rank[k] <= n} \cup {m} = {k \in Migration : Rank[k] <= n + 1}
<1>1. \A k \in Migration : Rank[k] \in 1 .. 11 /\ (Rank[k] = n + 1 => k = m)
  BY OrderIs
<1> QED
  BY <1>1

(* A migration that is applied was the next, or changes nothing and is     *)
(* recorded or owed already.                                               *)
LEMMA KeptWhenApplied ==
  ASSUME TypeOK, Plans, Kept, NEW p \in Migrator, NEW m \in Migration, Apply(p, m)
  PROVE  Kept'
<1>1. /\ PlanSound(p) /\ stage[p] = "migrating" /\ owes[p] = {} /\ First(m, todo[p])
      /\ exists /\ exists' = exists /\ lost' = lost
      /\ Migrated(schema, m).ok /\ schema' = Migrated(schema, m).schema
  BY DEF Apply, Plans, PlanSound
<1>2. PICK n, c \in 0 .. 11 : Accounts(n, c)
  BY <1>1 DEF Kept
<1>3. Rank[m] \in 1 .. n + 1 /\ (Rank[m] <= n <=> m \in recorded)
  BY <1>1, <1>2, FirstIsNext, NextRank
<1>4. /\ c = n \/ c = n + 1
      /\ schema = Planned[c] /\ recorded = {k \in Migration : Rank[k] <= n}
      /\ \A q \in Migrator : \A k \in owes[q] : Rank[k] <= c
      /\ c = n \/ lost \/ \E q \in Migrator : \E k \in owes[q] : Rank[k] = c
  BY <1>2 DEF Accounts
<1>5. \/ m \in RecordedApart /\ owes' = [owes EXCEPT ![p] = {m}] /\ recorded' = recorded
      \/ m \notin RecordedApart /\ owes' = owes /\ recorded' = recorded \cup {m}
  BY DEF Apply
<1>6. /\ owes \in [Migrator -> SUBSET Migration]
      /\ \A k \in Migration : Rank[k] \in 1 .. 11
  BY OrderIs DEF TypeOK
<1>7. CASE Rank[m] <= c
  <2>1. schema' = Planned[c]
    BY <1>1, <1>4, <1>7, AppliedToPlan DEF Begun
  <2>2. CASE recorded' = recorded
    <3>1. \A q \in Migrator : q = p \/ owes'[q] = owes[q]
      BY <1>5, <1>6
    <3>2. owes'[p] \subseteq {m}
      BY <1>1, <1>5, <1>6
    <3>3. Accounts(n, c)'
      BY <1>1, <1>2, <1>4, <1>7, <2>1, <2>2, <3>1, <3>2 DEF Accounts
    <3> QED
      BY <1>1, <3>3 DEF Kept
  <2>3. CASE recorded' = recorded \cup {m} /\ owes' = owes /\ Rank[m] = n + 1
    <3>1. c = n + 1
      BY <1>4, <1>7, <2>3
    <3>2. recorded' = {k \in Migration : Rank[k] <= n + 1}
      BY <1>4, <2>3, OneMoreRecorded
    <3>3. Accounts(c, c)'
      BY <1>4, <2>1, <2>3, <3>1, <3>2 DEF Accounts
    <3> QED
      BY <1>1, <3>3 DEF Kept
  <2>4. m \in recorded => recorded \cup {m} = recorded
    OBVIOUS
  <2>5. Rank[m] # n + 1 => Rank[m] <= n
    BY <1>3
  <2> QED
    BY <1>3, <1>5, <2>2, <2>3, <2>4, <2>5
<1>8. CASE Rank[m] > c
  <2>1. c = n /\ Rank[m] = n + 1 /\ n + 1 \in 0 .. 11
    BY <1>3, <1>4, <1>6, <1>8
  <2>2. schema' = Planned[n + 1]
    BY <1>1, <1>4, <2>1, AppliedToPlan DEF Begun
  <2>3. CASE owes' = [owes EXCEPT ![p] = {m}] /\ recorded' = recorded
    <3>1. owes'[p] = {m} /\ \A q \in Migrator : q = p \/ owes'[q] = owes[q]
      BY <1>6, <2>3
    <3>2. \A q \in Migrator : \A k \in owes'[q] : Rank[k] <= n + 1
      BY <1>4, <1>6, <2>1, <3>1
    <3>3. \E q \in Migrator : \E k \in owes'[q] : Rank[k] = n + 1
      BY <2>1, <3>1
    <3>4. Accounts(n, n + 1)'
      BY <1>4, <2>1, <2>2, <2>3, <3>2, <3>3 DEF Accounts
    <3> QED
      BY <1>1, <2>1, <3>4 DEF Kept
  <2>4. CASE recorded' = recorded \cup {m} /\ owes' = owes
    <3>1. recorded' = {k \in Migration : Rank[k] <= n + 1}
      BY <1>4, <2>1, <2>4, OneMoreRecorded
    <3>2. \A q \in Migrator : \A k \in owes'[q] : Rank[k] <= n + 1
      BY <1>4, <1>6, <2>1, <2>4
    <3>3. Accounts(n + 1, n + 1)'
      BY <2>1, <2>2, <3>1, <3>2 DEF Accounts
    <3> QED
      BY <1>1, <2>1, <3>3 DEF Kept
  <2> QED
    BY <1>5, <2>3, <2>4
<1> QED
  BY <1>3, <1>4, <1>7, <1>8

(* What is recorded late is the last migration applied, or recorded already. *)
LEMMA KeptWhenRecorded ==
  ASSUME TypeOK, Plans, Kept, NEW p \in Migrator, Record(p)
  PROVE  Kept'
<1>1. /\ PlanSound(p) /\ owes[p] # {} /\ recorded' = recorded \cup owes[p]
      /\ owes' = [owes EXCEPT ![p] = {}] /\ UNCHANGED <<exists, schema, lost>>
  BY DEF Record, Plans
<1>2. /\ exists /\ \A m \in owes[p] : \A k \in Migration : Rank[k] < Rank[m] => k \in recorded
  BY <1>1 DEF PlanSound
<1>3. PICK n, c \in 0 .. 11 : Accounts(n, c)
  BY <1>2 DEF Kept
<1>4. /\ c = n \/ c = n + 1
      /\ schema = Planned[c] /\ recorded = {k \in Migration : Rank[k] <= n}
      /\ \A q \in Migrator : \A k \in owes[q] : Rank[k] <= c
      /\ c = n \/ lost \/ \E q \in Migrator : \E k \in owes[q] : Rank[k] = c
  BY <1>3 DEF Accounts
<1>5. /\ owes \in [Migrator -> SUBSET Migration]
      /\ \A k \in Migration : Rank[k] \in 1 .. 11
  BY OrderIs DEF TypeOK
<1>6. owes'[p] = {} /\ \A q \in Migrator : q = p \/ owes'[q] = owes[q]
  BY <1>1, <1>5
<1>7. ASSUME NEW m \in owes[p] PROVE Rank[m] \in 1 .. n + 1 /\ (Rank[m] <= n <=> m \in recorded)
  BY <1>2, <1>3, <1>5, NextRank
<1>8. CASE \E m \in owes[p] : Rank[m] = n + 1
  <2>1. PICK m \in owes[p] : Rank[m] = n + 1
    BY <1>8
  <2>2. m \in Migration /\ c = n + 1
    BY <1>4, <1>5, <2>1
  <2>3. \A k \in owes[p] : k = m \/ k \in recorded
    <3>1. \A k \in Migration : Rank[k] = n + 1 => k = m
      BY <2>1, <2>2, OrderIs
    <3> QED
      BY <1>5, <1>7, <3>1
  <2>4. recorded' = recorded \cup {m}
    BY <1>1, <2>3
  <2>5. recorded' = {k \in Migration : Rank[k] <= c}
    BY <1>4, <2>1, <2>2, <2>4, OneMoreRecorded
  <2>6. Accounts(c, c)'
    BY <1>1, <1>4, <1>6, <2>5 DEF Accounts
  <2> QED
    BY <1>1, <1>2, <2>6 DEF Kept
<1>9. CASE \A m \in owes[p] : Rank[m] # n + 1
  <2>1. \A m \in owes[p] : m \in recorded /\ Rank[m] <= n
    BY <1>7, <1>9
  <2>2. recorded' = recorded
    BY <1>1, <2>1
  <2>3. \A q \in Migrator : \A k \in owes'[q] : Rank[k] <= c
    BY <1>4, <1>6
  <2>4. c = n + 1 => lost' \/ \E q \in Migrator : \E k \in owes'[q] : Rank[k] = c
    BY <1>1, <1>4, <1>6, <1>9
  <2>5. Accounts(n, c)'
    BY <1>1, <1>4, <2>2, <2>3, <2>4 DEF Accounts
  <2> QED
    BY <1>1, <1>2, <2>5 DEF Kept
<1> QED
  BY <1>8, <1>9

(* A step that touches neither, and forgets a debt only as a lost one.     *)
LEMMA SameBooks ==
  ASSUME Kept, UNCHANGED <<exists, schema, recorded>>, lost => lost',
         \A p \in Migrator : owes'[p] = owes[p] \/ (lost' /\ owes'[p] = {})
  PROVE  Kept'
  BY AccountsKept DEF Kept

LEMMA KeptStep == TypeOK /\ Plans /\ Kept /\ [Next]_vars => Kept'
<1> SUFFICES ASSUME TypeOK, Plans, Kept, [Next]_vars PROVE Kept'
  OBVIOUS
<1>0. DOMAIN owes = Migrator /\ owes \in [Migrator -> SUBSET Migration]
  BY DEF TypeOK
<1>1. CASE Crash
  <2>1. UNCHANGED <<exists, schema, recorded>> /\ (lost => lost')
    BY <1>1 DEF Crash
  <2>2. \A p \in Migrator : owes'[p] = {} /\ (owes[p] # {} => lost')
    BY <1>1 DEF Crash
  <2> QED
    BY <2>1, <2>2, SameBooks
<1>2. CASE Initialised \/ Restart \/ HealthCheck \/ Reset \/ ResetWait \/ ResetName \/ ResetEnd \/ ResetKilled
             \/ UNCHANGED vars
  <2>1. UNCHANGED <<exists, schema, recorded, lost, owes>>
    BY <1>2 DEF Initialised, Restart, HealthCheck, Reset, ResetWait, ResetName, ResetEnd, ResetKilled,
                vars, database, processes
  <2> QED
    BY <2>1, SameBooks
<1>3. ASSUME NEW p \in Process, Start(p) \/ Ready(p) \/ Retry(p) \/ GiveUp(p) PROVE Kept'
  <2>1. UNCHANGED <<exists, schema, recorded, lost, owes>>
    BY <1>3 DEF Start, Ready, Retry, GiveUp, database
  <2> QED
    BY <2>1, SameBooks
<1>4. ASSUME NEW s \in Service, Open(s) \/ Close(s) PROVE Kept'
  <2>1. UNCHANGED <<exists, schema, recorded, lost, owes>>
    BY <1>4 DEF Open, Close, database
  <2> QED
    BY <2>1, SameBooks
<1>5. ASSUME NEW p \in Migrator, Load(p) \/ Finish(p) \/ ResetRun(p) PROVE Kept'
  <2>1. UNCHANGED <<exists, schema, recorded, lost, owes>>
    BY <1>5 DEF Load, Finish, ResetRun, database
  <2> QED
    BY <2>1, SameBooks
<1>6. ASSUME NEW p \in Migrator, NEW m \in Migration, Refused(p, m) \/ Kill(p) PROVE Kept'
  <2>1. UNCHANGED <<exists, schema, recorded>> /\ End(p, "failed")
    BY <1>6 DEF Refused, Kill
  <2>2. (lost => lost') /\ (owes[p] # {} => lost') /\ owes'[p] = {}
    BY <1>0, <2>1 DEF End
  <2>3. \A q \in Migrator : q = p \/ owes'[q] = owes[q]
    BY <1>0, <2>1 DEF End
  <2> QED
    BY <2>1, <2>2, <2>3, SameBooks
<1>7. CASE ResetDrop
  <2>1. CASE DropDatabase
    BY <2>1 DEF DropDatabase, Kept
  <2>2. CASE UNCHANGED database
    <3>1. UNCHANGED <<exists, schema, recorded, lost, owes>>
      BY <1>7, <2>2 DEF ResetDrop, database, processes
    <3> QED
      BY <3>1, SameBooks
  <2> QED
    BY <1>7, <2>1, <2>2 DEF ResetDrop
<1>8. CASE ResetCreate
  <2>1. UNCHANGED <<schema, recorded, lost, owes>>
    BY <1>8 DEF ResetCreate, processes
  <2>2. CASE ~exists
    <3>1. schema' = Planned[0] /\ recorded' = {}
      BY <2>1, <2>2, PlannedIs, AfterIs DEF Kept
    <3>2. recorded' = {m \in Migration : Rank[m] <= 0}
      BY <3>1, OrderIs
    <3>3. \A p \in Migrator : owes'[p] = {}
      BY <2>1, <2>2 DEF Plans, PlanSound
    <3>4. Accounts(0, 0)'
      BY <3>1, <3>2, <3>3 DEF Accounts
    <3> QED
      BY <2>1, <2>2, <3>1, <3>4 DEF Kept
  <2>3. CASE exists
    <3>1. exists' = exists
      BY <1>8, <2>3 DEF ResetCreate
    <3> QED
      BY <2>1, <3>1, SameBooks
  <2> QED
    BY <2>2, <2>3
<1>9. Migration # {}
  BY DEF Migration, Operations
<1> QED
  BY <1>1, <1>2, <1>3, <1>4, <1>5, <1>6, <1>7, <1>8, <1>9, KeptWhenApplied, KeptWhenRecorded
     DEF Next, Migrates, ResetGoesOn

LEMMA InitKept == Init => Kept
<1> SUFFICES ASSUME Init PROVE Kept
  OBVIOUS
<1>1. schema = Planned[0] /\ recorded = {} /\ \A p \in Migrator : owes[p] = {}
  BY PlannedIs, AfterIs DEF Init
<1>2. recorded = {m \in Migration : Rank[m] <= 0}
  BY <1>1, OrderIs
<1>3. Accounts(0, 0)
  BY <1>1, <1>2 DEF Accounts
<1> QED
  BY <1>3 DEF Init, Kept

LEMMA KeptAlways == Spec => []Kept
<1>1. IInv /\ Kept /\ [Next]_vars => Kept'
  BY KeptStep, IInvParts
<1> QED
  BY <1>1, InitKept, Invariant, PTL DEF Spec

(***************************************************************************)
(* However many migrates overlap, fail, are killed or lose the database,   *)
(* the record of the migrations and the schema never part by more than the *)
(* one migration that somebody owes the record of or that was lost.        *)
(***************************************************************************)
THEOREM RecordHolds == Spec => []RecordKeepsUp
<1>1. Kept => RecordKeepsUp
  <2> SUFFICES ASSUME Kept, exists
               PROVE  \E n \in DOMAIN Planned :
                        /\ recorded = {m \in Migration : Rank[m] <= n}
                        /\ \/ schema = Planned[n]
                           \/ /\ n + 1 \in DOMAIN Planned /\ schema = Planned[n + 1]
                              /\ lost \/ \E p \in Migrator : \E m \in owes[p] : Rank[m] = n + 1
    BY DEF RecordKeepsUp
  <2>1. PICK n, c \in 0 .. 11 : Accounts(n, c)
    BY DEF Kept
  <2>2. n \in DOMAIN Planned /\ c \in DOMAIN Planned
    BY PlannedIs
  <2>3. /\ recorded = {m \in Migration : Rank[m] <= n}
        /\ \/ schema = Planned[n]
           \/ /\ n + 1 \in DOMAIN Planned /\ schema = Planned[n + 1]
              /\ lost \/ \E p \in Migrator : \E m \in owes[p] : Rank[m] = n + 1
    BY <2>1, <2>2 DEF Accounts
  <2> QED
    BY <2>2, <2>3
<1> QED
  BY <1>1, KeptAlways, PTL
(* A migrate that is at the end of its plan has recorded all of it.        *)
LEMMA AllOfIt ==
  ASSUME Kept, exists, recorded = Migration
  PROVE  schema = Models
<1>1. PICK n, c \in 0 .. 11 : Accounts(n, c)
  BY DEF Kept
<1>2. Order[11] \in Migration /\ Rank[Order[11]] = 11
  BY OrderIs
<1>3. n = 11 /\ c = 11
  BY <1>1, <1>2 DEF Accounts
<1> QED
  BY <1>1, <1>3, PlannedIs, AfterIs DEF Accounts

(* A migrate is refused a migration only because it has been applied, by   *)
(* another migrate or by one that ended before its record.                 *)
THEOREM RefusedHolds == Spec => RefusedIfApplied
<1>1. ASSUME TypeOK, Plans, Kept, NEW p \in Migrator, NEW m \in Migration, Refused(p, m)
      PROVE  lost \/ m \in recorded \/ \E q \in Migrator \ {p} : m \in owes[q]
  <2>1. /\ PlanSound(p) /\ stage[p] = "migrating" /\ owes[p] = {} /\ First(m, todo[p])
        /\ exists /\ ~Migrated(schema, m).ok
    BY <1>1 DEF Refused, Plans, PlanSound
  <2>2. PICK n, c \in 0 .. 11 : Accounts(n, c)
    BY <1>1, <2>1 DEF Kept
  <2>3. Rank[m] \in 1 .. n + 1 /\ (Rank[m] <= n <=> m \in recorded)
    BY <2>1, <2>2, FirstIsNext, NextRank
  <2>4. ASSUME m \notin recorded, ~lost PROVE \E q \in Migrator \ {p} : m \in owes[q]
    <3>1. Rank[m] = n + 1
      BY <2>3, <2>4
    <3>2. c # n
      <4>1. SUFFICES ASSUME c = n PROVE FALSE
        OBVIOUS
      <4>2. schema = Planned[n]
        BY <2>2, <4>1 DEF Accounts
      <4> QED
        BY <2>1, <3>1, <4>2, AppliedToPlan DEF Begun
    <3>3. PICK q \in Migrator : \E k \in owes[q] : Rank[k] = n + 1
      BY <2>2, <2>4, <3>2 DEF Accounts
    <3>4. PICK k \in owes[q] : Rank[k] = n + 1
      BY <3>3
    <3>5. k \in Migration
      BY <1>1, <3>4 DEF TypeOK
    <3>6. k = m
      BY <3>1, <3>4, <3>5, OrderIs
    <3> QED
      BY <2>1, <3>4, <3>6
  <2> QED
    BY <2>4
<1>2. IInv /\ Kept /\ [Next]_vars =>
        [\A p \in Migrator, m \in Migration :
           Refused(p, m) => lost \/ m \in recorded \/ \E q \in Migrator \ {p} : m \in owes[q]]_vars
  BY <1>1, IInvParts
<1> QED
  BY <1>2, Invariant, KeptAlways, PTL DEF Spec, RefusedIfApplied

(* A migrate is done only by the step that finds its plan empty.           *)
LEMMA DoneByFinish ==
  ASSUME TypeOK, [Next]_vars, NEW p \in Migrator, stage[p] # "done", stage'[p] = "done"
  PROVE  Finish(p)
<1>0. DOMAIN stage = Process /\ p \in Process /\ Migrator \subseteq Process
  BY DEF TypeOK, Process
<1>1. CASE \E q \in Migrator : Finish(q)
  BY <1>0, <1>1 DEF Finish
<1>2. ASSUME NEW q \in Process, Start(q) \/ Ready(q) \/ Retry(q) \/ GiveUp(q) PROVE FALSE
  BY <1>0, <1>2 DEF Start, Launch, Ready, Retry, GiveUp
<1>3. ASSUME NEW q \in Migrator, Load(q) \/ Record(q) \/ Kill(q) \/ ResetRun(q) PROVE FALSE
  BY <1>0, <1>3 DEF Load, Record, Kill, End, ResetRun, Launch
<1>4. ASSUME NEW q \in Migrator, NEW m \in Migration, Apply(q, m) \/ Refused(q, m) PROVE FALSE
  BY <1>0, <1>4 DEF Apply, Refused, End
<1>5. ASSUME NEW s \in Service, Open(s) \/ Close(s) PROVE FALSE
  BY <1>5 DEF Open, Close
<1>6. ASSUME Crash PROVE FALSE
  BY <1>0, <1>6 DEF Crash
<1>7. ASSUME \/ Initialised \/ Restart \/ HealthCheck \/ Reset \/ ResetGoesOn
             \/ ResetKilled \/ UNCHANGED vars
      PROVE  FALSE
  BY <1>7 DEF Initialised, Restart, HealthCheck, Reset, ResetGoesOn, ResetWait, ResetName,
     ResetDrop, ResetCreate, ResetEnd, ResetKilled, processes, vars
<1> QED
  BY <1>1, <1>2, <1>3, <1>4, <1>5, <1>6, <1>7 DEF Next, Migrates

(* It finds the books complete.                                            *)
LEMMA FinishedBooks ==
  ASSUME TypeOK, Plans, Kept, NEW p \in Migrator, Finish(p)
  PROVE  recorded = Migration /\ schema = Models /\ UNCHANGED <<recorded, schema>>
<1>1. PlanSound(p) /\ UNCHANGED <<recorded, schema>>
  BY DEF Plans, Finish, database
<1>2. exists /\ todo[p] = {} /\ owes[p] = {} /\ Migration \ todo[p] \subseteq recorded \cup owes[p]
  BY <1>1 DEF PlanSound, Finish
<1>3. recorded = Migration
  BY <1>2 DEF TypeOK
<1> QED
  BY <1>1, <1>2, <1>3, AllOfIt

LEMMA FinishLeaves ==
  IInv /\ Kept /\ [Next]_vars =>
    [\A p \in Migrator : stage[p] = "migrating" /\ stage'[p] = "done" =>
        schema' = Models /\ recorded' = Migration]_vars
<1> SUFFICES ASSUME IInv, Kept, [Next]_vars, NEW p \in Migrator,
                    stage[p] = "migrating", stage'[p] = "done"
             PROVE  schema' = Models /\ recorded' = Migration
  OBVIOUS
<1>1. Finish(p)
  BY DoneByFinish, IInvParts
<1> QED
  BY <1>1, FinishedBooks, IInvParts

(* A migrate that succeeds leaves the schema of the models and every       *)
(* migration recorded, whatever ran beside it.                             *)
THEOREM MigratedHolds == Spec => MigratedMeansModels
  BY FinishLeaves, Invariant, KeptAlways, PTL DEF Spec, MigratedMeansModels

\* The part of MigratedMeansModels that is about the record.
AllRecorded ==
  [][\A p \in Migrator :
       stage[p] = "migrating" /\ stage'[p] = "done" => recorded' = Migration]_vars

(* A migrate that succeeds leaves every migration recorded, for any number of *)
(* containers that run migrate at once and however the others ended.        *)
THEOREM FinishedIsRecorded == Spec => AllRecorded
<1>1. IInv /\ Kept /\ [Next]_vars =>
        [\A p \in Migrator :
            stage[p] = "migrating" /\ stage'[p] = "done" => recorded' = Migration]_vars
  BY FinishLeaves
<1> QED
  BY <1>1, Invariant, KeptAlways, PTL DEF Spec, AllRecorded

(***************************************************************************)
(* The reset script.                                                       *)
(***************************************************************************)
(* From its DROP on the script works on a new database, unless it has the  *)
(* default name for one that has another; the migrate it waits for is done *)
(* only when everything is recorded.                                       *)
Fresh ==
  /\ script.name \in {"", DbName, DefaultName}
  /\ script.at \in {"drop", "create", "run", "migrate"} => script.name # ""
  /\ script.at \in {"create", "run", "migrate"} => ~old \/ script.name # DbName
  /\ script.at = "migrate" =>
       script.job # {} /\ \A p \in script.job : stage[p] = "done" => recorded = Migration

(* A step of another process than the script.                              *)
LEMMA FreshKept ==
  ASSUME Fresh, UNCHANGED <<script, old>>, recorded = Migration => recorded' = Migration,
         \A p \in script.job : stage'[p] = "done" => stage[p] = "done" \/ recorded' = Migration
  PROVE  Fresh'
  BY DEF Fresh

LEMMA FreshStep == TypeOK /\ TypeOK' /\ Plans /\ Kept /\ Fresh /\ [Next]_vars => Fresh'
<1> SUFFICES ASSUME TypeOK, TypeOK', Plans, Kept, Fresh, [Next]_vars PROVE Fresh'
  OBVIOUS
<1>0. script \in [at : Place, attempts : Nat, name : {"", DbName, DefaultName},
                  job : SUBSET Migrator]
      /\ recorded \subseteq Migration /\ recorded' \subseteq Migration
      /\ DOMAIN stage = Process /\ Migrator \subseteq Process
  BY DEF TypeOK, Process
<1>1. ASSUME UNCHANGED <<script, old>>, recorded \subseteq recorded' PROVE Fresh'
  <2>1. recorded = Migration => recorded' = Migration
    BY <1>0, <1>1
  <2>2. ASSUME NEW p \in script.job, stage'[p] = "done"
        PROVE  stage[p] = "done" \/ recorded' = Migration
    <3>1. p \in Migrator
      BY <1>0
    <3>2. CASE stage[p] # "done"
      <4>1. Finish(p)
        BY <2>2, <3>1, <3>2, DoneByFinish
      <4> QED
        BY <3>1, <4>1, FinishedBooks
    <3> QED
      BY <3>2
  <2> QED
    BY <1>1, <2>1, <2>2, FreshKept
<1>2. CASE Initialised \/ Crash \/ Restart \/ HealthCheck \/ UNCHANGED vars
  BY <1>1, <1>2 DEF Initialised, Crash, Restart, HealthCheck, vars, database
<1>3. ASSUME NEW p \in Process, Start(p) \/ Ready(p) \/ Retry(p) \/ GiveUp(p) PROVE Fresh'
  BY <1>1, <1>3 DEF Start, Ready, Retry, GiveUp, database
<1>4. ASSUME NEW s \in Service, Open(s) \/ Close(s) PROVE Fresh'
  BY <1>1, <1>4 DEF Open, Close, database
<1>5. ASSUME NEW p \in Migrator, NEW m \in Migration,
             Load(p) \/ Record(p) \/ Finish(p) \/ Kill(p) \/ Apply(p, m) \/ Refused(p, m)
      PROVE  Fresh'
  <2>1. UNCHANGED <<script, old>>
    BY <1>5 DEF Load, Record, Finish, Kill, Apply, Refused, database
  <2>2. recorded \subseteq recorded'
    BY <1>5 DEF Load, Record, Finish, Kill, Apply, Refused, database
  <2> QED
    BY <1>1, <2>1, <2>2
<1>6. CASE Reset
  <2>1. script'.at = "ready?" /\ script'.name = ""
    BY <1>6 DEF Reset
  <2> QED
    BY <2>1 DEF Fresh
<1>7. CASE ResetWait
  <2>1. script'.at \in {"ready?", "name?", "failed"} /\ script'.name = script.name
    BY <1>0, <1>7 DEF ResetWait, GoTo
  <2> QED
    BY <2>1 DEF Fresh
<1>13. CASE ResetName
  <2>1. script'.at = "drop" /\ script'.name \in {DbName, DefaultName}
    BY <1>0, <1>13 DEF ResetName
  <2>2. script'.name # ""
    BY <2>1, NamedDatabase DEF DefaultName
  <2> QED
    BY <2>1, <2>2 DEF Fresh
<1>8. CASE ResetDrop
  <2>1. /\ script.at = "drop" /\ script'.name = script.name
        /\ \/ script'.at = "create" /\ DropDatabase
           \/ script'.at = "create" /\ script.name # DbName
           \/ script'.at = "failed"
    BY <1>0, <1>8 DEF ResetDrop, GoTo, OnError
  <2> QED
    BY <2>1 DEF Fresh, DropDatabase
<1>9. CASE ResetCreate
  <2>1. /\ script.at = "create" /\ script'.name = script.name /\ old' = old
        /\ script'.at \in {"run", "failed"}
    BY <1>0, <1>9 DEF ResetCreate, GoTo, OnError
  <2> QED
    BY <2>1 DEF Fresh
<1>10. ASSUME NEW p \in Migrator, ResetRun(p) PROVE Fresh'
  <2>1. script'.at = "migrate" /\ script'.job = {p} /\ script.at = "run"
    BY <1>0, <1>10 DEF ResetRun
  <2>2. stage'[p] = "waiting" /\ UNCHANGED old /\ script'.name = script.name
    BY <1>0, <1>10 DEF ResetRun, Launch, database
  <2> QED
    BY <2>1, <2>2 DEF Fresh
<1>11. CASE ResetEnd \/ ResetKilled
  <2>1. script'.at \in {"complete", "failed"} /\ script'.name = script.name
    BY <1>0, <1>11 DEF ResetEnd, ResetKilled
  <2> QED
    BY <2>1 DEF Fresh
<1>12. Migration # {}
  BY DEF Migration, Operations
<1> QED
  BY <1>2, <1>3, <1>4, <1>5, <1>6, <1>7, <1>8, <1>9, <1>10, <1>11, <1>12,
     <1>13
     DEF Next, Migrates, ResetGoesOn

(* When the reset script reports completion the database has the schema of *)
(* the models, and is a new one unless the server was down when the script *)
(* asked for its name, whatever else was started, killed or crashed.       *)
THEOREM ResetHolds == Spec => ResetIsFresh
<1>1. Init => Fresh
  <2> SUFFICES ASSUME Init PROVE Fresh
    OBVIOUS
  <2>1. script.at = "idle" /\ script.name = ""
    BY DEF Init, NotRunning
  <2> QED
    BY <2>1 DEF Fresh
<1>2. IInv /\ IInv' /\ Kept /\ Fresh /\ [Next]_vars => Fresh'
  <2> SUFFICES ASSUME IInv, IInv', Kept, Fresh, [Next]_vars PROVE Fresh'
    OBVIOUS
  <2>1. TypeOK /\ Plans /\ TypeOK'
    BY IInvParts DEF IInv
  <2> QED
    BY <2>1, FreshStep
<1>3. ASSUME IInv, Kept, Fresh, [Next]_vars, script.at = "migrate", script'.at = "complete"
      PROVE  /\ exists /\ schema = Models /\ recorded = Migration
             /\ old => script.name = DefaultName /\ DefaultName # DbName
  <2>1. /\ old => script.name = DefaultName /\ DefaultName # DbName
        /\ script.job # {}
        /\ \A p \in script.job : stage[p] = "done" => recorded = Migration
    BY <1>3 DEF Fresh
  <2>2. \A p \in script.job : stage[p] = "done"
    <3>0. DOMAIN script = {"at", "attempts", "name", "job"}
      BY <1>3 DEF IInv, TypeOK
    <3>1. CASE ResetEnd
      BY <1>3, <3>0, <3>1 DEF ResetEnd
    <3>2. CASE Reset \/ ResetWait \/ ResetName \/ ResetDrop \/ ResetCreate \/ ResetKilled
      BY <1>3, <3>0, <3>2 DEF Reset, ResetWait, ResetName, ResetDrop, ResetCreate, ResetKilled, GoTo
    <3>3. ASSUME NEW p \in Migrator, ResetRun(p) PROVE FALSE
      BY <1>3, <3>3 DEF ResetRun
    <3>4. ASSUME script' = script PROVE FALSE
      BY <1>3, <3>4
    <3>5. ASSUME NEW p \in Process, Start(p) \/ Ready(p) \/ Retry(p) \/ GiveUp(p)
          PROVE  script' = script
      BY <3>5 DEF Start, Ready, Retry, GiveUp
    <3>6. ASSUME NEW s \in Service, Open(s) \/ Close(s) PROVE script' = script
      BY <3>6 DEF Open, Close
    <3>7. ASSUME NEW p \in Migrator, NEW m \in Migration,
                 Load(p) \/ Record(p) \/ Finish(p) \/ Kill(p) \/ Apply(p, m) \/ Refused(p, m)
          PROVE  script' = script
      BY <3>7 DEF Load, Record, Finish, Kill, Apply, Refused
    <3>8. ASSUME Initialised \/ Crash \/ Restart \/ HealthCheck \/ UNCHANGED vars
          PROVE  script' = script
      BY <3>8 DEF Initialised, Crash, Restart, HealthCheck, vars
    <3>9. Migration # {}
      BY DEF Migration, Operations
    <3> QED
      BY <1>3, <3>1, <3>2, <3>3, <3>4, <3>5, <3>6, <3>7, <3>8, <3>9
         DEF Next, Migrates, ResetGoesOn
  <2>3. recorded = Migration
    BY <2>1, <2>2
  <2>4. Migration # {}
    BY DEF Migration, Operations
  <2>5. exists
    BY <1>3, <2>3, <2>4 DEF Kept
  <2> QED
    BY <1>3, <2>1, <2>3, <2>5, AllOfIt
<1>4. IInv /\ Kept /\ Fresh /\ [Next]_vars =>
        [script.at = "migrate" /\ script'.at = "complete" =>
           /\ exists /\ schema = Models /\ recorded = Migration
           /\ old => script.name = DefaultName /\ DefaultName # DbName]_vars
  BY <1>3
<1> QED
  BY <1>1, <1>2, <1>4, Invariant, KeptAlways, PTL DEF Spec, ResetIsFresh
=============================================================================
