------------------------------ MODULE AdminStore ------------------------------
(***************************************************************************)
(* The relational core of IoT Hub (backend/apps/*/models.py) under the     *)
(* Django admin sites of backend/apps/*/admin.py.                          *)
(*                                                                         *)
(* A request that changes a row SELECTs it and UPDATEs it later in the     *)
(* same transaction; a request that deletes rows first collects what the   *)
(* deletion cascades to and runs the DELETEs later.  Transactions are READ *)
(* COMMITTED and nothing locks what was read, so other requests commit in  *)
(* between.  PostgreSQL checks foreign keys when the transaction commits,  *)
(* row by row: a new or changed reference must name an existing row, and a *)
(* deleted row must not be named.  Columns other than foreign keys and     *)
(* unique keys do not matter here.                                         *)
(*                                                                         *)
(* loaddata reads fixtures whose rows carry their ids.                     *)
(***************************************************************************)
EXTENDS Naturals, FiniteSets

CONSTANTS
  Row,        \* the row ids that may be allocated, of all tables
  TableOf,    \* the table each of them belongs to
  Key,        \* names and serial numbers
  NoKey,      \* stands for the unique column in a table that has none
  Session,    \* admin requests that may be in progress at the same time
  Fixture     \* fixture files: each maps its rows to their place in the file,
              \* their references and their unique value

Table == {"device_types", "devices", "telemetry", "rules", "events",
          "notification_templates", "notification_deliveries"}

ASSUME TableOfAssumption == TableOf \in [Row -> Table]
ASSUME NoKeyAssumption == NoKey \notin Key

\* (Definitions whose comment starts with "Mutated" are wrong on purpose; the
\* checks must notice when one of them replaces the definition it mutates.)

\* Mutated: deleting a device type takes its devices with it, deleting a
\* template its deliveries.
CascadeFromGuarded == [t \in Table |->
  CASE t = "devices" -> {"device_types"}
    [] t \in {"telemetry", "rules"} -> {"devices"}
    [] t = "events" -> {"rules"}
    [] t = "notification_deliveries" -> {"events", "notification_templates"}
    [] OTHER -> {}]

\* Foreign keys by what on_delete says of the parent's table.
Cascade == [t \in Table |->
  CASE t = "telemetry" -> {"devices"}
    [] t = "rules" -> {"devices"}
    [] t = "events" -> {"rules"}
    [] t = "notification_deliveries" -> {"events"}
    [] OTHER -> {}]

Protect == [t \in Table |->
  CASE t = "devices" -> {"device_types"}
    [] t = "notification_deliveries" -> {"notification_templates"}
    [] OTHER -> {}]

\* Tables with a unique column: name or serial_number.
Unique == {"device_types", "devices", "notification_templates"}

\* Tables nothing refers to: the collector deletes them with one statement,
\* by parent, and never reads their rows.
FastDeleted == {"telemetry", "notification_deliveries"}

Rows(t) == {r \in Row : TableOf[r] = t}
GuardedRows == Rows("device_types") \cup Rows("notification_templates")

\* Tables whose ids a sequence counts up; those of the others are UUIDs.
Serial == {"telemetry", "events", "notification_templates", "notification_deliveries"}

\* The values r's foreign key columns can take: one row of each parent table.
References(r) ==
  {ps \in SUBSET Row :
     /\ \A p \in ps : TableOf[p] \in Cascade[TableOf[r]] \cup Protect[TableOf[r]]
     /\ \A t \in Cascade[TableOf[r]] \cup Protect[TableOf[r]] :
          \E p \in ps : TableOf[p] = t
     /\ \A p, q \in ps : TableOf[p] = TableOf[q] => p = q}

KeysOf(r) == IF TableOf[r] \in Unique THEN Key ELSE {NoKey}

\* A fixture has its columns filled as the tables need it, and no row twice.
ASSUME FixtureAssumption ==
  \A F \in Fixture :
    /\ DOMAIN F \subseteq Row
    /\ \A r \in DOMAIN F : /\ F[r].at \in Nat
                           /\ F[r].refs \in References(r)
                           /\ F[r].key \in KeysOf(r)
    /\ \A r, q \in DOMAIN F : F[r].at = F[q].at => r = q

VARIABLES
  rows,       \* the rows that exist
  ref,        \* ref[r]: the rows r's foreign keys name
  key,        \* key[r]: the value of r's unique column
  used,       \* the UUIDs ever given, and the ids the sequences have passed
  session     \* what each request has read and is about to write

vars == <<rows, ref, key, used, session>>

Idle == [op |-> "idle"]
Saving == [op : {"saving"}, row : Row, refs : SUBSET Row, key : Key \cup {NoKey}]
Deleting == [op : {"deleting"}, collected : SUBSET Row]

TypeOK ==
  /\ rows \subseteq Row /\ used \subseteq Row
  /\ \A r \in rows : TableOf[r] \notin Serial => r \in used
  /\ ref \in [Row -> SUBSET Row]
  /\ key \in [Row -> Key \cup {NoKey}]
  /\ session \in [Session -> {Idle} \cup Saving \cup Deleting]
  /\ \A s \in Session : session[s].op = "saving" /\ TableOf[session[s].row] \notin Serial
       => session[s].row \in used

Init ==
  /\ rows = {}
  /\ ref = [r \in Row |-> {}]
  /\ key = [r \in Row |-> NoKey]
  /\ used = {}
  /\ session = [s \in Session |-> Idle]

-------------------------------------------------------------------------------
\* Mutated: only an INSERT is checked.
KeyTakenByNew(r, k) ==
  r \notin rows /\ \E q \in rows : TableOf[q] = TableOf[r] /\ key[q] = k

\* The unique constraint, and validate_unique before it: another row of r's
\* table holds k.
KeyTaken(r, k) ==
  /\ TableOf[r] \in Unique
  /\ \E q \in rows \ {r} : TableOf[q] = TableOf[r] /\ key[q] = k

\* Mutated: an INSERT is not checked.
ReferencesHoldOnUpdate(r, ps) == r \in rows => ps \ ref[r] \subseteq rows

\* The check PostgreSQL makes at commit for a written row: only references
\* the statement changed are looked up, an INSERT changes all of them.
Changed(r, ps) == IF r \in rows THEN ps \ ref[r] ELSE ps
ReferencesHold(r, ps) == Changed(r, ps) \subseteq rows

Write(r, ps, k) ==
  /\ rows' = rows \cup {r}
  /\ ref' = [ref EXCEPT ![r] = ps]
  /\ key' = [key EXCEPT ![r] = k]

\* Mutated: the id is not recorded as taken.
AllocateUnrecorded(r) == UNCHANGED used

\* Ids are random UUIDs or come from a sequence; an id that a save or a fixture
\* has put there meanwhile is refused.
Fresh(r) == r \notin used \cup rows
Allocate(r) == used' = used \cup {r}

\* Model.objects.create() and the admin's add form.  What the request read
\* before the INSERT has no effect of its own: the constraints are checked
\* again when it commits.
Create(r, ps, k) ==
  /\ Fresh(r)
  /\ ReferencesHold(r, ps)
  /\ ~KeyTaken(r, k)
  /\ Allocate(r)
  /\ Write(r, ps, k)
  /\ UNCHANGED session

\* POST of the change form up to full_clean(): get_object() finds the row,
\* the chosen parents exist and the unique value is free.
ChangeView(s, r, ps, k) ==
  /\ session[s] = Idle
  /\ r \in rows
  /\ ps \subseteq rows
  /\ ~KeyTaken(r, k)
  /\ session' = [session EXCEPT ![s] =
       [op |-> "saving", row |-> r, refs |-> ps, key |-> k]]
  /\ UNCHANGED <<rows, ref, key, used>>

\* save_model() and COMMIT.  Model.save() sends UPDATE ... WHERE id = r and,
\* when that matches no row, INSERTs the row with the same id.
Save(s) ==
  LET f == session[s] IN
  /\ f.op = "saving"
  /\ ReferencesHold(f.row, f.refs)
  /\ ~KeyTaken(f.row, f.key)
  /\ Write(f.row, f.refs, f.key)
  /\ session' = [session EXCEPT ![s] = Idle]
  /\ UNCHANGED used

\* The row r of F clashes with one that holds its unique value by then: a row
\* loaded before it, or one of the table that F has not yet overwritten.
Clashes(F, r) ==
  LET earlier == {q \in DOMAIN F : F[q].at < F[r].at}
      alike(q) == q # r /\ TableOf[q] = TableOf[r] /\ TableOf[q] \in Unique
  IN  \/ \E q \in earlier : alike(q) /\ F[q].key = F[r].key
      \/ \E q \in rows \ earlier : alike(q) /\ key[q] = F[r].key

\* loaddata: one transaction that writes the rows in the order of the file,
\* whether they exist or not, checks the foreign keys at its end and sets the
\* sequences of the tables it wrote back to their highest id.  Ids have no
\* order here: each one that no row has may lie above.
Load(F) ==
  /\ \A r \in DOMAIN F : /\ Changed(r, F[r].refs) \subseteq rows \cup DOMAIN F
                         /\ ~Clashes(F, r)
  /\ rows' = rows \cup DOMAIN F
  /\ ref' = [r \in Row |-> IF r \in DOMAIN F THEN F[r].refs ELSE ref[r]]
  /\ key' = [r \in Row |-> IF r \in DOMAIN F THEN F[r].key ELSE key[r]]
  /\ used' = {r \in used \cup rows' :
       r \in rows' \/ TableOf[r] \notin {TableOf[q] : q \in DOMAIN F} \cap Serial}
  /\ UNCHANGED session

-------------------------------------------------------------------------------
\* Rows a deletion of S cascades to, one level down, that have to be read.
CascadesTo(S) ==
  {r \in rows :
     /\ TableOf[r] \notin FastDeleted
     /\ \E p \in ref[r] \cap S : TableOf[p] \in Cascade[TableOf[r]]}

\* Collector.collect() on the rows T of one table.  The longest chain of rows
\* it reads is device, rule, event.
Collect(T) ==
  LET below == T \cup CascadesTo(T)
  IN  below \cup CascadesTo(below)

\* Rows whose on_delete=PROTECT reference forbids deleting S.
Protecting(S) ==
  {r \in rows : \E p \in ref[r] \cap S : TableOf[p] \in Protect[TableOf[r]]}

\* Rows the collector deletes by their parent, at the time of the DELETE.
FastDeletes(S) ==
  {r \in rows :
     /\ TableOf[r] \in FastDeleted
     /\ \E p \in ref[r] \cap S : TableOf[p] \in Cascade[TableOf[r]]}

\* delete_view and delete_selected up to the collection.  With a protecting
\* row they raise ProtectedError and nothing is deleted.
DeleteView(s, T) ==
  /\ session[s] = Idle
  /\ Protecting(Collect(T)) = {}
  /\ session' = [session EXCEPT ![s] =
       [op |-> "deleting", collected |-> Collect(T)]]
  /\ UNCHANGED <<rows, ref, key, used>>

\* Mutated: nobody looks at what is left.
Unwatched(gone) == gone \subseteq rows

\* A row that stays must not name one that goes.
Deletable(gone) == \A q \in rows \ gone : ref[q] \cap gone = {}

\* Collector.delete() and COMMIT: the collected rows by id, the fast deletes
\* by parent.
Delete(s) ==
  LET f == session[s]
      gone == (f.collected \cap rows) \cup FastDeletes(f.collected)
  IN
  /\ f.op = "deleting"
  /\ Deletable(gone)
  /\ rows' = rows \ gone
  /\ ref' = [r \in Row |-> IF r \in gone THEN {} ELSE ref[r]]
  /\ key' = [r \in Row |-> IF r \in gone THEN NoKey ELSE key[r]]
  /\ session' = [session EXCEPT ![s] = Idle]
  /\ UNCHANGED used

\* A constraint fails at commit, or the worker stops: ROLLBACK.
Rollback(s) ==
  /\ session[s] # Idle
  /\ session' = [session EXCEPT ![s] = Idle]
  /\ UNCHANGED <<rows, ref, key, used>>

\* The retention policy of setup_timescaledb drops old chunks of telemetry.
RetentionJob(S) ==
  /\ S \subseteq rows \cap Rows("telemetry")
  /\ rows' = rows \ S
  /\ ref' = [r \in Row |-> IF r \in S THEN {} ELSE ref[r]]
  /\ UNCHANGED <<key, used, session>>

Next ==
  \/ \E r \in Row : \E ps \in References(r), k \in KeysOf(r) : Create(r, ps, k)
  \/ \E F \in Fixture : Load(F)
  \/ \E S \in SUBSET Rows("telemetry") \ {{}} : RetentionJob(S)
  \/ \E s \in Session :
       \/ \E r \in Row : \E ps \in References(r), k \in KeysOf(r) :
            ChangeView(s, r, ps, k)
       \/ Save(s)
       \/ \E t \in Table : \E T \in SUBSET (rows \cap Rows(t)) \ {{}} :
            DeleteView(s, T)
       \/ Delete(s)
       \/ Rollback(s)

Spec == Init /\ [][Next]_vars
-------------------------------------------------------------------------------
\* Relational integrity ("Enforce relational integrity using foreign keys",
\* docs/architecture.md): whatever the requests had read before, every row
\* names only rows that exist.
NoOrphans == \A r \in rows : ref[r] \subseteq rows

\* No two rows of a table share a name or serial number, also not after a
\* save or a fixture has put a deleted row back beside the one that took over
\* its name.
UniqueKeys ==
  \A r, q \in rows :
    r # q /\ TableOf[r] = TableOf[q] /\ TableOf[r] \in Unique => key[r] # key[q]

\* What on_delete=PROTECT is for: a deletion that removes a device type or a
\* template removes nothing that is not one, however the requests interleave.
ProtectedGoAlone ==
  [][(rows \ rows') \cap GuardedRows # {} => rows \ rows' \subseteq GuardedRows]_vars

\* The inductive invariant behind the proofs: besides the two invariants, rows
\* and pending saves have a parent in every foreign key column, and what one
\* request has collected lies within the guarded tables or outside of them.
WellFormed ==
  /\ \A r \in rows : ref[r] \in References(r)
  /\ \A s \in Session : session[s].op = "saving" =>
       session[s].refs \in References(session[s].row)

CollectedOneKind ==
  \A s \in Session : session[s].op = "deleting" =>
    \/ session[s].collected \subseteq GuardedRows
    \/ session[s].collected \cap GuardedRows = {}

IInv == TypeOK /\ NoOrphans /\ UniqueKeys /\ WellFormed /\ CollectedOneKind

Store == INSTANCE ReferentialStore WITH Guarded <- GuardedRows

\* The admin implements the relational store its documentation promises.
ImplementsStore == Store!Spec
===============================================================================
