--------------------------- MODULE AdminStoreProofs ---------------------------
(***************************************************************************)
(* Proofs about AdminStore for any number of rows, tables filled in any    *)
(* way and any number of concurrent requests.                              *)
(***************************************************************************)
EXTENDS AdminStore, TLAPS

-------------------------------------------------------------------------------
(* The shape of the schema.                                                *)

\* Nothing cascades from a device type or a template, and neither of them is
\* ever reached by a cascade.
LEMMA CascadeTables ==
  ASSUME NEW t \in Table
  PROVE  /\ Cascade[t] \subseteq Table
         /\ "device_types" \notin Cascade[t]
         /\ "notification_templates" \notin Cascade[t]
         /\ t \in {"device_types", "notification_templates"} => Cascade[t] = {}
BY DEF Table, Cascade

LEMMA CascadesToUnguarded ==
  ASSUME NEW S, TypeOK
  PROVE  /\ CascadesTo(S) \subseteq rows
         /\ CascadesTo(S) \cap GuardedRows = {}
         /\ S \subseteq GuardedRows => CascadesTo(S) = {}
<1> USE TableOfAssumption
<1>1. CascadesTo(S) \subseteq rows
  BY DEF CascadesTo
<1>2. ASSUME NEW r \in CascadesTo(S)
      PROVE  /\ r \notin GuardedRows
             /\ ~(S \subseteq GuardedRows)
  <2>1. /\ r \in Row
        /\ \E p \in ref[r] \cap S : TableOf[p] \in Cascade[TableOf[r]]
    BY <1>2 DEF CascadesTo, TypeOK
  <2>2. PICK p \in ref[r] \cap S : TableOf[p] \in Cascade[TableOf[r]]
    BY <2>1
  <2>3. /\ TableOf[r] \in Table
        /\ p \in Row
    BY <2>1, <2>2 DEF TypeOK
  <2>4. r \notin GuardedRows
    BY <2>2, <2>3, CascadeTables DEF GuardedRows, Rows
  <2>5. p \notin GuardedRows
    BY <2>2, <2>3, CascadeTables DEF GuardedRows, Rows
  <2>6. QED
    BY <2>2, <2>4, <2>5
<1>3. QED
  BY <1>1, <1>2

LEMMA FastDeletesUnguarded ==
  ASSUME NEW S, TypeOK
  PROVE  /\ FastDeletes(S) \subseteq rows
         /\ FastDeletes(S) \cap GuardedRows = {}
         /\ S \subseteq GuardedRows => FastDeletes(S) = {}
<1> USE TableOfAssumption
<1>1. FastDeletes(S) \subseteq rows
  BY DEF FastDeletes
<1>2. ASSUME NEW r \in FastDeletes(S)
      PROVE  /\ r \notin GuardedRows
             /\ ~(S \subseteq GuardedRows)
  <2>1. /\ r \in Row
        /\ \E p \in ref[r] \cap S : TableOf[p] \in Cascade[TableOf[r]]
    BY <1>2 DEF FastDeletes, TypeOK
  <2>2. PICK p \in ref[r] \cap S : TableOf[p] \in Cascade[TableOf[r]]
    BY <2>1
  <2>3. /\ TableOf[r] \in Table
        /\ p \in Row
    BY <2>1, <2>2 DEF TypeOK
  <2>4. r \notin GuardedRows
    BY <2>2, <2>3, CascadeTables DEF GuardedRows, Rows
  <2>5. p \notin GuardedRows
    BY <2>2, <2>3, CascadeTables DEF GuardedRows, Rows
  <2>6. QED
    BY <2>2, <2>4, <2>5
<1>3. QED
  BY <1>1, <1>2

LEMMA CollectBounds ==
  ASSUME NEW T \in SUBSET rows, TypeOK
  PROVE  Collect(T) \subseteq rows
BY CascadesToUnguarded DEF Collect

\* A collection that starts in one table holds guarded rows only, or none.
LEMMA CollectKind ==
  ASSUME NEW T \in SUBSET rows, NEW t \in Table, T \subseteq Rows(t), TypeOK
  PROVE  Collect(T) \subseteq GuardedRows \/ Collect(T) \cap GuardedRows = {}
<1>1. T \subseteq GuardedRows \/ T \cap GuardedRows = {}
  BY DEF GuardedRows, Rows
<1>2. CASE T \subseteq GuardedRows
  <2>1. CascadesTo(T) = {}
    BY <1>2, CascadesToUnguarded
  <2>2. Collect(T) = T
    BY <2>1 DEF Collect
  <2>3. QED
    BY <1>2, <2>2
<1>3. CASE T \cap GuardedRows = {}
  BY <1>3, CascadesToUnguarded DEF Collect
<1>4. QED
  BY <1>1, <1>2, <1>3

-------------------------------------------------------------------------------
(* Type correctness.                                                       *)

\* Every reference choice is a set of rows.
LEMMA ReferencesAreRows ==
  ASSUME NEW r \in Row, NEW ps \in References(r)
  PROVE  ps \subseteq Row
BY DEF References

\* What the type invariant needs to know of an idle session.
LEMMA IdleIsIdle == Idle.op # "saving" /\ Idle.op # "deleting"
BY DEF Idle

\* A fixture's entries fit the columns they are for.
LEMMA EntryFits ==
  ASSUME NEW F \in Fixture, NEW r \in DOMAIN F
  PROVE  /\ r \in Row /\ F[r].at \in Nat
         /\ F[r].refs \in References(r) /\ F[r].refs \subseteq Row
         /\ F[r].key \in Key \cup {NoKey}
BY FixtureAssumption, ReferencesAreRows DEF KeysOf

\* The store variables keep their types: a row with a UUID has been allocated.
THEOREM TypeCorrect == Spec => []TypeOK
<1>1. Init => TypeOK
  BY DEF Init, TypeOK, Idle
<1>2. TypeOK /\ [Next]_vars => TypeOK'
  <2> SUFFICES ASSUME TypeOK, [Next]_vars
               PROVE  TypeOK'
    OBVIOUS
  <2>1. ASSUME NEW r \in Row, NEW ps \in References(r), NEW k \in KeysOf(r),
               Create(r, ps, k)
        PROVE  TypeOK'
    BY <2>1, ReferencesAreRows DEF Create, Allocate, Write, TypeOK, KeysOf
  <2>2. ASSUME NEW S \in SUBSET Rows("telemetry"), RetentionJob(S)
        PROVE  TypeOK'
    BY <2>2 DEF RetentionJob, TypeOK
  <2>3. ASSUME NEW s \in Session, NEW r \in Row, NEW ps \in References(r),
               NEW k \in KeysOf(r), ChangeView(s, r, ps, k)
        PROVE  TypeOK'
    <3> DEFINE f == [op |-> "saving", row |-> r, refs |-> ps, key |-> k]
    <3>1. f \in Saving /\ (TableOf[f.row] \notin Serial => f.row \in used)
      BY <2>3, ReferencesAreRows DEF Saving, KeysOf, ChangeView, TypeOK
    <3>2. session' = [session EXCEPT ![s] = f]
      BY <2>3 DEF ChangeView
    <3> HIDE DEF f
    <3>3. QED
      BY <2>3, <3>1, <3>2 DEF ChangeView, TypeOK
  <2>4. ASSUME NEW s \in Session, Save(s)
        PROVE  TypeOK'
    <3>1. session[s] \in Saving
      BY <2>4 DEF Save, TypeOK, Idle, Deleting
    <3>2. /\ session[s].row \in Row /\ session[s].refs \in SUBSET Row
          /\ session[s].key \in Key \cup {NoKey}
          /\ TableOf[session[s].row] \notin Serial => session[s].row \in used
      BY <2>4, <3>1 DEF Save, Saving, TypeOK
    <3>3. /\ rows' \subseteq Row /\ used' \subseteq Row
          /\ \A r \in rows' : TableOf[r] \notin Serial => r \in used'
          /\ ref' \in [Row -> SUBSET Row] /\ key' \in [Row -> Key \cup {NoKey}]
      BY <2>4, <3>2 DEF Save, Write, TypeOK
    <3>4. /\ session' = [session EXCEPT ![s] = Idle] /\ used' = used
      BY <2>4 DEF Save
    <3>5. QED
      BY <3>3, <3>4, IdleIsIdle DEF TypeOK
  <2>5. ASSUME NEW s \in Session, NEW t \in Table,
               NEW T \in SUBSET (rows \cap Rows(t)), DeleteView(s, T)
        PROVE  TypeOK'
    <3> DEFINE f == [op |-> "deleting", collected |-> Collect(T)]
    <3>1. f \in Deleting /\ f.op # "saving"
      BY CollectBounds DEF Deleting, TypeOK
    <3>2. session' = [session EXCEPT ![s] = f]
      BY <2>5 DEF DeleteView
    <3> HIDE DEF f
    <3>3. QED
      BY <2>5, <3>1, <3>2 DEF DeleteView, TypeOK
  <2>6. ASSUME NEW s \in Session, Delete(s)
        PROVE  TypeOK'
    BY <2>6, IdleIsIdle DEF Delete, Deletable, TypeOK
  <2>7. ASSUME NEW s \in Session, Rollback(s)
        PROVE  TypeOK'
    BY <2>7, IdleIsIdle DEF Rollback, TypeOK
  <2>8. ASSUME NEW F \in Fixture, Load(F)
        PROVE  TypeOK'
    <3>1. /\ rows' = rows \cup DOMAIN F
          /\ ref' = [r \in Row |-> IF r \in DOMAIN F THEN F[r].refs ELSE ref[r]]
          /\ key' = [r \in Row |-> IF r \in DOMAIN F THEN F[r].key ELSE key[r]]
          /\ session' = session
      BY <2>8 DEF Load
    <3>2. /\ used' \subseteq used \cup rows' /\ rows' \subseteq used'
          /\ \A r \in used : TableOf[r] \notin Serial => r \in used'
      BY <2>8 DEF Load
    <3>3. /\ rows' \subseteq Row
          /\ ref' \in [Row -> SUBSET Row] /\ key' \in [Row -> Key \cup {NoKey}]
      BY <3>1, EntryFits DEF TypeOK
    <3>4. used' \subseteq Row
      BY <3>2, <3>3 DEF TypeOK
    <3>5. QED
      BY <3>1, <3>2, <3>3, <3>4 DEF TypeOK
  <2>9. CASE UNCHANGED vars
    BY <2>9 DEF vars, TypeOK
  <2>10. QED
    BY <2>1, <2>2, <2>3, <2>4, <2>5, <2>6, <2>7, <2>8, <2>9 DEF Next
<1>3. QED
  BY <1>1, <1>2, PTL DEF Spec

-------------------------------------------------------------------------------
(* Relational integrity and unique keys.                                   *)

\* A row written after its references were checked names existing rows only,
\* although the check skips the references an UPDATE left as they were.
LEMMA WriteKeepsIntegrity ==
  ASSUME TypeOK, NoOrphans, NEW r \in Row, NEW ps, NEW k,
         ReferencesHold(r, ps), Write(r, ps, k)
  PROVE  NoOrphans'
<1>1. ps \subseteq rows
  BY DEF ReferencesHold, Changed, NoOrphans
<1>2. /\ rows' = rows \cup {r}
      /\ \A q \in rows \ {r} : ref'[q] = ref[q]
      /\ ref'[r] = ps
  BY DEF Write, TypeOK
<1>3. QED
  BY <1>1, <1>2 DEF NoOrphans

\* Taking away rows that no remaining row names leaves no orphan.
LEMMA RemoveKeepsIntegrity ==
  ASSUME TypeOK, NoOrphans, NEW S,
         \A q \in rows \ S : ref[q] \cap S = {},
         rows' = rows \ S,
         ref' = [r \in Row |-> IF r \in S THEN {} ELSE ref[r]]
  PROVE  NoOrphans'
<1>1. \A q \in rows \ S : ref'[q] = ref[q]
  BY DEF TypeOK
<1>2. QED
  BY <1>1 DEF NoOrphans

\* Nothing refers to telemetry.
LEMMA TelemetryIsALeaf ==
  ASSUME TypeOK, WellFormed, NEW S \in SUBSET Rows("telemetry")
  PROVE  \A q \in rows \ S : ref[q] \cap S = {}
<1> USE TableOfAssumption
<1>1. \A t \in Table : "telemetry" \notin Cascade[t] \cup Protect[t]
  BY DEF Table, Cascade, Protect
<1>2. ASSUME NEW q \in rows, NEW p \in ref[q], p \in S
      PROVE  FALSE
  <2>1. TableOf[p] = "telemetry"
    BY <1>2 DEF Rows
  <2>2. TableOf[p] \in Cascade[TableOf[q]] \cup Protect[TableOf[q]]
    BY <1>2 DEF WellFormed, References
  <2>3. TableOf[q] \in Table
    BY DEF TypeOK
  <2>4. QED
    BY <1>1, <2>1, <2>2, <2>3
<1>3. QED
  BY <1>2

\* A written row whose unique value was free keeps unique values apart.
LEMMA WriteKeepsKeysUnique ==
  ASSUME TypeOK, UniqueKeys, NEW r \in Row, NEW ps, NEW k,
         ~KeyTaken(r, k), Write(r, ps, k)
  PROVE  UniqueKeys'
<1>1. /\ rows' = rows \cup {r}
      /\ \A q \in rows \ {r} : key'[q] = key[q]
      /\ key'[r] = k
  BY DEF Write, TypeOK
<1>2. QED
  BY <1>1 DEF UniqueKeys, KeyTaken

\* The same for the shape of its references.
LEMMA WriteKeepsShape ==
  ASSUME TypeOK, NEW r \in Row, NEW ps \in References(r), NEW k,
         \A q \in rows : ref[q] \in References(q), Write(r, ps, k)
  PROVE  \A q \in rows' : ref'[q] \in References(q)
<1>1. /\ rows' = rows \cup {r}
      /\ \A q \in rows \ {r} : ref'[q] = ref[q]
      /\ ref'[r] = ps
  BY DEF Write, TypeOK
<1>2. QED
  BY <1>1

\* A fixture that was loaded names only rows that are there, in the store or in
\* the file, though the references it repeats were not looked up.
LEMMA LoadKeepsIntegrity ==
  ASSUME TypeOK, NoOrphans, NEW F \in Fixture, Load(F)
  PROVE  NoOrphans'
<1>1. /\ rows' = rows \cup DOMAIN F
      /\ \A q \in DOMAIN F : ref'[q] = F[q].refs
      /\ \A q \in rows \ DOMAIN F : ref'[q] = ref[q]
  BY EntryFits DEF Load, TypeOK
<1>2. ASSUME NEW q \in DOMAIN F PROVE F[q].refs \subseteq rows'
  <2>1. Changed(q, F[q].refs) \subseteq rows'
    BY DEF Load
  <2>2. CASE q \in rows
    BY <1>1, <2>1, <2>2 DEF Changed, NoOrphans
  <2>3. CASE q \notin rows
    BY <2>1, <2>3 DEF Changed
  <2>4. QED
    BY <2>2, <2>3
<1>3. QED
  BY <1>1, <1>2 DEF NoOrphans

\* Two rows that hold the same unique value after a load would have clashed when
\* the later one was written.
LEMMA LoadKeepsKeysUnique ==
  ASSUME TypeOK, UniqueKeys, NEW F \in Fixture, Load(F)
  PROVE  UniqueKeys'
<1> DEFINE alike(q, r) == q # r /\ TableOf[q] = TableOf[r] /\ TableOf[q] \in Unique
<1>1. /\ rows' = rows \cup DOMAIN F
      /\ \A q \in DOMAIN F : key'[q] = F[q].key
      /\ \A q \in rows \ DOMAIN F : key'[q] = key[q]
  BY EntryFits DEF Load, TypeOK
<1>2. ASSUME NEW r \in DOMAIN F, NEW q \in rows', alike(q, r),
             q \in DOMAIN F => F[q].at < F[r].at
      PROVE  key'[q] # key'[r]
  <2>1. ~Clashes(F, r)
    BY DEF Load
  <2>2. CASE q \in DOMAIN F
    BY <1>1, <1>2, <2>1, <2>2 DEF Clashes
  <2>3. CASE q \notin DOMAIN F
    BY <1>1, <1>2, <2>1, <2>3 DEF Clashes
  <2>4. QED
    BY <2>2, <2>3
<1>3. ASSUME NEW r \in DOMAIN F, NEW q \in DOMAIN F, q # r
      PROVE  F[q].at < F[r].at \/ F[r].at < F[q].at
  BY <1>3, EntryFits, FixtureAssumption
<1>4. ASSUME NEW r \in rows', NEW q \in rows', alike(q, r)
      PROVE  key'[q] # key'[r]
  <2>1. CASE r \in DOMAIN F /\ q \in DOMAIN F
    BY <1>2, <1>3, <1>4, <2>1
  <2>2. CASE r \in DOMAIN F /\ q \notin DOMAIN F
    BY <1>2, <1>4, <2>2
  <2>3. CASE r \notin DOMAIN F /\ q \in DOMAIN F
    BY <1>2, <1>4, <2>3
  <2>4. CASE r \notin DOMAIN F /\ q \notin DOMAIN F
    BY <1>1, <1>4, <2>4 DEF UniqueKeys
  <2>5. QED
    BY <2>1, <2>2, <2>3, <2>4
<1>5. QED
  BY <1>4 DEF UniqueKeys

LEMMA LoadKeepsShape ==
  ASSUME TypeOK, NEW F \in Fixture, Load(F), \A q \in rows : ref[q] \in References(q)
  PROVE  \A q \in rows' : ref'[q] \in References(q)
<1>1. /\ rows' = rows \cup DOMAIN F
      /\ \A q \in DOMAIN F : ref'[q] = F[q].refs
      /\ \A q \in rows \ DOMAIN F : ref'[q] = ref[q]
  BY EntryFits DEF Load, TypeOK
<1>2. QED
  BY <1>1, EntryFits

\* Deleting rows keeps the rest of the invariant.
LEMMA RemoveKeepsRest ==
  ASSUME TypeOK, UniqueKeys, \A q \in rows : ref[q] \in References(q), NEW S,
         rows' = rows \ S,
         ref' = [r \in Row |-> IF r \in S THEN {} ELSE ref[r]],
         \A q \in rows \ S : key'[q] = key[q]
  PROVE  UniqueKeys' /\ \A q \in rows' : ref'[q] \in References(q)
<1>1. \A q \in rows \ S : ref'[q] = ref[q] /\ q \in Row
  BY DEF TypeOK
<1>2. QED
  BY <1>1 DEF UniqueKeys

\* A request that ends, or that starts one of the two kinds of work, leaves
\* the invariants about requests intact.
LEMMA SessionStep ==
  ASSUME TypeOK, CollectedOneKind, NEW s \in Session, NEW f,
         \A z \in Session : session[z].op = "saving" =>
           session[z].refs \in References(session[z].row),
         session' = [session EXCEPT ![s] = f],
         f.op = "saving" => f.refs \in References(f.row),
         f.op = "deleting" => \/ f.collected \subseteq GuardedRows
                              \/ f.collected \cap GuardedRows = {}
  PROVE  /\ CollectedOneKind'
         /\ \A z \in Session : session'[z].op = "saving" =>
              session'[z].refs \in References(session'[z].row)
<1>1. \A z \in Session : session'[z] = IF z = s THEN f ELSE session[z]
  BY DEF TypeOK
<1>2. QED
  BY <1>1 DEF CollectedOneKind

-------------------------------------------------------------------------------
\* Every step preserves the inductive invariant.
LEMMA InductiveStep == IInv /\ TypeOK' /\ [Next]_vars => IInv'
<1> SUFFICES ASSUME IInv, TypeOK', [Next]_vars
             PROVE  IInv'
  OBVIOUS
<1> USE DEF IInv
<1>1. ASSUME NEW r \in Row, NEW ps \in References(r), NEW k \in KeysOf(r),
             Create(r, ps, k)
      PROVE  IInv'
  <2>1. NoOrphans'
    BY <1>1, WriteKeepsIntegrity DEF Create
  <2>2. UniqueKeys'
    BY <1>1, WriteKeepsKeysUnique DEF Create
  <2>3. \A q \in rows' : ref'[q] \in References(q)
    BY <1>1, WriteKeepsShape DEF Create, WellFormed
  <2>4. QED
    BY <1>1, <2>1, <2>2, <2>3 DEF Create, Allocate, WellFormed, CollectedOneKind
<1>2. ASSUME NEW S \in SUBSET Rows("telemetry"), RetentionJob(S)
      PROVE  IInv'
  <2>1. NoOrphans'
    BY <1>2, TelemetryIsALeaf, RemoveKeepsIntegrity DEF RetentionJob
  <2>2. UniqueKeys' /\ \A q \in rows' : ref'[q] \in References(q)
    BY <1>2, RemoveKeepsRest DEF RetentionJob, WellFormed
  <2>3. QED
    BY <1>2, <2>1, <2>2 DEF RetentionJob, WellFormed, CollectedOneKind
<1>3. ASSUME NEW s \in Session, NEW r \in Row, NEW ps \in References(r),
             NEW k \in KeysOf(r), ChangeView(s, r, ps, k)
      PROVE  IInv'
  <2> DEFINE f == [op |-> "saving", row |-> r, refs |-> ps, key |-> k]
  <2>1. /\ CollectedOneKind'
        /\ \A z \in Session : session'[z].op = "saving" =>
             session'[z].refs \in References(session'[z].row)
    <3>1. f.op = "saving" /\ f.refs \in References(f.row)
      OBVIOUS
    <3>2. session' = [session EXCEPT ![s] = f]
      BY <1>3 DEF ChangeView
    <3> HIDE DEF f
    <3>3. QED
      BY <3>1, <3>2, SessionStep DEF WellFormed
  <2>2. QED
    BY <1>3, <2>1 DEF ChangeView, NoOrphans, UniqueKeys, WellFormed
<1>4. ASSUME NEW s \in Session, Save(s)
      PROVE  IInv'
  <2> DEFINE f == session[s]
  <2>1. f \in Saving /\ f.refs \in References(f.row)
    BY <1>4 DEF Save, TypeOK, Idle, Deleting, WellFormed
  <2>2. f.row \in Row
    BY <2>1 DEF Saving
  <2>3. /\ ReferencesHold(f.row, f.refs) /\ ~KeyTaken(f.row, f.key)
        /\ Write(f.row, f.refs, f.key)
    BY <1>4 DEF Save
  <2>4. session' = [session EXCEPT ![s] = Idle]
    BY <1>4 DEF Save
  <2> HIDE DEF f
  <2>5. NoOrphans'
    BY <2>2, <2>3, WriteKeepsIntegrity
  <2>6. UniqueKeys'
    BY <2>2, <2>3, WriteKeepsKeysUnique
  <2>7. \A q \in rows' : ref'[q] \in References(q)
    BY <2>1, <2>2, <2>3, WriteKeepsShape DEF WellFormed
  <2>8. /\ CollectedOneKind'
        /\ \A z \in Session : session'[z].op = "saving" =>
             session'[z].refs \in References(session'[z].row)
    BY <2>4, IdleIsIdle, SessionStep DEF WellFormed
  <2>9. QED
    BY <2>5, <2>6, <2>7, <2>8 DEF WellFormed
<1>5. ASSUME NEW s \in Session, NEW t \in Table,
             NEW T \in SUBSET (rows \cap Rows(t)), DeleteView(s, T)
      PROVE  IInv'
  <2> DEFINE f == [op |-> "deleting", collected |-> Collect(T)]
  <2>1. f.op # "saving" /\ (\/ f.collected \subseteq GuardedRows
                            \/ f.collected \cap GuardedRows = {})
    BY CollectKind
  <2>2. session' = [session EXCEPT ![s] = f]
    BY <1>5 DEF DeleteView
  <2> HIDE DEF f
  <2>3. /\ CollectedOneKind'
        /\ \A z \in Session : session'[z].op = "saving" =>
             session'[z].refs \in References(session'[z].row)
    BY <2>1, <2>2, SessionStep DEF WellFormed
  <2>4. QED
    BY <1>5, <2>3 DEF DeleteView, NoOrphans, UniqueKeys, WellFormed
<1>6. ASSUME NEW s \in Session, Delete(s)
      PROVE  IInv'
  <2> DEFINE gone == (session[s].collected \cap rows)
                       \cup FastDeletes(session[s].collected)
  <2>1. /\ \A q \in rows \ gone : ref[q] \cap gone = {}
        /\ rows' = rows \ gone
        /\ ref' = [r \in Row |-> IF r \in gone THEN {} ELSE ref[r]]
        /\ key' = [r \in Row |-> IF r \in gone THEN NoKey ELSE key[r]]
        /\ session' = [session EXCEPT ![s] = Idle]
    BY <1>6 DEF Delete, Deletable
  <2> HIDE DEF gone
  <2>2. NoOrphans'
    BY <2>1, RemoveKeepsIntegrity
  <2>3. UniqueKeys' /\ \A q \in rows' : ref'[q] \in References(q)
    <3>1. \A q \in rows \ gone : key'[q] = key[q]
      BY <2>1 DEF TypeOK
    <3>2. QED
      BY <2>1, <3>1, RemoveKeepsRest DEF WellFormed
  <2>4. /\ CollectedOneKind'
        /\ \A z \in Session : session'[z].op = "saving" =>
             session'[z].refs \in References(session'[z].row)
    BY <2>1, IdleIsIdle, SessionStep DEF WellFormed
  <2>5. QED
    BY <2>2, <2>3, <2>4 DEF WellFormed
<1>7. ASSUME NEW s \in Session, Rollback(s)
      PROVE  IInv'
  <2>1. /\ CollectedOneKind'
        /\ \A z \in Session : session'[z].op = "saving" =>
             session'[z].refs \in References(session'[z].row)
    BY <1>7, IdleIsIdle, SessionStep DEF Rollback, WellFormed
  <2>2. QED
    BY <1>7, <2>1 DEF Rollback, NoOrphans, UniqueKeys, WellFormed
<1>8. ASSUME NEW F \in Fixture, Load(F)
      PROVE  IInv'
  <2>1. NoOrphans' /\ UniqueKeys' /\ \A q \in rows' : ref'[q] \in References(q)
    BY <1>8, LoadKeepsIntegrity, LoadKeepsKeysUnique, LoadKeepsShape DEF WellFormed
  <2>2. QED
    BY <1>8, <2>1 DEF Load, WellFormed, CollectedOneKind
<1>9. CASE UNCHANGED vars
  BY <1>9 DEF vars, NoOrphans, UniqueKeys, WellFormed, CollectedOneKind
<1>10. QED
  BY <1>1, <1>2, <1>3, <1>4, <1>5, <1>6, <1>7, <1>8, <1>9 DEF Next

\* The invariant of the run holds for any rows and any number of requests.
THEOREM InductiveInvariant == Spec => []IInv
<1>1. Init => IInv
  BY DEF Init, IInv, TypeOK, Idle, NoOrphans, UniqueKeys, WellFormed,
         CollectedOneKind
<1>2. QED
  BY <1>1, InductiveStep, TypeCorrect, PTL DEF Spec

\* Whatever the requests read before they wrote, no row is left naming a row
\* that does not exist.
THEOREM Integrity == Spec => []NoOrphans
<1>1. IInv => NoOrphans
  BY DEF IInv
<1>2. QED
  BY <1>1, InductiveInvariant, PTL

\* No two rows of a table share their unique value.
THEOREM KeysStayUnique == Spec => []UniqueKeys
<1>1. IInv => UniqueKeys
  BY DEF IInv
<1>2. QED
  BY <1>1, InductiveInvariant, PTL

-------------------------------------------------------------------------------
(* The admin implements the relational store.                              *)

\* What one deletion removes is guarded rows only, or none of them.
LEMMA GoneOneKind ==
  ASSUME IInv, NEW s \in Session, session[s].op = "deleting"
  PROVE  LET gone == (session[s].collected \cap rows)
                       \cup FastDeletes(session[s].collected)
         IN  gone \subseteq rows
             /\ (gone \cap GuardedRows # {} => gone \subseteq GuardedRows)
<1> DEFINE c == session[s].collected
<1>1. TypeOK
  BY DEF IInv
<1>2. /\ FastDeletes(c) \subseteq rows
      /\ FastDeletes(c) \cap GuardedRows = {}
      /\ c \subseteq GuardedRows => FastDeletes(c) = {}
  BY <1>1, FastDeletesUnguarded
<1>3. c \subseteq GuardedRows \/ c \cap GuardedRows = {}
  BY DEF IInv, CollectedOneKind
<1> HIDE DEF c
<1>4. QED
  BY <1>2, <1>3 DEF c

\* Writing one row that names rows of the store is a step of the store.
LEMMA WriteIsPut ==
  ASSUME TypeOK, NEW r \in Row, NEW ps \in SUBSET Row, ps \subseteq rows, NEW k,
         Write(r, ps, k)
  PROVE  Store!Next
<1>1. Store!Put({r})
  BY DEF Write, Store!Put, TypeOK
<1>2. QED
  BY <1>1 DEF Store!Next

LEMMA StoreStep == IInv /\ [Next]_vars => [Store!Next]_(Store!storeVars)
<1> SUFFICES ASSUME IInv, [Next]_vars
             PROVE  [Store!Next]_(Store!storeVars)
  OBVIOUS
<1> USE DEF Store!Next, Store!storeVars
<1>0. TypeOK /\ NoOrphans
  BY DEF IInv
<1>1. ASSUME NEW r \in Row, NEW ps \in References(r), NEW k \in KeysOf(r),
             Create(r, ps, k)
      PROVE  Store!Next
  <2>1. ps \subseteq rows /\ ps \subseteq Row /\ Write(r, ps, k)
    BY <1>0, <1>1, ReferencesAreRows
       DEF Create, ReferencesHold, Changed, NoOrphans
  <2>2. QED
    BY <1>0, <2>1, WriteIsPut
<1>2. ASSUME NEW S \in SUBSET Rows("telemetry"), RetentionJob(S)
      PROVE  Store!Next
  <2>1. S \cap GuardedRows = {}
    BY DEF Rows, GuardedRows
  <2>2. Store!Remove(S)
    BY <1>0, <1>2, <2>1, TelemetryIsALeaf DEF RetentionJob, Store!Remove, IInv
  <2>3. QED
    BY <1>2, <2>2 DEF RetentionJob
<1>3. ASSUME NEW s \in Session, Save(s)
      PROVE  Store!Next
  <2> DEFINE f == session[s]
  <2>1. f.row \in Row /\ f.refs \in SUBSET Row
    BY <1>0, <1>3 DEF Save, TypeOK, Idle, Deleting, Saving
  <2>2. ReferencesHold(f.row, f.refs) /\ Write(f.row, f.refs, f.key)
    BY <1>3 DEF Save
  <2> HIDE DEF f
  <2>3. f.refs \subseteq rows
    BY <1>0, <2>2 DEF ReferencesHold, Changed, NoOrphans
  <2>4. QED
    BY <1>0, <2>1, <2>2, <2>3, WriteIsPut
<1>4. ASSUME NEW s \in Session, Delete(s)
      PROVE  Store!Next
  <2> DEFINE gone == (session[s].collected \cap rows)
                       \cup FastDeletes(session[s].collected)
  <2>1. gone \subseteq rows
        /\ (gone \cap GuardedRows # {} => gone \subseteq GuardedRows)
    BY <1>4, GoneOneKind DEF Delete, Deletable
  <2>2. /\ \A q \in rows \ gone : ref[q] \cap gone = {}
        /\ rows' = rows \ gone
        /\ ref' = [r \in Row |-> IF r \in gone THEN {} ELSE ref[r]]
    BY <1>4 DEF Delete, Deletable
  <2> HIDE DEF gone
  <2>3. Store!Remove(gone)
    BY <2>1, <2>2 DEF Store!Remove
  <2>4. QED
    BY <2>1, <2>3
<1>5. ASSUME NEW s \in Session,
             \/ \E r \in Row : \E ps \in References(r), k \in KeysOf(r) :
                  ChangeView(s, r, ps, k)
             \/ \E t \in Table : \E T \in SUBSET (rows \cap Rows(t)) \ {{}} :
                  DeleteView(s, T)
             \/ Rollback(s)
      PROVE  UNCHANGED Store!storeVars
  BY <1>5 DEF ChangeView, DeleteView, Rollback
<1>6. ASSUME NEW F \in Fixture, Load(F)
      PROVE  Store!Next
  <2>1. /\ rows' = rows \cup DOMAIN F
        /\ ref' = [r \in Row |-> IF r \in DOMAIN F THEN F[r].refs ELSE ref[r]]
    BY <1>6 DEF Load
  <2>2. /\ DOMAIN F \in SUBSET Row
        /\ \A r \in DOMAIN F : F[r].refs \subseteq Row /\ ref'[r] = F[r].refs
        /\ \A r \in Row \ DOMAIN F : ref'[r] = ref[r]
    BY <2>1, EntryFits
  <2>3. ref' \in [Row -> SUBSET Row]
    BY <1>0, <2>1, <2>2 DEF TypeOK
  <2>4. \A r \in DOMAIN F : ref'[r] \subseteq rows'
    BY <1>0, <1>6, <2>1, LoadKeepsIntegrity DEF NoOrphans, IInv
  <2>5. Store!Put(DOMAIN F)
    BY <2>1, <2>2, <2>3, <2>4 DEF Store!Put
  <2>6. QED
    BY <2>2, <2>5
<1>7. CASE UNCHANGED vars
  BY <1>7 DEF vars
<1>8. QED
  BY <1>1, <1>2, <1>3, <1>4, <1>5, <1>6, <1>7 DEF Next

\* The admin with its overlapping requests implements the relational store of
\* ReferentialStore.
THEOREM Refinement == Spec => ImplementsStore
<1>1. Init => Store!Init
  BY DEF Init, Store!Init
<1>2. QED
  BY <1>1, StoreStep, InductiveInvariant, PTL DEF Spec, Store!Spec, ImplementsStore

\* A step of the admin never removes a device type or template together with
\* rows of another kind.
THEOREM Protection == Spec => ProtectedGoAlone
<1>1. IInv /\ [Next]_vars =>
        [(rows \ rows') \cap GuardedRows # {}
           => rows \ rows' \subseteq GuardedRows]_vars
  <2> SUFFICES ASSUME IInv, [Next]_vars
               PROVE  (rows \ rows') \cap GuardedRows # {}
                        => rows \ rows' \subseteq GuardedRows
    OBVIOUS
  <2>1. [Store!Next]_(Store!storeVars)
    BY StoreStep
  <2>2. ASSUME NEW S \in SUBSET Row, Store!Put(S)
        PROVE  rows \ rows' = {}
    BY <2>2 DEF Store!Put
  <2>3. ASSUME NEW S \in SUBSET rows, Store!Remove(S)
        PROVE  rows \ rows' = S /\ (S \cap GuardedRows # {} => S \subseteq GuardedRows)
    BY <2>3 DEF Store!Remove
  <2>4. QED
    BY <2>1, <2>2, <2>3 DEF Store!Next, Store!storeVars
<1>2. QED
  BY <1>1, InductiveInvariant, PTL DEF Spec, ProtectedGoAlone

===============================================================================
