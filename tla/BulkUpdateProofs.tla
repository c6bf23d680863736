--------------------------- MODULE BulkUpdateProofs ---------------------------
(***************************************************************************)
(* Proofs about what the change forms and the bulk actions of the admin    *)
(* write: BulkUpdate, for any set of rows and any number of requests (the  *)
(* row locks keep every written version current; looking at the filter     *)
(* again is enough unless a search joined a table), and Documents, for     *)
(* any rows of the tables whose columns have validators.                   *)
(***************************************************************************)
EXTENDS BulkUpdate, Documents, TLAPS

\* What the argument about locks needs to know of the requests' records.
Shape ==
  /\ DOMAIN txn = Session
  /\ \A s \in Session : Busy(s) =>
       /\ DOMAIN txn[s] = Fields
       /\ txn[s].act \in BulkAction \cup SaveAction
       /\ txn[s].todo \subseteq Rows(txn[s].act.table)
       /\ DOMAIN txn[s].new \subseteq Row

LEMMA ActionTables ==
  ASSUME NEW a \in BulkAction \cup SaveAction
  PROVE  /\ a.table \in Table
         /\ a \in SaveAction => IsSave(a)
<1>1. CASE a \in BulkAction
  BY <1>1 DEF BulkAction, Table, Status, Statement, SetStatus, activate_devices,
       deactivate_devices, enable_rules, disable_rules, acknowledge_events,
       resolve_events, mark_events_new, activate_templates,
       deactivate_templates, mark_pending, reset_attempts, SaveAction, Save, IsSave
<1>2. CASE a \in SaveAction
  BY <1>2 DEF SaveAction, Save, Statement, IsSave
<1>3. QED
  BY <1>1, <1>2

LocksInv == Shape /\ WritesAreCurrent

LEMMA IdleNotBusy ==
  ASSUME Shape, NEW s \in Session, txn' = [txn EXCEPT ![s] = Idle],
         \A z \in Session \ {s} : \A r \in Locked(z) : value'[r] = value[r],
         WritesAreCurrent
  PROVE  LocksInv'
<1>1. /\ DOMAIN txn' = Session
      /\ txn'[s] = Idle
      /\ \A z \in Session \ {s} : txn'[z] = txn[z]
  BY DEF Shape
<1>2. Locked(s)' = {} /\ \A z \in Session \ {s} : Locked(z)' = Locked(z)
  BY <1>1 DEF Locked, Busy
<1>3. Shape'
  BY <1>1 DEF Shape, Busy
<1>4. WritesAreCurrent'
  BY <1>1, <1>2 DEF WritesAreCurrent, LockedByOther, StillMatches
<1>5. QED
  BY <1>3, <1>4 DEF LocksInv

\* Every step keeps the written versions current: a row is written only while
\* no other request holds it, and only its holder can commit it.
LEMMA LocksStep == LocksInv /\ [Next]_vars => LocksInv'
<1> SUFFICES ASSUME LocksInv, [Next]_vars
             PROVE  LocksInv'
  OBVIOUS
<1> USE DEF LocksInv
<1>1. ASSUME NEW s \in Session, NEW a \in BulkAction \cup SaveAction,
             NEW sel \in SUBSET Rows(a.table), NEW j \in BOOLEAN, Begin(s, a, sel, j)
      PROVE  LocksInv'
  <2> DEFINE todo == {r \in sel : Matches(a, value[r].status)}
             found == IF j THEN [r \in todo |-> value[r].status] ELSE <<>>
             t == [state |-> "running", act |-> a, joined |-> j, found |-> found,
                   todo |-> todo, new |-> <<>>]
  <2>1. /\ t.act = a /\ t.todo \subseteq Rows(a.table) /\ DOMAIN t.new = {}
        /\ DOMAIN t = Fields
    BY DEF Fields
  <2>2. txn' = [txn EXCEPT ![s] = t] /\ value' = value
    BY <1>1 DEF Begin
  <2> HIDE DEF t, todo, found
  <2>3. /\ DOMAIN txn' = Session
        /\ txn'[s] = t
        /\ \A z \in Session \ {s} : txn'[z] = txn[z]
    BY <2>2 DEF Shape
  <2>4. Locked(s)' = {} /\ \A z \in Session \ {s} : Locked(z)' = Locked(z)
    BY <2>1, <2>3 DEF Locked, Busy
  <2>5. Shape'
    BY <2>1, <2>3 DEF Shape, Busy
  <2>6. WritesAreCurrent'
    BY <2>2, <2>3, <2>4 DEF WritesAreCurrent, LockedByOther, StillMatches
  <2>7. QED
    BY <2>5, <2>6
<1>2. ASSUME NEW s \in Session, NEW r \in Row, UpdateRow(s, r)
      PROVE  LocksInv'
  <2> DEFINE t == txn[s]
             new == IF StillMatches(s, r)
                    THEN [q \in DOMAIN t.new \cup {r} |->
                            IF q = r THEN Assign(t.act, value[r]) ELSE t.new[q]]
                    ELSE t.new
  <2>1. /\ Busy(s) /\ r \in t.todo /\ ~LockedByOther(s, r) /\ value' = value
        /\ t.act \in BulkAction \cup SaveAction
        /\ t.todo \subseteq Rows(t.act.table)
    BY <1>2 DEF UpdateRow, Shape
  <2>2. /\ DOMAIN txn' = Session
        /\ \A z \in Session \ {s} : txn'[z] = txn[z]
    BY <1>2 DEF UpdateRow, Shape
  <2>3. /\ txn'[s].act = t.act /\ txn'[s].todo = t.todo \ {r}
        /\ txn'[s].new = new
        /\ txn'[s].joined = t.joined /\ txn'[s].found = t.found
        /\ DOMAIN txn'[s] = Fields
    BY <1>2 DEF UpdateRow, Shape, Fields
  <2>4. /\ Locked(s)' = DOMAIN new
        /\ \A z \in Session \ {s} : Locked(z)' = Locked(z)
        /\ Locked(s) = DOMAIN t.new
    <3>1. Idle # txn'[s]
      BY <2>3 DEF Idle, Fields
    <3>2. QED
      BY <2>1, <2>2, <2>3, <3>1 DEF Locked, Busy
  <2>5. Shape'
    <3>1. DOMAIN new \subseteq Row
      BY <2>1 DEF Shape
    <3> HIDE DEF new
    <3>2. QED
      BY <2>1, <2>2, <2>3, <3>1 DEF Shape, Busy
  <2>6. ASSUME NEW q \in DOMAIN new
        PROVE  /\ TableOf[q] = t.act.table
               /\ StillMatches(s, q)
               /\ new[q] = Assign(t.act, value[q])
               /\ \A z \in Session \ {s} : q \notin Locked(z)
    <3>1. CASE q = r /\ StillMatches(s, r)
      BY <2>1, <3>1 DEF Rows, LockedByOther
    <3>2. CASE q \in DOMAIN t.new /\ (q # r \/ ~StillMatches(s, r))
      BY <2>4, <3>2 DEF WritesAreCurrent, LockedByOther, StillMatches
    <3>3. QED
      BY <2>6, <3>1, <3>2
  <2>10. \A z \in Session, q \in Row : StillMatches(z, q)' = StillMatches(z, q)
    BY <2>1, <2>2, <2>3 DEF StillMatches
  <2> HIDE DEF new, t
  <2>7. ASSUME NEW z \in Session, NEW q \in Locked(z)'
        PROVE  /\ ~LockedByOther(z, q)'
               /\ TableOf[q] = txn'[z].act.table
               /\ StillMatches(z, q)'
               /\ txn'[z].new[q] = Assign(txn'[z].act, value'[q])
    <3>1. CASE z = s
      <4>1. q \in DOMAIN new
        BY <2>4, <2>7, <3>1
      <4>2. ~LockedByOther(z, q)'
        BY <2>4, <2>6, <3>1, <4>1 DEF LockedByOther
      <4>3. QED
        <5>1. q \in Row
          BY <2>1, <2>4, <2>5, <3>1, <4>1, <2>3 DEF Shape, Busy, Locked
        <5>2. StillMatches(z, q)'
          BY <2>6, <2>10, <3>1, <4>1, <5>1
        <5>3. QED
          BY <2>1, <2>3, <2>6, <3>1, <4>1, <4>2, <5>2
    <3>2. CASE z # s
      <4>1. q \in Locked(z) /\ txn'[z] = txn[z]
        BY <2>2, <2>4, <2>7, <3>2
      <4>2. ~LockedByOther(z, q)'
        BY <2>4, <2>6, <3>2, <4>1 DEF LockedByOther, WritesAreCurrent
      <4>3. QED
        BY <2>1, <2>10, <4>1, <4>2 DEF WritesAreCurrent, Shape, Locked, StillMatches
    <3>3. QED
      BY <3>1, <3>2
  <2>8. WritesAreCurrent'
    BY <2>7 DEF WritesAreCurrent, StillMatches
  <2>9. QED
    BY <2>5, <2>8
<1>3. ASSUME NEW s \in Session, Commit(s)
      PROVE  LocksInv'
  <2>1. \A z \in Session \ {s} : \A r \in Locked(z) : value'[r] = value[r]
    BY <1>3 DEF Commit, WritesAreCurrent, LockedByOther, Locked, Shape
  <2>2. QED
    BY <1>3, <2>1, IdleNotBusy DEF Commit
<1>4. ASSUME NEW s \in Session, DeadlockVictim(s) \/ Abort(s)
      PROVE  LocksInv'
  BY <1>4, IdleNotBusy DEF DeadlockVictim, Abort
<1>5. CASE UNCHANGED vars
  BY <1>5 DEF vars, Shape, WritesAreCurrent, Locked, LockedByOther, Busy, StillMatches
<1>6. QED
  BY <1>1, <1>2, <1>3, <1>4, <1>5 DEF Next

\* The versions written so far belong to one request each and are based on the
\* committed version of their row.
THEOREM LocksProtectWrites == Spec => []WritesAreCurrent
<1>1. Init => LocksInv
  BY DEF Init, LocksInv, Shape, WritesAreCurrent, Locked, Busy
<1>2. LocksInv => WritesAreCurrent
  BY DEF LocksInv
<1>3. QED
  BY <1>1, <1>2, LocksStep, PTL DEF Spec

LEMMA LocksInvariant == Spec => []LocksInv
<1>1. Init => LocksInv
  BY DEF Init, LocksInv, Shape, WritesAreCurrent, Locked, Busy
<1>2. QED
  BY <1>1, LocksStep, PTL DEF Spec

\* Only the change form or a statement that has found the event in another
\* status can take a resolved event back to acknowledged.
LEMMA AcknowledgeNeedsNew ==
  ASSUME NEW a \in BulkAction \cup SaveAction, NEW v, NEW status, a.table = "events",
         DOMAIN v = {"status", "attempts"}, Matches(a, status), v.status = "resolved",
         Assign(a, v).status = "acknowledged"
  PROVE  IsSave(a) \/ status # "resolved"
<1>1. CASE a \in SaveAction
  BY <1>1, ActionTables
<1>2. CASE a \in BulkAction
  <2>1. a \in {acknowledge_events, resolve_events, mark_events_new}
    BY <1>2 DEF BulkAction, Statement, SetStatus, activate_devices,
       deactivate_devices, enable_rules, disable_rules, acknowledge_events,
       resolve_events, mark_events_new, activate_templates,
       deactivate_templates, mark_pending, reset_attempts
  <2>2. a = acknowledge_events => status # "resolved"
    BY DEF acknowledge_events, SetStatus, Statement, Matches
  <2>3. a # resolve_events
    BY DEF resolve_events, SetStatus, Statement, Assign
  <2>4. a = mark_events_new => Assign(a, v).status = "new"
    BY DEF mark_events_new, SetStatus, Statement, Assign
  <2>5. QED
    BY <2>1, <2>2, <2>3, <2>4
<1>3. QED
  BY <1>1, <1>2

-------------------------------------------------------------------------------
(* Type correctness.                                                       *)

LEMMA AssignKeepsType ==
  ASSUME NEW a \in BulkAction \cup SaveAction, NEW v \in Values(a.table)
  PROVE  Assign(a, v) \in Values(a.table)
<1>1. DOMAIN v = {"status", "attempts"}
  BY DEF Values
<1>2. a.value.status \in Status[a.table] /\ 0 \in 0..MaxAttempts
      /\ ("attempts" \in a.columns => a.value.attempts \in
            IF a.table = "notification_deliveries" THEN 0..MaxAttempts ELSE {0})
  <2>1. CASE a \in SaveAction
    BY <2>1, MaxAttemptsAssumption DEF SaveAction, Save, Statement, Values
  <2>2. CASE a \in BulkAction
    BY <2>2, MaxAttemptsAssumption DEF BulkAction, Statement, SetStatus, Status, Flag,
       DeviceStatus, EventStatus, NotificationStatus, activate_devices,
       deactivate_devices, enable_rules, disable_rules, acknowledge_events,
       resolve_events, mark_events_new, activate_templates,
       deactivate_templates, mark_pending, reset_attempts
  <2>3. QED
    BY <2>1, <2>2
<1>3. QED
  BY <1>1, <1>2 DEF Assign, Values

LEMMA DefaultsTyped ==
  ASSUME NEW r \in Row
  PROVE  [status |-> Default[TableOf[r]], attempts |-> 0] \in Values(TableOf[r])
BY TableOfAssumption, MaxAttemptsAssumption DEF Default, Values, Status, Table,
   DeviceStatus, EventStatus, NotificationStatus, Flag

\* Committed and pending versions keep the values of their table's columns.
THEOREM TypeCorrect == Spec => []TypeOK
<1>1. Init => TypeOK
  BY DefaultsTyped DEF Init, TypeOK
<1>2. TypeOK /\ [Next]_vars => TypeOK'
  <2> SUFFICES ASSUME TypeOK, [Next]_vars
               PROVE  TypeOK'
    OBVIOUS
  <2>1. ASSUME NEW s \in Session, NEW a \in BulkAction \cup SaveAction,
               NEW sel \in SUBSET Rows(a.table), NEW j \in BOOLEAN, Begin(s, a, sel, j)
        PROVE  TypeOK'
    <3> DEFINE todo == {r \in sel : Matches(a, value[r].status)}
               found == IF j THEN [r \in todo |-> value[r].status] ELSE <<>>
               t == [state |-> "running", act |-> a, joined |-> j, found |-> found,
                     todo |-> todo, new |-> <<>>]
    <3>1. IsRunning(t)
      <4>1. todo \subseteq Rows(a.table) /\ (j => DOMAIN found = todo)
        OBVIOUS
      <4> HIDE DEF todo, found
      <4>2. QED
        BY <4>1 DEF IsRunning, Fields
    <3>2. txn' = [txn EXCEPT ![s] = t] /\ value' = value
      BY <2>1 DEF Begin
    <3> HIDE DEF t, todo, found
    <3>3. QED
      BY <3>1, <3>2 DEF TypeOK
  <2>2. ASSUME NEW s \in Session, NEW r \in Row, UpdateRow(s, r)
        PROVE  TypeOK'
    <3> DEFINE t == txn[s]
               new == IF StillMatches(s, r)
                      THEN [q \in DOMAIN t.new \cup {r} |->
                              IF q = r THEN Assign(t.act, value[r]) ELSE t.new[q]]
                      ELSE t.new
               u == [t EXCEPT !.todo = t.todo \ {r}, !.new = new]
    <3>1. IsRunning(t) /\ r \in t.todo
      BY <2>2 DEF UpdateRow, TypeOK, Busy
    <3>2. r \in Rows(t.act.table) /\ value[r] \in Values(t.act.table)
      BY <3>1 DEF IsRunning, Rows, TypeOK
    <3>3. Assign(t.act, value[r]) \in Values(t.act.table)
      BY <3>1, <3>2, AssignKeepsType DEF IsRunning
    <3>4. /\ DOMAIN new \subseteq Rows(t.act.table)
          /\ DOMAIN new \subseteq DOMAIN t.new \cup {r}
          /\ \A q \in DOMAIN new : new[q] \in Values(t.act.table)
      BY <3>1, <3>2, <3>3 DEF IsRunning
    <3>5. txn' = [txn EXCEPT ![s] = u] /\ value' = value
      BY <2>2 DEF UpdateRow
    <3> HIDE DEF new
    <3>6. IsRunning(u)
      BY <3>1, <3>4 DEF IsRunning, Fields
    <3> HIDE DEF u, t
    <3>7. QED
      BY <3>5, <3>6 DEF TypeOK
  <2>3. ASSUME NEW s \in Session, Commit(s)
        PROVE  TypeOK'
    <3>1. ASSUME NEW r \in Locked(s)
          PROVE  r \in Row /\ txn[s].new[r] \in Values(TableOf[r])
      <4>1. IsRunning(txn[s]) /\ r \in DOMAIN txn[s].new
        BY <3>1 DEF Locked, TypeOK, Busy
      <4>2. QED
        BY <4>1 DEF IsRunning, Rows
    <3>2. DOMAIN value' = Row /\ \A r \in Row : value'[r] \in Values(TableOf[r])
      BY <2>3, <3>1 DEF Commit, TypeOK
    <3>3. QED
      BY <2>3, <3>2 DEF Commit, TypeOK
  <2>4. ASSUME NEW s \in Session, DeadlockVictim(s) \/ Abort(s)
        PROVE  TypeOK'
    BY <2>4 DEF DeadlockVictim, Abort, TypeOK
  <2>5. CASE UNCHANGED vars
    BY <2>5 DEF vars, TypeOK
  <2>6. QED
    BY <2>1, <2>2, <2>3, <2>4, <2>5 DEF Next
<1>3. QED
  BY <1>1, <1>2, PTL DEF Spec

-------------------------------------------------------------------------------
(* What the operators rely on.                                             *)

\* A row changes only when the request that has locked it commits, and then
\* to what its statement makes of the version committed before.
LEMMA ChangesComeFromCommits ==
  ASSUME TypeOK, LocksInv, [Next]_vars, NEW r \in Row, value'[r] # value[r]
  PROVE  \E s \in Session : /\ Commits(s)
                            /\ txn[s].act \in BulkAction \cup SaveAction
                            /\ TableOf[r] = txn[s].act.table
                            /\ StillMatches(s, r)
                            /\ value'[r] = Assign(txn[s].act, value[r])
<1>1. PICK s \in Session : Commit(s)
  BY DEF Next, vars, Begin, UpdateRow, DeadlockVictim, Abort
<1>2. r \in Locked(s) /\ value'[r] = txn[s].new[r]
  BY <1>1 DEF Commit
<1>3. txn'[s] = Idle
  BY <1>1 DEF Commit, TypeOK
<1>4. QED
  BY <1>1, <1>2, <1>3 DEF Commits, Commit, LocksInv, WritesAreCurrent, Shape, StillMatches

\* The bulk action takes a resolved event back to acknowledged only in a
\* statement with a subquery that found the event before it was resolved;
\* however many operators act on it from pages of whatever age.
THEOREM AcknowledgeIsSafe == Spec => AcknowledgeKeepsResolved
<1>1. TypeOK /\ LocksInv /\ [Next]_vars =>
        [\A r \in Rows("events") :
           value[r].status = "resolved" /\ value'[r].status = "acknowledged" =>
             \E s \in Session :
               /\ Commits(s)
               /\ \/ IsSave(txn[s].act)
                  \/ txn[s].joined /\ txn[s].found[r] # "resolved"]_vars
  <2> SUFFICES ASSUME TypeOK, LocksInv, [Next]_vars, NEW r \in Rows("events"),
                      value[r].status = "resolved",
                      value'[r].status = "acknowledged"
               PROVE  \E s \in Session :
                        /\ Commits(s)
                        /\ \/ IsSave(txn[s].act)
                           \/ txn[s].joined /\ txn[s].found[r] # "resolved"
    OBVIOUS
  <2>1. r \in Row /\ value'[r] # value[r] /\ TableOf[r] = "events"
    BY DEF Rows
  <2>2. PICK s \in Session : /\ Commits(s)
                             /\ txn[s].act \in BulkAction \cup SaveAction
                             /\ TableOf[r] = txn[s].act.table
                             /\ StillMatches(s, r)
                             /\ value'[r] = Assign(txn[s].act, value[r])
    BY <2>1, ChangesComeFromCommits
  <2>3. DOMAIN value[r] = {"status", "attempts"}
    BY <2>1 DEF TypeOK, Values
  <2> DEFINE seen == IF txn[s].joined THEN txn[s].found[r] ELSE value[r].status
  <2>4. Matches(txn[s].act, seen)
    BY <2>2 DEF StillMatches
  <2> HIDE DEF seen
  <2>5. IsSave(txn[s].act) \/ seen # "resolved"
    BY <2>1, <2>2, <2>3, <2>4, AcknowledgeNeedsNew
  <2>6. IsSave(txn[s].act) \/ (txn[s].joined /\ txn[s].found[r] # "resolved")
    BY <2>5 DEF seen
  <2>7. QED
    BY <2>2, <2>6
<1>2. QED
  BY <1>1, LocksInvariant, TypeCorrect, PTL DEF Spec, AcknowledgeKeepsResolved

\* Bulk actions on different columns of the same delivery do not undo each
\* other.
THEOREM ColumnsAreIndependent == Spec => OtherColumnsKept
<1>1. TypeOK /\ LocksInv /\ [Next]_vars =>
        [\A s \in Session : Commits(s) => \A r \in Row :
           \A c \in {"status", "attempts"} \ txn[s].act.columns :
             value'[r][c] = value[r][c]]_vars
  <2> SUFFICES ASSUME TypeOK, LocksInv, [Next]_vars, NEW s \in Session, Commits(s),
                      NEW r \in Row, value'[r] # value[r],
                      NEW c \in {"status", "attempts"} \ txn[s].act.columns
               PROVE  value'[r][c] = value[r][c]
    OBVIOUS
  <2>1. PICK z \in Session : Commit(z)
    BY DEF Commits, Next, vars, Begin, UpdateRow, DeadlockVictim, Abort
  <2>2. z = s
    BY <2>1 DEF Commit, Commits, Busy, TypeOK
  <2>3. r \in Locked(s) /\ value'[r] = Assign(txn[s].act, value[r])
    BY <2>1, <2>2 DEF Commit, LocksInv, WritesAreCurrent
  <2>4. DOMAIN value[r] = {"status", "attempts"}
    BY DEF TypeOK, Values
  <2>5. QED
    BY <2>3, <2>4 DEF Assign
<1>2. QED
  BY <1>1, LocksInvariant, TypeCorrect, PTL DEF Spec, OtherColumnsKept

(***************************************************************************)
(* Documents.                                                              *)
(***************************************************************************)
(* The columns of a row are those of a form.                               *)
Reads(s, r) == DOMAIN s = DOMAIN r /\ \A c \in DOMAIN r : s[c] = r[c]

(* What is waiting to be saved has passed the validators, and so has a row *)
(* that a form saved.                                                      *)
FormsInv ==
  /\ model \in {"Rule", "NotificationTemplate", "DeviceType"}
  /\ \E r \in RowsOf(model) : Reads(row, r)
  /\ by_form => is_valid(model, row)
  /\ DOMAIN cleaned = Request
  /\ \A q \in Request : cleaned[q] # Null =>
       cleaned[q] \in RowsOf(model) /\ is_valid(model, cleaned[q])

(* All rows of a table have the same columns.                              *)
LEMMA ColumnsOf ==
  ASSUME RowShape, NEW m \in {"Rule", "NotificationTemplate", "DeviceType"}
  PROVE  \A r, x \in RowsOf(m) : DOMAIN r = DOMAIN x
  BY DEF RowsOf, RowShape

(* The validators read the columns of the form and nothing else.           *)
LEMMA SavedIsValid ==
  ASSUME RowShape, NEW m \in {"Rule", "NotificationTemplate", "DeviceType"},
         NEW r \in RowsOf(m), NEW s, Reads(s, r)
  PROVE  is_valid(m, r) <=> is_valid(m, s)
<1>1. CASE m = "Rule"
  <2>1. s.action_config = r.action_config
    BY <1>1 DEF RowsOf, RowShape, Reads
  <2> QED
    BY <1>1, <2>1 DEF is_valid
<1>2. CASE m = "NotificationTemplate"
  <2>1. /\ s.recipients = r.recipients /\ s.retry_count = r.retry_count
        /\ s.retry_delay_minutes = r.retry_delay_minutes
    BY <1>2 DEF RowsOf, RowShape, Reads
  <2> QED
    BY <1>2, <2>1 DEF is_valid
<1>3. CASE m = "DeviceType"
  <2>1. s.metric_min = r.metric_min /\ s.metric_max = r.metric_max
    BY <1>3 DEF RowsOf, RowShape, Reads
  <2> QED
    BY <1>3, <2>1 DEF is_valid, clean
<1> QED
  BY <1>1, <1>2, <1>3

LEMMA FormsStep == RowShape /\ FormsInv /\ [FormsNext]_form_vars => FormsInv'
<1> SUFFICES ASSUME RowShape, FormsInv, [FormsNext]_form_vars PROVE FormsInv'
  OBVIOUS
<1> USE DEF FormsInv
<1>1. ASSUME NEW q \in Request, NEW values \in RowsOf(model), Post(q, values)
      PROVE  FormsInv'
  <2>1. UNCHANGED <<model, row, by_form>> /\ is_valid(model, values)
    BY <1>1 DEF Post
  <2>2. \A x \in Request : cleaned'[x] = IF x = q THEN values ELSE cleaned[x]
    BY <1>1 DEF Post
  <2>3. DOMAIN cleaned' = Request
    BY <1>1 DEF Post
  <2> QED
    BY <2>1, <2>2, <2>3 DEF RowsOf, is_valid
<1>2. ASSUME NEW q \in Request, save(q) PROVE FormsInv'
  <2>1. UNCHANGED model /\ cleaned[q] # Null /\ row' = [c \in DOMAIN row |-> cleaned[q][c]]
    BY <1>2 DEF save, columns
  <2>2. cleaned[q] \in RowsOf(model) /\ is_valid(model, cleaned[q])
    BY <2>1
  <2>3. DOMAIN row = DOMAIN cleaned[q]
    BY <2>2, ColumnsOf DEF Reads
  <2>7. Reads(row', cleaned[q])
    BY <2>1, <2>3 DEF Reads
  <2>4. is_valid(model, row')
    BY <2>2, <2>7, SavedIsValid
  <2>5. \A x \in Request : cleaned'[x] = IF x = q THEN Null ELSE cleaned[x]
    BY <1>2 DEF save
  <2>6. DOMAIN cleaned' = Request
    BY <1>2 DEF save
  <2> QED
    BY <2>1, <2>2, <2>4, <2>5, <2>6, <2>7 DEF RowsOf, is_valid
<1>3. ASSUME NEW r \in RowsOf(model), Store(r) PROVE FormsInv'
  <2>1. row' = r /\ by_form' = FALSE /\ UNCHANGED <<model, cleaned>>
    BY <1>3 DEF Store
  <2> QED
    BY <2>1 DEF RowsOf, is_valid, Reads
<1>4. CASE UNCHANGED form_vars
  BY <1>4 DEF form_vars, RowsOf, is_valid
<1> QED
  BY <1>1, <1>2, <1>3, <1>4 DEF FormsNext

(* What the validators accept is what the help texts promise.              *)
LEMMA ActionsAreDocumented ==
  ASSUME NEW document, validate_action_config(document)
  PROVE  document.list /\ \A k \in DOMAIN document.items : Action(document.items[k])
<1>1. ASSUME NEW k \in DOMAIN document.items PROVE Action(document.items[k])
  <2> DEFINE item == document.items[k]
  <2>1. item \in Items(document)
    BY DEF Items
  <2>2. /\ item.dict /\ "type" \in item.keys
        /\ item.cooldown \in {"none", "natural", "boolean"}
        /\ item.type = "notification" => "template_id" \in item.keys
        /\ item.type = "stop_machine" => "machine_id" \in item.keys
    BY <2>1 DEF validate_action_config, IsCooldown
  <2> HIDE DEF item
  <2>3. Action(item)
    BY <2>2 DEF Action
  <2> QED
    BY <2>3 DEF item
<1> QED
  BY <1>1 DEF validate_action_config

LEMMA RecipientsAreDocumented ==
  ASSUME NEW document, validate_recipients(document),
         document.items \in Seq({document.items[k] : k \in DOMAIN document.items})
  PROVE  /\ document.list /\ Len(document.items) > 0
         /\ \A k \in DOMAIN document.items : Recipient(document.items[k])
<1>1. ASSUME NEW k \in DOMAIN document.items PROVE Recipient(document.items[k])
  <2> DEFINE item == document.items[k]
  <2>1. item \in Items(document)
    BY DEF Items
  <2>2. /\ item.dict /\ "type" \in item.keys /\ item.type \in {"email", "sms", "webhook"}
        /\ item.type = "email" => "address" \in item.keys
        /\ item.type = "sms" => "phone" \in item.keys
        /\ item.type = "webhook" => "url" \in item.keys
    BY <2>1 DEF validate_recipients, AddressKey
  <2> HIDE DEF item
  <2>3. Recipient(item)
    BY <2>2 DEF Recipient
  <2> QED
    BY <2>3 DEF item
<1>2. Len(document.items) > 0
  <2>1. document.items # <<>>
    BY DEF validate_recipients
  <2> QED
    BY <2>1
<1> QED
  BY <1>1, <1>2 DEF validate_recipients

LEMMA ValidIsDocumented ==
  ASSUME RowShape, FormsInv, is_valid(model, row)
  PROVE  Documented
<1>0. PICK r \in RowsOf(model) : Reads(row, r)
  BY DEF FormsInv
<1>1. CASE model = "Rule"
  <2>1. validate_action_config(row.action_config)
    BY <1>1 DEF is_valid
  <2> QED
    BY <1>1, <2>1, ActionsAreDocumented DEF Documented
<1>2. CASE model = "NotificationTemplate"
  <2>1. /\ validate_recipients(row.recipients)
        /\ row.retry_count >= 1 /\ row.retry_delay_minutes >= 1
    BY <1>2 DEF is_valid, MinValueValidator
  <2>2. /\ row.recipients = r.recipients /\ row.retry_count = r.retry_count
        /\ row.retry_delay_minutes = r.retry_delay_minutes
        /\ r \in TemplateRow
    BY <1>0, <1>2 DEF RowsOf, RowShape, Reads
  <2>3. row.retry_count > 0 /\ row.retry_delay_minutes > 0
    <3>1. row.retry_count \in Int /\ row.retry_delay_minutes \in Int
      BY <2>2 DEF RowShape
    <3>2. \A x \in Int : x >= 1 => x > 0
      OBVIOUS
    <3> QED
      BY <2>1, <3>1, <3>2
  <2>4. row.recipients.items \in Seq({row.recipients.items[k] : k \in DOMAIN row.recipients.items})
    BY <2>2 DEF RowShape
  <2> QED
    BY <1>2, <2>1, <2>3, <2>4, RecipientsAreDocumented DEF Documented
<1>3. CASE model = "DeviceType"
  BY <1>3 DEF Documented, is_valid, clean
<1> QED
  BY <1>1, <1>2, <1>3 DEF FormsInv

(* A row that a form was the last to store is as documented, for any rows *)
(* and any number of requests that work on them at once.                   *)
THEOREM FormsHold == FormsSpec => []FormsKeepDocuments
<1>1. FormsInit => FormsInv
  BY DEF FormsInit, FormsInv, Reads
<1>2. FormsInv /\ [FormsNext]_form_vars => FormsInv'
  BY FormsStep, DocumentsAssumption
<1>3. FormsInv => FormsKeepDocuments
  BY ValidIsDocumented, DocumentsAssumption DEF FormsInv, FormsKeepDocuments
<1> QED
  BY <1>1, <1>2, <1>3, PTL DEF FormsSpec
===============================================================================
